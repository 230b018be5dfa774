--------------------------- MODULE SandboxProofs ---------------------------
(***************************************************************************)
(* The proofs that CreateSandbox keeps the cap, makes a sandbox in order   *)
(* and leaves one that can be used, for any users, any number of calls at  *)
(* the same time and any number of failures among them.                    *)
(***************************************************************************)
EXTENDS Sandbox, FiniteSetTheorems, TLAPS

\* The parts of the type invariant
WorldOK ==
    /\ ns \in [Users -> {"none", "active", "terminating"}]
    /\ objs \in [Users -> SUBSET Objects]
    /\ pods \in [Users -> [PodNames -> Pods \cup {NoPod}]]

LocalsOK ==
    /\ pc \in [Calls -> CallStates]
    /\ op \in [Calls -> Ops]
    /\ user \in [Calls -> Users \cup {NoUser}]
    /\ spec \in [Calls -> Specs]
    /\ cur \in [Calls -> PodNames \cup {NoPod}]
    /\ currPods \subseteq Calls /\ unaware \subseteq Calls

CountersOK == made \in 0..MaxCalls /\ deletes \in 0..MaxUpsets /\ faults \in 0..MaxUpsets

HistoryOK ==
    /\ listed \subseteq Users /\ podsListed \subseteq Users
    /\ blind \subseteq Calls /\ excused \subseteq Users
    /\ reserved \subseteq Users /\ skipped \subseteq Users /\ outlived \subseteq Users

StorageOK ==
    /\ volume \in [Users -> {"none", "Available", "Bound", "Released", "Seeded"}]
    /\ bound \subseteq Users /\ stranded \subseteq Users

EmptyOK ==
    /\ \A u \in Users : ns[u] = "none" => objs[u] = {}
    /\ \A u \in Users : ns[u] = "none" => \A p \in PodNames : pods[u][p] = NoPod

\* Where the calls of an operation can be, and the pods they work on
Finding == {"get", "namespace"}
Claiming == {"claim", "volume", "release", "seed", "createClaim"}
Preparing == {"policy", "createPolicy", "bound", "account"} \cup Claiming
Deploying == {"deploy", "create"}

Shape(c) ==
    /\ pc[c] # "idle" => user[c] \in Users
    /\ op[c] = "CreateSandbox" =>
          \/ pc[c] \in {"idle", "check", "list", "done"} \cup Finding \cup Preparing
          \/ pc[c] \in Deploying /\ cur[c] \in {"reservation", "syncthing", "buildkitd", "dns"}
          \/ pc[c] = "await" /\ cur[c] \in {"reservation", "buildkitd", "dns"}
    /\ op[c] = "GetBuildkit" =>
          \/ pc[c] \in {"find"} \cup Finding \cup Preparing
          \/ pc[c] \in Deploying \cup {"await"} /\ cur[c] = "buildkitd"
    /\ op[c] = "DeployToSandbox" =>
          \/ pc[c] = "await" /\ cur[c] = "dns"
          \/ pc[c] \in Deploying \cup {"currPods"} /\ cur[c] = "customer"
          \/ pc[c] = "drop"
    /\ op[c] = "DeleteSandbox" => pc[c] \in {"find", "pods", "delete"} /\ deletes > 0

Shapes == \A c \in Calls : Shape(c)

\* A namespace terminates only after a DeleteSandbox.
DeletesInv == \A u \in Users : ns[u] = "terminating" => deletes > 0

TypeInv == WorldOK /\ LocalsOK /\ CountersOK /\ HistoryOK /\ StorageOK /\ EmptyOK
           /\ Shapes /\ DeletesInv

\* The type invariant and its parts
LEMMA TypeParts ==
  TypeOK <=> WorldOK /\ LocalsOK /\ CountersOK /\ HistoryOK /\ StorageOK /\ EmptyOK
BY DEF TypeOK, WorldOK, LocalsOK, CountersOK, HistoryOK, StorageOK, EmptyOK

\* There is a Compose file.
LEMMA SomeSpec == AnySpec \in Specs
BY SandboxAssumption DEF AnySpec

-----------------------------------------------------------------------------
(* How a call moves                                                         *)

\* The other calls stay where they are.
OthersStay(c) ==
    \A d \in Calls \ {c} :
        /\ pc'[d] = pc[d] /\ op'[d] = op[d] /\ user'[d] = user[d]
        /\ spec'[d] = spec[d] /\ cur'[d] = cur[d]

\* Goto and GotoPod
LEMMA GotoMoves ==
  ASSUME LocalsOK, NEW c \in Calls, NEW l \in CallStates, Goto(c, l)
  PROVE  /\ LocalsOK' /\ OthersStay(c)
         /\ pc'[c] = l /\ cur'[c] = cur[c] /\ op'[c] = op[c] /\ user'[c] = user[c]
         /\ spec'[c] = spec[c]
BY DEF LocalsOK, Goto, locals, OthersStay

\* Goto with a pod
LEMMA GotoPodMoves ==
  ASSUME LocalsOK, NEW c \in Calls, NEW l \in CallStates, NEW p \in PodNames, GotoPod(c, l, p)
  PROVE  /\ LocalsOK' /\ OthersStay(c)
         /\ pc'[c] = l /\ cur'[c] = p /\ op'[c] = op[c] /\ user'[c] = user[c]
         /\ spec'[c] = spec[c]
BY DEF LocalsOK, GotoPod, locals, OthersStay

\* Return
LEMMA ReturnMoves ==
  ASSUME LocalsOK, NEW c \in Calls, NEW outcome, Return(c, outcome)
  PROVE  /\ LocalsOK' /\ OthersStay(c)
         /\ op'[c] = "CreateSandbox"
         /\ \/ pc'[c] = "idle"
            \/ /\ outcome = "done" /\ op[c] = "CreateSandbox"
               /\ pc'[c] = "done" /\ user'[c] = user[c]
<1>1. CASE outcome = "done" /\ op[c] = "CreateSandbox"
  <2>1. /\ pc' = [pc EXCEPT ![c] = "done"] /\ UNCHANGED <<op, user, spec, currPods, unaware>>
        /\ cur' = [cur EXCEPT ![c] = NoPod]
    BY <1>1 DEF Return, locals
  <2>2. "done" \in CallStates
    BY DEF CallStates
  <2> QED
    BY <1>1, <2>1, <2>2 DEF LocalsOK, OthersStay
<1>2. CASE ~(outcome = "done" /\ op[c] = "CreateSandbox")
  <2>1. /\ pc' = [pc EXCEPT ![c] = "idle"]
        /\ op' = [op EXCEPT ![c] = "CreateSandbox"]
        /\ user' = [user EXCEPT ![c] = NoUser]
        /\ spec' = [spec EXCEPT ![c] = AnySpec]
        /\ cur' = [cur EXCEPT ![c] = NoPod]
        /\ currPods' = currPods \ {c} /\ unaware' = unaware \ {c}
    BY <1>2 DEF Return
  <2>2. "idle" \in CallStates /\ "CreateSandbox" \in Ops /\ AnySpec \in Specs
    BY SomeSpec DEF CallStates, Ops
  <2> QED
    BY <2>1, <2>2 DEF LocalsOK, OthersStay
<1> QED
  BY <1>1, <1>2

\* The steps of CreatePVC that make no object of the namespace
VolumeStep(c) == GetClaim(c) \/ GetVolume(c) \/ Release(c) \/ SeedVolume(c)

\* They end in the creation of a claim, or go on with the one that is there.
LEMMA VolumeMoves ==
  ASSUME NEW c, VolumeStep(c)
  PROVE  /\ UNCHANGED <<world, cache, counters, history>>
         /\ pc[c] \in Claiming
         /\ \/ Return(c, "failed")
            \/ \E l \in Claiming : Goto(c, l)
            \/ Goto(c, "account") /\ "claim" \in objs[user[c]]
<1>1. CASE GetClaim(c)
  BY <1>1 DEF GetClaim, Claiming
<1>2. CASE GetVolume(c)
  BY <1>2 DEF GetVolume, Claiming
<1>3. CASE Release(c)
  BY <1>3 DEF Release, Claiming
<1>4. CASE SeedVolume(c)
  BY <1>4 DEF SeedVolume, Claiming
<1> QED
  BY <1>1, <1>2, <1>3, <1>4 DEF VolumeStep

\* The list of deployCustomerPods
LEMMA ListCurrPodsMoves ==
  ASSUME LocalsOK, NEW c \in Calls, ListCurrPods(c)
  PROVE  /\ LocalsOK' /\ OthersStay(c)
         /\ pc[c] = "currPods" /\ pc'[c] = "deploy"
         /\ cur'[c] = cur[c] /\ op'[c] = op[c] /\ user'[c] = user[c]
         /\ UNCHANGED <<world, cache, counters, history>>
<1>1. "deploy" \in CallStates
  BY DEF CallStates
<1> QED
  BY <1>1 DEF LocalsOK, ListCurrPods, OthersStay

\* The volume controller's steps touch neither the calls nor the sandboxes.
VolumeControl(u) == BindClaim(u) \/ BindSeed(u) \/ GiveBack(u) \/ ReleaseVolume(u)

LEMMA VolumeControlMoves ==
  ASSUME NEW u, VolumeControl(u)
  PROVE  UNCHANGED <<world, cache, pc, op, user, spec, cur, counters, history>>
BY DEF VolumeControl, BindClaim, BindSeed, GiveBack, ReleaseVolume, locals

\* What follows the deployment of a pod
LEMMA AfterPodMoves ==
  ASSUME LocalsOK, NEW c \in Calls, Shape(c), pc[c] \in Deploying, AfterPod(c, cur[c])
  PROVE  /\ LocalsOK' /\ OthersStay(c)
         /\ op'[c] = op[c] /\ user'[c] = user[c]
         /\ \/ cur[c] = "reservation" /\ pc'[c] = "await" /\ cur'[c] = "reservation"
            \/ cur[c] = "syncthing" /\ pc'[c] = "deploy" /\ cur'[c] = "buildkitd"
            \/ cur[c] = "buildkitd" /\ op[c] = "CreateSandbox" /\ pc'[c] = "deploy" /\ cur'[c] = "dns"
            \/ cur[c] = "buildkitd" /\ op[c] = "GetBuildkit" /\ pc'[c] = "await" /\ cur'[c] = "buildkitd"
            \/ cur[c] = "dns" /\ pc'[c] = "await" /\ cur'[c] = "dns"
            \/ cur[c] = "customer" /\ pc'[c] = "drop"
<1>0. /\ {"await", "deploy", "drop"} \subseteq CallStates
      /\ {"reservation", "buildkitd", "dns"} \subseteq PodNames
  BY DEF CallStates, PodNames
<1>1. /\ op[c] \in Ops
      /\ cur[c] \in {"reservation", "syncthing", "buildkitd", "dns", "customer"}
      /\ cur[c] = "buildkitd" => op[c] \in {"CreateSandbox", "GetBuildkit"}
  BY DEF LocalsOK, Shape, Ops, Deploying, Finding, Preparing, Claiming
<1>2. CASE cur[c] = "reservation"
  <2>1. GotoPod(c, "await", "reservation")
    BY <1>2 DEF AfterPod
  <2> QED
    BY <1>0, <1>2, <2>1, GotoPodMoves
<1>3. CASE cur[c] = "syncthing"
  <2>1. GotoPod(c, "deploy", "buildkitd")
    BY <1>3 DEF AfterPod
  <2> QED
    BY <1>0, <1>3, <2>1, GotoPodMoves
<1>4. CASE cur[c] = "buildkitd" /\ op[c] = "CreateSandbox"
  <2>1. GotoPod(c, "deploy", "dns")
    BY <1>4 DEF AfterPod
  <2> QED
    BY <1>0, <1>4, <2>1, GotoPodMoves
<1>5. CASE cur[c] = "buildkitd" /\ op[c] = "GetBuildkit"
  <2>1. GotoPod(c, "await", "buildkitd")
    BY <1>5 DEF AfterPod
  <2> QED
    BY <1>0, <1>5, <2>1, GotoPodMoves
<1>6. CASE cur[c] = "dns"
  <2>1. GotoPod(c, "await", "dns")
    BY <1>6 DEF AfterPod
  <2> QED
    BY <1>0, <1>6, <2>1, GotoPodMoves
<1>7. CASE cur[c] = "customer"
  <2>1. Goto(c, "drop")
    BY <1>7 DEF AfterPod
  <2> QED
    BY <1>0, <1>7, <2>1, GotoMoves
<1> QED
  BY <1>1, <1>2, <1>3, <1>4, <1>5, <1>6, <1>7

\* A call that returns has a shape.
LEMMA ReturnShape ==
  ASSUME TypeInv, NEW c \in Calls, NEW outcome, Return(c, outcome), pc[c] # "idle"
  PROVE  LocalsOK' /\ OthersStay(c) /\ Shape(c)'
<1>1. LocalsOK /\ Shape(c)
  BY DEF TypeInv, Shapes
<1>2. user[c] \in Users
  BY <1>1 DEF Shape
<1> QED
  BY <1>1, <1>2, ReturnMoves DEF Shape

\* The steps of a call move that call only, along the way of its operation.
LEMMA CallMoves ==
  ASSUME TypeInv, NEW c \in Calls, CallStep(c) \/ SeedVolume(c) \/ TimesOut(c) \/ Abort(c)
  PROVE  LocalsOK' /\ OthersStay(c) /\ Shape(c)'
<1>0. LocalsOK /\ Shape(c) /\ pc[c] \in CallStates /\ op[c] \in Ops
  BY DEF TypeInv, Shapes, LocalsOK
<1>p. /\ {"get", "namespace", "policy", "createPolicy", "bound", "account", "list",
          "deploy", "create", "await", "currPods", "pods", "delete"} \subseteq CallStates
      /\ Claiming \subseteq CallStates
      /\ {"reservation", "syncthing", "buildkitd", "dns", "customer"} \subseteq PodNames
  BY DEF CallStates, Claiming, PodNames
<1>g. ASSUME NEW l \in CallStates, Goto(c, l), UNCHANGED deletes, pc[c] # "idle",
             \/ /\ l \in Finding \cup Preparing
                /\ op[c] \in {"CreateSandbox", "GetBuildkit"}
             \/ l = "list" /\ op[c] = "CreateSandbox"
             \/ l \in {"pods", "delete"} /\ op[c] = "DeleteSandbox"
             \/ l = "create" /\ pc[c] = "deploy"
      PROVE  LocalsOK' /\ OthersStay(c) /\ Shape(c)'
  BY <1>0, <1>g, GotoMoves DEF Shape, Finding, Preparing, Claiming, Deploying
<1>q. ASSUME NEW l \in CallStates, NEW p \in PodNames, GotoPod(c, l, p), UNCHANGED deletes,
             pc[c] # "idle",
             \/ l = "deploy" /\ op[c] = "CreateSandbox" /\ p \in {"reservation", "syncthing"}
             \/ l = "deploy" /\ op[c] = "GetBuildkit" /\ p = "buildkitd"
             \/ l = "await" /\ op[c] = "CreateSandbox" /\ p = "buildkitd"
             \/ l = "currPods" /\ op[c] = "DeployToSandbox" /\ p = "customer"
      PROVE  LocalsOK' /\ OthersStay(c) /\ Shape(c)'
  BY <1>0, <1>q, GotoPodMoves DEF Shape, Finding, Preparing, Claiming, Deploying
<1>a. ASSUME AfterPod(c, cur[c]), pc[c] \in Deploying, UNCHANGED deletes
      PROVE  LocalsOK' /\ OthersStay(c) /\ Shape(c)'
  BY <1>0, <1>a, AfterPodMoves DEF Shape, Finding, Preparing, Claiming, Deploying
<1>1. CASE CheckCap(c)
  <2>1. op[c] = "CreateSandbox" /\ pc[c] # "idle" /\ UNCHANGED deletes
    BY <1>0, <1>1 DEF CheckCap, counters, Shape, Finding, Preparing, Claiming, Deploying, Ops
  <2>2. Goto(c, "get") \/ Return(c, "failed")
    BY <1>1 DEF CheckCap
  <2> QED
    BY <1>g, <1>p, <2>1, <2>2, ReturnShape DEF Finding
<1>2. CASE Find(c)
  <2>1. op[c] \in {"GetBuildkit", "DeleteSandbox"} /\ pc[c] # "idle" /\ UNCHANGED deletes
    BY <1>0, <1>2 DEF Find, counters, Shape, Finding, Preparing, Claiming, Deploying, Ops
  <2>2. \/ op[c] = "GetBuildkit" /\ Goto(c, "get")
        \/ op[c] = "GetBuildkit" /\ GotoPod(c, "deploy", "buildkitd")
        \/ Return(c, "failed")
        \/ op[c] = "DeleteSandbox" /\ Goto(c, "pods")
    BY <1>2, <2>1 DEF Find
  <2> QED
    BY <1>g, <1>q, <1>p, <2>1, <2>2, ReturnShape DEF Finding
<1>3. CASE GetNamespace(c)
  <2>1. op[c] \in {"CreateSandbox", "GetBuildkit"} /\ user[c] \in Users
        /\ pc[c] # "idle" /\ UNCHANGED deletes
    BY <1>0, <1>3 DEF GetNamespace, counters, Shape, Finding, Preparing, Claiming, Deploying, Ops
  <2>2. ns[user[c]] \in {"none", "active", "terminating"}
    BY <2>1 DEF TypeInv, WorldOK
  <2>3. Goto(c, "namespace") \/ Goto(c, "policy") \/ Return(c, "failed")
    BY <1>3, <2>2 DEF GetNamespace
  <2> QED
    BY <1>g, <1>p, <2>1, <2>3, ReturnShape DEF Finding, Preparing
<1>4. CASE CreateNamespace(c)
  <2>1. op[c] \in {"CreateSandbox", "GetBuildkit"} /\ pc[c] # "idle" /\ UNCHANGED deletes
    BY <1>0, <1>4 DEF CreateNamespace, counters, Shape, Finding, Preparing, Claiming, Deploying, Ops
  <2>2. Goto(c, "policy") \/ Return(c, "failed")
    BY <1>4 DEF CreateNamespace
  <2> QED
    BY <1>g, <1>p, <2>1, <2>2, ReturnShape DEF Preparing
<1>v. /\ Preparing \subseteq CallStates
      /\ Claiming \cup {"claim", "createPolicy", "bound", "account"} \subseteq Preparing
  BY DEF Preparing, Claiming, CallStates
<1>13. CASE VolumeStep(c)
  <2>1. /\ op[c] \in {"CreateSandbox", "GetBuildkit"} /\ pc[c] # "idle" /\ UNCHANGED deletes
        /\ (\E l \in Preparing : Goto(c, l)) \/ Return(c, "failed")
    BY <1>0, <1>v, <1>13, VolumeMoves
       DEF counters, Shape, Finding, Preparing, Claiming, Deploying, Ops
  <2> QED
    BY <1>g, <1>v, <2>1, ReturnShape
<1>14. CASE ListCurrPods(c)
  <2>1. /\ LocalsOK' /\ OthersStay(c) /\ pc[c] = "currPods" /\ pc'[c] = "deploy"
        /\ cur'[c] = cur[c] /\ op'[c] = op[c] /\ user'[c] = user[c] /\ UNCHANGED deletes
    BY <1>0, <1>14, ListCurrPodsMoves DEF counters
  <2> QED
    BY <1>0, <2>1 DEF Shape, Finding, Preparing, Claiming, Deploying, Ops
<1>5. CASE GetPolicy(c) \/ CreatePolicy(c) \/ CreateClaim(c) \/ ClaimBound(c)
  <2>1. op[c] \in {"CreateSandbox", "GetBuildkit"} /\ pc[c] # "idle" /\ UNCHANGED deletes
    BY <1>0, <1>5 DEF GetPolicy, CreatePolicy, CreateClaim, ClaimBound, counters, Shape, Finding,
       Preparing, Claiming, Deploying, Ops
  <2>2. (\E l \in Preparing : Goto(c, l)) \/ Return(c, "failed")
    BY <1>5, <1>v DEF GetPolicy, CreatePolicy, CreateClaim, ClaimBound
  <2> QED
    BY <1>g, <1>v, <2>1, <2>2, ReturnShape
<1>6. CASE AccountThere(c)
  <2>1. op[c] \in {"CreateSandbox", "GetBuildkit"} /\ pc[c] # "idle" /\ UNCHANGED deletes
    BY <1>0, <1>6 DEF AccountThere, counters, Shape, Finding, Preparing, Claiming, Deploying, Ops
  <2>2. \/ op[c] = "GetBuildkit" /\ GotoPod(c, "deploy", "buildkitd")
        \/ op[c] = "CreateSandbox" /\ Goto(c, "list")
    BY <1>6, <2>1 DEF AccountThere
  <2> QED
    BY <1>g, <1>q, <1>p, <2>1, <2>2
<1>7. CASE ListPods(c)
  <2>1. op[c] = "CreateSandbox" /\ pc[c] # "idle" /\ UNCHANGED deletes
    BY <1>0, <1>7 DEF ListPods, counters, Shape, Finding, Preparing, Claiming, Deploying, Ops
  <2>2. GotoPod(c, "deploy", "syncthing") \/ GotoPod(c, "deploy", "reservation")
    BY <1>7 DEF ListPods
  <2> QED
    BY <1>q, <1>p, <2>1, <2>2
<1>8. CASE DeployPod(c)
  <2>1. /\ UNCHANGED deletes /\ pc[c] = "deploy"
        /\ AfterPod(c, cur[c]) \/ Goto(c, "create")
    BY <1>8 DEF DeployPod, counters
  <2> QED
    BY <1>a, <1>g, <1>p, <2>1 DEF Deploying
<1>9. CASE CreatePod(c)
  <2>1. /\ UNCHANGED deletes /\ pc[c] = "create"
        /\ AfterPod(c, cur[c]) \/ Return(c, "failed")
    BY <1>9 DEF CreatePod, counters
  <2> QED
    BY <1>a, <2>1, ReturnShape DEF Deploying
<1>10. CASE PodFound(c)
  <2>1. UNCHANGED deletes /\ pc[c] = "await"
    BY <1>10 DEF PodFound, counters
  <2>2. \/ op[c] = "CreateSandbox" /\ cur[c] \in {"reservation", "buildkitd", "dns"}
        \/ op[c] = "GetBuildkit" /\ cur[c] = "buildkitd"
        \/ op[c] = "DeployToSandbox" /\ cur[c] = "dns"
    BY <1>0, <2>1 DEF Shape, Finding, Preparing, Claiming, Deploying, Ops
  <2>3. \/ op[c] = "CreateSandbox" /\ GotoPod(c, "deploy", "syncthing")
        \/ op[c] = "CreateSandbox" /\ GotoPod(c, "await", "buildkitd")
        \/ op[c] = "DeployToSandbox" /\ GotoPod(c, "currPods", "customer")
        \/ Return(c, "done")
    BY <1>10, <2>2 DEF PodFound
  <2> QED
    BY <1>q, <1>p, <2>1, <2>3, ReturnShape
<1>11. CASE DropReservation(c) \/ DeleteNamespace(c) \/ TimesOut(c) \/ Abort(c)
  <2>1. /\ pc[c] # "idle"
        /\ Return(c, "done") \/ Return(c, "failed")
    BY <1>11, SMTT(30) DEF DropReservation, DeleteNamespace, TimesOut, Abort, Active
  <2> QED
    BY <2>1, ReturnShape
<1>12. CASE DeletePods(c)
  <2>1. op[c] = "DeleteSandbox" /\ pc[c] # "idle" /\ UNCHANGED deletes /\ Goto(c, "delete")
    BY <1>0, <1>12 DEF DeletePods, counters, Shape, Finding, Preparing, Claiming, Deploying, Ops
  <2> QED
    BY <1>g, <1>p, <2>1
<1> QED
  BY <1>1, <1>2, <1>3, <1>4, <1>5, <1>6, <1>7, <1>8, <1>9, <1>10, <1>11, <1>12, <1>13, <1>14
     DEF CallStep, VolumeStep

\* An RPC comes in.
LEMMA BeginMoves ==
  ASSUME TypeInv, NEW c \in Calls, NEW u \in Users, NEW o \in Ops, NEW s \in Specs,
         Begin(c, u, o, s)
  PROVE  LocalsOK' /\ OthersStay(c) /\ Shape(c)' /\ pc'[c] \in {"check", "await", "find"}
         /\ op'[c] = o /\ user'[c] = u /\ (pc'[c] = "check" <=> o = "CreateSandbox")
         /\ deletes' \in Nat /\ (deletes' = 0 => deletes = 0 /\ o # "DeleteSandbox")
<1>0. LocalsOK /\ deletes \in Nat
  BY SandboxAssumption DEF TypeInv, CountersOK
<1>1. /\ op' = [op EXCEPT ![c] = o]
      /\ user' = [user EXCEPT ![c] = u]
      /\ spec' = [spec EXCEPT ![c] = s]
      /\ deletes' = IF o = "DeleteSandbox" THEN deletes + 1 ELSE deletes
      /\ pc' = [pc EXCEPT ![c] = CASE o = "CreateSandbox" -> "check"
                                   [] o = "DeployToSandbox" -> "await"
                                   [] OTHER -> "find"]
      /\ cur' = [cur EXCEPT ![c] = IF o = "DeployToSandbox" THEN "dns" ELSE NoPod]
      /\ UNCHANGED <<currPods, unaware>>
  BY DEF Begin
<1>2. {"check", "await", "find"} \subseteq CallStates /\ "dns" \in PodNames
  BY DEF CallStates, PodNames
<1>3. /\ pc'[c] = CASE o = "CreateSandbox" -> "check"
                    [] o = "DeployToSandbox" -> "await"
                    [] OTHER -> "find"
      /\ cur'[c] = IF o = "DeployToSandbox" THEN "dns" ELSE NoPod
      /\ op'[c] = o /\ user'[c] = u
  BY <1>0, <1>1 DEF LocalsOK
<1>4. LocalsOK' /\ OthersStay(c)
  BY <1>0, <1>1, <1>2 DEF LocalsOK, OthersStay
<1>5. Shape(c)'
  BY <1>0, <1>1, <1>3 DEF Shape, Ops
<1> QED
  BY <1>0, <1>1, <1>3, <1>4, <1>5

-----------------------------------------------------------------------------
(* What the steps do to the sandboxes                                       *)

\* The dns and buildkitd pods have one spec, and scheduled customer pods count as
\* a reservation.
PodInv ==
    /\ \A u \in Users : \A p \in {"dns", "buildkitd"} :
          pods[u][p] # NoPod => pods[u][p].spec = Fixed
    /\ \A u \in Users : \A p \in CustomerPods :
          pods[u][p] # NoPod /\ pods[u][p].scheduled => u \in reserved

\* A pod that stays, scheduled and ready if it was
PodKept(u, p) ==
    pods[u][p] # NoPod => /\ pods'[u][p] # NoPod
                          /\ pods[u][p].scheduled => pods'[u][p].scheduled
                          /\ pods[u][p].ready => pods'[u][p].ready

\* As long as a namespace is there nothing in it goes, but for pods, and the dns
\* and buildkitd pods only with DeleteSandbox.
Grows ==
    /\ \A u \in Users : objs[u] \subseteq objs'[u]
    /\ reserved \subseteq reserved' /\ skipped \subseteq skipped' /\ outlived' = outlived
    /\ deletes' = 0 => deletes = 0
    /\ deletes' = 0 => \A u \in Users : \A p \in {"dns", "buildkitd"} : PodKept(u, p)

\* One pod changes.
LEMMA SetPod ==
  ASSUME WorldOK, NEW u \in Users, NEW p \in PodNames, NEW v \in Pods \cup {NoPod},
         pods' = [pods EXCEPT ![u][p] = v]
  PROVE  /\ pods' \in [Users -> [PodNames -> Pods \cup {NoPod}]]
         /\ pods'[u][p] = v
         /\ \A w \in Users : \A q \in PodNames : w # u \/ q # p => pods'[w][q] = pods[w][q]
BY DEF WorldOK

\* Pods that change for the better
LEMMA PodImproves ==
  ASSUME NEW pod \in Pods
  PROVE  /\ [pod EXCEPT !.scheduled = TRUE] \in Pods
         /\ [pod EXCEPT !.ready = TRUE] \in Pods
         /\ [pod EXCEPT !.scheduled = TRUE].spec = pod.spec
         /\ [pod EXCEPT !.ready = TRUE].spec = pod.spec
         /\ [pod EXCEPT !.scheduled = TRUE].scheduled
         /\ [pod EXCEPT !.ready = TRUE].scheduled = pod.scheduled
         /\ [pod EXCEPT !.scheduled = TRUE].ready = pod.ready
         /\ [pod EXCEPT !.ready = TRUE].ready
BY DEF Pods

\* Every pod is a record, and the names of pods are names.
LEMMA PodFacts ==
  ASSUME WorldOK
  PROVE  /\ \A u \in Users : \A p \in PodNames : pods[u][p] # NoPod => pods[u][p] \in Pods
         /\ {"dns", "buildkitd", "reservation", "syncthing", "customer"} = PodNames
         /\ CustomerPods \subseteq PodNames /\ Colocated \subseteq PodNames
         /\ CustomerPods = {"reservation", "customer"}
BY DEF WorldOK, PodNames, CustomerPods, Colocated

\* Steps that leave the pods alone keep what is said of them.
LEMMA SamePods ==
  ASSUME PodInv, UNCHANGED pods, reserved \subseteq reserved'
  PROVE  /\ PodInv'
         /\ \A u \in Users : \A p \in {"dns", "buildkitd"} : PodKept(u, p)
BY DEF PodInv, PodKept

\* Pods are deployed from the spec that is wanted of them.
LEMMA WantedSpec ==
  ASSUME LocalsOK, NEW c \in Calls, NEW p
  PROVE  /\ Wanted(c, p) \in Specs \cup {Fixed}
         /\ p \in {"dns", "buildkitd"} => Wanted(c, p) = Fixed
         /\ [spec |-> Wanted(c, p), scheduled |-> FALSE, ready |-> FALSE] \in Pods
BY DEF LocalsOK, Wanted, Pods

\* DeployPod deletes a pod that was made from another spec, which is never so of
\* the dns and buildkitd pods.
LEMMA DeployPodKeeps ==
  ASSUME TypeInv, PodInv, NEW c \in Calls, DeployPod(c)
  PROVE  /\ WorldOK' /\ EmptyOK' /\ DeletesInv' /\ PodInv' /\ Grows
         /\ \A u \in Users : \A p \in PodNames : pods'[u][p] # NoPod => pods'[u][p] = pods[u][p]
<1>0. WorldOK /\ LocalsOK /\ EmptyOK /\ DeletesInv /\ Shape(c)
  BY DEF TypeInv, Shapes
<1>1. user[c] \in Users /\ cur[c] \in PodNames /\ pc[c] = "deploy"
  BY <1>0, PodFacts DEF DeployPod, LocalsOK, Shape, Finding, Preparing, Claiming, Deploying, Ops
<1>2. /\ UNCHANGED <<ns, objs, reserved, skipped, outlived, deletes>>
      /\ \/ UNCHANGED pods
         \/ /\ pods' = [pods EXCEPT ![user[c]][cur[c]] = NoPod]
            /\ ~(pods[user[c]][cur[c]] # NoPod /\ pods[user[c]][cur[c]].spec = Wanted(c, cur[c]))
  BY DEF DeployPod, counters, history
<1>3. CASE UNCHANGED pods
  BY <1>0, <1>2, <1>3, SamePods DEF WorldOK, EmptyOK, DeletesInv, Grows
<1>4. CASE /\ pods' = [pods EXCEPT ![user[c]][cur[c]] = NoPod]
           /\ ~(pods[user[c]][cur[c]] # NoPod /\ pods[user[c]][cur[c]].spec = Wanted(c, cur[c]))
  <2>1. /\ pods' \in [Users -> [PodNames -> Pods \cup {NoPod}]]
        /\ pods'[user[c]][cur[c]] = NoPod
        /\ \A w \in Users : \A q \in PodNames :
              w # user[c] \/ q # cur[c] => pods'[w][q] = pods[w][q]
    BY <1>0, <1>1, <1>4 DEF WorldOK
  <2>2. \A u \in Users : \A p \in PodNames : pods'[u][p] # NoPod => pods'[u][p] = pods[u][p]
    BY <2>1
  <2>3. cur[c] \in {"dns", "buildkitd"} => pods[user[c]][cur[c]] = NoPod
    BY <1>0, <1>1, <1>4, WantedSpec DEF PodInv
  <2>4. \A u \in Users : \A p \in {"dns", "buildkitd"} : pods'[u][p] = pods[u][p]
    BY <1>0, <2>1, <2>3, PodFacts
  <2>5. Grows
    BY <1>2, <2>4 DEF Grows, PodKept
  <2>6. PodInv'
    BY <1>0, <1>2, <2>2, PodFacts DEF PodInv
  <2>7. EmptyOK'
    BY <1>0, <1>2, <2>2 DEF EmptyOK
  <2> QED
    BY <1>0, <1>2, <2>1, <2>2, <2>5, <2>6, <2>7 DEF WorldOK, DeletesInv
<1> QED
  BY <1>2, <1>3, <1>4

\* CreatePod makes a pod that was not there.
LEMMA CreatePodKeeps ==
  ASSUME TypeInv, PodInv, NEW c \in Calls, CreatePod(c)
  PROVE  /\ WorldOK' /\ EmptyOK' /\ DeletesInv' /\ PodInv' /\ Grows
         /\ \A u \in Users : \A p \in PodNames :
               pods'[u][p] # NoPod => pods'[u][p] = pods[u][p] \/ (u = user[c] /\ p = cur[c])
<1>0. WorldOK /\ LocalsOK /\ EmptyOK /\ DeletesInv /\ Shape(c)
  BY DEF TypeInv, Shapes
<1>1. user[c] \in Users /\ cur[c] \in PodNames /\ pc[c] = "create"
  BY <1>0, PodFacts DEF CreatePod, LocalsOK, Shape, Finding, Preparing, Claiming, Deploying, Ops
<1> DEFINE new == [spec |-> Wanted(c, cur[c]), scheduled |-> FALSE, ready |-> FALSE]
<1>2. /\ UNCHANGED <<ns, objs, reserved, skipped, outlived, deletes>>
      /\ \/ UNCHANGED pods
         \/ /\ pods' = [pods EXCEPT ![user[c]][cur[c]] = new]
            /\ ns[user[c]] = "active" /\ pods[user[c]][cur[c]] = NoPod
  BY DEF CreatePod, counters, history
<1>3. CASE UNCHANGED pods
  BY <1>0, <1>2, <1>3, SamePods DEF WorldOK, EmptyOK, DeletesInv, Grows
<1>4. CASE /\ pods' = [pods EXCEPT ![user[c]][cur[c]] = new]
           /\ ns[user[c]] = "active" /\ pods[user[c]][cur[c]] = NoPod
  <2>n. /\ new \in Pods /\ new.spec = Wanted(c, cur[c]) /\ ~new.scheduled
        /\ cur[c] \in {"dns", "buildkitd"} => Wanted(c, cur[c]) = Fixed
    BY <1>0, WantedSpec
  <2> HIDE DEF new
  <2>1. /\ pods' \in [Users -> [PodNames -> Pods \cup {NoPod}]]
        /\ pods'[user[c]][cur[c]] = new
        /\ \A w \in Users : \A q \in PodNames :
              w # user[c] \/ q # cur[c] => pods'[w][q] = pods[w][q]
    BY <1>0, <1>1, <1>4, <2>n DEF WorldOK
  <2>4. \A u \in Users : \A p \in {"dns", "buildkitd"} : pods[u][p] # NoPod => pods'[u][p] = pods[u][p]
    BY <1>0, <1>4, <2>1, PodFacts
  <2>5. Grows
    BY <1>2, <2>4 DEF Grows, PodKept
  <2>6. PodInv'
    BY <1>0, <1>2, <2>n, <2>1, PodFacts DEF PodInv
  <2>7. EmptyOK'
    BY <1>0, <1>2, <1>4, <2>1 DEF EmptyOK
  <2> QED
    BY <1>0, <1>2, <2>1, <2>5, <2>6, <2>7 DEF WorldOK, DeletesInv
<1> QED
  BY <1>2, <1>3, <1>4

\* The scheduler and the kubelet change one pod for the better.
LEMMA KubeletKeeps ==
  ASSUME TypeInv, PodInv, NEW u \in Users, NEW p \in PodNames, Schedule(u, p) \/ PodReady(u, p)
  PROVE  /\ WorldOK' /\ EmptyOK' /\ DeletesInv' /\ PodInv' /\ Grows
         /\ \A w \in Users : \A q \in PodNames : pods'[w][q] # NoPod => pods[w][q] # NoPod
<1>0. WorldOK /\ EmptyOK /\ DeletesInv
  BY DEF TypeInv
<1> DEFINE new == IF Schedule(u, p) THEN [pods[u][p] EXCEPT !.scheduled = TRUE]
                                    ELSE [pods[u][p] EXCEPT !.ready = TRUE]
<1>1. /\ UNCHANGED <<ns, objs, skipped, outlived, deletes>>
      /\ pods[u][p] # NoPod /\ pods' = [pods EXCEPT ![u][p] = new]
      /\ reserved \subseteq reserved'
      /\ p \in CustomerPods => u \in reserved'
  BY DEF Schedule, PodReady, counters, history, CustomerPods
<1>2. pods[u][p] \in Pods
  BY <1>0, <1>1, PodFacts
<1>3. /\ new \in Pods /\ new.spec = pods[u][p].spec
      /\ pods[u][p].scheduled => new.scheduled
      /\ pods[u][p].ready => new.ready
  BY <1>2, PodImproves
<1> HIDE DEF new
<1>4. /\ pods' \in [Users -> [PodNames -> Pods \cup {NoPod}]]
      /\ pods'[u][p] = new
      /\ \A w \in Users : \A q \in PodNames : w # u \/ q # p => pods'[w][q] = pods[w][q]
  BY <1>0, <1>1, <1>3, SetPod
<1>5. \A w \in Users : \A q \in PodNames : PodKept(w, q)
  BY <1>3, <1>4, NoPodAssumption DEF PodKept
<1>6. Grows
  BY <1>0, <1>1, <1>5, PodFacts DEF Grows
<1>7. PodInv'
  BY <1>0, <1>1, <1>3, <1>4, PodFacts DEF PodInv
<1>8. \A w \in Users : \A q \in PodNames : pods'[w][q] # NoPod => pods[w][q] # NoPod
  BY <1>1, <1>4
<1>9. EmptyOK'
  BY <1>0, <1>1, <1>8 DEF EmptyOK
<1> QED
  BY <1>0, <1>1, <1>4, <1>6, <1>7, <1>8, <1>9 DEF WorldOK, DeletesInv

\* Deleting pods: the reservation, or all of them in DeleteSandbox
LEMMA DeletionKeeps ==
  ASSUME TypeInv, PodInv, NEW c \in Calls, DropReservation(c) \/ DeletePods(c)
  PROVE  /\ WorldOK' /\ EmptyOK' /\ DeletesInv' /\ PodInv' /\ Grows
         /\ \A u \in Users : \A p \in PodNames : pods'[u][p] # NoPod => pods'[u][p] = pods[u][p]
<1>0. WorldOK /\ LocalsOK /\ EmptyOK /\ DeletesInv /\ Shape(c)
  BY DEF TypeInv, Shapes
<1>1. /\ user[c] \in Users
      /\ DeletePods(c) => deletes > 0
  BY <1>0 DEF DropReservation, DeletePods, LocalsOK, Shape, Finding, Preparing, Claiming, Deploying, Ops
<1>2. UNCHANGED <<ns, objs, reserved, skipped, outlived, deletes>>
  BY DEF DropReservation, DeletePods, counters, history
<1>3. /\ pods' \in [Users -> [PodNames -> Pods \cup {NoPod}]]
      /\ \A u \in Users : \A p \in PodNames : pods'[u][p] # NoPod => pods'[u][p] = pods[u][p]
  <2>1. CASE DropReservation(c)
    <3>1. CASE pods' = pods
      BY <1>0, <3>1 DEF WorldOK
    <3>2. CASE pods' = [pods EXCEPT ![user[c]]["reservation"] = NoPod]
      BY <1>0, <1>1, <3>2 DEF WorldOK
    <3> QED
      BY <2>1, <3>1, <3>2 DEF DropReservation
  <2>2. CASE DeletePods(c)
    <3>1. pods' = [pods EXCEPT ![user[c]] = NoPods]
      BY <2>2 DEF DeletePods
    <3>2. NoPods \in [PodNames -> Pods \cup {NoPod}] /\ \A p \in PodNames : NoPods[p] = NoPod
      BY DEF NoPods
    <3> QED
      BY <1>0, <1>1, <3>1, <3>2 DEF WorldOK
  <2> QED
    BY <2>1, <2>2
<1>4. deletes' = 0 => \A u \in Users : \A p \in {"dns", "buildkitd"} : PodKept(u, p)
  <2>1. CASE DropReservation(c)
    <3>1. pods' = [pods EXCEPT ![user[c]]["reservation"] = NoPod] \/ pods' = pods
      BY <2>1 DEF DropReservation
    <3>2. \A u \in Users : \A p \in {"dns", "buildkitd"} : pods'[u][p] = pods[u][p]
      BY <1>0, <1>1, <3>1, PodFacts DEF WorldOK
    <3> QED
      BY <3>2 DEF PodKept
  <2>2. CASE DeletePods(c)
    BY <1>1, <1>2, <2>2, SandboxAssumption DEF TypeInv, CountersOK
  <2> QED
    BY <2>1, <2>2
<1>5. PodInv'
  BY <1>0, <1>2, <1>3, PodFacts DEF PodInv
<1>6. EmptyOK'
  BY <1>0, <1>2, <1>3 DEF EmptyOK
<1> QED
  BY <1>0, <1>2, <1>3, <1>4, <1>5, <1>6 DEF WorldOK, DeletesInv, Grows

\* Namespaces and objects come; a namespace that DeleteSandbox deletes terminates.
LEMMA ObjectsKeep ==
  ASSUME TypeInv, PodInv,
         \/ \E c \in Calls : \/ CreateNamespace(c) \/ CreatePolicy(c) \/ CreateClaim(c)
                             \/ DeleteNamespace(c)
         \/ \E u \in Users : CreateAccount(u)
  PROVE  WorldOK' /\ EmptyOK' /\ DeletesInv' /\ PodInv' /\ Grows /\ UNCHANGED pods
<1>0. WorldOK /\ LocalsOK /\ EmptyOK /\ DeletesInv
  BY DEF TypeInv
<1>1. UNCHANGED <<pods, reserved, skipped, outlived, deletes>>
  BY DEF CreateNamespace, CreatePolicy, CreateClaim, DeleteNamespace, CreateAccount, counters, history
<1>2. \A u \in Users : \A p \in {"dns", "buildkitd"} : PodKept(u, p)
  BY <1>1, SamePods
<1>3. PodInv'
  BY <1>1, SamePods
<1>4. ASSUME NEW u \in Users, NEW o \in Objects, objs' = [objs EXCEPT ![u] = @ \cup {o}],
             ns[u] = "active", UNCHANGED ns
      PROVE  WorldOK' /\ EmptyOK' /\ DeletesInv' /\ Grows
  <2>1. \A w \in Users : objs[w] \subseteq objs'[w] /\ (w # u => objs'[w] = objs[w])
    BY <1>0, <1>4 DEF WorldOK
  <2>2. WorldOK'
    BY <1>0, <1>1, <1>4 DEF WorldOK
  <2> QED
    BY <1>0, <1>1, <1>2, <1>4, <2>1, <2>2 DEF EmptyOK, DeletesInv, Grows
<1>5. ASSUME NEW u \in Users, NEW n \in {"active", "terminating"}, ns' = [ns EXCEPT ![u] = n],
             n = "terminating" => deletes > 0, UNCHANGED objs
      PROVE  WorldOK' /\ EmptyOK' /\ DeletesInv' /\ Grows
  <2>1. WorldOK'
    BY <1>0, <1>1, <1>5 DEF WorldOK
  <2>2. EmptyOK' /\ DeletesInv'
    BY <1>0, <1>1, <1>5 DEF WorldOK, EmptyOK, DeletesInv
  <2>3. Grows
    BY <1>1, <1>2, <1>5 DEF Grows
  <2> QED
    BY <2>1, <2>2, <2>3
<1>6. ASSUME UNCHANGED <<ns, objs>>
      PROVE  WorldOK' /\ EmptyOK' /\ DeletesInv' /\ Grows
  BY <1>0, <1>1, <1>2, <1>6 DEF WorldOK, EmptyOK, DeletesInv, Grows
<1>7. \A c \in Calls : pc[c] # "idle" => user[c] \in Users
  BY DEF TypeInv, Shapes, Shape
<1>8. {"policy", "claim", "account"} \subseteq Objects
  BY DEF Objects
<1>9. ASSUME NEW c \in Calls, CreateNamespace(c)
      PROVE  WorldOK' /\ EmptyOK' /\ DeletesInv' /\ Grows
  <2>1. /\ user[c] \in Users /\ UNCHANGED objs
        /\ ns' = [ns EXCEPT ![user[c]] = "active"] \/ UNCHANGED ns
    BY <1>7, <1>9 DEF CreateNamespace
  <2> QED
    BY <1>5, <1>6, <2>1
<1>10. ASSUME NEW c \in Calls, CreatePolicy(c)
       PROVE  WorldOK' /\ EmptyOK' /\ DeletesInv' /\ Grows
  <2>1. /\ user[c] \in Users /\ UNCHANGED ns
        /\ \/ UNCHANGED objs
           \/ ns[user[c]] = "active" /\ objs' = [objs EXCEPT ![user[c]] = @ \cup {"policy"}]
    BY <1>7, <1>10 DEF CreatePolicy
  <2> QED
    BY <1>4, <1>6, <1>8, <2>1
<1>11. ASSUME NEW c \in Calls, CreateClaim(c)
       PROVE  WorldOK' /\ EmptyOK' /\ DeletesInv' /\ Grows
  <2>1. /\ user[c] \in Users /\ UNCHANGED ns
        /\ \/ UNCHANGED objs
           \/ ns[user[c]] = "active" /\ objs' = [objs EXCEPT ![user[c]] = @ \cup {"claim"}]
    BY <1>7, <1>11 DEF CreateClaim
  <2> QED
    BY <1>4, <1>6, <1>8, <2>1
<1>12. ASSUME NEW u \in Users, CreateAccount(u)
       PROVE  WorldOK' /\ EmptyOK' /\ DeletesInv' /\ Grows
  <2>1. /\ UNCHANGED ns /\ ns[u] = "active"
        /\ objs' = [objs EXCEPT ![u] = @ \cup {"account"}]
    BY <1>12 DEF CreateAccount
  <2> QED
    BY <1>4, <1>8, <2>1
<1>13. ASSUME NEW c \in Calls, DeleteNamespace(c)
       PROVE  WorldOK' /\ EmptyOK' /\ DeletesInv' /\ Grows
  <2>1. /\ user[c] \in Users /\ UNCHANGED objs
        /\ ns' = [ns EXCEPT ![user[c]] = "terminating"] \/ UNCHANGED ns
    BY <1>7, <1>13 DEF DeleteNamespace
  <2>2. deletes > 0
    BY <1>13 DEF DeleteNamespace, TypeInv, Shapes, Shape, LocalsOK, Ops, Finding, Preparing, Claiming, Deploying
  <2> QED
    BY <1>5, <1>6, <2>1, <2>2
<1> QED
  BY <1>1, <1>3, <1>9, <1>10, <1>11, <1>12, <1>13

\* The steps that change no object of Kubernetes
LEMMA IdleKeeps ==
  ASSUME TypeInv, PodInv, UNCHANGED world, reserved' = reserved, skipped \subseteq skipped',
         outlived' = outlived, deletes' = 0 => deletes = 0, deletes > 0 => deletes' > 0
  PROVE  WorldOK' /\ EmptyOK' /\ DeletesInv' /\ PodInv' /\ Grows /\ UNCHANGED pods
<1>1. UNCHANGED <<ns, objs, pods>>
  BY DEF world
<1> QED
  BY <1>1, SamePods DEF TypeInv, WorldOK, EmptyOK, DeletesInv, Grows

\* The steps of Kubernetes but for the end of a namespace
KubeStep ==
    \E u \in Users : \/ CacheNamespace(u) \/ CachePods(u) \/ CreateAccount(u)
                     \/ VolumeControl(u)
                     \/ \E p \in PodNames : Schedule(u, p) \/ PodReady(u, p)

BeginStep(c) == \E u \in Users, o \in Ops, s \in Specs : Begin(c, u, o, s)

\* Everything but the end of a namespace lets the sandboxes grow.
LEMMA WorldStep ==
  ASSUME TypeInv, PodInv,
         \/ \E c \in Calls : \/ CallStep(c) \/ SeedVolume(c) \/ TimesOut(c) \/ Abort(c)
                             \/ BeginStep(c)
         \/ KubeStep
  PROVE  WorldOK' /\ EmptyOK' /\ DeletesInv' /\ PodInv' /\ Grows
<1>0. deletes \in Nat
  BY SandboxAssumption DEF TypeInv, CountersOK
<1>1. ASSUME NEW c \in Calls,
             \/ CheckCap(c) \/ Find(c) \/ GetNamespace(c) \/ GetPolicy(c) \/ ClaimBound(c)
             \/ AccountThere(c) \/ ListPods(c) \/ PodFound(c) \/ TimesOut(c) \/ Abort(c)
      PROVE  /\ UNCHANGED <<world, reserved, outlived, deletes>>
             /\ skipped \subseteq skipped'
  BY <1>1 DEF CheckCap, Find, GetNamespace, GetPolicy, ClaimBound, AccountThere, ListPods,
     PodFound, TimesOut, Abort, counters, history
<1>2. ASSUME NEW c \in Calls, BeginStep(c)
      PROVE  /\ UNCHANGED <<world, reserved, skipped, outlived>>
             /\ deletes' = 0 => deletes = 0
             /\ deletes > 0 => deletes' > 0
  BY <1>0, <1>2 DEF BeginStep, Begin, history
<1>3. ASSUME NEW u \in Users, CacheNamespace(u) \/ CachePods(u)
      PROVE  UNCHANGED <<world, reserved, skipped, outlived, deletes>>
  BY <1>3 DEF CacheNamespace, CachePods, counters, history
<1>12. CASE \/ \E c \in Calls : VolumeStep(c) \/ ListCurrPods(c)
            \/ \E u \in Users : VolumeControl(u)
  <2>1. UNCHANGED <<world, reserved, skipped, outlived, deletes>>
    BY <1>12, VolumeMoves, ListCurrPodsMoves, VolumeControlMoves DEF TypeInv, counters, history
  <2> QED
    BY <2>1, IdleKeeps
<1>4. CASE \E c \in Calls :
             \/ CheckCap(c) \/ Find(c) \/ GetNamespace(c) \/ GetPolicy(c) \/ ClaimBound(c)
             \/ AccountThere(c) \/ ListPods(c) \/ PodFound(c) \/ TimesOut(c) \/ Abort(c)
  BY <1>1, <1>4, IdleKeeps
<1>5. CASE \E c \in Calls : BeginStep(c)
  BY <1>2, <1>5, IdleKeeps
<1>6. CASE \E u \in Users : CacheNamespace(u) \/ CachePods(u)
  BY <1>3, <1>6, IdleKeeps
<1>7. CASE \/ \E c \in Calls : \/ CreateNamespace(c) \/ CreatePolicy(c) \/ CreateClaim(c)
                               \/ DeleteNamespace(c)
           \/ \E u \in Users : CreateAccount(u)
  BY <1>7, ObjectsKeep
<1>8. CASE \E c \in Calls : DeployPod(c)
  BY <1>8, DeployPodKeeps
<1>9. CASE \E c \in Calls : CreatePod(c)
  BY <1>9, CreatePodKeeps
<1>10. CASE \E c \in Calls : DropReservation(c) \/ DeletePods(c)
  BY <1>10, DeletionKeeps
<1>11. CASE \E u \in Users : \E p \in PodNames : Schedule(u, p) \/ PodReady(u, p)
  BY <1>11, KubeletKeeps
<1> QED
  BY <1>4, <1>5, <1>6, <1>7, <1>8, <1>9, <1>10, <1>11, <1>12 DEF CallStep, VolumeStep, KubeStep

\* A namespace goes, and everything in it.
LEMMA GoneKeeps ==
  ASSUME TypeInv, PodInv, NEW u \in Users, NamespaceGone(u)
  PROVE  /\ WorldOK' /\ EmptyOK' /\ DeletesInv' /\ PodInv'
         /\ UNCHANGED <<pc, op, user, spec, cur, deletes>> /\ deletes > 0
         /\ objs'[u] = {} /\ \A p \in PodNames : pods'[u][p] = NoPod
         /\ \A w \in Users \ {u} : ns'[w] = ns[w] /\ objs'[w] = objs[w] /\ pods'[w] = pods[w]
<1>0. WorldOK /\ EmptyOK /\ DeletesInv
  BY DEF TypeInv
<1>1. /\ ns' = [ns EXCEPT ![u] = "none"] /\ objs' = [objs EXCEPT ![u] = {}]
      /\ pods' = [pods EXCEPT ![u] = NoPods]
      /\ reserved' = reserved \ {u} /\ ns[u] = "terminating"
      /\ UNCHANGED <<pc, op, user, spec, cur, deletes>>
  BY DEF NamespaceGone, locals, counters
<1>2. NoPods \in [PodNames -> Pods \cup {NoPod}] /\ \A p \in PodNames : NoPods[p] = NoPod
  BY DEF NoPods
<1>3. WorldOK'
  BY <1>0, <1>1, <1>2 DEF WorldOK
<1>4. /\ objs'[u] = {} /\ \A p \in PodNames : pods'[u][p] = NoPod
      /\ \A w \in Users \ {u} : ns'[w] = ns[w] /\ objs'[w] = objs[w] /\ pods'[w] = pods[w]
  BY <1>0, <1>1, <1>2 DEF WorldOK
<1>5. PodInv'
  BY <1>0, <1>1, <1>4, PodFacts DEF PodInv
<1>6. EmptyOK' /\ DeletesInv' /\ deletes > 0
  BY <1>0, <1>1, <1>4 DEF EmptyOK, DeletesInv
<1> QED
  BY <1>1, <1>3, <1>4, <1>5, <1>6

\* The counters keep their bounds, and the caches and the history their types.
LEMMA CountersStep ==
  ASSUME TypeInv, Next
  PROVE  CountersOK' /\ HistoryOK'
<1>0. /\ made \in 0 .. MaxCalls /\ deletes \in 0 .. MaxUpsets /\ faults \in 0 .. MaxUpsets
      /\ listed \subseteq Users /\ podsListed \subseteq Users
      /\ blind \subseteq Calls /\ excused \subseteq Users
      /\ reserved \subseteq Users /\ skipped \subseteq Users /\ outlived \subseteq Users
      /\ MaxCalls \in Nat /\ MaxUpsets \in Nat
  BY SandboxAssumption DEF TypeInv, CountersOK, HistoryOK
<1>1. CountersOK'
  <2>1. ASSUME NEW c \in Calls, BeginStep(c) PROVE CountersOK'
    BY <1>0, <2>1 DEF BeginStep, Begin, CountersOK
  <2>2. ASSUME NEW c \in Calls, Abort(c) PROVE CountersOK'
    BY <1>0, <2>2 DEF Abort, CountersOK
  <2>3. ASSUME UNCHANGED counters PROVE CountersOK'
    BY <1>0, <2>3 DEF counters, CountersOK
  <2>6. ASSUME NEW c \in Calls, VolumeStep(c) \/ ListCurrPods(c) PROVE UNCHANGED counters
    BY <2>6, VolumeMoves, ListCurrPodsMoves DEF TypeInv
  <2>4. ASSUME NEW c \in Calls, CallStep(c) \/ SeedVolume(c) \/ TimesOut(c) PROVE UNCHANGED counters
    BY <2>4, <2>6 DEF CallStep, VolumeStep, TimesOut, CheckCap, Find, GetNamespace, CreateNamespace, GetPolicy,
       CreatePolicy, CreateClaim, ClaimBound, AccountThere, ListPods, DeployPod, CreatePod,
       PodFound, DropReservation, DeletePods, DeleteNamespace
  <2>5. ASSUME NEW u \in Users,
               \/ CacheNamespace(u) \/ CachePods(u) \/ CreateAccount(u) \/ NamespaceGone(u)
               \/ VolumeControl(u) \/ \E p \in PodNames : Schedule(u, p) \/ PodReady(u, p)
        PROVE  UNCHANGED counters
    BY <2>5, VolumeControlMoves DEF CacheNamespace, CachePods, CreateAccount, NamespaceGone, Schedule, PodReady
  <2> QED
    BY <2>1, <2>2, <2>3, <2>4, <2>5 DEF Next, BeginStep, VolumeControl
<1>2. HistoryOK'
  <2> USE DEF HistoryOK
  <2>1. ASSUME NEW c \in Calls,
               \/ Find(c) \/ GetPolicy(c) \/ CreatePolicy(c) \/ CreateClaim(c) \/ ClaimBound(c)
               \/ AccountThere(c) \/ DeployPod(c) \/ CreatePod(c) \/ PodFound(c)
               \/ DropReservation(c) \/ DeletePods(c) \/ DeleteNamespace(c) \/ TimesOut(c)
               \/ BeginStep(c)
        PROVE  HistoryOK'
    <3>1. UNCHANGED <<cache, blind, excused, reserved, skipped, outlived>>
      BY <2>1 DEF Find, GetPolicy, CreatePolicy, CreateClaim, ClaimBound, AccountThere, DeployPod,
         CreatePod, PodFound, DropReservation, DeletePods, DeleteNamespace, TimesOut, BeginStep, Begin,
         history
    <3> QED
      BY <1>0, <3>1 DEF cache
  <2>9. CASE \/ \E c \in Calls : VolumeStep(c) \/ ListCurrPods(c)
             \/ \E u \in Users : VolumeControl(u)
    <3>1. UNCHANGED <<cache, history>>
      BY <2>9, VolumeMoves, ListCurrPodsMoves, VolumeControlMoves DEF TypeInv
    <3> QED
      BY <1>0, <3>1 DEF cache, history
  <2>2. ASSUME NEW c \in Calls, CheckCap(c) \/ GetNamespace(c) \/ Abort(c)
        PROVE  HistoryOK'
    BY <1>0, <2>2 DEF CheckCap, GetNamespace, Abort, cache
  <2>u. ASSUME NEW c \in Calls, pc[c] # "idle" PROVE user[c] \in Users
    BY <2>u DEF TypeInv, Shapes, Shape
  <2>3. ASSUME NEW c \in Calls, CreateNamespace(c) PROVE HistoryOK'
    BY <1>0, <2>3, <2>u DEF CreateNamespace, cache
  <2>4. ASSUME NEW c \in Calls, ListPods(c) PROVE HistoryOK'
    BY <1>0, <2>4, <2>u DEF ListPods, cache
  <2>5. ASSUME NEW u \in Users, CacheNamespace(u) \/ CachePods(u)
        PROVE  HistoryOK'
    BY <1>0, <2>5 DEF CacheNamespace, CachePods, history
  <2>6. ASSUME NEW u \in Users, CreateAccount(u) \/ \E p \in PodNames : PodReady(u, p)
        PROVE  HistoryOK'
    BY <1>0, <2>6 DEF CreateAccount, PodReady, cache, history
  <2>7. ASSUME NEW u \in Users, NamespaceGone(u) PROVE HistoryOK'
    BY <1>0, <2>7 DEF NamespaceGone, cache
  <2>8. ASSUME NEW u \in Users, NEW p \in PodNames, Schedule(u, p) PROVE HistoryOK'
    BY <1>0, <2>8 DEF Schedule, cache
  <2> QED
    BY <2>1, <2>2, <2>3, <2>4, <2>5, <2>6, <2>7, <2>8, <2>9
       DEF Next, CallStep, VolumeStep, VolumeControl, BeginStep
<1> QED
  BY <1>1, <1>2

\* The volumes keep their types.
LEMMA StorageStep ==
  ASSUME TypeInv, Next
  PROVE  StorageOK'
<1>0. /\ volume \in [Users -> {"none", "Available", "Bound", "Released", "Seeded"}]
      /\ bound \subseteq Users /\ stranded \subseteq Users
      /\ \A c \in Calls : pc[c] # "idle" => user[c] \in Users
  BY DEF TypeInv, StorageOK, Shapes, Shape
<1>1. ASSUME NEW c \in Calls,
             \/ CheckCap(c) \/ Find(c) \/ GetNamespace(c) \/ CreateNamespace(c) \/ GetPolicy(c)
             \/ CreatePolicy(c) \/ GetClaim(c) \/ GetVolume(c) \/ ClaimBound(c) \/ AccountThere(c)
             \/ ListPods(c) \/ DeployPod(c) \/ CreatePod(c) \/ PodFound(c) \/ ListCurrPods(c)
             \/ DropReservation(c) \/ DeletePods(c) \/ DeleteNamespace(c) \/ TimesOut(c)
             \/ Abort(c) \/ BeginStep(c)
      PROVE  StorageOK'
  <2>1. UNCHANGED <<volume, bound, stranded>>
    BY <1>1 DEF CheckCap, Find, GetNamespace, CreateNamespace, GetPolicy, CreatePolicy, GetClaim,
       GetVolume, ClaimBound, AccountThere, ListPods, DeployPod, CreatePod, PodFound, ListCurrPods,
       DropReservation, DeletePods, DeleteNamespace, TimesOut, Abort, BeginStep, Begin, storage, history
  <2> QED
    BY <1>0, <2>1 DEF StorageOK
<1>2. ASSUME NEW c \in Calls, Release(c) \/ SeedVolume(c) PROVE StorageOK'
  <2>1. /\ user[c] \in Users /\ UNCHANGED <<bound, stranded>>
        /\ volume' = volume \/ volume' = [volume EXCEPT ![user[c]] = "Available"]
    BY <1>0, <1>2 DEF Release, SeedVolume, history
  <2> QED
    BY <1>0, <2>1 DEF StorageOK
<1>3. ASSUME NEW c \in Calls, CreateClaim(c) PROVE StorageOK'
  <2>1. /\ user[c] \in Users /\ UNCHANGED <<volume, bound>>
        /\ stranded' \subseteq stranded \cup {user[c]}
    BY <1>0, <1>3 DEF CreateClaim, storage
  <2> QED
    BY <1>0, <2>1 DEF StorageOK
<1>4. ASSUME NEW u \in Users, VolumeControl(u) PROVE StorageOK'
  BY <1>0, <1>4 DEF VolumeControl, BindClaim, BindSeed, GiveBack, ReleaseVolume, history, StorageOK
<1>5. ASSUME NEW u \in Users,
             \/ CacheNamespace(u) \/ CachePods(u) \/ CreateAccount(u)
             \/ \E p \in PodNames : Schedule(u, p) \/ PodReady(u, p)
      PROVE  StorageOK'
  <2>1. UNCHANGED <<volume, bound, stranded>>
    BY <1>5 DEF CacheNamespace, CachePods, CreateAccount, Schedule, PodReady, storage, history
  <2> QED
    BY <1>0, <2>1 DEF StorageOK
<1>6. ASSUME NEW u \in Users, NamespaceGone(u) PROVE StorageOK'
  BY <1>0, <1>6 DEF NamespaceGone, StorageOK
<1> QED
  BY <1>1, <1>2, <1>3, <1>4, <1>5, <1>6 DEF Next, CallStep, BeginStep, VolumeControl

\* Every step keeps the types and the shapes of the calls.
LEMMA TypeStep ==
  ASSUME TypeInv, PodInv, Next
  PROVE  TypeInv' /\ PodInv'
<1>0. LocalsOK /\ Shapes /\ deletes \in Nat
  BY SandboxAssumption DEF TypeInv, CountersOK
<1>1. ASSUME NEW c \in Calls, CallStep(c) \/ SeedVolume(c) \/ TimesOut(c) \/ Abort(c) \/ BeginStep(c)
      PROVE  LocalsOK' /\ Shapes' /\ Grows
  <2>1. Grows
    BY <1>1, WorldStep
  <2>2. LocalsOK' /\ OthersStay(c) /\ Shape(c)'
    BY <1>1, CallMoves, BeginMoves DEF BeginStep
  <2>3. deletes' \in Nat /\ (deletes > 0 => deletes' > 0)
    BY <1>0, <2>1, CountersStep, <1>1, SandboxAssumption DEF Grows, Next, BeginStep, CountersOK
  <2>4. ASSUME NEW d \in Calls \ {c} PROVE Shape(d)'
    BY <1>0, <2>2, <2>3 DEF Shapes, Shape, OthersStay
  <2> QED
    BY <2>1, <2>2, <2>4 DEF Shapes
<1>2. ASSUME UNCHANGED <<pc, op, user, spec, cur, deletes>>,
             currPods' = currPods, unaware' \subseteq Calls
      PROVE  LocalsOK' /\ Shapes'
  BY <1>0, <1>2 DEF LocalsOK, Shapes, Shape
<1>3. KubeStep => /\ UNCHANGED <<pc, op, user, spec, cur, deletes>>
                  /\ currPods' = currPods /\ unaware' \subseteq Calls
  BY <1>0 DEF KubeStep, CacheNamespace, CachePods, CreateAccount, Schedule, PodReady, VolumeControl,
     BindClaim, BindSeed, GiveBack, ReleaseVolume, LocalsOK, locals, counters
<1>7. ASSUME NEW u \in Users, NamespaceGone(u)
      PROVE  currPods' = currPods /\ unaware' \subseteq Calls
  BY <1>0, <1>7 DEF NamespaceGone, LocalsOK, locals
<1>4. CASE \E c \in Calls : CallStep(c) \/ SeedVolume(c) \/ TimesOut(c) \/ Abort(c) \/ BeginStep(c)
  BY <1>1, <1>4, WorldStep, CountersStep, StorageStep DEF TypeInv
<1>5. CASE KubeStep
  BY <1>2, <1>3, <1>5, WorldStep, CountersStep, StorageStep DEF TypeInv
<1>6. CASE \E u \in Users : NamespaceGone(u)
  BY <1>2, <1>6, <1>7, GoneKeeps, CountersStep, StorageStep DEF TypeInv
<1> QED
  BY <1>4, <1>5, <1>6 DEF Next, KubeStep, VolumeControl, BeginStep

-----------------------------------------------------------------------------
(* The order in which a sandbox is made                                     *)

\* What a call has found or made in the namespace it works in, unless it has
\* outlived that namespace
Found(c) ==
    user[c] \notin outlived =>
        /\ op[c] = "CreateSandbox" /\ pc[c] \in Claiming \cup {"bound", "account", "list", "await"} \cup Deploying
              => "policy" \in objs[user[c]]
        /\ op[c] = "CreateSandbox" /\ pc[c] \in {"bound", "account", "list", "await"} \cup Deploying
              => "claim" \in objs[user[c]]
        /\ op[c] = "CreateSandbox" /\ pc[c] \in {"list", "await"} \cup Deploying
              => "account" \in objs[user[c]]
        /\ op[c] = "DeployToSandbox" /\ pc[c] \in Deploying \cup {"currPods"}
              => Objects \subseteq objs[user[c]]
        /\ op[c] = "CreateSandbox" /\ pc[c] \in {"await"} \cup Deploying
              => cur[c] = "reservation" \/ user[c] \in reserved \cup skipped

OrderInv == MadeInOrder /\ \A c \in Calls : Found(c)

\* A call that does not move keeps what it has found as the sandbox grows.
LEMMA FoundStays ==
  ASSUME TypeInv, NEW d \in Calls, Found(d), Grows, pc'[d] = pc[d], op'[d] = op[d],
         user'[d] = user[d], cur'[d] = cur[d]
  PROVE  Found(d)'
<1>1. user[d] \in Users \/ pc[d] = "idle"
  BY DEF TypeInv, Shapes, Shape
<1>2. CASE pc[d] = "idle"
  BY <1>2 DEF Found, Claiming, Deploying
<1>3. CASE user[d] \in Users
  <2>1. objs[user[d]] \subseteq objs'[user[d]] /\ outlived' = outlived
        /\ reserved \subseteq reserved' /\ skipped \subseteq skipped'
    BY <1>3 DEF Grows
  <2> QED
    BY <2>1 DEF Found
<1> QED
  BY <1>1, <1>2, <1>3

\* The order is kept as long as no pod comes.
LEMMA OrderStays ==
  ASSUME TypeInv, MadeInOrder, Grows,
         \A u \in Users : \A p \in PodNames : pods'[u][p] # NoPod => pods[u][p] # NoPod
  PROVE  MadeInOrder'
<1>1. Colocated \subseteq PodNames /\ {"dns", "syncthing"} \subseteq PodNames
  BY PodFacts DEF TypeInv
<1>2. IsolatedBeforePods'
  BY <1>1 DEF MadeInOrder, IsolatedBeforePods, Grows
<1>3. ReservationFirstUnlessSkipped'
  BY <1>1 DEF MadeInOrder, ReservationFirstUnlessSkipped, Grows
<1> QED
  BY <1>2, <1>3 DEF MadeInOrder

\* The steps of a call: it finds or makes one thing after the other.
LEMMA CallFinds ==
  ASSUME TypeInv, PodInv, OrderInv, NEW c \in Calls, CallStep(c) \/ SeedVolume(c) \/ TimesOut(c) \/ Abort(c)
  PROVE  Found(c)'
<1>0. /\ LocalsOK /\ WorldOK /\ Shape(c) /\ Found(c) /\ op[c] \in Ops
      /\ pc[c] # "idle" => user[c] \in Users
  BY DEF TypeInv, Shapes, Shape, OrderInv, LocalsOK
<1>w. Grows /\ LocalsOK'
  BY WorldStep, CallMoves
<1>p. /\ {"get", "namespace", "policy", "createPolicy", "bound", "account", "list",
          "deploy", "create", "await", "currPods", "pods", "delete"} \subseteq CallStates
      /\ Claiming \subseteq CallStates
      /\ {"reservation", "syncthing", "buildkitd", "dns", "customer"} \subseteq PodNames
  BY DEF CallStates, Claiming, PodNames
<1>r. ASSUME NEW outcome, Return(c, outcome) PROVE Found(c)'
  <2>1. pc'[c] \in {"idle", "done"}
    BY <1>0, <1>r, ReturnMoves
  <2> QED
    BY <2>1 DEF Found, Claiming, Deploying
<1>f. ASSUME user[c] \in Users
      PROVE  /\ objs[user[c]] \subseteq objs'[user[c]] /\ outlived' = outlived
             /\ reserved \subseteq reserved' /\ skipped \subseteq skipped'
  BY <1>f, <1>w DEF Grows
<1>1. CASE CheckCap(c) \/ Find(c) \/ GetNamespace(c) \/ CreateNamespace(c) \/ DeletePods(c)
           \/ DropReservation(c) \/ DeleteNamespace(c) \/ TimesOut(c) \/ Abort(c)
  <2>1. \/ Return(c, "failed") \/ Return(c, "done")
        \/ Goto(c, "get") \/ Goto(c, "pods") \/ Goto(c, "namespace") \/ Goto(c, "policy")
        \/ Goto(c, "delete")
        \/ op[c] = "GetBuildkit" /\ GotoPod(c, "deploy", "buildkitd")
    <3>1. GetNamespace(c) => ns[user[c]] \in {"none", "active", "terminating"}
      BY <1>0 DEF GetNamespace, WorldOK
    <3> QED
      BY <1>1, <3>1 DEF CheckCap, Find, GetNamespace, CreateNamespace, DeletePods, DropReservation,
         DeleteNamespace, TimesOut, Abort
  <2>2. CASE \/ Goto(c, "get") \/ Goto(c, "pods") \/ Goto(c, "namespace") \/ Goto(c, "policy")
             \/ Goto(c, "delete")
    <3>1. pc'[c] \in {"get", "pods", "namespace", "policy", "delete"}
      BY <1>0, <1>p, <2>2, GotoMoves
    <3> QED
      BY <3>1 DEF Found, Claiming, Deploying
  <2>3. CASE op[c] = "GetBuildkit" /\ GotoPod(c, "deploy", "buildkitd")
    <3>1. op'[c] = "GetBuildkit"
      BY <1>0, <1>p, <2>3, GotoPodMoves
    <3> QED
      BY <3>1 DEF Found
  <2> QED
    BY <1>r, <2>1, <2>2, <2>3
<1>2. CASE GetPolicy(c)
  <2>1. \/ Goto(c, "claim") /\ "policy" \in objs[user[c]]
        \/ Goto(c, "createPolicy")
    BY <1>2 DEF GetPolicy
  <2>2. /\ (pc'[c] = "claim" /\ "policy" \in objs[user[c]]) \/ pc'[c] = "createPolicy"
        /\ op'[c] = op[c] /\ user'[c] = user[c] /\ pc[c] # "idle"
    BY <1>0, <1>p, <1>2, <2>1, GotoMoves DEF GetPolicy, Claiming
  <2> QED
    BY <1>0, <1>f, <2>2 DEF Found, Claiming, Deploying
<1>3. CASE CreatePolicy(c)
  <2>1. \/ Goto(c, "claim") /\ objs' = [objs EXCEPT ![user[c]] = @ \cup {"policy"}]
        \/ Return(c, "failed")
    BY <1>3 DEF CreatePolicy
  <2>2. CASE Goto(c, "claim") /\ objs' = [objs EXCEPT ![user[c]] = @ \cup {"policy"}]
    <3>1. pc'[c] = "claim" /\ op'[c] = op[c] /\ user'[c] = user[c] /\ pc[c] # "idle"
      BY <1>0, <1>p, <1>3, <2>2, GotoMoves DEF CreatePolicy, Claiming
    <3>2. "policy" \in objs'[user[c]]
      BY <1>0, <2>2, <3>1 DEF WorldOK
    <3> QED
      BY <3>1, <3>2 DEF Found, Claiming, Deploying
  <2> QED
    BY <1>r, <2>1, <2>2
<1>4. CASE CreateClaim(c)
  <2>1. \/ Goto(c, "bound") /\ objs' = [objs EXCEPT ![user[c]] = @ \cup {"claim"}]
        \/ Return(c, "failed")
    BY <1>4 DEF CreateClaim
  <2>2. CASE Goto(c, "bound") /\ objs' = [objs EXCEPT ![user[c]] = @ \cup {"claim"}]
    <3>1. /\ pc'[c] = "bound" /\ op'[c] = op[c] /\ user'[c] = user[c]
          /\ pc[c] = "createClaim"
      BY <1>0, <1>p, <1>4, <2>2, GotoMoves DEF CreateClaim
    <3>2. user[c] \in Users
      BY <1>0, <3>1
    <3>3. "claim" \in objs'[user[c]]
      BY <1>0, <1>f, <2>2, <3>2 DEF WorldOK
    <3> QED
      BY <1>0, <1>f, <3>1, <3>2, <3>3 DEF Found, Claiming, Deploying
  <2> QED
    BY <1>r, <2>1, <2>2
<1>10. CASE VolumeStep(c)
  <2>1. /\ pc[c] \in Claiming
        /\ \/ Return(c, "failed")
           \/ \E l \in Claiming : Goto(c, l)
           \/ Goto(c, "account") /\ "claim" \in objs[user[c]]
    BY <1>10, VolumeMoves
  <2>2. user[c] \in Users
    BY <1>0, <2>1 DEF Claiming
  <2>3. CASE \/ \E l \in Claiming : Goto(c, l)
             \/ Goto(c, "account") /\ "claim" \in objs[user[c]]
    <3>1. /\ op'[c] = op[c] /\ user'[c] = user[c]
          /\ pc'[c] \in Claiming \/ (pc'[c] = "account" /\ "claim" \in objs[user[c]])
      BY <1>0, <1>p, <2>3, GotoMoves
    <3> QED
      BY <1>0, <1>f, <2>1, <2>2, <3>1 DEF Found, Claiming, Deploying
  <2> QED
    BY <1>r, <2>1, <2>3
<1>11. CASE ListCurrPods(c)
  <2>1. /\ pc[c] = "currPods" /\ pc'[c] = "deploy" /\ op'[c] = op[c] /\ user'[c] = user[c]
    BY <1>0, <1>11, ListCurrPodsMoves
  <2>2. user[c] \in Users /\ op[c] = "DeployToSandbox"
    BY <1>0, <2>1 DEF Shape, Finding, Preparing, Claiming, Deploying, Ops
  <2> QED
    BY <1>0, <1>f, <2>1, <2>2 DEF Found
<1>5. CASE ClaimBound(c)
  <2>1. pc[c] = "bound" /\ Goto(c, "account") /\ "claim" \in objs[user[c]]
    BY <1>5 DEF ClaimBound
  <2>2. pc'[c] = "account" /\ op'[c] = op[c] /\ user'[c] = user[c]
    BY <1>0, <1>p, <2>1, GotoMoves
  <2>3. user[c] \in Users
    BY <1>0, <2>1
  <2> QED
    BY <1>0, <1>f, <2>1, <2>2, <2>3 DEF Found, Claiming, Deploying
<1>6. CASE AccountThere(c)
  <2>1. /\ pc[c] = "account" /\ "account" \in objs[user[c]]
        /\ \/ op[c] = "GetBuildkit" /\ GotoPod(c, "deploy", "buildkitd")
           \/ op[c] # "GetBuildkit" /\ Goto(c, "list")
    BY <1>6 DEF AccountThere
  <2>2. user[c] \in Users
    BY <1>0, <2>1
  <2>3. CASE op[c] = "GetBuildkit" /\ GotoPod(c, "deploy", "buildkitd")
    <3>1. op'[c] = "GetBuildkit"
      BY <1>0, <1>p, <2>3, GotoPodMoves
    <3> QED
      BY <3>1 DEF Found
  <2>4. CASE Goto(c, "list")
    <3>1. pc'[c] = "list" /\ op'[c] = op[c] /\ user'[c] = user[c]
      BY <1>0, <1>p, <2>4, GotoMoves
    <3> QED
      BY <1>0, <1>f, <2>1, <2>2, <3>1 DEF Found, Claiming, Deploying
  <2> QED
    BY <2>1, <2>3, <2>4
<1>7. CASE ListPods(c)
  <2>1. /\ pc[c] = "list"
        /\ \/ GotoPod(c, "deploy", "reservation")
           \/ GotoPod(c, "deploy", "syncthing") /\ user[c] \in reserved \cup skipped'
    BY <1>7 DEF ListPods
  <2>2. user[c] \in Users /\ op[c] = "CreateSandbox"
    BY <1>0, <2>1 DEF Shape, Finding, Preparing, Claiming, Deploying, Ops
  <2>3. /\ pc'[c] = "deploy" /\ op'[c] = op[c] /\ user'[c] = user[c]
        /\ cur'[c] = "reservation" \/ user[c] \in reserved \cup skipped'
    BY <1>0, <1>p, <2>1, GotoPodMoves
  <2> QED
    BY <1>0, <1>f, <2>1, <2>2, <2>3 DEF Found, Claiming, Deploying
<1>8. CASE DeployPod(c) \/ CreatePod(c)
  <2>1. /\ pc[c] \in Deploying
        /\ AfterPod(c, cur[c]) \/ Return(c, "failed") \/ Goto(c, "create")
    BY <1>8 DEF DeployPod, CreatePod, Deploying
  <2>2. user[c] \in Users
    BY <1>0, <2>1 DEF Deploying
  <2>3. CASE Goto(c, "create")
    <3>1. pc'[c] = "create" /\ op'[c] = op[c] /\ user'[c] = user[c] /\ cur'[c] = cur[c]
      BY <1>0, <1>p, <2>3, GotoMoves
    <3> QED
      BY <1>0, <1>f, <2>1, <2>2, <3>1 DEF Found, Claiming, Deploying
  <2>4. CASE AfterPod(c, cur[c])
    <3>1. /\ op'[c] = op[c] /\ user'[c] = user[c]
          /\ \/ cur[c] = "reservation" /\ pc'[c] = "await" /\ cur'[c] = "reservation"
             \/ cur[c] \in {"syncthing", "buildkitd", "dns"} /\ pc'[c] \in {"await", "deploy"}
             \/ cur[c] = "customer" /\ pc'[c] = "drop"
      BY <1>0, <2>1, <2>4, AfterPodMoves
    <3>2. op[c] = "DeployToSandbox" => cur[c] = "customer"
      BY <1>0, <2>1 DEF Shape, Deploying
    <3> QED
      BY <1>0, <1>f, <2>1, <2>2, <3>1, <3>2 DEF Found, Claiming, Deploying
  <2> QED
    BY <1>r, <2>1, <2>3, <2>4
<1>9. CASE PodFound(c)
  <2>1. pc[c] = "await" /\ pods[user[c]][cur[c]] # NoPod /\ PodCondition(c, pods[user[c]][cur[c]])
    BY <1>9 DEF PodFound
  <2>2. /\ user[c] \in Users
        /\ \/ op[c] = "CreateSandbox" /\ cur[c] \in {"reservation", "buildkitd", "dns"}
           \/ op[c] = "GetBuildkit" /\ cur[c] = "buildkitd"
           \/ op[c] = "DeployToSandbox" /\ cur[c] = "dns"
    BY <1>0, <2>1 DEF Shape, Finding, Preparing, Claiming, Deploying, Ops
  <2>3. \/ op[c] = "CreateSandbox" /\ cur[c] = "reservation" /\ GotoPod(c, "deploy", "syncthing")
        \/ op[c] = "CreateSandbox" /\ cur[c] = "dns" /\ GotoPod(c, "await", "buildkitd")
        \/ op[c] = "DeployToSandbox" /\ GotoPod(c, "currPods", "customer")
        \/ Return(c, "done")
    BY <1>9, <2>2 DEF PodFound
  <2>4. CASE op[c] = "CreateSandbox" /\ cur[c] = "reservation" /\ GotoPod(c, "deploy", "syncthing")
    <3>1. pc'[c] = "deploy" /\ op'[c] = op[c] /\ user'[c] = user[c]
      BY <1>0, <1>p, <2>4, GotoPodMoves
    <3>2. user[c] \in reserved
      BY <2>1, <2>2, <2>4 DEF PodCondition, PodInv, CustomerPods
    <3> QED
      BY <1>0, <1>f, <2>1, <2>2, <2>4, <3>1, <3>2 DEF Found, Claiming, Deploying
  <2>5. CASE op[c] = "CreateSandbox" /\ cur[c] = "dns" /\ GotoPod(c, "await", "buildkitd")
    <3>1. pc'[c] = "await" /\ op'[c] = op[c] /\ user'[c] = user[c]
      BY <1>0, <1>p, <2>5, GotoPodMoves
    <3> QED
      BY <1>0, <1>f, <2>1, <2>2, <2>5, <3>1 DEF Found, Claiming, Deploying
  <2>6. CASE op[c] = "DeployToSandbox" /\ GotoPod(c, "currPods", "customer")
    <3>1. pc'[c] = "currPods" /\ op'[c] = op[c] /\ user'[c] = user[c]
      BY <1>0, <1>p, <2>6, GotoPodMoves
    <3>2. "dns" \in Colocated /\ cur[c] = "dns"
      BY <2>2, <2>6 DEF Colocated, PodNames
    <3>3. user[c] \notin outlived => Objects \subseteq objs[user[c]]
      BY <2>1, <2>2, <3>2 DEF OrderInv, MadeInOrder, IsolatedBeforePods
    <3> QED
      BY <1>f, <2>2, <2>6, <3>1, <3>3 DEF Found
  <2> QED
    BY <1>r, <2>3, <2>4, <2>5, <2>6
<1> QED
  BY <1>1, <1>2, <1>3, <1>4, <1>5, <1>6, <1>7, <1>8, <1>9, <1>10, <1>11 DEF CallStep, VolumeStep

\* Only CreatePod makes pods.
LEMMA NoNewPod ==
  ASSUME TypeInv, PodInv,
         \/ \E c \in Calls : (CallStep(c) /\ ~CreatePod(c)) \/ SeedVolume(c) \/ TimesOut(c) \/ Abort(c) \/ BeginStep(c)
         \/ KubeStep
  PROVE  \A u \in Users : \A p \in PodNames : pods'[u][p] # NoPod => pods[u][p] # NoPod
<1>1. ASSUME NEW c \in Calls,
             \/ CheckCap(c) \/ Find(c) \/ GetNamespace(c) \/ GetPolicy(c) \/ ClaimBound(c)
             \/ AccountThere(c) \/ ListPods(c) \/ PodFound(c) \/ TimesOut(c) \/ Abort(c)
             \/ CreateNamespace(c) \/ CreatePolicy(c) \/ CreateClaim(c) \/ DeleteNamespace(c)
             \/ BeginStep(c)
      PROVE  UNCHANGED pods
  BY <1>1 DEF CheckCap, Find, GetNamespace, GetPolicy, ClaimBound, AccountThere, ListPods, PodFound,
     TimesOut, Abort, CreateNamespace, CreatePolicy, CreateClaim, DeleteNamespace, BeginStep, Begin,
     world
<1>2. ASSUME NEW u \in Users, CacheNamespace(u) \/ CachePods(u) \/ CreateAccount(u)
      PROVE  UNCHANGED pods
  BY <1>2 DEF CacheNamespace, CachePods, CreateAccount, world
<1>5. ASSUME \/ \E c \in Calls : VolumeStep(c) \/ ListCurrPods(c)
             \/ \E u \in Users : VolumeControl(u)
      PROVE  UNCHANGED pods
  BY <1>5, VolumeMoves, ListCurrPodsMoves, VolumeControlMoves DEF TypeInv, world
<1>3. ASSUME NEW c \in Calls, DeployPod(c) \/ DropReservation(c) \/ DeletePods(c)
      PROVE  \A u \in Users : \A p \in PodNames : pods'[u][p] # NoPod => pods[u][p] # NoPod
  BY <1>3, DeployPodKeeps, DeletionKeeps
<1>4. ASSUME NEW u \in Users, NEW p \in PodNames, Schedule(u, p) \/ PodReady(u, p)
      PROVE  \A w \in Users : \A q \in PodNames : pods'[w][q] # NoPod => pods[w][q] # NoPod
  BY <1>4, KubeletKeeps
<1> QED
  BY <1>1, <1>2, <1>3, <1>4, <1>5 DEF CallStep, VolumeStep, KubeStep

\* CreatePod makes a pod of the sandbox after everything that comes before it.
LEMMA CreatePodInOrder ==
  ASSUME TypeInv, PodInv, OrderInv, NEW c \in Calls, CreatePod(c)
  PROVE  MadeInOrder'
<1>0. LocalsOK /\ Shape(c) /\ Found(c) /\ op[c] \in Ops
  BY DEF TypeInv, Shapes, OrderInv, LocalsOK
<1>1. /\ pc[c] = "create" /\ UNCHANGED <<objs, reserved, skipped, outlived>>
  BY DEF CreatePod, history
<1>2. /\ user[c] \in Users
      /\ \/ op[c] = "CreateSandbox" /\ cur[c] \in {"reservation", "syncthing", "buildkitd", "dns"}
         \/ op[c] = "GetBuildkit" /\ cur[c] = "buildkitd"
         \/ op[c] = "DeployToSandbox" /\ cur[c] = "customer"
  BY <1>0, <1>1 DEF Shape, Finding, Preparing, Claiming, Deploying, Ops
<1>3. \A u \in Users : \A p \in PodNames :
        pods'[u][p] # NoPod => pods'[u][p] = pods[u][p] \/ (u = user[c] /\ p = cur[c])
  BY CreatePodKeeps
<1>4. /\ Colocated \subseteq PodNames /\ {"dns", "syncthing"} \subseteq PodNames
      /\ "buildkitd" \notin Colocated /\ Objects = {"policy", "claim", "account"}
  BY DEF Colocated, PodNames, Objects
<1>5. user[c] \notin outlived /\ cur[c] \in Colocated => Objects \subseteq objs[user[c]]
  BY <1>0, <1>1, <1>2, <1>4 DEF Found, Claiming, Deploying
<1>6. user[c] \notin outlived /\ cur[c] \in {"syncthing", "dns"} => user[c] \in reserved \cup skipped
  BY <1>0, <1>1, <1>2 DEF Found, Claiming, Deploying
<1>7. IsolatedBeforePods'
  BY <1>1, <1>3, <1>4, <1>5 DEF OrderInv, MadeInOrder, IsolatedBeforePods
<1>8. ReservationFirstUnlessSkipped'
  BY <1>1, <1>3, <1>4, <1>6 DEF OrderInv, MadeInOrder, ReservationFirstUnlessSkipped
<1> QED
  BY <1>7, <1>8 DEF MadeInOrder

\* The next namespace of a user is a new sandbox, unless a call is still at work.
LEMMA GoneInOrder ==
  ASSUME TypeInv, PodInv, OrderInv, NEW u \in Users, NamespaceGone(u)
  PROVE  OrderInv'
<1>1. /\ UNCHANGED <<pc, op, user, spec, cur>>
      /\ \A p \in PodNames : pods'[u][p] = NoPod
      /\ \A w \in Users \ {u} : objs'[w] = objs[w] /\ pods'[w] = pods[w]
  BY GoneKeeps
<1>2. /\ reserved' = reserved \ {u} /\ skipped' = skipped \ {u}
      /\ outlived' = IF \E c \in Calls : user[c] = u /\ AtWork(c)
                       THEN outlived \cup {u} ELSE outlived \ {u}
  BY DEF NamespaceGone
<1>3. \A w \in Users \ {u} : w \in outlived' <=> w \in outlived
  BY <1>2
<1>4. Colocated \subseteq PodNames /\ {"dns", "syncthing"} \subseteq PodNames
  BY DEF Colocated, PodNames
<1>5. IsolatedBeforePods'
  BY <1>1, <1>3, <1>4 DEF OrderInv, MadeInOrder, IsolatedBeforePods
<1>6. ReservationFirstUnlessSkipped'
  BY <1>1, <1>2, <1>3, <1>4 DEF OrderInv, MadeInOrder, ReservationFirstUnlessSkipped
<1>7. ASSUME NEW d \in Calls PROVE Found(d)'
  <2>0. Found(d) /\ (user[d] \in Users \/ pc[d] = "idle")
    BY DEF OrderInv, TypeInv, Shapes, Shape
  <2>1. CASE user[d] = u
    <3>1. CASE AtWork(d)
      BY <1>1, <1>2, <2>1, <3>1 DEF Found
    <3>2. CASE ~AtWork(d)
      BY <1>1, <3>2 DEF AtWork, Active, Found, Claiming, Deploying
    <3> QED
      BY <3>1, <3>2
  <2>2. CASE user[d] \in Users \ {u}
    BY <1>1, <1>2, <1>3, <2>0, <2>2 DEF Found
  <2>3. CASE pc[d] = "idle"
    BY <1>1, <2>3 DEF Found, Claiming, Deploying
  <2> QED
    BY <2>0, <2>1, <2>2, <2>3
<1> QED
  BY <1>5, <1>6, <1>7 DEF OrderInv, MadeInOrder

\* Every step keeps the order.
LEMMA OrderStep ==
  ASSUME TypeInv, PodInv, OrderInv, Next
  PROVE  OrderInv'
<1>0. MadeInOrder /\ \A d \in Calls : Found(d)
  BY DEF OrderInv
<1>1. ASSUME NEW c \in Calls, CallStep(c) \/ SeedVolume(c) \/ TimesOut(c) \/ Abort(c) \/ BeginStep(c)
      PROVE  OrderInv'
  <2>1. Grows
    BY <1>1, WorldStep
  <2>2. OthersStay(c)
    BY <1>1, CallMoves, BeginMoves DEF BeginStep
  <2>3. ASSUME NEW d \in Calls \ {c} PROVE Found(d)'
    BY <1>0, <2>1, <2>2, FoundStays DEF OthersStay
  <2>4. Found(c)'
    <3>1. CASE CallStep(c) \/ SeedVolume(c) \/ TimesOut(c) \/ Abort(c)
      BY <3>1, CallFinds
    <3>2. CASE BeginStep(c)
      <4>1. /\ pc'[c] \in {"check", "await", "find"}
            /\ pc'[c] = "check" <=> op'[c] = "CreateSandbox"
        BY <3>2, BeginMoves DEF BeginStep
      <4> QED
        BY <4>1 DEF Found, Claiming, Deploying
    <3> QED
      BY <1>1, <3>1, <3>2
  <2>5. MadeInOrder'
    <3>1. CASE CreatePod(c)
      BY <3>1, CreatePodInOrder
    <3>2. CASE ~CreatePod(c)
      <4>1. \A u \in Users : \A p \in PodNames : pods'[u][p] # NoPod => pods[u][p] # NoPod
        BY <1>1, <3>2, NoNewPod
      <4> QED
        BY <1>0, <2>1, <4>1, OrderStays
    <3> QED
      BY <3>1, <3>2
  <2> QED
    BY <2>3, <2>4, <2>5 DEF OrderInv
<1>2. CASE KubeStep
  <2>1. Grows /\ \A u \in Users : \A p \in PodNames : pods'[u][p] # NoPod => pods[u][p] # NoPod
    BY <1>2, WorldStep, NoNewPod
  <2>2. UNCHANGED <<pc, op, user, cur>>
    BY <1>2, VolumeControlMoves
       DEF KubeStep, CacheNamespace, CachePods, CreateAccount, Schedule, PodReady, locals
  <2>3. ASSUME NEW d \in Calls PROVE Found(d)'
    BY <1>0, <2>1, <2>2, FoundStays
  <2>4. MadeInOrder'
    BY <1>0, <2>1, OrderStays
  <2> QED
    BY <2>3, <2>4 DEF OrderInv
<1>3. CASE \E u \in Users : NamespaceGone(u)
  BY <1>3, GoneInOrder
<1> QED
  BY <1>1, <1>2, <1>3 DEF Next, KubeStep, VolumeControl, BeginStep

-----------------------------------------------------------------------------
(* What a successful CreateSandbox leaves                                   *)

DnsScheduled(u) == pods[u]["dns"] # NoPod /\ pods[u]["dns"].scheduled
BuildkitReady(u) == pods[u]["buildkitd"] # NoPod /\ pods[u]["buildkitd"].ready

\* What CreateSandbox has waited for
Usable(c) ==
    deletes = 0 /\ op[c] = "CreateSandbox" =>
        /\ pc[c] = "await" /\ cur[c] = "buildkitd" => DnsScheduled(user[c])
        /\ pc[c] = "done" => DnsScheduled(user[c]) /\ BuildkitReady(user[c])

UsableInv == \A c \in Calls : Usable(c)

\* A pod that was waited for stays as it is, without DeleteSandbox.
LEMMA StaysUsable ==
  ASSUME Grows, deletes' = 0, NEW u \in Users
  PROVE  /\ DnsScheduled(u) => DnsScheduled(u)'
         /\ BuildkitReady(u) => BuildkitReady(u)'
<1>1. PodKept(u, "dns") /\ PodKept(u, "buildkitd")
  BY DEF Grows
<1> QED
  BY <1>1 DEF PodKept, DnsScheduled, BuildkitReady

\* A call that does not move stays usable.
LEMMA UsableStays ==
  ASSUME TypeInv, NEW d \in Calls, Usable(d), Grows, pc'[d] = pc[d], op'[d] = op[d],
         user'[d] = user[d], cur'[d] = cur[d]
  PROVE  Usable(d)'
<1>1. deletes' = 0 => deletes = 0
  BY DEF Grows
<1>2. pc[d] \in {"await", "done"} => user[d] \in Users
  BY DEF TypeInv, Shapes, Shape
<1> QED
  BY <1>1, <1>2, StaysUsable DEF Usable

\* The steps of a call: CreateSandbox waits for both pods, one after the other.
LEMMA CallWaits ==
  ASSUME TypeInv, PodInv, UsableInv, NEW c \in Calls, CallStep(c) \/ SeedVolume(c) \/ TimesOut(c) \/ Abort(c)
  PROVE  Usable(c)'
<1>0. /\ LocalsOK /\ Shape(c) /\ Usable(c) /\ op[c] \in Ops /\ pc[c] \in CallStates
      /\ pc[c] # "idle" => user[c] \in Users
  BY DEF TypeInv, Shapes, Shape, UsableInv, LocalsOK
<1>w. Grows
  BY WorldStep
<1>p. /\ CallStates = {"idle", "check", "find", "get", "namespace", "policy", "createPolicy",
               "claim", "volume", "release", "seed", "createClaim", "bound", "account",
               "list", "deploy", "create", "await", "currPods", "drop", "pods", "delete",
               "done"}
      /\ {"reservation", "syncthing", "buildkitd", "dns", "customer"} = PodNames
  BY DEF CallStates, PodNames
<1>r. ASSUME Return(c, "failed") \/ (Return(c, "done") /\ op[c] # "CreateSandbox") PROVE Usable(c)'
  <2>1. pc'[c] = "idle"
    BY <1>0, <1>r, ReturnMoves
  <2> QED
    BY <2>1 DEF Usable
<1>g. ASSUME pc'[c] \notin {"await", "done"} PROVE Usable(c)'
  BY <1>g DEF Usable
<1>1. CASE DropReservation(c) \/ DeleteNamespace(c) \/ TimesOut(c) \/ Abort(c)
  <2>1. \/ Return(c, "failed")
        \/ pc[c] \in {"drop", "delete"} /\ Return(c, "done")
    BY <1>1 DEF DropReservation, DeleteNamespace, TimesOut, Abort
  <2>2. pc[c] \in {"drop", "delete"} => op[c] # "CreateSandbox"
    BY <1>0 DEF Shape, Finding, Preparing, Claiming, Deploying
  <2> QED
    BY <1>r, <2>1, <2>2
<1>2. CASE CheckCap(c) \/ Find(c) \/ GetNamespace(c) \/ CreateNamespace(c) \/ GetPolicy(c)
           \/ CreatePolicy(c) \/ CreateClaim(c) \/ ClaimBound(c) \/ AccountThere(c)
           \/ ListPods(c) \/ DeletePods(c)
  <2>1. GetNamespace(c) => ns[user[c]] \in {"none", "active", "terminating"}
    BY <1>0 DEF GetNamespace, TypeInv, WorldOK
  <2>2. \/ Return(c, "failed")
        \/ \E l \in CallStates \ {"await", "done"} : Goto(c, l)
        \/ \E p \in PodNames : GotoPod(c, "deploy", p)
    BY <1>2, <2>1, <1>p DEF CheckCap, Find, GetNamespace, CreateNamespace, GetPolicy,
       CreatePolicy, CreateClaim, ClaimBound, AccountThere, ListPods, DeletePods
  <2>3. "deploy" \in CallStates
    BY <1>p
  <2>4. Return(c, "failed") \/ pc'[c] \notin {"await", "done"}
    BY <1>0, <2>2, <2>3, GotoMoves, GotoPodMoves
  <2> QED
    BY <1>r, <1>g, <2>4
<1>5. CASE VolumeStep(c) \/ ListCurrPods(c)
  <2>1. Return(c, "failed") \/ pc'[c] \in Claiming \cup {"account", "deploy"}
    BY <1>0, <1>p, <1>5, VolumeMoves, ListCurrPodsMoves, GotoMoves DEF Claiming
  <2> QED
    BY <1>r, <1>g, <2>1 DEF Claiming
<1>3. CASE DeployPod(c) \/ CreatePod(c)
  <2>1. /\ pc[c] \in Deploying
        /\ AfterPod(c, cur[c]) \/ Return(c, "failed") \/ Goto(c, "create")
    BY <1>3 DEF DeployPod, CreatePod, Deploying
  <2>2. CASE AfterPod(c, cur[c])
    <3>1. /\ pc'[c] # "done" /\ op'[c] = op[c]
          /\ pc'[c] = "await" /\ cur'[c] = "buildkitd" => op[c] = "GetBuildkit"
      BY <1>0, <2>1, <2>2, AfterPodMoves
    <3> QED
      BY <3>1 DEF Usable
  <2>3. CASE Goto(c, "create")
    <3>1. "create" \in CallStates
      BY <1>p
    <3>2. pc'[c] = "create"
      BY <1>0, <2>3, <3>1, GotoMoves
    <3> QED
      BY <1>g, <3>2
  <2> QED
    BY <1>r, <2>1, <2>2, <2>3
<1>4. CASE PodFound(c)
  <2>1. /\ pc[c] = "await" /\ pods[user[c]][cur[c]] # NoPod
        /\ PodCondition(c, pods[user[c]][cur[c]])
    BY <1>4 DEF PodFound
  <2>2. /\ user[c] \in Users
        /\ \/ op[c] = "CreateSandbox" /\ cur[c] \in {"reservation", "buildkitd", "dns"}
           \/ op[c] = "GetBuildkit" /\ cur[c] = "buildkitd"
           \/ op[c] = "DeployToSandbox" /\ cur[c] = "dns"
    BY <1>0, <2>1 DEF Shape, Finding, Preparing, Claiming, Deploying, Ops
  <2>3. \/ \E l \in {"deploy", "currPods"} : \E p \in PodNames : GotoPod(c, l, p)
        \/ op[c] = "CreateSandbox" /\ cur[c] = "dns" /\ GotoPod(c, "await", "buildkitd")
        \/ op[c] = "CreateSandbox" /\ cur[c] = "buildkitd" /\ Return(c, "done")
        \/ op[c] = "GetBuildkit" /\ Return(c, "done")
    BY <1>4, <1>p, <2>2 DEF PodFound
  <2>4. CASE \E l \in {"deploy", "currPods"} : \E p \in PodNames : GotoPod(c, l, p)
    <3>1. {"deploy", "currPods"} \subseteq CallStates
      BY <1>p
    <3>2. pc'[c] \in {"deploy", "currPods"}
      BY <1>0, <2>4, <3>1, GotoPodMoves
    <3> QED
      BY <1>g, <3>2
  <2>5. CASE op[c] = "CreateSandbox" /\ cur[c] = "dns" /\ GotoPod(c, "await", "buildkitd")
    <3>1. "await" \in CallStates /\ "buildkitd" \in PodNames
      BY <1>p
    <3>2. pc'[c] = "await" /\ user'[c] = user[c]
      BY <1>0, <2>5, <3>1, GotoPodMoves
    <3>3. DnsScheduled(user[c])
      BY <2>1, <2>5 DEF PodCondition, DnsScheduled
    <3> QED
      BY <1>w, <2>2, <3>2, <3>3, StaysUsable DEF Usable
  <2>6. CASE op[c] = "CreateSandbox" /\ cur[c] = "buildkitd" /\ Return(c, "done")
    <3>1. pc'[c] = "idle" \/ (pc'[c] = "done" /\ user'[c] = user[c])
      BY <1>0, <2>6, ReturnMoves
    <3>2. BuildkitReady(user[c])
      BY <2>1, <2>6 DEF PodCondition, BuildkitReady
    <3>3. deletes = 0 => DnsScheduled(user[c])
      BY <1>0, <2>1, <2>6 DEF Usable
    <3> QED
      BY <1>w, <2>2, <3>1, <3>2, <3>3, StaysUsable DEF Usable, Grows
  <2>7. CASE op[c] = "GetBuildkit" /\ Return(c, "done")
    BY <1>r, <2>7
  <2> QED
    BY <2>3, <2>4, <2>5, <2>6, <2>7
<1> QED
  BY <1>1, <1>2, <1>3, <1>4, <1>5 DEF CallStep, VolumeStep

\* Every step keeps what CreateSandbox has waited for.
LEMMA UsableStep ==
  ASSUME TypeInv, PodInv, UsableInv, Next
  PROVE  UsableInv'
<1>1. ASSUME NEW c \in Calls, CallStep(c) \/ SeedVolume(c) \/ TimesOut(c) \/ Abort(c) \/ BeginStep(c)
      PROVE  UsableInv'
  <2>1. Grows
    BY <1>1, WorldStep
  <2>2. OthersStay(c)
    BY <1>1, CallMoves, BeginMoves DEF BeginStep
  <2>3. ASSUME NEW d \in Calls \ {c} PROVE Usable(d)'
    BY <2>1, <2>2, UsableStays DEF OthersStay, UsableInv
  <2>4. Usable(c)'
    <3>1. CASE CallStep(c) \/ SeedVolume(c) \/ TimesOut(c) \/ Abort(c)
      BY <3>1, CallWaits
    <3>2. CASE BeginStep(c)
      <4>1. /\ pc'[c] \in {"check", "await", "find"}
            /\ pc'[c] = "check" <=> op'[c] = "CreateSandbox"
        BY <3>2, BeginMoves DEF BeginStep
      <4> QED
        BY <4>1 DEF Usable
    <3> QED
      BY <1>1, <3>1, <3>2
  <2> QED
    BY <2>3, <2>4 DEF UsableInv
<1>2. CASE KubeStep
  <2>1. Grows
    BY <1>2, WorldStep
  <2>2. UNCHANGED <<pc, op, user, cur>>
    BY <1>2, VolumeControlMoves
       DEF KubeStep, CacheNamespace, CachePods, CreateAccount, Schedule, PodReady, locals
  <2> QED
    BY <2>1, <2>2, UsableStays DEF UsableInv
<1>3. CASE \E u \in Users : NamespaceGone(u)
  BY <1>3, GoneKeeps DEF UsableInv, Usable
<1> QED
  BY <1>1, <1>2, <1>3 DEF Next, KubeStep, VolumeControl, BeginStep

-----------------------------------------------------------------------------
(* The cap on the number of sandboxes                                       *)

\* The sandboxes that the cap is about
Counted == Sandboxes \ excused

\* A CreateSandbox whose check saw every sandbox, and which may create one
Seeing(c) == op[c] = "CreateSandbox" /\ pc[c] \in Finding /\ c \notin blind

\* There is at most one such call, since every later check is blind while it is
\* under way; and there is room for its sandbox.
CapInv ==
    /\ excused \subseteq Sandboxes
    /\ \A c, d \in Calls : Seeing(c) /\ Seeing(d) => c = d
    /\ \A c \in Calls : Seeing(c) => Cardinality(Counted \ {user[c]}) < MaxSandboxes
    /\ Cardinality(Counted) <= MaxSandboxes

\* Sets of users are finite.
LEMMA UsersFinite ==
  ASSUME NEW S, NEW T, S \subseteq T, T \subseteq Users
  PROVE  /\ IsFiniteSet(S) /\ IsFiniteSet(T)
         /\ Cardinality(S) \in Nat /\ Cardinality(T) \in Nat /\ Cardinality(S) <= Cardinality(T)
<1>1. IsFiniteSet(T)
  BY SandboxAssumption, FS_Subset
<1> QED
  BY <1>1, FS_Subset, FS_CardinalityType

\* The sandboxes that count are users.
LEMMA CountedUsers ==
  /\ Counted \subseteq Users /\ Counted' \subseteq Users
  /\ Sandboxes \subseteq Users
BY DEF Counted, Sandboxes

\* The cap is kept as long as no sandbox that counts and no call that saw them all
\* comes.
LEMMA CapStays ==
  ASSUME CapInv, Counted' \subseteq Counted, excused' \subseteq Sandboxes',
         \A d \in Calls : Seeing(d)' => Seeing(d) /\ user'[d] = user[d]
  PROVE  CapInv'
<1>1. Cardinality(Counted') <= Cardinality(Counted)
      /\ Cardinality(Counted) \in Nat /\ Cardinality(Counted') \in Nat
  BY CountedUsers, UsersFinite
<1>2. ASSUME NEW d \in Calls, Seeing(d)'
      PROVE  Cardinality(Counted' \ {user'[d]}) < MaxSandboxes
  <2>1. Seeing(d) /\ user'[d] = user[d]
    BY <1>2
  <2>2. /\ Counted' \ {user[d]} \subseteq Counted \ {user[d]}
        /\ Counted \ {user[d]} \subseteq Users
    BY CountedUsers
  <2>3. /\ Cardinality(Counted' \ {user[d]}) <= Cardinality(Counted \ {user[d]})
        /\ Cardinality(Counted \ {user[d]}) \in Nat /\ Cardinality(Counted' \ {user[d]}) \in Nat
    BY <2>2, UsersFinite
  <2>4. Cardinality(Counted \ {user[d]}) < MaxSandboxes
    BY <2>1 DEF CapInv
  <2> QED
    BY <2>1, <2>3, <2>4, SandboxAssumption
<1>3. ASSUME NEW c \in Calls, NEW d \in Calls, Seeing(c)', Seeing(d)' PROVE c = d
  BY <1>3 DEF CapInv
<1>4. Cardinality(Counted') <= MaxSandboxes
  BY <1>1, SandboxAssumption DEF CapInv
<1> QED
  BY <1>2, <1>3, <1>4 DEF CapInv

\* The check of CreateSandbox: it saw all sandboxes and no call that may create
\* one, or is blind.
LEMMA CheckCapKeeps ==
  ASSUME TypeInv, CapInv, NEW c \in Calls, CheckCap(c)
  PROVE  CapInv'
<1>0. LocalsOK /\ pc[c] = "check" /\ listed \subseteq Users /\ "get" \in CallStates
  BY DEF TypeInv, HistoryOK, CheckCap, CallStates
<1>1. UNCHANGED <<ns, excused>>
  BY DEF CheckCap, world
<1>2. Counted' = Counted /\ Sandboxes' = Sandboxes
  BY <1>1 DEF Counted, Sandboxes
<1>3. OthersStay(c) /\ (\A d \in Calls \ {c} : d \in blind' <=> d \in blind)
  <2>1. OthersStay(c)
    BY CallMoves DEF CallStep
  <2> QED
    BY <2>1 DEF CheckCap
<1>4. \A d \in Calls \ {c} : Seeing(d)' <=> Seeing(d)
  BY <1>3 DEF Seeing, OthersStay
<1>5. CASE ~Seeing(c)'
  <2>1. \A d \in Calls : Seeing(d)' => Seeing(d) /\ user'[d] = user[d]
    BY <1>3, <1>4, <1>5 DEF OthersStay
  <2> QED
    BY <1>1, <1>2, <2>1, CapStays DEF CapInv
<1>6. CASE Seeing(c)'
  <2>1. ~Overloaded(user[c]) /\ Goto(c, "get") /\ ~Blind(c)
    <3>1. Overloaded(user[c]) => Return(c, "failed")
      BY DEF CheckCap
    <3>2. ~Return(c, "failed")
      BY <1>0, <1>6, ReturnMoves DEF Seeing, Finding
    <3>3. Blind(c) /\ ~Overloaded(user[c]) => c \in blind'
      BY DEF CheckCap
    <3>4. ~Overloaded(user[c]) => Goto(c, "get")
      BY DEF CheckCap
    <3> QED
      BY <1>6, <3>1, <3>2, <3>3, <3>4 DEF Seeing
  <2>2. user'[c] = user[c]
    BY <1>0, <2>1, GotoMoves
  <2>3. \A d \in Calls \ {c} : ~Seeing(d)
    BY <2>1 DEF Blind, Seeing, Finding
  <2>4. Counted \ {user[c]} \subseteq listed \ {user[c]} /\ listed \ {user[c]} \subseteq Users
    BY <1>0, <2>1 DEF Blind, Counted
  <2>5. Cardinality(Counted \ {user[c]}) < MaxSandboxes
    <3>1. /\ Cardinality(Counted \ {user[c]}) <= Cardinality(listed \ {user[c]})
          /\ Cardinality(Counted \ {user[c]}) \in Nat /\ Cardinality(listed \ {user[c]}) \in Nat
      BY <2>4, UsersFinite
    <3>2. ~(Cardinality(listed \ {user[c]}) >= MaxSandboxes)
      BY <2>1 DEF Overloaded
    <3> QED
      BY <3>1, <3>2, SandboxAssumption
  <2>6. \A d \in Calls : Seeing(d)' => d = c
    BY <1>4, <2>3
  <2>7. \A d \in Calls : Seeing(d)' => Cardinality(Counted' \ {user'[d]}) < MaxSandboxes
    BY <1>2, <2>2, <2>5, <2>6
  <2> QED
    BY <1>1, <1>2, <2>6, <2>7 DEF CapInv
<1> QED
  BY <1>5, <1>6

\* A namespace is created: it does not count, or there was room for it.
LEMMA CreateNamespaceKeeps ==
  ASSUME TypeInv, CapInv, NEW c \in Calls, CreateNamespace(c)
  PROVE  CapInv'
<1>0. LocalsOK /\ WorldOK /\ Shape(c) /\ pc[c] = "namespace" /\ "policy" \in CallStates
  BY DEF TypeInv, Shapes, CreateNamespace, CallStates
<1>1. user[c] \in Users /\ op[c] \in {"CreateSandbox", "GetBuildkit"}
  BY <1>0 DEF Shape, Finding, Preparing, Claiming, Deploying, LocalsOK, Ops
<1>2. OthersStay(c)
  BY CallMoves DEF CallStep
<1>3. ~Seeing(c)'
  <2>1. Return(c, "failed") \/ Goto(c, "policy")
    BY DEF CreateNamespace
  <2> QED
    BY <1>0, <2>1, ReturnMoves, GotoMoves DEF Seeing, Finding
<1>4. \A d \in Calls \ {c} : Seeing(d)' => Seeing(d)
  BY <1>2 DEF Seeing, OthersStay, CreateNamespace
<1>5. \A d \in Calls : Seeing(d)' => Seeing(d) /\ user'[d] = user[d]
  BY <1>2, <1>3, <1>4 DEF OthersStay
<1>6. CASE UNCHANGED <<ns, excused>>
  <2>1. Counted' = Counted /\ Sandboxes' = Sandboxes
    BY <1>6 DEF Counted, Sandboxes
  <2> QED
    BY <1>5, <1>6, <2>1, CapStays DEF CapInv
<1>7. CASE ns[user[c]] = "none"
  <2>1. /\ ns' = [ns EXCEPT ![user[c]] = "active"]
        /\ excused' = IF op[c] = "GetBuildkit" \/ c \in blind
                        THEN excused \cup {user[c]} ELSE excused
    BY <1>7 DEF CreateNamespace
  <2>2. Sandboxes' = Sandboxes \cup {user[c]} /\ user[c] \notin Sandboxes
    BY <1>0, <1>1, <1>7, <2>1 DEF WorldOK, Sandboxes
  <2>3. user[c] \notin excused /\ excused' \subseteq Sandboxes'
    BY <2>1, <2>2 DEF CapInv
  <2>4. CASE op[c] = "GetBuildkit" \/ c \in blind
    <3>1. Counted' \subseteq Counted
      BY <2>1, <2>2, <2>4 DEF Counted
    <3> QED
      BY <1>5, <2>3, <3>1, CapStays
  <2>5. CASE ~(op[c] = "GetBuildkit" \/ c \in blind)
    <3>1. Seeing(c)
      BY <1>0, <1>1, <2>5 DEF Seeing, Finding
    <3>2. Counted' = Counted \cup {user[c]} /\ user[c] \notin Counted
      BY <2>1, <2>2, <2>3, <2>5 DEF Counted
    <3>3. Counted \ {user[c]} = Counted
      BY <3>2
    <3>4. Cardinality(Counted) < MaxSandboxes
      BY <3>1, <3>3 DEF CapInv
    <3>5. IsFiniteSet(Counted) /\ Cardinality(Counted) \in Nat
      BY CountedUsers, UsersFinite
    <3>6. Cardinality(Counted') = Cardinality(Counted) + 1
      BY <3>2, <3>5, FS_AddElement
    <3>7. Cardinality(Counted') <= MaxSandboxes
      BY <3>4, <3>5, <3>6, SandboxAssumption
    <3>8. \A d \in Calls : ~Seeing(d)'
      BY <1>3, <1>4, <3>1 DEF CapInv
    <3> QED
      BY <2>3, <3>7, <3>8 DEF CapInv
  <2> QED
    BY <2>4, <2>5
<1> QED
  BY <1>6, <1>7 DEF CreateNamespace

\* Every step keeps the cap.
LEMMA CapStep ==
  ASSUME TypeInv, CapInv, Next
  PROVE  CapInv'
<1>0. LocalsOK /\ WorldOK
  BY DEF TypeInv
<1>s. ASSUME UNCHANGED <<ns, excused>> PROVE Counted' = Counted /\ Sandboxes' = Sandboxes
  BY <1>s DEF Counted, Sandboxes
<1>1. ASSUME NEW c \in Calls, OthersStay(c), UNCHANGED <<ns, excused>>, blind \ {c} \subseteq blind',
             Seeing(c)' => Seeing(c) /\ user'[c] = user[c]
      PROVE  CapInv'
  <2>1. \A d \in Calls : Seeing(d)' => Seeing(d) /\ user'[d] = user[d]
    BY <1>1 DEF OthersStay, Seeing
  <2> QED
    BY <1>1, <1>s, <2>1, CapStays DEF CapInv
<1>2. ASSUME NEW c \in Calls, GetNamespace(c) PROVE CapInv'
  <2>1. OthersStay(c) /\ UNCHANGED <<ns, excused>> /\ blind \ {c} \subseteq blind' /\ blind' \subseteq blind
    BY <1>2, CallMoves DEF CallStep, GetNamespace, world
  <2>2. Shape(c) /\ pc[c] = "get" /\ {"namespace", "policy"} \subseteq CallStates
    BY <1>2 DEF TypeInv, Shapes, GetNamespace, CallStates
  <2>3. user[c] \in Users
    BY <2>2 DEF Shape
  <2>4. ns[user[c]] \in {"none", "active", "terminating"}
    BY <1>0, <2>3 DEF WorldOK
  <2>5. \/ ns[user[c]] = "none" /\ Goto(c, "namespace") /\ blind' = blind
        \/ Goto(c, "policy") \/ Return(c, "failed")
    BY <1>2, <2>4 DEF GetNamespace
  <2>6. CASE Goto(c, "namespace") /\ blind' = blind
    <3>1. user'[c] = user[c] /\ op'[c] = op[c]
      BY <1>0, <2>2, <2>6, GotoMoves
    <3>2. Seeing(c)' => Seeing(c)
      BY <2>2, <2>6, <3>1 DEF Seeing, Finding
    <3> QED
      BY <1>1, <2>1, <3>1, <3>2
  <2>7. CASE Goto(c, "policy") \/ Return(c, "failed")
    <3>1. ~Seeing(c)'
      BY <1>0, <2>2, <2>7, GotoMoves, ReturnMoves DEF Seeing, Finding
    <3> QED
      BY <1>1, <2>1, <3>1
  <2> QED
    BY <2>5, <2>6, <2>7
<1>3. ASSUME NEW c \in Calls,
             \/ Find(c) \/ GetPolicy(c) \/ CreatePolicy(c) \/ CreateClaim(c) \/ ClaimBound(c)
             \/ AccountThere(c) \/ ListPods(c) \/ DeployPod(c) \/ CreatePod(c) \/ PodFound(c)
             \/ DropReservation(c) \/ DeletePods(c) \/ TimesOut(c) \/ Abort(c)
             \/ VolumeStep(c) \/ ListCurrPods(c)
      PROVE  CapInv'
  <2>1. OthersStay(c) /\ Shape(c)' /\ Shape(c)
    BY <1>3, CallMoves DEF CallStep, VolumeStep, TypeInv, Shapes
  <2>2. UNCHANGED <<ns, excused>> /\ blind \ {c} \subseteq blind'
    BY <1>0, <1>3, VolumeMoves, ListCurrPodsMoves
       DEF Find, GetPolicy, CreatePolicy, CreateClaim, ClaimBound, AccountThere, ListPods,
       DeployPod, CreatePod, PodFound, DropReservation, DeletePods, TimesOut, Abort, world, history
  <2>3. ~Seeing(c)'
    <3>1. CASE Find(c)
      <4>1. op[c] # "CreateSandbox"
        BY <2>1, <3>1 DEF Find, Shape, Finding, Preparing, Claiming, Deploying
      <4>2. \/ Goto(c, "get") \/ Goto(c, "pods") \/ GotoPod(c, "deploy", "buildkitd")
            \/ Return(c, "failed")
        BY <3>1 DEF Find
      <4>3. {"get", "pods", "deploy"} \subseteq CallStates /\ "buildkitd" \in PodNames
        BY DEF CallStates, PodNames
      <4> QED
        BY <1>0, <4>1, <4>2, <4>3, GotoMoves, GotoPodMoves, ReturnMoves DEF Seeing, Finding
    <3>2. CASE ~Find(c)
      <4>1. \/ ListCurrPods(c)
            \/ \E l \in CallStates \ Finding : Goto(c, l)
            \/ \E l \in CallStates \ Finding : \E p \in PodNames : GotoPod(c, l, p)
            \/ Return(c, "failed") \/ Return(c, "done")
            \/ pc[c] \in Deploying /\ AfterPod(c, cur[c])
        <5>1. /\ {"createPolicy", "bound", "account", "list", "deploy", "create", "await",
                  "currPods", "delete"} \cup Claiming \subseteq CallStates \ Finding
              /\ "claim" \in Claiming
              /\ {"reservation", "syncthing", "buildkitd", "customer"} \subseteq PodNames
          BY DEF CallStates, Claiming, Finding, PodNames
        <5>2. CASE GetPolicy(c) \/ CreatePolicy(c) \/ CreateClaim(c) \/ ClaimBound(c)
                   \/ DeletePods(c)
          BY <5>1, <5>2 DEF GetPolicy, CreatePolicy, CreateClaim, ClaimBound, DeletePods
        <5>3. CASE AccountThere(c) \/ ListPods(c)
          BY <5>1, <5>3 DEF AccountThere, ListPods
        <5>4. CASE DeployPod(c) \/ CreatePod(c)
          BY <5>1, <5>4 DEF DeployPod, CreatePod, Deploying
        <5>5. CASE PodFound(c)
          <6>1. pc[c] = "await"
            BY <5>5 DEF PodFound
          <6>2. \/ op[c] = "CreateSandbox" /\ cur[c] \in {"reservation", "buildkitd", "dns"}
                \/ op[c] = "GetBuildkit" /\ cur[c] = "buildkitd"
                \/ op[c] = "DeployToSandbox" /\ cur[c] = "dns"
            BY <1>0, <2>1, <6>1 DEF LocalsOK, Shape, Finding, Preparing, Claiming, Deploying, Ops
          <6> QED
            BY <5>1, <5>5, <6>2 DEF PodFound
        <5>7. CASE VolumeStep(c)
          BY <5>1, <5>7, VolumeMoves
        <5>6. CASE DropReservation(c) \/ TimesOut(c) \/ Abort(c)
          BY <5>6 DEF DropReservation, TimesOut, Abort
        <5> QED
          BY <1>3, <3>2, <5>2, <5>3, <5>4, <5>5, <5>6, <5>7
      <4>2. pc'[c] \notin Finding
        <5>1. CASE pc[c] \in Deploying /\ AfterPod(c, cur[c])
          BY <1>0, <2>1, <5>1, AfterPodMoves DEF Finding
        <5>2. CASE Return(c, "failed") \/ Return(c, "done")
          BY <1>0, <5>2, ReturnMoves DEF Finding
        <5>3. CASE ListCurrPods(c)
          BY <1>0, <5>3, ListCurrPodsMoves DEF Finding
        <5> QED
          BY <1>0, <4>1, <5>1, <5>2, <5>3, GotoMoves, GotoPodMoves
      <4> QED
        BY <4>2 DEF Seeing
    <3> QED
      BY <3>1, <3>2
  <2> QED
    BY <1>1, <2>1, <2>2, <2>3
<1>4. ASSUME NEW c \in Calls, BeginStep(c) PROVE CapInv'
  <2>1. OthersStay(c) /\ pc'[c] \in {"check", "await", "find"}
    BY <1>4, BeginMoves DEF BeginStep
  <2>2. UNCHANGED <<ns, excused, blind>>
    BY <1>4 DEF BeginStep, Begin, world, history
  <2>3. ~Seeing(c)'
    BY <2>1 DEF Seeing, Finding
  <2> QED
    BY <1>1, <2>1, <2>2, <2>3
<1>5. ASSUME NEW c \in Calls, DeleteNamespace(c) PROVE CapInv'
  <2>1. OthersStay(c) /\ UNCHANGED <<excused, blind>> /\ pc[c] = "delete"
    BY <1>5, CallMoves DEF CallStep, DeleteNamespace, history
  <2>2. user[c] \in Users
    BY <2>1 DEF TypeInv, Shapes, Shape
  <2>3. \/ UNCHANGED ns
        \/ ns[user[c]] = "active" /\ ns' = [ns EXCEPT ![user[c]] = "terminating"]
    BY <1>5 DEF DeleteNamespace
  <2>4. Sandboxes' = Sandboxes
    BY <1>0, <2>2, <2>3 DEF Sandboxes, WorldOK
  <2>5. ~Seeing(c)'
    <3>1. Return(c, "done") \/ Return(c, "failed")
      BY <1>5 DEF DeleteNamespace
    <3> QED
      BY <1>0, <3>1, ReturnMoves DEF Seeing, Finding
  <2>6. \A d \in Calls : Seeing(d)' => Seeing(d) /\ user'[d] = user[d]
    BY <2>1, <2>5 DEF OthersStay, Seeing
  <2> QED
    BY <2>1, <2>4, <2>6, CapStays DEF CapInv, Counted
<1>6. ASSUME UNCHANGED <<pc, op, user, blind>>
      PROVE  \A d \in Calls : Seeing(d)' => Seeing(d) /\ user'[d] = user[d]
  BY <1>6 DEF Seeing
<1>7. CASE KubeStep
  <2>1. UNCHANGED <<pc, op, user, blind, ns, excused>>
    BY <1>7, VolumeControlMoves
       DEF KubeStep, CacheNamespace, CachePods, CreateAccount, Schedule, PodReady, world, locals, history
  <2> QED
    BY <1>6, <1>s, <2>1, CapStays DEF CapInv
<1>8. ASSUME NEW u \in Users, NamespaceGone(u) PROVE CapInv'
  <2>1. /\ ns' = [ns EXCEPT ![u] = "none"] /\ excused' = excused \ {u}
        /\ UNCHANGED <<pc, op, user, blind>>
    BY <1>8 DEF NamespaceGone, locals
  <2>2. Sandboxes' = Sandboxes \ {u}
    BY <1>0, <2>1 DEF Sandboxes, WorldOK
  <2>3. Counted' \subseteq Counted /\ excused' \subseteq Sandboxes'
    BY <2>1, <2>2 DEF Counted, CapInv
  <2> QED
    BY <1>6, <2>1, <2>3, CapStays
<1> QED
  BY <1>2, <1>3, <1>4, <1>5, <1>7, <1>8, CheckCapKeeps, CreateNamespaceKeeps
     DEF Next, CallStep, VolumeStep, KubeStep, VolumeControl, BeginStep

-----------------------------------------------------------------------------
(* The invariant                                                            *)

SandboxInv == TypeInv /\ PodInv /\ OrderInv /\ UsableInv /\ CapInv

\* It holds when there is no sandbox, ...
LEMMA SandboxInit == Init => SandboxInv
<1> SUFFICES ASSUME Init PROVE SandboxInv
  OBVIOUS
<1>1. \A u \in Users : \A p \in PodNames : pods[u][p] = NoPod
  BY DEF Init, NoPods
<1>2. \A c \in Calls : pc[c] = "idle" /\ op[c] = "CreateSandbox"
  BY DEF Init
<1>3. WorldOK
  <2>1. NoPods \in [PodNames -> Pods \cup {NoPod}]
    BY DEF NoPods
  <2> QED
    BY <2>1 DEF Init, WorldOK
<1>4. LocalsOK
  BY SomeSpec DEF Init, LocalsOK, CallStates, Ops
<1>5. CountersOK /\ HistoryOK
  BY SandboxAssumption DEF Init, CountersOK, HistoryOK
<1>12. StorageOK
  BY DEF Init, StorageOK
<1>6. EmptyOK /\ DeletesInv
  BY <1>1 DEF Init, EmptyOK, DeletesInv
<1>7. Shapes
  BY <1>2 DEF Shapes, Shape
<1>8. PodInv
  BY <1>1, <1>3, PodFacts DEF PodInv
<1>9. MadeInOrder
  <2>1. Colocated \subseteq PodNames /\ {"dns", "syncthing"} \subseteq PodNames
    BY DEF Colocated, PodNames
  <2> QED
    BY <1>1, <2>1 DEF MadeInOrder, IsolatedBeforePods, ReservationFirstUnlessSkipped
<1>10. OrderInv /\ UsableInv
  BY <1>2, <1>9 DEF OrderInv, Found, Claiming, Deploying, UsableInv, Usable
<1>11. CapInv
  <2>1. Counted = {} /\ excused = {}
    BY DEF Init, Counted, Sandboxes
  <2>2. Cardinality(Counted) = 0
    BY <2>1, FS_EmptySet
  <2>3. \A c \in Calls : ~Seeing(c)
    BY <1>2 DEF Seeing, Finding
  <2> QED
    BY <2>1, <2>2, <2>3, SandboxAssumption DEF CapInv
<1> QED
  BY <1>3, <1>4, <1>5, <1>6, <1>7, <1>8, <1>10, <1>11, <1>12
     DEF SandboxInv, TypeInv

\* ... and whatever the calls and Kubernetes do.
LEMMA SandboxInvariant == Spec => []SandboxInv
<1>1. ASSUME SandboxInv, [Next]_vars
      PROVE  SandboxInv'
  <2>0. TypeInv /\ PodInv /\ OrderInv /\ UsableInv /\ CapInv
    BY <1>1 DEF SandboxInv
  <2>1. CASE Next
    BY <2>0, <2>1, TypeStep, OrderStep, UsableStep, CapStep DEF SandboxInv
  <2>2. CASE UNCHANGED vars
    <3>0. UNCHANGED <<ns, objs, pods, volume, bound, listed, podsListed, pc, op, user, spec, cur,
                      currPods, unaware, made, deletes, faults,
                      blind, excused, reserved, skipped, outlived, stranded>>
      BY <2>2 DEF vars
    <3>1. WorldOK' /\ LocalsOK' /\ CountersOK' /\ HistoryOK' /\ StorageOK'
      BY <2>0, <3>0 DEF TypeInv, WorldOK, LocalsOK, CountersOK, HistoryOK, StorageOK
    <3>2. EmptyOK' /\ DeletesInv'
      BY <2>0, <3>0 DEF TypeInv, EmptyOK, DeletesInv
    <3>3. Shapes'
      BY <2>0, <3>0 DEF TypeInv, Shapes, Shape
    <3>4. PodInv'
      BY <2>0, <3>0 DEF PodInv
    <3>5. MadeInOrder'
      BY <2>0, <3>0 DEF OrderInv, MadeInOrder, IsolatedBeforePods, ReservationFirstUnlessSkipped
    <3>6. \A c \in Calls : Found(c)'
      BY <2>0, <3>0 DEF OrderInv, Found
    <3>7. UsableInv'
      BY <2>0, <3>0 DEF UsableInv, Usable, DnsScheduled, BuildkitReady
    <3>8. CapInv'
      BY <2>0, <3>0 DEF CapInv, Counted, Sandboxes, Seeing
    <3> QED
      BY <3>1, <3>2, <3>3, <3>4, <3>5, <3>6, <3>7, <3>8 DEF SandboxInv, TypeInv, OrderInv
  <2> QED
    BY <1>1, <2>1, <2>2
<1> QED
  BY <1>1, SandboxInit, PTL DEF Spec

\* The type invariant: also, a namespace that is gone holds nothing.
THEOREM TypeCorrect == Spec => []TypeOK
<1>1. SandboxInv => TypeOK
  BY TypeParts DEF SandboxInv, TypeInv
<1> QED
  BY <1>1, SandboxInvariant, PTL

\* The check of CreateSandbox keeps the cap s.maxSandboxes for all sandboxes but
\* those of GetBuildkit and of checks that could not see every sandbox.
THEOREM CapKept == Spec => []CapUnlessBlind
<1>1. SandboxInv => CapUnlessBlind
  BY DEF SandboxInv, CapInv, CapUnlessBlind, Counted
<1> QED
  BY <1>1, SandboxInvariant, PTL

\* createNamespace is over before the pods of CreateSandbox and DeployToSandbox
\* come, and a node is reserved before the others, whatever calls are made at the
\* same time.
THEOREM OrderKept == Spec => []MadeInOrder
<1>1. SandboxInv => MadeInOrder
  BY DEF SandboxInv, OrderInv
<1> QED
  BY <1>1, SandboxInvariant, PTL

\* After a CreateSandbox without error the dns pod has its node and buildkitd is
\* ready, unless somebody runs blimp down.
THEOREM SuccessUsable == Spec => []SuccessMeansUsable
<1>1. SandboxInv => SuccessMeansUsable
  BY DEF SandboxInv, UsableInv, Usable, DnsScheduled, BuildkitReady, SuccessMeansUsable
<1> QED
  BY <1>1, SandboxInvariant, PTL

=============================================================================
