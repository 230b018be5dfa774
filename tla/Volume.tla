------------------------------- MODULE Volume -------------------------------
(***************************************************************************)
(* How every namespace gets, keeps and loses its PersistentVolume          *)
(* (cluster-controller/volume).                                            *)
(*                                                                         *)
(* CreatePVC makes the namespace's PersistentVolume by letting Kubernetes  *)
(* provision one for a seed claim in blimp-system, takes it over with a    *)
(* label, and binds the namespace's own claim to it.  `blimp down` deletes *)
(* the namespace and with it the claim; `blimp down -v` first gives the    *)
(* volume up.  The calls of different namespaces interleave at every       *)
(* request to the API server, and Kubernetes' volume controller binds and  *)
(* reclaims in between.                                                    *)
(***************************************************************************)
EXTENDS Naturals, FiniteSets

CONSTANTS
    Namespaces,
    Volumes,     \* names of PersistentVolumes, numbers: sorted by name
    None,
    MaxCalls,    \* concurrent CreatePVC or delete calls of one namespace
    MaxTries,    \* 8 in the code: seeds that one createPersistentVolume tries
    MaxUpsets    \* how often `blimp down -v` is run, or a call cancelled or lost
                 \* in a crash

ASSUME VolumeAssumption ==
    /\ Volumes \subseteq Nat \ {0}
    /\ None \notin Namespaces
    /\ MaxCalls \in Nat /\ MaxTries \in Nat \ {0}
    /\ MaxUpsets \in Nat

Calls == Namespaces \X (1..MaxCalls)

VARIABLES
    pv,       \* the PersistentVolumes
    seed,     \* the seed claim of a namespace, named after it, in blimp-system
    claim,    \* the namespace's own claim
    live,     \* the namespaces that exist
    pc,       \* where a call is
    vol,      \* a call's pvName
    snapshot, \* a call's copy of the volume it is about to update
    claimed,  \* a call's claimedVolume
    tries,    \* a call's loop counter in createPersistentVolume
    deletes, aborts

vars == <<pv, seed, claim, live, pc, vol, snapshot, claimed, tries, deletes, aborts>>
callVars == <<pc, vol, snapshot, claimed, tries>>

-----------------------------------------------------------------------------
(* Kubernetes objects                                                      *)

\* A claim: its state and the volume in Spec.VolumeName.
NoClaim == [state |-> "none", volume |-> 0]
ClaimStates == [state : {"none", "pending", "bound"}, volume : Volumes \cup {0}]

\* Spec.ClaimRef: unset, a claim that is gone, or one that exists.
NoRef == <<"none", None>>
Deleted == <<"deleted", None>>
Refs == {NoRef, Deleted} \cup ({"seed", "own"} \X Namespaces)

\* A volume.  users and given are history: the namespaces that had it mounted,
\* and whether `blimp down -v` has given it up.
NoVolume == [phase |-> "none", ref |-> NoRef, label |-> None, policy |-> "Delete",
             users |-> {}, given |-> FALSE]
Gone == [NoVolume EXCEPT !.phase = "gone"]    \* names are not used again
VolumeStates ==
    [phase : {"none", "Available", "Bound", "Released", "gone"}, ref : Refs,
     label : Namespaces \cup {None}, policy : {"Delete", "Retain"},
     users : SUBSET Namespaces, given : BOOLEAN]

CallStates == {"idle", "list", "release", "seed", "awaitSeed", "retain",
               "deleteSeed", "awaitRelease", "claim", "update", "create",
               "awaitBound", "giveUp", "deleteClaim", "deleteNamespace"}

Exists(v) == v \in Volumes /\ pv[v].phase \notin {"none", "gone"}

\* The claim at ref is gone: its volume will be reclaimed.
Orphan(vs, ref) ==
    [v \in Volumes |-> IF vs[v].ref = ref THEN [vs[v] EXCEPT !.ref = Deleted]
                                          ELSE vs[v]]

Init ==
    /\ pv = [v \in Volumes |-> NoVolume]
    /\ seed = [n \in Namespaces |-> NoClaim]
    /\ claim = [n \in Namespaces |-> NoClaim]
    /\ live = {}
    /\ pc = [c \in Calls |-> "idle"]
    /\ vol = [c \in Calls |-> 0]
    /\ snapshot = [c \in Calls |-> NoVolume]
    /\ claimed = [c \in Calls |-> FALSE]
    /\ tries = [c \in Calls |-> 0]
    /\ deletes = 0 /\ aborts = 0

Goto(c, label) == pc' = [pc EXCEPT ![c] = label]

\* A call that is over forgets its locals.
Done(c) ==
    /\ Goto(c, "idle")
    /\ vol' = [vol EXCEPT ![c] = 0]
    /\ snapshot' = [snapshot EXCEPT ![c] = NoVolume]
    /\ claimed' = [claimed EXCEPT ![c] = FALSE]
    /\ tries' = [tries EXCEPT ![c] = 0]

-----------------------------------------------------------------------------
(* Kubernetes' volume controller                                           *)

Bind(v, ref) == pv' = [pv EXCEPT ![v].ref = ref, ![v].phase = "Bound"]

\* A seed claim names no volume: any Available one will do, ...
BindSeed(n, v) ==
    /\ seed[n].state = "pending"
    /\ pv[v].phase = "Available"
    /\ Bind(v, <<"seed", n>>)
    /\ seed' = [seed EXCEPT ![n] = [state |-> "bound", volume |-> v]]
    /\ UNCHANGED <<claim, live, callVars, deletes, aborts>>

\* ... or a new one is provisioned.
Provision(n, v) ==
    /\ seed[n].state = "pending"
    /\ pv[v].phase = "none"
    /\ \A u \in Volumes : u < v => pv[u].phase # "none"
    /\ pv' = [pv EXCEPT ![v] = [NoVolume EXCEPT !.phase = "Bound",
                                                !.ref = <<"seed", n>>]]
    /\ seed' = [seed EXCEPT ![n] = [state |-> "bound", volume |-> v]]
    /\ UNCHANGED <<claim, live, callVars, deletes, aborts>>

\* The namespace's claim names its volume; its pods then mount the volume.
BindClaim(n) ==
    LET v == claim[n].volume IN
    /\ claim[n].state = "pending"
    /\ v \in Volumes /\ pv[v].phase = "Available"
    /\ pv' = [pv EXCEPT ![v].ref = <<"own", n>>, ![v].phase = "Bound",
                        ![v].users = @ \cup {n}]
    /\ claim' = [claim EXCEPT ![n].state = "bound"]
    /\ UNCHANGED <<seed, live, callVars, deletes, aborts>>

\* The claim of a volume is gone: the reclaim policy decides.
Reclaim(v) ==
    /\ pv[v].phase \in {"Bound", "Released"}
    /\ pv[v].ref = Deleted
    /\ IF pv[v].policy = "Delete"
         THEN pv' = [pv EXCEPT ![v] = Gone]
         ELSE pv[v].phase = "Bound" /\ pv' = [pv EXCEPT ![v].phase = "Released"]
    /\ UNCHANGED <<seed, claim, live, callVars, deletes, aborts>>

-----------------------------------------------------------------------------
(* CreatePVC                                                               *)

\* createNamespace, then CreatePVC: there is no claim yet.
Begin(c) ==
    LET n == c[1] IN
    /\ pc[c] = "idle"
    /\ claim[n].state = "none"
    /\ live' = live \cup {n}
    /\ Goto(c, "list")
    /\ UNCHANGED <<pv, seed, claim, vol, snapshot, claimed, tries, deletes, aborts>>

\* Fault: only volumes that a claim has let go of are found.
ListReleased(c) ==
    LET mine == {v \in Volumes : pv[v].phase = "Released" /\ pv[v].label = c[1]} IN
    /\ pc[c] = "list"
    /\ \/ mine = {} /\ Goto(c, "seed") /\ UNCHANGED vol
       \/ \E first \in mine :
            /\ \A v \in mine : first <= v
            /\ vol' = [vol EXCEPT ![c] = first]
            /\ Goto(c, "release")
    /\ UNCHANGED <<pv, seed, claim, live, snapshot, claimed, tries, deletes, aborts>>

\* getPersistentVolume: the first volume with the namespace's label, if any.
List(c) ==
    LET mine == {v \in Volumes : Exists(v) /\ pv[v].label = c[1]} IN
    /\ pc[c] = "list"
    /\ \/ mine = {} /\ Goto(c, "seed") /\ UNCHANGED vol
       \/ \E first \in mine :
            /\ \A v \in mine : first <= v
            /\ vol' = [vol EXCEPT ![c] = first]
            /\ Goto(c, IF pv[first].phase = "Released" THEN "release" ELSE "create")
    /\ UNCHANGED <<pv, seed, claim, live, snapshot, claimed, tries, deletes, aborts>>

\* makeAvailable: the volume without its ClaimRef, unless it is bound.
MakeAvailable(p) == [p EXCEPT !.ref = NoRef, !.phase = "Available"]

\* updatePersistentVolume(makeAvailable) on the namespace's Released volume.
Release(c) ==
    /\ pc[c] = "release"
    /\ pv' = IF Exists(vol[c]) /\ pv[vol[c]].phase # "Bound"
               THEN [pv EXCEPT ![vol[c]] = MakeAvailable(@)] ELSE pv
    /\ Goto(c, "create")
    /\ UNCHANGED <<seed, claim, live, vol, snapshot, claimed, tries, deletes, aborts>>

\* createPersistentVolume: create the seed claim, or find it there.
CreateSeed(c) ==
    LET n == c[1] IN
    /\ pc[c] = "seed"
    /\ seed' = IF seed[n].state = "none"
                 THEN [seed EXCEPT ![n].state = "pending"] ELSE seed
    /\ Goto(c, "awaitSeed")
    /\ UNCHANGED <<pv, claim, live, vol, snapshot, claimed, tries, deletes, aborts>>

\* WaitForObject: the seed claim has a volume.
SeedBound(c) ==
    LET n == c[1] IN
    /\ pc[c] = "awaitSeed"
    /\ seed[n].state = "bound"
    /\ vol' = [vol EXCEPT ![c] = seed[n].volume]
    /\ Goto(c, "retain")
    /\ UNCHANGED <<pv, seed, claim, live, snapshot, claimed, tries, deletes, aborts>>

\* The volume must survive its seed claim.
Retain(c) ==
    /\ pc[c] = "retain"
    /\ pv' = IF Exists(vol[c]) THEN [pv EXCEPT ![vol[c]].policy = "Retain"] ELSE pv
    /\ Goto(c, "deleteSeed")
    /\ UNCHANGED <<seed, claim, live, vol, snapshot, claimed, tries, deletes, aborts>>

\* Delete the seed claim; the call fails if another of the namespace already did.
DeleteSeed(c) ==
    LET n == c[1] IN
    /\ pc[c] = "deleteSeed"
    /\ seed' = [seed EXCEPT ![n] = NoClaim]
    /\ pv' = Orphan(pv, <<"seed", n>>)
    /\ IF seed[n].state = "none"
         THEN Done(c)
         ELSE Goto(c, "awaitRelease") /\ UNCHANGED <<vol, snapshot, claimed, tries>>
    /\ UNCHANGED <<claim, live, deletes, aborts>>

\* WaitForObject: the volume is Released.
SeedReleased(c) ==
    /\ pc[c] = "awaitRelease"
    /\ Exists(vol[c]) /\ pv[vol[c]].phase = "Released"
    /\ Goto(c, "claim")
    /\ UNCHANGED <<pv, seed, claim, live, vol, snapshot, claimed, tries, deletes, aborts>>

\* claimedVolume and the copy live as long as one body of the loop.
Forget(c) ==
    /\ claimed' = [claimed EXCEPT ![c] = FALSE]
    /\ snapshot' = [snapshot EXCEPT ![c] = NoVolume]

\* The rest of the loop's body: return the volume or try another seed.
NextTry(c, mine) ==
    \/ mine /\ Goto(c, "create") /\ UNCHANGED <<vol, tries>>
    \/ /\ ~mine /\ tries[c] + 1 < MaxTries
       /\ Goto(c, "seed")
       /\ tries' = [tries EXCEPT ![c] = @ + 1]
       /\ UNCHANGED vol
    \/ /\ ~mine /\ tries[c] + 1 >= MaxTries
       /\ Goto(c, "idle")
       /\ vol' = [vol EXCEPT ![c] = 0]
       /\ tries' = [tries EXCEPT ![c] = 0]

\* updatePersistentVolume reads the volume and the closure runs on the copy:
\* claimedVolume is set even if makeAvailable then gives the update up.
ReadForClaim(c) ==
    LET v == vol[c]
        mine == claimed[c] \/ (Exists(v) /\ pv[v].label = None)
    IN
    /\ pc[c] = "claim"
    /\ IF Exists(v) /\ pv[v].phase # "Bound"
         THEN /\ snapshot' = [snapshot EXCEPT ![c] = pv[v]]
              /\ claimed' = [claimed EXCEPT ![c] = mine]
              /\ Goto(c, "update")
              /\ UNCHANGED <<vol, tries>>
         ELSE NextTry(c, mine) /\ Forget(c)
    /\ UNCHANGED <<pv, seed, claim, live, deletes, aborts>>

\* Fault: the label of another namespace is overwritten.
LabelAlways(p, n) == [p EXCEPT !.label = n]

\* The closure's effect on the label.
LabelIfFree(p, n) == IF p.label = None THEN [p EXCEPT !.label = n] ELSE p

\* Fault: a volume of another namespace is left as it is.
UpdateForClaimIfMine(c) ==
    /\ pc[c] = "update"
    /\ pv[vol[c]] = snapshot[c]
    /\ pv' = IF claimed[c]
               THEN [pv EXCEPT ![vol[c]] = MakeAvailable(LabelIfFree(@, c[1]))]
               ELSE pv
    /\ NextTry(c, claimed[c])
    /\ Forget(c)
    /\ UNCHANGED <<seed, claim, live, deletes, aborts>>

\* The update goes through if the volume has not changed since it was read.
UpdateForClaim(c) ==
    /\ pc[c] = "update"
    /\ pv[vol[c]] = snapshot[c]
    /\ pv' = [pv EXCEPT ![vol[c]] = MakeAvailable(LabelIfFree(@, c[1]))]
    /\ NextTry(c, claimed[c])
    /\ Forget(c)
    /\ UNCHANGED <<seed, claim, live, deletes, aborts>>

\* RetryOnConflict: read again; claimedVolume keeps its value.
ClaimConflicts(c) ==
    /\ pc[c] = "update"
    /\ Exists(vol[c]) /\ pv[vol[c]] # snapshot[c]
    /\ Goto(c, "claim")
    /\ snapshot' = [snapshot EXCEPT ![c] = NoVolume]
    /\ UNCHANGED <<pv, seed, claim, live, vol, claimed, tries, deletes, aborts>>

\* The volume is gone since it was read: the update, and the call, fail.
ClaimFails(c) ==
    /\ pc[c] = "update"
    /\ ~Exists(vol[c])
    /\ Done(c)
    /\ UNCHANGED <<pv, seed, claim, live, deletes, aborts>>

\* Create the namespace's claim with VolumeName, or find it there; the call
\* fails if the namespace was deleted meanwhile.
CreateClaim(c) ==
    LET n == c[1] IN
    /\ pc[c] = "create"
    /\ IF n \in live
         THEN /\ claim' = IF claim[n].state = "none"
                            THEN [claim EXCEPT ![n] = [state |-> "pending",
                                                       volume |-> vol[c]]]
                            ELSE claim
              /\ Goto(c, "awaitBound")
              /\ UNCHANGED <<vol, snapshot, claimed, tries>>
         ELSE Done(c) /\ UNCHANGED claim
    /\ UNCHANGED <<pv, seed, live, deletes, aborts>>

\* WaitForObject: the claim is bound, CreatePVC returns.
ClaimBound(c) ==
    /\ pc[c] = "awaitBound"
    /\ claim[c[1]].state = "bound"
    /\ Done(c)
    /\ UNCHANGED <<pv, seed, claim, live, deletes, aborts>>

\* The request's context is cancelled, or the cluster controller crashes.
Abort(c) ==
    /\ deletes + aborts < MaxUpsets
    /\ pc[c] # "idle"
    /\ Done(c)
    /\ aborts' = aborts + 1
    /\ UNCHANGED <<pv, seed, claim, live, deletes>>

-----------------------------------------------------------------------------
(* DeleteSandbox                                                           *)

\* `blimp down`: the namespace is deleted, and its claim with it.
Down(n) ==
    /\ n \in live
    /\ live' = live \ {n}
    /\ claim' = [claim EXCEPT ![n] = NoClaim]
    /\ pv' = Orphan(pv, <<"own", n>>)
    /\ UNCHANGED <<seed, callVars, deletes, aborts>>

\* `blimp down -v`, PermanentlyDeletePVC: read the claim, ...
DownVolumes(c) ==
    LET n == c[1] IN
    /\ deletes + aborts < MaxUpsets
    /\ pc[c] = "idle"
    /\ n \in live
    /\ claim[n].state # "none"
    /\ deletes' = deletes + 1
    /\ vol' = [vol EXCEPT ![c] = claim[n].volume]
    /\ Goto(c, "giveUp")
    /\ UNCHANGED <<pv, seed, claim, live, snapshot, claimed, tries, aborts>>

\* Fault: the reclaim policy stays.
GiveUpKeepsPolicy(c) ==
    /\ pc[c] = "giveUp"
    /\ pv' = IF Exists(vol[c])
               THEN [pv EXCEPT ![vol[c]].label = None, ![vol[c]].given = TRUE]
               ELSE pv
    /\ Goto(c, "deleteClaim")
    /\ UNCHANGED <<seed, claim, live, vol, snapshot, claimed, tries, deletes, aborts>>

\* ... take the label off and let Kubernetes delete the volume, ...
GiveUp(c) ==
    /\ pc[c] = "giveUp"
    /\ pv' = IF Exists(vol[c])
               THEN [pv EXCEPT ![vol[c]].label = None, ![vol[c]].policy = "Delete",
                               ![vol[c]].given = TRUE]
               ELSE pv
    /\ Goto(c, "deleteClaim")
    /\ UNCHANGED <<seed, claim, live, vol, snapshot, claimed, tries, deletes, aborts>>

\* ... delete the claim (an error if it is gone by now), ...
DeleteClaim(c) ==
    LET n == c[1] IN
    /\ pc[c] = "deleteClaim"
    /\ claim[n].state # "none"
    /\ claim' = [claim EXCEPT ![n] = NoClaim]
    /\ pv' = Orphan(pv, <<"own", n>>)
    /\ Goto(c, "deleteNamespace")
    /\ UNCHANGED <<seed, live, vol, snapshot, claimed, tries, deletes, aborts>>

DeleteClaimFails(c) ==
    /\ pc[c] = "deleteClaim"
    /\ claim[c[1]].state = "none"
    /\ Done(c)
    /\ UNCHANGED <<pv, seed, claim, live, deletes, aborts>>

\* ... and then the namespace with whatever claim it has.
DeleteNamespace(c) ==
    LET n == c[1] IN
    /\ pc[c] = "deleteNamespace"
    /\ live' = live \ {n}
    /\ claim' = [claim EXCEPT ![n] = NoClaim]
    /\ pv' = Orphan(pv, <<"own", n>>)
    /\ Done(c)
    /\ UNCHANGED <<seed, deletes, aborts>>

-----------------------------------------------------------------------------
CallStep(c) ==
    \/ List(c) \/ Release(c) \/ CreateSeed(c) \/ SeedBound(c) \/ Retain(c)
    \/ DeleteSeed(c) \/ SeedReleased(c) \/ ReadForClaim(c)
    \/ UpdateForClaim(c) \/ ClaimConflicts(c) \/ ClaimFails(c) \/ CreateClaim(c) \/ ClaimBound(c)
    \/ GiveUp(c) \/ DeleteClaim(c) \/ DeleteClaimFails(c) \/ DeleteNamespace(c)

ControllerStep ==
    \/ \E n \in Namespaces : BindClaim(n)
    \/ \E n \in Namespaces, v \in Volumes : BindSeed(n, v) \/ Provision(n, v)
    \/ \E v \in Volumes : Reclaim(v)

Next ==
    \/ \E c \in Calls : CallStep(c) \/ Begin(c) \/ Abort(c) \/ DownVolumes(c)
    \/ \E n \in Namespaces : Down(n)
    \/ ControllerStep

Spec == Init /\ [][Next]_vars

\* The controllers keep working and a call that can go on does: WaitForObject
\* looks again every 5 seconds.  Users need not run anything.  The volume
\* controller does not put one claim off forever in favour of others that want
\* the same volume, hence the strong fairness of BindClaim.
Fairness ==
    /\ \A c \in Calls : WF_vars(CallStep(c))
    /\ \A n \in Namespaces : SF_vars(BindClaim(n))
    /\ \A n \in Namespaces : WF_vars(\E v \in Volumes : BindSeed(n, v) \/ Provision(n, v))
    /\ \A v \in Volumes : WF_vars(Reclaim(v))

FairSpec == Spec /\ Fairness

-----------------------------------------------------------------------------
(* Properties                                                              *)

TypeOK ==
    /\ pv \in [Volumes -> VolumeStates]
    /\ seed \in [Namespaces -> ClaimStates]
    /\ claim \in [Namespaces -> ClaimStates]
    /\ live \in SUBSET Namespaces
    /\ pc \in [Calls -> CallStates]
    /\ vol \in [Calls -> Volumes \cup {0}]
    /\ snapshot \in [Calls -> VolumeStates]
    /\ claimed \in [Calls -> BOOLEAN]
    /\ tries \in [Calls -> 0..(MaxTries - 1)]
    /\ deletes \in Nat /\ aborts \in Nat /\ deletes + aborts <= MaxUpsets

\* A volume "persists across `blimp down`s" (doc.go): one that carries a
\* namespace's label is retained when its claim goes, unless another
\* namespace has given it up.
LabelledIsRetained ==
    \A v \in Volumes : pv[v].label # None /\ ~pv[v].given => pv[v].policy = "Retain"

\* A volume is "uniquely attached to the user's namespace" (doc.go), and files are
\* found again: whoever has used a volume is the one whose label it carries, hence
\* the only one, whatever seeds were bound to it meanwhile, until `blimp down -v`.
UsedVolumeKeepsLabel ==
    \A v \in Volumes : ~pv[v].given => \A n \in pv[v].users : pv[v].label = n

\* getPersistentVolume's warning: several volumes of one namespace "should
\* never happen".
OneVolumePerNamespace ==
    \A n \in Namespaces : Cardinality({v \in Volumes : pv[v].label = n}) <= 1

\* Storage is not leaked: a volume that nobody owns, nobody uses and nobody is
\* about to take over is left behind only after a call was cut short or
\* `blimp down -v` was run (which may race with a call that retains the volume).
LeakNeedsUpset ==
    \A v \in Volumes :
        /\ Exists(v) /\ pv[v].label = None
        /\ pv[v].policy = "Retain" /\ pv[v].ref \in {NoRef, Deleted}
        => deletes + aborts > 0 \/ \E c \in Calls : vol[c] = v

\* The volume of a namespace: it keeps the volume it has used, with its files,
\* whatever other namespaces' seeds and `blimp down` do.
OwnVolumeIsKept == LabelledIsRetained /\ UsedVolumeKeepsLabel

\* Calls that interleave neither label two volumes nor leave one behind.
NoSurplusVolume == OneVolumePerNamespace /\ LeakNeedsUpset

\* CreatePVC "ensures that the namespace's PersistentVolumeClaim exists, and is
\* bound": a claim it waits for is bound, or the namespace is deleted.
ClaimBinds ==
    \A n \in Namespaces :
        claim[n].state = "pending" ~> claim[n].state # "pending"

\* A seed of another namespace may bind the volume that was made available for
\* a claim: createPersistentVolume notices, gives it back, and the claim is
\* bound after all (or its namespace deleted).
StolenVolumeComesBack ==
    \A n \in Namespaces :
        (/\ claim[n].state = "pending"
         /\ LET p == pv[claim[n].volume] IN
            p.phase = "Available" \/ \E m \in Namespaces : p.ref = <<"seed", m>>)
            ~> claim[n].state # "pending" \/ aborts > 0

\* `blimp down -v` "permanently deletes" (PermanentlyDeletePVC) the volume with
\* the files on it, unless it is cut short or a call of another namespace, whose
\* seed was bound to the volume, makes it available again.
GivenUpIsDeleted ==
    \A v \in Volumes :
        (pv[v].users # {} /\ pv[v].label = None)
            ~> \/ ~Exists(v) \/ aborts > 0
               \/ pv[v].phase = "Available" \/ pv[v].label # None

=============================================================================
