---------------------------- MODULE VolumeProofs ----------------------------
(***************************************************************************)
(* Theorems about Volume, for any number of namespaces, volumes, tries and *)
(* upsets.                                                                 *)
(*                                                                         *)
(* The invariant OwnInv says, volume by volume and call by call, who may   *)
(* take a volume over.  VolStep is what any step may do to one volume: it  *)
(* is shown for every action first, and what a call or a claim relies on   *)
(* then follows for all calls that the step does not move.                 *)
(***************************************************************************)
EXTENDS Volume, FiniteSetTheorems, TLAPS

\* Where a call has a volume from a seed, and where the volume is retained.
HasSeeded == {"retain", "deleteSeed", "awaitRelease", "claim", "update"}
HasRetained == {"deleteSeed", "awaitRelease", "claim", "update"}

\* A volume that nobody has owned yet.
Fresh(v) == Exists(v) /\ pv[v].label = None /\ ~pv[v].given

\* The volume of n, or one that is lost to `blimp down -v`.
BelongsTo(v, n) == pv[v].label = n \/ pv[v].given \/ pv[v].phase = "gone"

\* A volume refers to a claim only while it is Bound; a name that is not in use
\* has no owner; a volume that nobody has owned is not there for others to bind.
VolumeOK(v) ==
    /\ pv[v].phase = "Available" => pv[v].ref = NoRef
    /\ pv[v].phase = "Released" => pv[v].ref = Deleted
    /\ pv[v].phase \in {"none", "gone"} =>
          pv[v].ref = NoRef /\ pv[v].label = None /\ ~pv[v].given
    /\ Fresh(v) => pv[v].phase # "Available"

\* OwnVolumeIsKept of one volume.
KeptOK(v) ==
    /\ pv[v].label # None /\ ~pv[v].given => pv[v].policy = "Retain"
    /\ ~pv[v].given => \A n \in pv[v].users : pv[v].label = n

\* A seed and the volume it is bound to refer to each other.
SeedOK(n) ==
    seed[n].state = "bound" =>
        seed[n].volume \in Volumes /\ pv[seed[n].volume].ref = <<"seed", n>>

\* A call that has a volume from its seed retains it before it gives it a label.
RetainOK(c) ==
    /\ pc[c] \in HasSeeded => vol[c] \in Volumes /\ pv[vol[c]].phase # "none"
    /\ pc[c] \in HasRetained =>
          \/ pv[vol[c]].policy = "Retain" \/ pv[vol[c]].given
          \/ pv[vol[c]].phase = "gone"

\* A call that is about to label a fresh volume finds it Released, and a volume
\* that it takes for claimed is its namespace's, or still free for it.
TakeOK(c) ==
    /\ pc[c] \in {"claim", "update"} /\ Fresh(vol[c]) => pv[vol[c]].phase = "Released"
    /\ claimed[c] =>
          pc[c] \in {"claim", "update"} /\ (Fresh(vol[c]) \/ BelongsTo(vol[c], c[1]))
    /\ pc[c] = "update" =>
          /\ snapshot[c].phase \in {"Available", "Released"}
          /\ snapshot[c].label = None => claimed[c]

\* The volume that a call names in the namespace's claim is the namespace's.
NameOK(c) ==
    pc[c] \in {"release", "create"} => vol[c] \in Volumes /\ BelongsTo(vol[c], c[1])

\* So is the one that the claim names.
ClaimOK(n) ==
    claim[n].state # "none" =>
        claim[n].volume \in Volumes /\ BelongsTo(claim[n].volume, n)

\* Only one namespace can be about to take a fresh volume over: the one whose
\* seed is bound to it and whose calls have got it from that seed.
SoleOK(c) ==
    pc[c] \in HasSeeded /\ Fresh(vol[c]) =>
        /\ \A n \in Namespaces : pv[vol[c]].ref = <<"seed", n>> => n = c[1]
        /\ \A d \in Calls : pc[d] \in HasSeeded /\ vol[d] = vol[c] => d[1] = c[1]

CallOK(c) == RetainOK(c) /\ TakeOK(c) /\ NameOK(c)

OwnInv ==
    /\ TypeOK
    /\ \A v \in Volumes : VolumeOK(v) /\ KeptOK(v)
    /\ \A n \in Namespaces : SeedOK(n) /\ ClaimOK(n)
    /\ \A c \in Calls : CallOK(c)
    /\ \A c \in Calls : SoleOK(c)

-----------------------------------------------------------------------------
(* What a step may do to a volume                                          *)

\* Some call that has v from its seed gives v the label of its namespace.
Taken(v) == \E c \in Calls : pc[c] \in HasSeeded /\ vol[c] = v /\ pv'[v].label = c[1]

\* Volumes are not forgotten, keep their owner, and become fresh only when they
\* are provisioned.
VolStep(v) ==
    /\ pv[v].phase # "none" => pv'[v].phase # "none"
    /\ \A n \in Namespaces : BelongsTo(v, n) => BelongsTo(v, n)'
    /\ /\ pv[v].phase # "none"
       /\ pv[v].policy = "Retain" \/ pv[v].given \/ pv[v].phase = "gone"
       => pv'[v].policy = "Retain" \/ pv'[v].given \/ pv'[v].phase = "gone"
    /\ Fresh(v)' => Fresh(v) \/ pv[v].phase = "none"
    /\ Fresh(v)' /\ pv[v].phase = "Released" => pv'[v].phase = "Released"
    /\ Fresh(v) => Fresh(v)' \/ pv'[v].given \/ pv'[v].phase = "gone" \/ Taken(v)
    /\ Fresh(v) => \A n \in Namespaces :
          pv'[v].ref = <<"seed", n>> => pv[v].ref = <<"seed", n>>
    /\ VolumeOK(v)' /\ KeptOK(v)'

\* A call is the call of a namespace.
LEMMA CallOfNamespace == ASSUME NEW c \in Calls PROVE c[1] \in Namespaces
BY DEF Calls

\* The references that a volume can have are different ones.
LEMMA RefsDiffer ==
    ASSUME NEW n \in Namespaces, NEW m \in Namespaces
    PROVE  /\ NoRef # Deleted /\ NoRef # <<"seed", n>> /\ Deleted # <<"seed", n>>
           /\ <<"own", m>> # <<"seed", n>> /\ <<"own", m>> # NoRef /\ <<"own", m>> # Deleted
           /\ (<<"seed", n>> = <<"seed", m>> => n = m)
           /\ (<<"own", n>> = <<"own", m>> => n = m)
           /\ <<"seed", n>> \in Refs /\ <<"own", n>> \in Refs
BY DEF NoRef, Deleted, Refs

\* The records of claims and volumes that the steps write.
LEMMA RecordTypes ==
    /\ NoVolume \in VolumeStates /\ Gone \in VolumeStates /\ NoClaim \in ClaimStates
    /\ NoVolume.phase = "none" /\ Gone.phase = "gone" /\ NoClaim.state = "none"
    /\ NoRef \in Refs /\ Deleted \in Refs /\ NoRef # Deleted
BY DEF NoVolume, Gone, NoClaim, VolumeStates, ClaimStates, NoRef, Deleted, Refs

\* What makeAvailable and the closure of createPersistentVolume leave alone.
LEMMA AvailableFields ==
    ASSUME NEW p \in VolumeStates, NEW n \in Namespaces
    PROVE  /\ MakeAvailable(p) \in VolumeStates
           /\ MakeAvailable(p).ref = NoRef /\ MakeAvailable(p).phase = "Available"
           /\ MakeAvailable(p).label = p.label /\ MakeAvailable(p).policy = p.policy
           /\ MakeAvailable(p).users = p.users /\ MakeAvailable(p).given = p.given
           /\ LabelIfFree(p, n) \in VolumeStates
           /\ LabelIfFree(p, n).label = (IF p.label = None THEN n ELSE p.label)
           /\ LabelIfFree(p, n).policy = p.policy /\ LabelIfFree(p, n).users = p.users
           /\ LabelIfFree(p, n).given = p.given
BY RecordTypes DEF MakeAvailable, LabelIfFree, VolumeStates

\* The changes that calls and Kubernetes make to a volume.
LEMMA EditTypes ==
    ASSUME NEW p \in VolumeStates, NEW r \in Refs, NEW S \in SUBSET Namespaces
    PROVE  /\ [p EXCEPT !.policy = "Retain"] \in VolumeStates
           /\ [p EXCEPT !.ref = r] \in VolumeStates
           /\ [p EXCEPT !.ref = r, !.phase = "Bound"] \in VolumeStates
           /\ [p EXCEPT !.ref = r, !.phase = "Bound", !.users = S] \in VolumeStates
           /\ [p EXCEPT !.phase = "Released"] \in VolumeStates
           /\ [p EXCEPT !.label = None, !.policy = "Delete", !.given = TRUE] \in VolumeStates
BY DEF VolumeStates

\* A volume that a step leaves alone.
LEMMA VolSame ==
    ASSUME OwnInv, NEW v \in Volumes, pv'[v] = pv[v]
    PROVE  VolStep(v)
<1>1. VolumeOK(v) /\ KeptOK(v)
  BY DEF OwnInv
<1>2. VolumeOK(v)' /\ KeptOK(v)'
  BY <1>1 DEF VolumeOK, KeptOK, Fresh, Exists
<1> QED
  BY <1>2 DEF VolStep, BelongsTo, Fresh, Exists

\* A volume that loses its claim.
LEMMA VolOrphan ==
    ASSUME OwnInv, NEW ref \in {"seed", "own"} \X Namespaces, pv' = Orphan(pv, ref),
           NEW v \in Volumes
    PROVE  VolStep(v)
<1>1. VolumeOK(v) /\ KeptOK(v) /\ pv[v] \in VolumeStates
  BY DEF OwnInv, TypeOK
<1>2. pv'[v] = IF pv[v].ref = ref THEN [pv[v] EXCEPT !.ref = Deleted] ELSE pv[v]
  BY DEF Orphan
<1>3. CASE pv[v].ref = ref
  <2>1. /\ pv'[v].ref = Deleted /\ pv'[v].phase = pv[v].phase /\ pv'[v].label = pv[v].label
        /\ pv'[v].policy = pv[v].policy /\ pv'[v].users = pv[v].users
        /\ pv'[v].given = pv[v].given
    BY <1>1, <1>2, <1>3 DEF VolumeStates
  <2>2. pv[v].phase \notin {"Available", "Released", "none", "gone"}
    BY <1>1, <1>3, RefsDiffer DEF VolumeOK, NoRef, Deleted
  <2>3. VolumeOK(v)' /\ KeptOK(v)'
    BY <1>1, <2>1, <2>2 DEF VolumeOK, KeptOK, Fresh, Exists
  <2> QED
    BY <2>1, <2>3, RefsDiffer DEF VolStep, BelongsTo, Fresh, Exists
<1> QED
  BY <1>2, <1>3, VolSame

\* A volume that a seed is bound to is Bound.
LEMMA SeededIsBound ==
    ASSUME OwnInv, NEW v \in Volumes, NEW n \in Namespaces, pv[v].ref = <<"seed", n>>
    PROVE  pv[v].phase = "Bound"
<1>1. VolumeOK(v) /\ pv[v] \in VolumeStates
  BY DEF OwnInv, TypeOK
<1> QED
  BY <1>1, RefsDiffer DEF VolumeOK, VolumeStates

-----------------------------------------------------------------------------
(* What follows for calls and claims                                       *)

\* A call that a step leaves where it is.
LEMMA CallSame ==
    ASSUME OwnInv, \A v \in Volumes : VolStep(v), NEW d \in Calls,
           pc'[d] = pc[d], vol'[d] = vol[d], claimed'[d] = claimed[d],
           snapshot'[d] = snapshot[d]
    PROVE  CallOK(d)'
<1>1. CallOK(d) /\ SoleOK(d) /\ d[1] \in Namespaces
  BY CallOfNamespace DEF OwnInv
<1>2. RetainOK(d)'
  BY <1>1 DEF CallOK, RetainOK, VolStep, HasSeeded, HasRetained
<1>3. NameOK(d)'
  BY <1>1 DEF CallOK, NameOK, VolStep
<1>4. TakeOK(d)'
  <2>1. ASSUME pc'[d] \in {"claim", "update"}, Fresh(vol[d])'
        PROVE  pv'[vol'[d]].phase = "Released"
    BY <1>1, <2>1 DEF CallOK, RetainOK, TakeOK, VolStep, HasSeeded, Fresh, Exists
  <2>2. ASSUME claimed'[d]
        PROVE  pc'[d] \in {"claim", "update"} /\ (Fresh(vol[d])' \/ BelongsTo(vol[d], d[1])')
    <3>1. pc[d] \in {"claim", "update"} /\ (Fresh(vol[d]) \/ BelongsTo(vol[d], d[1]))
      BY <1>1, <2>2 DEF CallOK, TakeOK
    <3>2. vol[d] \in Volumes /\ pc[d] \in HasSeeded
      BY <1>1, <3>1 DEF CallOK, RetainOK, HasSeeded
    <3>3. CASE Fresh(vol[d]) /\ Taken(vol[d])
      <4>1. PICK c \in Calls : pc[c] \in HasSeeded /\ vol[c] = vol[d]
                                  /\ pv'[vol[d]].label = c[1]
        BY <3>3 DEF Taken
      <4>2. c[1] = d[1]
        BY <1>1, <3>2, <3>3, <4>1 DEF SoleOK
      <4> QED
        BY <3>1, <4>1, <4>2 DEF BelongsTo
    <3> QED
      BY <1>1, <3>1, <3>2, <3>3 DEF VolStep, BelongsTo, Fresh, Exists
  <2> QED
    BY <1>1, <2>1, <2>2 DEF CallOK, TakeOK, Fresh, Exists, BelongsTo
<1> QED
  BY <1>2, <1>3, <1>4 DEF CallOK

\* No call gets a volume from its seed in the step.
LEMMA SoleSame ==
    ASSUME OwnInv, \A v \in Volumes : VolStep(v),
           \A d \in Calls : pc'[d] \in HasSeeded => pc[d] \in HasSeeded /\ vol'[d] = vol[d]
    PROVE  \A d \in Calls : SoleOK(d)'
<1> SUFFICES ASSUME NEW c \in Calls, pc'[c] \in HasSeeded, Fresh(vol[c])'
             PROVE  /\ \A n \in Namespaces : pv'[vol'[c]].ref = <<"seed", n>> => n = c[1]
                    /\ \A d \in Calls : pc'[d] \in HasSeeded /\ vol'[d] = vol'[c] => d[1] = c[1]
  BY DEF SoleOK
<1>1. pc[c] \in HasSeeded /\ vol'[c] = vol[c]
  OBVIOUS
<1>2. vol[c] \in Volumes /\ pv[vol[c]].phase # "none" /\ SoleOK(c)
  BY <1>1 DEF OwnInv, CallOK, RetainOK
<1>3. VolStep(vol[c])
  BY <1>2
<1>4. Fresh(vol[c])
  BY <1>1, <1>2, <1>3 DEF VolStep, Fresh, Exists
<1>5. \A n \in Namespaces : pv'[vol'[c]].ref = <<"seed", n>> => n = c[1]
  BY <1>1, <1>2, <1>3, <1>4 DEF VolStep, SoleOK
<1>6. \A d \in Calls : pc'[d] \in HasSeeded /\ vol'[d] = vol'[c] => d[1] = c[1]
  BY <1>1, <1>2, <1>4 DEF SoleOK
<1> QED
  BY <1>5, <1>6

\* A claim that a step leaves alone, binds or deletes.
LEMMA ClaimSame ==
    ASSUME OwnInv, \A v \in Volumes : VolStep(v), NEW n \in Namespaces,
           \/ claim'[n].state = "none"
           \/ claim[n].state # "none" /\ claim'[n].volume = claim[n].volume
    PROVE  ClaimOK(n)'
BY DEF OwnInv, ClaimOK, VolStep

\* The seeds and what they are bound to stay.
LEMMA SeedSame ==
    ASSUME OwnInv, NEW n \in Namespaces,
           \/ seed'[n].state # "bound"
           \/ /\ seed'[n] = seed[n]
              /\ \A v \in Volumes : pv[v].ref = <<"seed", n>> => pv'[v].ref = <<"seed", n>>
    PROVE  SeedOK(n)'
BY DEF OwnInv, SeedOK

\* The parts of OwnInv in the next state.
LEMMA OwnParts ==
    ASSUME TypeOK', \A v \in Volumes : VolStep(v), \A n \in Namespaces : SeedOK(n)',
           \A n \in Namespaces : ClaimOK(n)', \A c \in Calls : CallOK(c)',
           \A c \in Calls : SoleOK(c)'
    PROVE  OwnInv' /\ \A v \in Volumes : VolStep(v)
BY DEF OwnInv, VolStep
-----------------------------------------------------------------------------
(* The steps                                                               *)

\* CreatePVC begins.
LEMMA BeginKeeps ==
    ASSUME OwnInv, NEW c \in Calls, Begin(c)
    PROVE  OwnInv' /\ \A v \in Volumes : VolStep(v)
<1>0. OwnInv /\ TypeOK
  BY DEF OwnInv
<1>1. TypeOK'
  <2>1. pv' \in [Volumes -> VolumeStates]
    BY <1>0 DEF TypeOK, Begin, Goto
  <2>2. /\ seed' \in [Namespaces -> ClaimStates] /\ claim' \in [Namespaces -> ClaimStates]
        /\ live' \in SUBSET Namespaces
    BY <1>0, RecordTypes, CallOfNamespace DEF TypeOK, ClaimStates, Begin, Goto
  <2>3. pc' \in [Calls -> CallStates]
    BY <1>0 DEF TypeOK, CallStates, Begin, Goto
  <2>4. vol' \in [Calls -> Volumes \cup {0}]
    BY <1>0 DEF TypeOK, Begin, Goto
  <2>8. snapshot' \in [Calls -> VolumeStates]
    BY <1>0, RecordTypes DEF TypeOK, Begin, Goto
  <2>5. claimed' \in [Calls -> BOOLEAN]
    BY <1>0 DEF TypeOK, Begin, Goto
  <2>7. tries' \in [Calls -> 0..(MaxTries - 1)]
    BY <1>0, VolumeAssumption DEF TypeOK, Begin, Goto
  <2>6. deletes' \in Nat /\ aborts' \in Nat /\ deletes' + aborts' <= MaxUpsets
    BY <1>0, VolumeAssumption DEF TypeOK, Begin, Goto
  <2> QED
    BY <2>1, <2>2, <2>3, <2>4, <2>5, <2>6, <2>7, <2>8 DEF TypeOK
<1>2. \A v \in Volumes : VolStep(v)
  BY <1>0, VolSame DEF Begin, Goto
<1>3. \A n \in Namespaces : SeedOK(n)'
  BY <1>0, SeedSame DEF Begin, Goto
<1>4. \A n \in Namespaces : ClaimOK(n)'
  BY <1>0, <1>2, ClaimSame DEF TypeOK, Begin, Goto
<1>5. \A d \in Calls : CallOK(d)'
  <2>1. ASSUME NEW d \in Calls, d # c PROVE CallOK(d)'
    <3>1. pc'[d] = pc[d] /\ vol'[d] = vol[d] /\ claimed'[d] = claimed[d]
             /\ snapshot'[d] = snapshot[d]
      BY <1>0, <2>1 DEF TypeOK, Begin, Goto
    <3> QED
      BY <1>0, <1>2, <3>1, CallSame
  <2>2. CallOK(c)'
    BY <1>0, <1>2
      DEF OwnInv, CallOK, RetainOK, TakeOK, NameOK, HasSeeded, HasRetained, TypeOK, Begin,
         Goto
  <2> QED
    BY <2>1, <2>2
<1>6. \A d \in Calls : SoleOK(d)'
  <2>1. \A d \in Calls : pc'[d] \in HasSeeded => pc[d] \in HasSeeded /\ vol'[d] = vol[d]
    BY <1>0 DEF TypeOK, HasSeeded, Begin, Goto
  <2> QED
    BY <1>0, <1>2, <2>1, SoleSame
<1> QED
  BY <1>1, <1>2, <1>3, <1>4, <1>5, <1>6, OwnParts

\* getPersistentVolume finds the volume with the label of the namespace.
LEMMA ListKeeps ==
    ASSUME OwnInv, NEW c \in Calls, List(c)
    PROVE  OwnInv' /\ \A v \in Volumes : VolStep(v)
<1>0. OwnInv /\ TypeOK
  BY DEF OwnInv
<1>1. TypeOK'
  <2>1. pv' \in [Volumes -> VolumeStates]
    BY <1>0 DEF TypeOK, List, Goto
  <2>2. /\ seed' \in [Namespaces -> ClaimStates] /\ claim' \in [Namespaces -> ClaimStates]
        /\ live' \in SUBSET Namespaces
    BY <1>0, RecordTypes, CallOfNamespace DEF TypeOK, ClaimStates, List, Goto
  <2>3. pc' \in [Calls -> CallStates]
    BY <1>0 DEF TypeOK, CallStates, List, Goto
  <2>4. vol' \in [Calls -> Volumes \cup {0}]
    BY <1>0 DEF TypeOK, List, Goto
  <2>8. snapshot' \in [Calls -> VolumeStates]
    BY <1>0, RecordTypes DEF TypeOK, List, Goto
  <2>5. claimed' \in [Calls -> BOOLEAN]
    BY <1>0 DEF TypeOK, List, Goto
  <2>7. tries' \in [Calls -> 0..(MaxTries - 1)]
    BY <1>0, VolumeAssumption DEF TypeOK, List, Goto
  <2>6. deletes' \in Nat /\ aborts' \in Nat /\ deletes' + aborts' <= MaxUpsets
    BY <1>0, VolumeAssumption DEF TypeOK, List, Goto
  <2> QED
    BY <2>1, <2>2, <2>3, <2>4, <2>5, <2>6, <2>7, <2>8 DEF TypeOK
<1>2. \A v \in Volumes : VolStep(v)
  BY <1>0, VolSame DEF List, Goto
<1>3. \A n \in Namespaces : SeedOK(n)'
  BY <1>0, SeedSame DEF List, Goto
<1>4. \A n \in Namespaces : ClaimOK(n)'
  BY <1>0, <1>2, ClaimSame DEF TypeOK, List, Goto
<1>5. \A d \in Calls : CallOK(d)'
  <2>1. ASSUME NEW d \in Calls, d # c PROVE CallOK(d)'
    <3>1. pc'[d] = pc[d] /\ vol'[d] = vol[d] /\ claimed'[d] = claimed[d]
             /\ snapshot'[d] = snapshot[d]
      BY <1>0, <2>1 DEF TypeOK, List, Goto
    <3> QED
      BY <1>0, <1>2, <3>1, CallSame
  <2>2. CallOK(c)'
    BY <1>0, <1>2
      DEF OwnInv, CallOK, RetainOK, TakeOK, NameOK, HasSeeded, HasRetained, BelongsTo,
         Exists, TypeOK, List, Goto
  <2> QED
    BY <2>1, <2>2
<1>6. \A d \in Calls : SoleOK(d)'
  <2>1. \A d \in Calls : pc'[d] \in HasSeeded => pc[d] \in HasSeeded /\ vol'[d] = vol[d]
    BY <1>0 DEF TypeOK, HasSeeded, List, Goto
  <2> QED
    BY <1>0, <1>2, <2>1, SoleSame
<1> QED
  BY <1>1, <1>2, <1>3, <1>4, <1>5, <1>6, OwnParts

\* The seed claim is made, or is there.
LEMMA CreateSeedKeeps ==
    ASSUME OwnInv, NEW c \in Calls, CreateSeed(c)
    PROVE  OwnInv' /\ \A v \in Volumes : VolStep(v)
<1>0. OwnInv /\ TypeOK
  BY DEF OwnInv
<1>1. TypeOK'
  <2>1. pv' \in [Volumes -> VolumeStates]
    BY <1>0 DEF TypeOK, CreateSeed, Goto
  <2>2. /\ seed' \in [Namespaces -> ClaimStates] /\ claim' \in [Namespaces -> ClaimStates]
        /\ live' \in SUBSET Namespaces
    BY <1>0, RecordTypes, CallOfNamespace DEF TypeOK, ClaimStates, CreateSeed, Goto
  <2>3. pc' \in [Calls -> CallStates]
    BY <1>0 DEF TypeOK, CallStates, CreateSeed, Goto
  <2>4. vol' \in [Calls -> Volumes \cup {0}]
    BY <1>0 DEF TypeOK, CreateSeed, Goto
  <2>8. snapshot' \in [Calls -> VolumeStates]
    BY <1>0, RecordTypes DEF TypeOK, CreateSeed, Goto
  <2>5. claimed' \in [Calls -> BOOLEAN]
    BY <1>0 DEF TypeOK, CreateSeed, Goto
  <2>7. tries' \in [Calls -> 0..(MaxTries - 1)]
    BY <1>0, VolumeAssumption DEF TypeOK, CreateSeed, Goto
  <2>6. deletes' \in Nat /\ aborts' \in Nat /\ deletes' + aborts' <= MaxUpsets
    BY <1>0, VolumeAssumption DEF TypeOK, CreateSeed, Goto
  <2> QED
    BY <2>1, <2>2, <2>3, <2>4, <2>5, <2>6, <2>7, <2>8 DEF TypeOK
<1>2. \A v \in Volumes : VolStep(v)
  BY <1>0, VolSame DEF CreateSeed, Goto
<1>3. \A n \in Namespaces : SeedOK(n)'
  BY <1>0, SeedSame, CallOfNamespace DEF CreateSeed, TypeOK, ClaimStates
<1>4. \A n \in Namespaces : ClaimOK(n)'
  BY <1>0, <1>2, ClaimSame DEF TypeOK, CreateSeed, Goto
<1>5. \A d \in Calls : CallOK(d)'
  <2>1. ASSUME NEW d \in Calls, d # c PROVE CallOK(d)'
    <3>1. pc'[d] = pc[d] /\ vol'[d] = vol[d] /\ claimed'[d] = claimed[d]
             /\ snapshot'[d] = snapshot[d]
      BY <1>0, <2>1 DEF TypeOK, CreateSeed, Goto
    <3> QED
      BY <1>0, <1>2, <3>1, CallSame
  <2>2. CallOK(c)'
    BY <1>0, <1>2
      DEF OwnInv, CallOK, RetainOK, TakeOK, NameOK, HasSeeded, HasRetained, TypeOK,
         CreateSeed, Goto
  <2> QED
    BY <2>1, <2>2
<1>6. \A d \in Calls : SoleOK(d)'
  <2>1. \A d \in Calls : pc'[d] \in HasSeeded => pc[d] \in HasSeeded /\ vol'[d] = vol[d]
    BY <1>0 DEF TypeOK, HasSeeded, CreateSeed, Goto
  <2> QED
    BY <1>0, <1>2, <2>1, SoleSame
<1> QED
  BY <1>1, <1>2, <1>3, <1>4, <1>5, <1>6, OwnParts

\* The volume of the seed is for this namespace only, if it is fresh.
LEMMA SeedBoundKeeps ==
    ASSUME OwnInv, NEW c \in Calls, SeedBound(c)
    PROVE  OwnInv' /\ \A v \in Volumes : VolStep(v)
<1>0. OwnInv /\ TypeOK
  BY DEF OwnInv
<1>a. /\ c[1] \in Namespaces /\ vol'[c] = seed[c[1]].volume /\ pc'[c] = "retain" /\ pv' = pv
      /\ seed[c[1]].volume \in Volumes /\ pv[seed[c[1]].volume].ref = <<"seed", c[1]>>
      /\ \A d \in Calls \ {c} : vol'[d] = vol[d] /\ pc'[d] = pc[d]
  BY <1>0, CallOfNamespace DEF OwnInv, SeedOK, SeedBound, Goto, TypeOK
<1>1. TypeOK'
  <2>1. pv' \in [Volumes -> VolumeStates]
    BY <1>0 DEF TypeOK, SeedBound, Goto
  <2>2. /\ seed' \in [Namespaces -> ClaimStates] /\ claim' \in [Namespaces -> ClaimStates]
        /\ live' \in SUBSET Namespaces
    BY <1>0, RecordTypes, CallOfNamespace DEF TypeOK, ClaimStates, SeedBound, Goto
  <2>3. pc' \in [Calls -> CallStates]
    BY <1>0 DEF TypeOK, CallStates, SeedBound, Goto
  <2>4. vol' \in [Calls -> Volumes \cup {0}]
    BY <1>0, CallOfNamespace DEF TypeOK, ClaimStates, SeedBound, Goto
  <2>8. snapshot' \in [Calls -> VolumeStates]
    BY <1>0, RecordTypes DEF TypeOK, SeedBound, Goto
  <2>5. claimed' \in [Calls -> BOOLEAN]
    BY <1>0 DEF TypeOK, SeedBound, Goto
  <2>7. tries' \in [Calls -> 0..(MaxTries - 1)]
    BY <1>0, VolumeAssumption DEF TypeOK, SeedBound, Goto
  <2>6. deletes' \in Nat /\ aborts' \in Nat /\ deletes' + aborts' <= MaxUpsets
    BY <1>0, VolumeAssumption DEF TypeOK, SeedBound, Goto
  <2> QED
    BY <2>1, <2>2, <2>3, <2>4, <2>5, <2>6, <2>7, <2>8 DEF TypeOK
<1>2. \A v \in Volumes : VolStep(v)
  BY <1>0, VolSame DEF SeedBound, Goto
<1>3. \A n \in Namespaces : SeedOK(n)'
  BY <1>0, SeedSame DEF SeedBound, Goto
<1>4. \A n \in Namespaces : ClaimOK(n)'
  BY <1>0, <1>2, ClaimSame DEF TypeOK, SeedBound, Goto
<1>5. \A d \in Calls : CallOK(d)'
  <2>1. ASSUME NEW d \in Calls, d # c PROVE CallOK(d)'
    <3>1. pc'[d] = pc[d] /\ vol'[d] = vol[d] /\ claimed'[d] = claimed[d]
             /\ snapshot'[d] = snapshot[d]
      BY <1>0, <2>1 DEF TypeOK, SeedBound, Goto
    <3> QED
      BY <1>0, <1>2, <3>1, CallSame
  <2>2. CallOK(c)'
    <3>1. pv[seed[c[1]].volume].phase # "none"
      BY <1>0, <1>a, RefsDiffer DEF OwnInv, VolumeOK
    <3>2. ~claimed'[c]
      BY <1>0 DEF OwnInv, CallOK, TakeOK, SeedBound
    <3> QED
      BY <1>a, <3>1, <3>2 DEF CallOK, RetainOK, TakeOK, NameOK, HasSeeded, HasRetained
  <2> QED
    BY <2>1, <2>2
<1>6. \A d \in Calls : SoleOK(d)'
  <2> SUFFICES ASSUME NEW d \in Calls, pc'[d] \in HasSeeded, Fresh(vol[d])'
               PROVE  /\ \A n \in Namespaces : pv'[vol'[d]].ref = <<"seed", n>> => n = d[1]
                      /\ \A e \in Calls :
                            pc'[e] \in HasSeeded /\ vol'[e] = vol'[d] => e[1] = d[1]
    BY DEF SoleOK
  <2>1. CASE d = c
    <3>1. \A n \in Namespaces : pv'[vol'[d]].ref = <<"seed", n>> => n = d[1]
      BY <1>a, <2>1, RefsDiffer
    <3>2. ASSUME NEW e \in Calls, e # c, pc[e] \in HasSeeded, vol[e] = vol'[d]
          PROVE  e[1] = d[1]
      <4>1. SoleOK(e) /\ Fresh(vol[e])
        BY <1>0, <1>a, <2>1, <3>2 DEF OwnInv, Fresh, Exists
      <4> QED
        BY <1>a, <2>1, <3>2, <4>1 DEF SoleOK
    <3> QED
      BY <1>a, <2>1, <3>1, <3>2
  <2>2. CASE d # c
    <3>1. SoleOK(d) /\ Fresh(vol[d]) /\ pc[d] \in HasSeeded /\ vol'[d] = vol[d]
      BY <1>0, <1>a, <2>2 DEF OwnInv, Fresh, Exists
    <3>2. \A n \in Namespaces : pv'[vol'[d]].ref = <<"seed", n>> => n = d[1]
      BY <1>a, <3>1 DEF SoleOK
    <3>3. \A e \in Calls \ {c} : pc'[e] \in HasSeeded /\ vol'[e] = vol'[d] => e[1] = d[1]
      BY <1>a, <3>1 DEF SoleOK
    <3>4. vol'[c] = vol'[d] => c[1] = d[1]
      BY <1>a, <3>2
    <3> QED
      BY <3>2, <3>3, <3>4
  <2> QED
    BY <2>1, <2>2
<1> QED
  BY <1>1, <1>2, <1>3, <1>4, <1>5, <1>6, OwnParts

\* The volume is Released.
LEMMA SeedReleasedKeeps ==
    ASSUME OwnInv, NEW c \in Calls, SeedReleased(c)
    PROVE  OwnInv' /\ \A v \in Volumes : VolStep(v)
<1>0. OwnInv /\ TypeOK
  BY DEF OwnInv
<1>1. TypeOK'
  <2>1. pv' \in [Volumes -> VolumeStates]
    BY <1>0 DEF TypeOK, SeedReleased, Goto
  <2>2. /\ seed' \in [Namespaces -> ClaimStates] /\ claim' \in [Namespaces -> ClaimStates]
        /\ live' \in SUBSET Namespaces
    BY <1>0, RecordTypes, CallOfNamespace DEF TypeOK, ClaimStates, SeedReleased, Goto
  <2>3. pc' \in [Calls -> CallStates]
    BY <1>0 DEF TypeOK, CallStates, SeedReleased, Goto
  <2>4. vol' \in [Calls -> Volumes \cup {0}]
    BY <1>0 DEF TypeOK, SeedReleased, Goto
  <2>8. snapshot' \in [Calls -> VolumeStates]
    BY <1>0, RecordTypes DEF TypeOK, SeedReleased, Goto
  <2>5. claimed' \in [Calls -> BOOLEAN]
    BY <1>0 DEF TypeOK, SeedReleased, Goto
  <2>7. tries' \in [Calls -> 0..(MaxTries - 1)]
    BY <1>0, VolumeAssumption DEF TypeOK, SeedReleased, Goto
  <2>6. deletes' \in Nat /\ aborts' \in Nat /\ deletes' + aborts' <= MaxUpsets
    BY <1>0, VolumeAssumption DEF TypeOK, SeedReleased, Goto
  <2> QED
    BY <2>1, <2>2, <2>3, <2>4, <2>5, <2>6, <2>7, <2>8 DEF TypeOK
<1>2. \A v \in Volumes : VolStep(v)
  BY <1>0, VolSame DEF SeedReleased, Goto
<1>3. \A n \in Namespaces : SeedOK(n)'
  BY <1>0, SeedSame DEF SeedReleased, Goto
<1>4. \A n \in Namespaces : ClaimOK(n)'
  BY <1>0, <1>2, ClaimSame DEF TypeOK, SeedReleased, Goto
<1>5. \A d \in Calls : CallOK(d)'
  <2>1. ASSUME NEW d \in Calls, d # c PROVE CallOK(d)'
    <3>1. pc'[d] = pc[d] /\ vol'[d] = vol[d] /\ claimed'[d] = claimed[d]
             /\ snapshot'[d] = snapshot[d]
      BY <1>0, <2>1 DEF TypeOK, SeedReleased, Goto
    <3> QED
      BY <1>0, <1>2, <3>1, CallSame
  <2>2. CallOK(c)'
    BY <1>0, <1>2
      DEF OwnInv, CallOK, RetainOK, TakeOK, NameOK, HasSeeded, HasRetained, Exists,
         TypeOK, SeedReleased, Goto
  <2> QED
    BY <2>1, <2>2
<1>6. \A d \in Calls : SoleOK(d)'
  <2>1. \A d \in Calls : pc'[d] \in HasSeeded => pc[d] \in HasSeeded /\ vol'[d] = vol[d]
    BY <1>0 DEF TypeOK, HasSeeded, SeedReleased, Goto
  <2> QED
    BY <1>0, <1>2, <2>1, SoleSame
<1> QED
  BY <1>1, <1>2, <1>3, <1>4, <1>5, <1>6, OwnParts

\* A volume without label is claimed: a fresh one is Released and still free.
LEMMA ReadForClaimKeeps ==
    ASSUME OwnInv, NEW c \in Calls, ReadForClaim(c)
    PROVE  OwnInv' /\ \A v \in Volumes : VolStep(v)
<1>0. OwnInv /\ TypeOK
  BY DEF OwnInv
<1>1. TypeOK'
  <2>1. pv' \in [Volumes -> VolumeStates]
    BY <1>0 DEF TypeOK, ReadForClaim, NextTry, Forget, Goto
  <2>2. /\ seed' \in [Namespaces -> ClaimStates] /\ claim' \in [Namespaces -> ClaimStates]
        /\ live' \in SUBSET Namespaces
    BY <1>0, RecordTypes, CallOfNamespace
      DEF TypeOK, ClaimStates, ReadForClaim, NextTry, Forget, Goto
  <2>3. pc' \in [Calls -> CallStates]
    BY <1>0 DEF TypeOK, CallStates, ReadForClaim, NextTry, Forget, Goto
  <2>4. vol' \in [Calls -> Volumes \cup {0}]
    BY <1>0 DEF TypeOK, ReadForClaim, NextTry, Forget, Goto
  <2>8. snapshot' \in [Calls -> VolumeStates]
    BY <1>0, RecordTypes DEF TypeOK, Exists, ReadForClaim, NextTry, Forget, Goto
  <2>5. claimed' \in [Calls -> BOOLEAN]
    BY <1>0 DEF TypeOK, ReadForClaim, NextTry, Forget, Goto
  <2>7. tries' \in [Calls -> 0..(MaxTries - 1)]
    BY <1>0, VolumeAssumption DEF TypeOK, ReadForClaim, NextTry, Forget, Goto
  <2>6. deletes' \in Nat /\ aborts' \in Nat /\ deletes' + aborts' <= MaxUpsets
    BY <1>0, VolumeAssumption DEF TypeOK, ReadForClaim, NextTry, Forget, Goto
  <2> QED
    BY <2>1, <2>2, <2>3, <2>4, <2>5, <2>6, <2>7, <2>8 DEF TypeOK
<1>2. \A v \in Volumes : VolStep(v)
  BY <1>0, VolSame DEF ReadForClaim, NextTry, Forget, Goto
<1>3. \A n \in Namespaces : SeedOK(n)'
  BY <1>0, SeedSame DEF ReadForClaim, NextTry, Forget, Goto
<1>4. \A n \in Namespaces : ClaimOK(n)'
  BY <1>0, <1>2, ClaimSame DEF TypeOK, ReadForClaim, NextTry, Forget, Goto
<1>5. \A d \in Calls : CallOK(d)'
  <2>1. ASSUME NEW d \in Calls, d # c PROVE CallOK(d)'
    <3>1. pc'[d] = pc[d] /\ vol'[d] = vol[d] /\ claimed'[d] = claimed[d]
             /\ snapshot'[d] = snapshot[d]
      BY <1>0, <2>1 DEF TypeOK, ReadForClaim, NextTry, Forget, Goto
    <3> QED
      BY <1>0, <1>2, <3>1, CallSame
  <2>2. CallOK(c)'
    <3>1. /\ RetainOK(c) /\ TakeOK(c) /\ pc[c] = "claim" /\ c[1] \in Namespaces
          /\ vol[c] \in Volumes /\ VolumeOK(vol[c]) /\ pv' = pv
      BY <1>0, CallOfNamespace DEF OwnInv, CallOK, RetainOK, HasSeeded, ReadForClaim
    <3> DEFINE mine == claimed[c] \/ (Exists(vol[c]) /\ pv[vol[c]].label = None)
    <3>2. mine => Fresh(vol[c]) \/ BelongsTo(vol[c], c[1])
      BY <3>1 DEF TakeOK, Fresh, BelongsTo
    <3>3. CASE Exists(vol[c]) /\ pv[vol[c]].phase # "Bound"
      <4>1. /\ pc'[c] = "update" /\ vol'[c] = vol[c] /\ claimed'[c] = mine
            /\ snapshot'[c] = pv[vol[c]]
        BY <1>0, <3>3 DEF TypeOK, ReadForClaim, Goto
      <4>2. pv[vol[c]].phase \in {"Available", "Released"}
        BY <1>0, <3>1, <3>3 DEF TypeOK, Exists, VolumeStates
      <4>3. RetainOK(c)' /\ NameOK(c)'
        BY <3>1, <4>1 DEF RetainOK, NameOK, HasSeeded, HasRetained
      <4>4. TakeOK(c)'
        BY <3>1, <3>2, <3>3, <4>1, <4>2 DEF TakeOK, Fresh, BelongsTo, Exists
      <4> QED
        BY <4>3, <4>4 DEF CallOK
    <3>4. CASE ~(Exists(vol[c]) /\ pv[vol[c]].phase # "Bound")
      <4>1. NextTry(c, mine) /\ ~claimed'[c]
        BY <1>0, <3>4 DEF ReadForClaim, Forget, TypeOK
      <4>2. ~Fresh(vol[c])
        BY <3>1, <3>4 DEF TakeOK, Fresh
      <4>3. /\ pc'[c] \in {"create", "seed", "idle"}
            /\ pc'[c] = "create" => mine /\ vol'[c] = vol[c]
        BY <1>0, <4>1 DEF NextTry, Goto, TypeOK
      <4>4. NameOK(c)'
        BY <3>1, <3>2, <4>2, <4>3 DEF NameOK, BelongsTo
      <4> QED
        BY <4>1, <4>3, <4>4 DEF CallOK, RetainOK, TakeOK, HasSeeded, HasRetained
    <3> QED
      BY <3>3, <3>4
  <2> QED
    BY <2>1, <2>2
<1>6. \A d \in Calls : SoleOK(d)'
  <2>1. \A d \in Calls : pc'[d] \in HasSeeded => pc[d] \in HasSeeded /\ vol'[d] = vol[d]
    BY <1>0 DEF TypeOK, HasSeeded, ReadForClaim, NextTry, Forget, Goto
  <2> QED
    BY <1>0, <1>2, <2>1, SoleSame
<1> QED
  BY <1>1, <1>2, <1>3, <1>4, <1>5, <1>6, OwnParts

\* A conflict keeps claimedVolume.
LEMMA ClaimConflictsKeeps ==
    ASSUME OwnInv, NEW c \in Calls, ClaimConflicts(c)
    PROVE  OwnInv' /\ \A v \in Volumes : VolStep(v)
<1>0. OwnInv /\ TypeOK
  BY DEF OwnInv
<1>1. TypeOK'
  <2>1. pv' \in [Volumes -> VolumeStates]
    BY <1>0 DEF TypeOK, ClaimConflicts, Goto
  <2>2. /\ seed' \in [Namespaces -> ClaimStates] /\ claim' \in [Namespaces -> ClaimStates]
        /\ live' \in SUBSET Namespaces
    BY <1>0, RecordTypes, CallOfNamespace DEF TypeOK, ClaimStates, ClaimConflicts, Goto
  <2>3. pc' \in [Calls -> CallStates]
    BY <1>0 DEF TypeOK, CallStates, ClaimConflicts, Goto
  <2>4. vol' \in [Calls -> Volumes \cup {0}]
    BY <1>0 DEF TypeOK, ClaimConflicts, Goto
  <2>8. snapshot' \in [Calls -> VolumeStates]
    BY <1>0, RecordTypes DEF TypeOK, ClaimConflicts, Goto
  <2>5. claimed' \in [Calls -> BOOLEAN]
    BY <1>0 DEF TypeOK, ClaimConflicts, Goto
  <2>7. tries' \in [Calls -> 0..(MaxTries - 1)]
    BY <1>0, VolumeAssumption DEF TypeOK, ClaimConflicts, Goto
  <2>6. deletes' \in Nat /\ aborts' \in Nat /\ deletes' + aborts' <= MaxUpsets
    BY <1>0, VolumeAssumption DEF TypeOK, ClaimConflicts, Goto
  <2> QED
    BY <2>1, <2>2, <2>3, <2>4, <2>5, <2>6, <2>7, <2>8 DEF TypeOK
<1>2. \A v \in Volumes : VolStep(v)
  BY <1>0, VolSame DEF ClaimConflicts, Goto
<1>3. \A n \in Namespaces : SeedOK(n)'
  BY <1>0, SeedSame DEF ClaimConflicts, Goto
<1>4. \A n \in Namespaces : ClaimOK(n)'
  BY <1>0, <1>2, ClaimSame DEF TypeOK, ClaimConflicts, Goto
<1>5. \A d \in Calls : CallOK(d)'
  <2>1. ASSUME NEW d \in Calls, d # c PROVE CallOK(d)'
    <3>1. pc'[d] = pc[d] /\ vol'[d] = vol[d] /\ claimed'[d] = claimed[d]
             /\ snapshot'[d] = snapshot[d]
      BY <1>0, <2>1 DEF TypeOK, ClaimConflicts, Goto
    <3> QED
      BY <1>0, <1>2, <3>1, CallSame
  <2>2. CallOK(c)'
    BY <1>0, <1>2
      DEF OwnInv, CallOK, RetainOK, TakeOK, NameOK, HasSeeded, HasRetained, Fresh, Exists,
         BelongsTo, TypeOK, ClaimConflicts, Goto
  <2> QED
    BY <2>1, <2>2
<1>6. \A d \in Calls : SoleOK(d)'
  <2>1. \A d \in Calls : pc'[d] \in HasSeeded => pc[d] \in HasSeeded /\ vol'[d] = vol[d]
    BY <1>0 DEF TypeOK, HasSeeded, ClaimConflicts, Goto
  <2> QED
    BY <1>0, <1>2, <2>1, SoleSame
<1> QED
  BY <1>1, <1>2, <1>3, <1>4, <1>5, <1>6, OwnParts

\* The volume is gone.
LEMMA ClaimFailsKeeps ==
    ASSUME OwnInv, NEW c \in Calls, ClaimFails(c)
    PROVE  OwnInv' /\ \A v \in Volumes : VolStep(v)
<1>0. OwnInv /\ TypeOK
  BY DEF OwnInv
<1>1. TypeOK'
  <2>1. pv' \in [Volumes -> VolumeStates]
    BY <1>0 DEF TypeOK, ClaimFails, Done, Goto
  <2>2. /\ seed' \in [Namespaces -> ClaimStates] /\ claim' \in [Namespaces -> ClaimStates]
        /\ live' \in SUBSET Namespaces
    BY <1>0, RecordTypes, CallOfNamespace DEF TypeOK, ClaimStates, ClaimFails, Done, Goto
  <2>3. pc' \in [Calls -> CallStates]
    BY <1>0 DEF TypeOK, CallStates, ClaimFails, Done, Goto
  <2>4. vol' \in [Calls -> Volumes \cup {0}]
    BY <1>0 DEF TypeOK, ClaimFails, Done, Goto
  <2>8. snapshot' \in [Calls -> VolumeStates]
    BY <1>0, RecordTypes DEF TypeOK, ClaimFails, Done, Goto
  <2>5. claimed' \in [Calls -> BOOLEAN]
    BY <1>0 DEF TypeOK, ClaimFails, Done, Goto
  <2>7. tries' \in [Calls -> 0..(MaxTries - 1)]
    BY <1>0, VolumeAssumption DEF TypeOK, ClaimFails, Done, Goto
  <2>6. deletes' \in Nat /\ aborts' \in Nat /\ deletes' + aborts' <= MaxUpsets
    BY <1>0, VolumeAssumption DEF TypeOK, ClaimFails, Done, Goto
  <2> QED
    BY <2>1, <2>2, <2>3, <2>4, <2>5, <2>6, <2>7, <2>8 DEF TypeOK
<1>2. \A v \in Volumes : VolStep(v)
  BY <1>0, VolSame DEF ClaimFails, Done, Goto
<1>3. \A n \in Namespaces : SeedOK(n)'
  BY <1>0, SeedSame DEF ClaimFails, Done, Goto
<1>4. \A n \in Namespaces : ClaimOK(n)'
  BY <1>0, <1>2, ClaimSame DEF TypeOK, ClaimFails, Done, Goto
<1>5. \A d \in Calls : CallOK(d)'
  <2>1. ASSUME NEW d \in Calls, d # c PROVE CallOK(d)'
    <3>1. pc'[d] = pc[d] /\ vol'[d] = vol[d] /\ claimed'[d] = claimed[d]
             /\ snapshot'[d] = snapshot[d]
      BY <1>0, <2>1 DEF TypeOK, ClaimFails, Done, Goto
    <3> QED
      BY <1>0, <1>2, <3>1, CallSame
  <2>2. CallOK(c)'
    BY <1>0, <1>2
      DEF OwnInv, CallOK, RetainOK, TakeOK, NameOK, HasSeeded, HasRetained, TypeOK,
         ClaimFails, Done, Goto
  <2> QED
    BY <2>1, <2>2
<1>6. \A d \in Calls : SoleOK(d)'
  <2>1. \A d \in Calls : pc'[d] \in HasSeeded => pc[d] \in HasSeeded /\ vol'[d] = vol[d]
    BY <1>0 DEF TypeOK, HasSeeded, ClaimFails, Done, Goto
  <2> QED
    BY <1>0, <1>2, <2>1, SoleSame
<1> QED
  BY <1>1, <1>2, <1>3, <1>4, <1>5, <1>6, OwnParts

\* CreatePVC returns.
LEMMA ClaimBoundKeeps ==
    ASSUME OwnInv, NEW c \in Calls, ClaimBound(c)
    PROVE  OwnInv' /\ \A v \in Volumes : VolStep(v)
<1>0. OwnInv /\ TypeOK
  BY DEF OwnInv
<1>1. TypeOK'
  <2>1. pv' \in [Volumes -> VolumeStates]
    BY <1>0 DEF TypeOK, ClaimBound, Done, Goto
  <2>2. /\ seed' \in [Namespaces -> ClaimStates] /\ claim' \in [Namespaces -> ClaimStates]
        /\ live' \in SUBSET Namespaces
    BY <1>0, RecordTypes, CallOfNamespace DEF TypeOK, ClaimStates, ClaimBound, Done, Goto
  <2>3. pc' \in [Calls -> CallStates]
    BY <1>0 DEF TypeOK, CallStates, ClaimBound, Done, Goto
  <2>4. vol' \in [Calls -> Volumes \cup {0}]
    BY <1>0 DEF TypeOK, ClaimBound, Done, Goto
  <2>8. snapshot' \in [Calls -> VolumeStates]
    BY <1>0, RecordTypes DEF TypeOK, ClaimBound, Done, Goto
  <2>5. claimed' \in [Calls -> BOOLEAN]
    BY <1>0 DEF TypeOK, ClaimBound, Done, Goto
  <2>7. tries' \in [Calls -> 0..(MaxTries - 1)]
    BY <1>0, VolumeAssumption DEF TypeOK, ClaimBound, Done, Goto
  <2>6. deletes' \in Nat /\ aborts' \in Nat /\ deletes' + aborts' <= MaxUpsets
    BY <1>0, VolumeAssumption DEF TypeOK, ClaimBound, Done, Goto
  <2> QED
    BY <2>1, <2>2, <2>3, <2>4, <2>5, <2>6, <2>7, <2>8 DEF TypeOK
<1>2. \A v \in Volumes : VolStep(v)
  BY <1>0, VolSame DEF ClaimBound, Done, Goto
<1>3. \A n \in Namespaces : SeedOK(n)'
  BY <1>0, SeedSame DEF ClaimBound, Done, Goto
<1>4. \A n \in Namespaces : ClaimOK(n)'
  BY <1>0, <1>2, ClaimSame DEF TypeOK, ClaimBound, Done, Goto
<1>5. \A d \in Calls : CallOK(d)'
  <2>1. ASSUME NEW d \in Calls, d # c PROVE CallOK(d)'
    <3>1. pc'[d] = pc[d] /\ vol'[d] = vol[d] /\ claimed'[d] = claimed[d]
             /\ snapshot'[d] = snapshot[d]
      BY <1>0, <2>1 DEF TypeOK, ClaimBound, Done, Goto
    <3> QED
      BY <1>0, <1>2, <3>1, CallSame
  <2>2. CallOK(c)'
    BY <1>0, <1>2
      DEF OwnInv, CallOK, RetainOK, TakeOK, NameOK, HasSeeded, HasRetained, TypeOK,
         ClaimBound, Done, Goto
  <2> QED
    BY <2>1, <2>2
<1>6. \A d \in Calls : SoleOK(d)'
  <2>1. \A d \in Calls : pc'[d] \in HasSeeded => pc[d] \in HasSeeded /\ vol'[d] = vol[d]
    BY <1>0 DEF TypeOK, HasSeeded, ClaimBound, Done, Goto
  <2> QED
    BY <1>0, <1>2, <2>1, SoleSame
<1> QED
  BY <1>1, <1>2, <1>3, <1>4, <1>5, <1>6, OwnParts

\* The claim is gone.
LEMMA DeleteClaimFailsKeeps ==
    ASSUME OwnInv, NEW c \in Calls, DeleteClaimFails(c)
    PROVE  OwnInv' /\ \A v \in Volumes : VolStep(v)
<1>0. OwnInv /\ TypeOK
  BY DEF OwnInv
<1>1. TypeOK'
  <2>1. pv' \in [Volumes -> VolumeStates]
    BY <1>0 DEF TypeOK, DeleteClaimFails, Done, Goto
  <2>2. /\ seed' \in [Namespaces -> ClaimStates] /\ claim' \in [Namespaces -> ClaimStates]
        /\ live' \in SUBSET Namespaces
    BY <1>0, RecordTypes, CallOfNamespace
      DEF TypeOK, ClaimStates, DeleteClaimFails, Done, Goto
  <2>3. pc' \in [Calls -> CallStates]
    BY <1>0 DEF TypeOK, CallStates, DeleteClaimFails, Done, Goto
  <2>4. vol' \in [Calls -> Volumes \cup {0}]
    BY <1>0 DEF TypeOK, DeleteClaimFails, Done, Goto
  <2>8. snapshot' \in [Calls -> VolumeStates]
    BY <1>0, RecordTypes DEF TypeOK, DeleteClaimFails, Done, Goto
  <2>5. claimed' \in [Calls -> BOOLEAN]
    BY <1>0 DEF TypeOK, DeleteClaimFails, Done, Goto
  <2>7. tries' \in [Calls -> 0..(MaxTries - 1)]
    BY <1>0, VolumeAssumption DEF TypeOK, DeleteClaimFails, Done, Goto
  <2>6. deletes' \in Nat /\ aborts' \in Nat /\ deletes' + aborts' <= MaxUpsets
    BY <1>0, VolumeAssumption DEF TypeOK, DeleteClaimFails, Done, Goto
  <2> QED
    BY <2>1, <2>2, <2>3, <2>4, <2>5, <2>6, <2>7, <2>8 DEF TypeOK
<1>2. \A v \in Volumes : VolStep(v)
  BY <1>0, VolSame DEF DeleteClaimFails, Done, Goto
<1>3. \A n \in Namespaces : SeedOK(n)'
  BY <1>0, SeedSame DEF DeleteClaimFails, Done, Goto
<1>4. \A n \in Namespaces : ClaimOK(n)'
  BY <1>0, <1>2, ClaimSame DEF TypeOK, DeleteClaimFails, Done, Goto
<1>5. \A d \in Calls : CallOK(d)'
  <2>1. ASSUME NEW d \in Calls, d # c PROVE CallOK(d)'
    <3>1. pc'[d] = pc[d] /\ vol'[d] = vol[d] /\ claimed'[d] = claimed[d]
             /\ snapshot'[d] = snapshot[d]
      BY <1>0, <2>1 DEF TypeOK, DeleteClaimFails, Done, Goto
    <3> QED
      BY <1>0, <1>2, <3>1, CallSame
  <2>2. CallOK(c)'
    BY <1>0, <1>2
      DEF OwnInv, CallOK, RetainOK, TakeOK, NameOK, HasSeeded, HasRetained, TypeOK,
         DeleteClaimFails, Done, Goto
  <2> QED
    BY <2>1, <2>2
<1>6. \A d \in Calls : SoleOK(d)'
  <2>1. \A d \in Calls : pc'[d] \in HasSeeded => pc[d] \in HasSeeded /\ vol'[d] = vol[d]
    BY <1>0 DEF TypeOK, HasSeeded, DeleteClaimFails, Done, Goto
  <2> QED
    BY <1>0, <1>2, <2>1, SoleSame
<1> QED
  BY <1>1, <1>2, <1>3, <1>4, <1>5, <1>6, OwnParts

\* A call is cut short.
LEMMA AbortKeeps ==
    ASSUME OwnInv, NEW c \in Calls, Abort(c)
    PROVE  OwnInv' /\ \A v \in Volumes : VolStep(v)
<1>0. OwnInv /\ TypeOK
  BY DEF OwnInv
<1>1. TypeOK'
  <2>1. pv' \in [Volumes -> VolumeStates]
    BY <1>0 DEF TypeOK, Abort, Done, Goto
  <2>2. /\ seed' \in [Namespaces -> ClaimStates] /\ claim' \in [Namespaces -> ClaimStates]
        /\ live' \in SUBSET Namespaces
    BY <1>0, RecordTypes, CallOfNamespace DEF TypeOK, ClaimStates, Abort, Done, Goto
  <2>3. pc' \in [Calls -> CallStates]
    BY <1>0 DEF TypeOK, CallStates, Abort, Done, Goto
  <2>4. vol' \in [Calls -> Volumes \cup {0}]
    BY <1>0 DEF TypeOK, Abort, Done, Goto
  <2>8. snapshot' \in [Calls -> VolumeStates]
    BY <1>0, RecordTypes DEF TypeOK, Abort, Done, Goto
  <2>5. claimed' \in [Calls -> BOOLEAN]
    BY <1>0 DEF TypeOK, Abort, Done, Goto
  <2>7. tries' \in [Calls -> 0..(MaxTries - 1)]
    BY <1>0, VolumeAssumption DEF TypeOK, Abort, Done, Goto
  <2>6. deletes' \in Nat /\ aborts' \in Nat /\ deletes' + aborts' <= MaxUpsets
    BY <1>0, VolumeAssumption DEF TypeOK, Abort, Done, Goto
  <2> QED
    BY <2>1, <2>2, <2>3, <2>4, <2>5, <2>6, <2>7, <2>8 DEF TypeOK
<1>2. \A v \in Volumes : VolStep(v)
  BY <1>0, VolSame DEF Abort, Done, Goto
<1>3. \A n \in Namespaces : SeedOK(n)'
  BY <1>0, SeedSame DEF Abort, Done, Goto
<1>4. \A n \in Namespaces : ClaimOK(n)'
  BY <1>0, <1>2, ClaimSame DEF TypeOK, Abort, Done, Goto
<1>5. \A d \in Calls : CallOK(d)'
  <2>1. ASSUME NEW d \in Calls, d # c PROVE CallOK(d)'
    <3>1. pc'[d] = pc[d] /\ vol'[d] = vol[d] /\ claimed'[d] = claimed[d]
             /\ snapshot'[d] = snapshot[d]
      BY <1>0, <2>1 DEF TypeOK, Abort, Done, Goto
    <3> QED
      BY <1>0, <1>2, <3>1, CallSame
  <2>2. CallOK(c)'
    BY <1>0, <1>2
      DEF OwnInv, CallOK, RetainOK, TakeOK, NameOK, HasSeeded, HasRetained, TypeOK, Abort,
         Done, Goto
  <2> QED
    BY <2>1, <2>2
<1>6. \A d \in Calls : SoleOK(d)'
  <2>1. \A d \in Calls : pc'[d] \in HasSeeded => pc[d] \in HasSeeded /\ vol'[d] = vol[d]
    BY <1>0 DEF TypeOK, HasSeeded, Abort, Done, Goto
  <2> QED
    BY <1>0, <1>2, <2>1, SoleSame
<1> QED
  BY <1>1, <1>2, <1>3, <1>4, <1>5, <1>6, OwnParts

\* The claim that is made names the volume of the namespace.
LEMMA CreateClaimKeeps ==
    ASSUME OwnInv, NEW c \in Calls, CreateClaim(c)
    PROVE  OwnInv' /\ \A v \in Volumes : VolStep(v)
<1>0. OwnInv /\ TypeOK
  BY DEF OwnInv
<1>1. TypeOK'
  <2>1. pv' \in [Volumes -> VolumeStates]
    BY <1>0 DEF TypeOK, CreateClaim, Done, Goto
  <2>2. /\ seed' \in [Namespaces -> ClaimStates] /\ claim' \in [Namespaces -> ClaimStates]
        /\ live' \in SUBSET Namespaces
    BY <1>0, RecordTypes, CallOfNamespace DEF TypeOK, ClaimStates, CreateClaim, Done, Goto
  <2>3. pc' \in [Calls -> CallStates]
    BY <1>0 DEF TypeOK, CallStates, CreateClaim, Done, Goto
  <2>4. vol' \in [Calls -> Volumes \cup {0}]
    BY <1>0 DEF TypeOK, CreateClaim, Done, Goto
  <2>8. snapshot' \in [Calls -> VolumeStates]
    BY <1>0, RecordTypes DEF TypeOK, CreateClaim, Done, Goto
  <2>5. claimed' \in [Calls -> BOOLEAN]
    BY <1>0 DEF TypeOK, CreateClaim, Done, Goto
  <2>7. tries' \in [Calls -> 0..(MaxTries - 1)]
    BY <1>0, VolumeAssumption DEF TypeOK, CreateClaim, Done, Goto
  <2>6. deletes' \in Nat /\ aborts' \in Nat /\ deletes' + aborts' <= MaxUpsets
    BY <1>0, VolumeAssumption DEF TypeOK, CreateClaim, Done, Goto
  <2> QED
    BY <2>1, <2>2, <2>3, <2>4, <2>5, <2>6, <2>7, <2>8 DEF TypeOK
<1>2. \A v \in Volumes : VolStep(v)
  BY <1>0, VolSame DEF CreateClaim, Done, Goto
<1>3. \A n \in Namespaces : SeedOK(n)'
  BY <1>0, SeedSame DEF CreateClaim, Done, Goto
<1>4. \A n \in Namespaces : ClaimOK(n)'
  <2>1. ASSUME NEW n \in Namespaces, n # c[1] PROVE ClaimOK(n)'
    BY <1>0, <1>2, <2>1, ClaimSame DEF CreateClaim, TypeOK
  <2>2. CASE claim' = claim
    BY <1>0, <1>2, <2>2, ClaimSame
  <2>3. CASE claim' = [claim EXCEPT ![c[1]] = [state |-> "pending", volume |-> vol[c]]]
    <3>1. vol[c] \in Volumes /\ BelongsTo(vol[c], c[1]) /\ c[1] \in Namespaces
      BY <1>0, CallOfNamespace DEF OwnInv, CallOK, NameOK, CreateClaim
    <3>2. claim'[c[1]].volume = vol[c]
      BY <1>0, <2>3, <3>1 DEF TypeOK
    <3>3. ClaimOK(c[1])'
      BY <1>2, <3>1, <3>2 DEF ClaimOK, VolStep, BelongsTo
    <3> QED
      BY <2>1, <3>3
  <2> QED
    BY <2>2, <2>3 DEF CreateClaim
<1>5. \A d \in Calls : CallOK(d)'
  <2>1. ASSUME NEW d \in Calls, d # c PROVE CallOK(d)'
    <3>1. pc'[d] = pc[d] /\ vol'[d] = vol[d] /\ claimed'[d] = claimed[d]
             /\ snapshot'[d] = snapshot[d]
      BY <1>0, <2>1 DEF TypeOK, CreateClaim, Done, Goto
    <3> QED
      BY <1>0, <1>2, <3>1, CallSame
  <2>2. CallOK(c)'
    BY <1>0, <1>2
      DEF OwnInv, CallOK, RetainOK, TakeOK, NameOK, HasSeeded, HasRetained, TypeOK,
         CreateClaim, Done, Goto
  <2> QED
    BY <2>1, <2>2
<1>6. \A d \in Calls : SoleOK(d)'
  <2>1. \A d \in Calls : pc'[d] \in HasSeeded => pc[d] \in HasSeeded /\ vol'[d] = vol[d]
    BY <1>0 DEF TypeOK, HasSeeded, CreateClaim, Done, Goto
  <2> QED
    BY <1>0, <1>2, <2>1, SoleSame
<1> QED
  BY <1>1, <1>2, <1>3, <1>4, <1>5, <1>6, OwnParts

\* `blimp down -v` reads the claim.
LEMMA DownVolumesKeeps ==
    ASSUME OwnInv, NEW c \in Calls, DownVolumes(c)
    PROVE  OwnInv' /\ \A v \in Volumes : VolStep(v)
<1>0. OwnInv /\ TypeOK
  BY DEF OwnInv
<1>1. TypeOK'
  <2>1. pv' \in [Volumes -> VolumeStates]
    BY <1>0 DEF TypeOK, DownVolumes, Goto
  <2>2. /\ seed' \in [Namespaces -> ClaimStates] /\ claim' \in [Namespaces -> ClaimStates]
        /\ live' \in SUBSET Namespaces
    BY <1>0, RecordTypes, CallOfNamespace DEF TypeOK, ClaimStates, DownVolumes, Goto
  <2>3. pc' \in [Calls -> CallStates]
    BY <1>0 DEF TypeOK, CallStates, DownVolumes, Goto
  <2>4. vol' \in [Calls -> Volumes \cup {0}]
    BY <1>0, CallOfNamespace DEF TypeOK, ClaimStates, DownVolumes, Goto
  <2>8. snapshot' \in [Calls -> VolumeStates]
    BY <1>0, RecordTypes DEF TypeOK, DownVolumes, Goto
  <2>5. claimed' \in [Calls -> BOOLEAN]
    BY <1>0 DEF TypeOK, DownVolumes, Goto
  <2>7. tries' \in [Calls -> 0..(MaxTries - 1)]
    BY <1>0, VolumeAssumption DEF TypeOK, DownVolumes, Goto
  <2>6. deletes' \in Nat /\ aborts' \in Nat /\ deletes' + aborts' <= MaxUpsets
    BY <1>0, VolumeAssumption DEF TypeOK, DownVolumes, Goto
  <2> QED
    BY <2>1, <2>2, <2>3, <2>4, <2>5, <2>6, <2>7, <2>8 DEF TypeOK
<1>2. \A v \in Volumes : VolStep(v)
  BY <1>0, VolSame DEF DownVolumes, Goto
<1>3. \A n \in Namespaces : SeedOK(n)'
  BY <1>0, SeedSame DEF DownVolumes, Goto
<1>4. \A n \in Namespaces : ClaimOK(n)'
  BY <1>0, <1>2, ClaimSame DEF TypeOK, DownVolumes, Goto
<1>5. \A d \in Calls : CallOK(d)'
  <2>1. ASSUME NEW d \in Calls, d # c PROVE CallOK(d)'
    <3>1. pc'[d] = pc[d] /\ vol'[d] = vol[d] /\ claimed'[d] = claimed[d]
             /\ snapshot'[d] = snapshot[d]
      BY <1>0, <2>1 DEF TypeOK, DownVolumes, Goto
    <3> QED
      BY <1>0, <1>2, <3>1, CallSame
  <2>2. CallOK(c)'
    BY <1>0, <1>2
      DEF OwnInv, CallOK, RetainOK, TakeOK, NameOK, HasSeeded, HasRetained, TypeOK,
         DownVolumes, Goto
  <2> QED
    BY <2>1, <2>2
<1>6. \A d \in Calls : SoleOK(d)'
  <2>1. \A d \in Calls : pc'[d] \in HasSeeded => pc[d] \in HasSeeded /\ vol'[d] = vol[d]
    BY <1>0 DEF TypeOK, HasSeeded, DownVolumes, Goto
  <2> QED
    BY <1>0, <1>2, <2>1, SoleSame
<1> QED
  BY <1>1, <1>2, <1>3, <1>4, <1>5, <1>6, OwnParts

\* The volume of a namespace is made available again.
LEMMA ReleaseKeeps ==
    ASSUME OwnInv, NEW c \in Calls, Release(c)
    PROVE  OwnInv' /\ \A v \in Volumes : VolStep(v)
<1>0. OwnInv /\ TypeOK
  BY DEF OwnInv
<1>1. TypeOK'
  <2>1. pv' \in [Volumes -> VolumeStates]
    BY <1>0, AvailableFields, CallOfNamespace DEF TypeOK, Release, Exists
  <2>2. /\ seed' \in [Namespaces -> ClaimStates] /\ claim' \in [Namespaces -> ClaimStates]
        /\ live' \in SUBSET Namespaces
    BY <1>0, RecordTypes, CallOfNamespace DEF TypeOK, ClaimStates, Release, Goto
  <2>3. pc' \in [Calls -> CallStates]
    BY <1>0 DEF TypeOK, CallStates, Release, Goto
  <2>4. vol' \in [Calls -> Volumes \cup {0}]
    BY <1>0 DEF TypeOK, Release, Goto
  <2>8. snapshot' \in [Calls -> VolumeStates]
    BY <1>0, RecordTypes DEF TypeOK, Release, Goto
  <2>5. claimed' \in [Calls -> BOOLEAN]
    BY <1>0 DEF TypeOK, Release, Goto
  <2>7. tries' \in [Calls -> 0..(MaxTries - 1)]
    BY <1>0, VolumeAssumption DEF TypeOK, Release, Goto
  <2>6. deletes' \in Nat /\ aborts' \in Nat /\ deletes' + aborts' <= MaxUpsets
    BY <1>0, VolumeAssumption DEF TypeOK, Release, Goto
  <2> QED
    BY <2>1, <2>2, <2>3, <2>4, <2>5, <2>6, <2>7, <2>8 DEF TypeOK
<1>2. \A v \in Volumes : VolStep(v)
  <2> SUFFICES ASSUME NEW v \in Volumes PROVE VolStep(v)
    OBVIOUS
  <2>1. CASE v # vol[c] \/ ~(Exists(vol[c]) /\ pv[vol[c]].phase # "Bound")
    <3>1. pv'[v] = pv[v]
      BY <1>0, <2>1, AvailableFields, CallOfNamespace DEF TypeOK, Release
    <3> QED
      BY <1>0, <3>1, VolSame
  <2>2. CASE v = vol[c] /\ Exists(vol[c]) /\ pv[vol[c]].phase # "Bound"
    <3>0. VolumeOK(v) /\ KeptOK(v) /\ pv[v] \in VolumeStates
      BY <1>0 DEF OwnInv, TypeOK
    <3>1. /\ pv'[v].phase = "Available" /\ pv'[v].ref = NoRef
          /\ pv'[v].label = pv[v].label /\ pv'[v].policy = pv[v].policy
          /\ pv'[v].users = pv[v].users /\ pv'[v].given = pv[v].given
      BY <1>0, <2>2, <3>0, AvailableFields, CallOfNamespace
        DEF TypeOK, VolumeStates, Release
    <3>a. BelongsTo(v, c[1]) /\ c[1] \in Namespaces /\ c[1] # None
      BY <1>0, <2>2, VolumeAssumption, CallOfNamespace DEF OwnInv, CallOK, NameOK, Release
    <3>3. VolumeOK(v)'
      BY <2>2, <3>0, <3>1, RecordTypes, RefsDiffer, <3>a
        DEF VolumeOK, Fresh, Exists, BelongsTo
    <3>4. KeptOK(v)'
      BY <2>2, <3>0, <3>1, <3>a DEF KeptOK, BelongsTo
    <3> QED
      BY <2>2, <3>0, <3>1, <3>3, <3>4, RefsDiffer, <3>a
        DEF VolStep, VolumeOK, BelongsTo, Fresh, Exists
  <2> QED
    BY <2>1, <2>2
<1>3. \A n \in Namespaces : SeedOK(n)'
  <2>1. ASSUME NEW v \in Volumes, NEW n \in Namespaces, pv[v].ref = <<"seed", n>>
        PROVE  pv'[v].ref = <<"seed", n>>
    <3>1. pv[v].phase = "Bound"
      BY <1>0, <2>1, SeededIsBound
    <3> QED
      BY <1>0, <2>1, <3>1 DEF TypeOK, VolumeStates, Release
  <2> QED
    BY <1>0, <2>1, SeedSame DEF Release
<1>4. \A n \in Namespaces : ClaimOK(n)'
  BY <1>0, <1>2, ClaimSame DEF TypeOK, Release, Goto
<1>5. \A d \in Calls : CallOK(d)'
  <2>1. ASSUME NEW d \in Calls, d # c PROVE CallOK(d)'
    <3>1. pc'[d] = pc[d] /\ vol'[d] = vol[d] /\ claimed'[d] = claimed[d]
             /\ snapshot'[d] = snapshot[d]
      BY <1>0, <2>1 DEF TypeOK, Release, Goto
    <3> QED
      BY <1>0, <1>2, <3>1, CallSame
  <2>2. CallOK(c)'
    <3>1. vol'[c] = vol[c] /\ pc'[c] = "create" /\ ~claimed'[c] /\ c[1] \in Namespaces
          /\ vol[c] \in Volumes /\ BelongsTo(vol[c], c[1])
      BY <1>0, CallOfNamespace DEF OwnInv, CallOK, NameOK, TakeOK, TypeOK, Release, Goto
    <3>2. NameOK(c)'
      BY <1>2, <3>1 DEF NameOK, BelongsTo, VolStep
    <3> QED
      BY <3>1, <3>2 DEF CallOK, RetainOK, TakeOK, HasSeeded, HasRetained
  <2> QED
    BY <2>1, <2>2
<1>6. \A d \in Calls : SoleOK(d)'
  <2>1. \A d \in Calls : pc'[d] \in HasSeeded => pc[d] \in HasSeeded /\ vol'[d] = vol[d]
    BY <1>0 DEF TypeOK, HasSeeded, Release, Goto
  <2> QED
    BY <1>0, <1>2, <2>1, SoleSame
<1> QED
  BY <1>1, <1>2, <1>3, <1>4, <1>5, <1>6, OwnParts

\* The volume is retained.
LEMMA RetainKeeps ==
    ASSUME OwnInv, NEW c \in Calls, Retain(c)
    PROVE  OwnInv' /\ \A v \in Volumes : VolStep(v)
<1>0. OwnInv /\ TypeOK
  BY DEF OwnInv
<1>1. TypeOK'
  <2>1. pv' \in [Volumes -> VolumeStates]
    <3>1. ASSUME Exists(vol[c]) PROVE [pv[vol[c]] EXCEPT !.policy = "Retain"] \in VolumeStates
      BY <1>0, <3>1, RecordTypes, EditTypes DEF TypeOK, Exists
    <3> QED
      BY <1>0, <3>1 DEF TypeOK, Retain
  <2>2. /\ seed' \in [Namespaces -> ClaimStates] /\ claim' \in [Namespaces -> ClaimStates]
        /\ live' \in SUBSET Namespaces
    BY <1>0, RecordTypes, CallOfNamespace DEF TypeOK, ClaimStates, Retain, Goto
  <2>3. pc' \in [Calls -> CallStates]
    BY <1>0 DEF TypeOK, CallStates, Retain, Goto
  <2>4. vol' \in [Calls -> Volumes \cup {0}]
    BY <1>0 DEF TypeOK, Retain, Goto
  <2>8. snapshot' \in [Calls -> VolumeStates]
    BY <1>0, RecordTypes DEF TypeOK, Retain, Goto
  <2>5. claimed' \in [Calls -> BOOLEAN]
    BY <1>0 DEF TypeOK, Retain, Goto
  <2>7. tries' \in [Calls -> 0..(MaxTries - 1)]
    BY <1>0, VolumeAssumption DEF TypeOK, Retain, Goto
  <2>6. deletes' \in Nat /\ aborts' \in Nat /\ deletes' + aborts' <= MaxUpsets
    BY <1>0, VolumeAssumption DEF TypeOK, Retain, Goto
  <2> QED
    BY <2>1, <2>2, <2>3, <2>4, <2>5, <2>6, <2>7, <2>8 DEF TypeOK
<1>2. \A v \in Volumes : VolStep(v)
  <2> SUFFICES ASSUME NEW v \in Volumes PROVE VolStep(v)
    OBVIOUS
  <2>1. CASE v # vol[c] \/ ~(Exists(vol[c]))
    <3>1. pv'[v] = pv[v]
      BY <1>0, <2>1 DEF TypeOK, Retain
    <3> QED
      BY <1>0, <3>1, VolSame
  <2>2. CASE v = vol[c] /\ Exists(vol[c])
    <3>0. VolumeOK(v) /\ KeptOK(v) /\ pv[v] \in VolumeStates
      BY <1>0 DEF OwnInv, TypeOK
    <3>1. /\ pv'[v].phase = pv[v].phase /\ pv'[v].ref = pv[v].ref
          /\ pv'[v].label = pv[v].label /\ pv'[v].policy = "Retain"
          /\ pv'[v].users = pv[v].users /\ pv'[v].given = pv[v].given
      BY <1>0, <2>2, <3>0 DEF TypeOK, VolumeStates, Retain
    <3>3. VolumeOK(v)'
      BY <2>2, <3>0, <3>1, RecordTypes, RefsDiffer DEF VolumeOK, Fresh, Exists
    <3>4. KeptOK(v)'
      BY <2>2, <3>0, <3>1 DEF KeptOK
    <3> QED
      BY <2>2, <3>0, <3>1, <3>3, <3>4, RefsDiffer
        DEF VolStep, VolumeOK, BelongsTo, Fresh, Exists
  <2> QED
    BY <2>1, <2>2
<1>3. \A n \in Namespaces : SeedOK(n)'
  <2>1. ASSUME NEW v \in Volumes, NEW n \in Namespaces, pv[v].ref = <<"seed", n>>
        PROVE  pv'[v].ref = <<"seed", n>>
    <3>1. pv[v].phase = "Bound"
      BY <1>0, <2>1, SeededIsBound
    <3> QED
      BY <1>0, <2>1, <3>1 DEF TypeOK, VolumeStates, Retain
  <2> QED
    BY <1>0, <2>1, SeedSame DEF Retain
<1>4. \A n \in Namespaces : ClaimOK(n)'
  BY <1>0, <1>2, ClaimSame DEF TypeOK, Retain, Goto
<1>5. \A d \in Calls : CallOK(d)'
  <2>1. ASSUME NEW d \in Calls, d # c PROVE CallOK(d)'
    <3>1. pc'[d] = pc[d] /\ vol'[d] = vol[d] /\ claimed'[d] = claimed[d]
             /\ snapshot'[d] = snapshot[d]
      BY <1>0, <2>1 DEF TypeOK, Retain, Goto
    <3> QED
      BY <1>0, <1>2, <3>1, CallSame
  <2>2. CallOK(c)'
    <3>1. /\ vol'[c] = vol[c] /\ pc'[c] = "deleteSeed" /\ ~claimed'[c]
          /\ vol[c] \in Volumes /\ pv[vol[c]].phase # "none"
      BY <1>0 DEF OwnInv, CallOK, RetainOK, TakeOK, HasSeeded, TypeOK, Retain, Goto
    <3>2. pv'[vol[c]].policy = "Retain" \/ pv[vol[c]].phase = "gone"
      BY <1>0, <3>1 DEF Retain, TypeOK, VolumeStates, Exists
    <3>3. pv[vol[c]].phase = "gone" => pv' = pv
      BY <1>0 DEF Retain, Exists
    <3> QED
      BY <1>2, <3>1, <3>2, <3>3
         DEF CallOK, RetainOK, TakeOK, NameOK, HasSeeded, HasRetained, VolStep
  <2> QED
    BY <2>1, <2>2
<1>6. \A d \in Calls : SoleOK(d)'
  <2>1. \A d \in Calls : pc'[d] \in HasSeeded => pc[d] \in HasSeeded /\ vol'[d] = vol[d]
    BY <1>0 DEF TypeOK, HasSeeded, Retain, Goto
  <2> QED
    BY <1>0, <1>2, <2>1, SoleSame
<1> QED
  BY <1>1, <1>2, <1>3, <1>4, <1>5, <1>6, OwnParts

\* The seed is deleted; its volume will be released.
LEMMA DeleteSeedKeeps ==
    ASSUME OwnInv, NEW c \in Calls, DeleteSeed(c)
    PROVE  OwnInv' /\ \A v \in Volumes : VolStep(v)
<1>0. OwnInv /\ TypeOK
  BY DEF OwnInv
<1>1. TypeOK'
  <2>1. pv' \in [Volumes -> VolumeStates]
    BY <1>0, RecordTypes, EditTypes DEF TypeOK, DeleteSeed, Orphan
  <2>2. /\ seed' \in [Namespaces -> ClaimStates] /\ claim' \in [Namespaces -> ClaimStates]
        /\ live' \in SUBSET Namespaces
    BY <1>0, RecordTypes, CallOfNamespace DEF TypeOK, ClaimStates, DeleteSeed, Done, Goto
  <2>3. pc' \in [Calls -> CallStates]
    BY <1>0 DEF TypeOK, CallStates, DeleteSeed, Done, Goto
  <2>4. vol' \in [Calls -> Volumes \cup {0}]
    BY <1>0 DEF TypeOK, DeleteSeed, Done, Goto
  <2>8. snapshot' \in [Calls -> VolumeStates]
    BY <1>0, RecordTypes DEF TypeOK, DeleteSeed, Done, Goto
  <2>5. claimed' \in [Calls -> BOOLEAN]
    BY <1>0 DEF TypeOK, DeleteSeed, Done, Goto
  <2>7. tries' \in [Calls -> 0..(MaxTries - 1)]
    BY <1>0, VolumeAssumption DEF TypeOK, DeleteSeed, Done, Goto
  <2>6. deletes' \in Nat /\ aborts' \in Nat /\ deletes' + aborts' <= MaxUpsets
    BY <1>0, VolumeAssumption DEF TypeOK, DeleteSeed, Done, Goto
  <2> QED
    BY <2>1, <2>2, <2>3, <2>4, <2>5, <2>6, <2>7, <2>8 DEF TypeOK
<1>2. \A v \in Volumes : VolStep(v)
  <2>1. <<"seed", c[1]>> \in {"seed", "own"} \X Namespaces
    BY CallOfNamespace
  <2>2. pv' = Orphan(pv, <<"seed", c[1]>>)
    BY DEF DeleteSeed
  <2> QED
    BY <1>0, <2>1, <2>2, VolOrphan
<1>3. \A n \in Namespaces : SeedOK(n)'
  <2> SUFFICES ASSUME NEW n \in Namespaces PROVE SeedOK(n)'
    OBVIOUS
  <2>1. CASE n = c[1]
    BY <1>0, <2>1, SeedSame, RecordTypes DEF DeleteSeed, TypeOK
  <2>2. CASE n # c[1]
    <3>1. \A v \in Volumes : pv[v].ref = <<"seed", n>> => pv'[v].ref = <<"seed", n>>
      BY <2>2, RefsDiffer, CallOfNamespace DEF DeleteSeed, Orphan
    <3> QED
      BY <1>0, <2>2, <3>1, SeedSame DEF DeleteSeed, TypeOK
  <2> QED
    BY <2>1, <2>2
<1>4. \A n \in Namespaces : ClaimOK(n)'
  BY <1>0, <1>2, ClaimSame DEF TypeOK, DeleteSeed, Done, Goto
<1>5. \A d \in Calls : CallOK(d)'
  <2>1. ASSUME NEW d \in Calls, d # c PROVE CallOK(d)'
    <3>1. pc'[d] = pc[d] /\ vol'[d] = vol[d] /\ claimed'[d] = claimed[d]
             /\ snapshot'[d] = snapshot[d]
      BY <1>0, <2>1 DEF TypeOK, DeleteSeed, Done, Goto
    <3> QED
      BY <1>0, <1>2, <3>1, CallSame
  <2>2. CallOK(c)'
    <3>1. ~claimed'[c] /\ pc'[c] \in {"awaitRelease", "idle"} /\ CallOK(c)
          /\ pc[c] = "deleteSeed" /\ (pc'[c] = "awaitRelease" => vol'[c] = vol[c])
      BY <1>0 DEF OwnInv, CallOK, TakeOK, DeleteSeed, Done, Goto, TypeOK
    <3> QED
      BY <1>2, <3>1
         DEF CallOK, RetainOK, TakeOK, NameOK, HasSeeded, HasRetained, VolStep
  <2> QED
    BY <2>1, <2>2
<1>6. \A d \in Calls : SoleOK(d)'
  <2>1. \A d \in Calls : pc'[d] \in HasSeeded => pc[d] \in HasSeeded /\ vol'[d] = vol[d]
    BY <1>0 DEF TypeOK, HasSeeded, DeleteSeed, Done, Goto
  <2> QED
    BY <1>0, <1>2, <2>1, SoleSame
<1> QED
  BY <1>1, <1>2, <1>3, <1>4, <1>5, <1>6, OwnParts

\* `blimp down -v` deletes the claim.
LEMMA DeleteClaimKeeps ==
    ASSUME OwnInv, NEW c \in Calls, DeleteClaim(c)
    PROVE  OwnInv' /\ \A v \in Volumes : VolStep(v)
<1>0. OwnInv /\ TypeOK
  BY DEF OwnInv
<1>1. TypeOK'
  <2>1. pv' \in [Volumes -> VolumeStates]
    BY <1>0, RecordTypes, EditTypes DEF TypeOK, DeleteClaim, Orphan
  <2>2. /\ seed' \in [Namespaces -> ClaimStates] /\ claim' \in [Namespaces -> ClaimStates]
        /\ live' \in SUBSET Namespaces
    BY <1>0, RecordTypes, CallOfNamespace DEF TypeOK, ClaimStates, DeleteClaim, Goto
  <2>3. pc' \in [Calls -> CallStates]
    BY <1>0 DEF TypeOK, CallStates, DeleteClaim, Goto
  <2>4. vol' \in [Calls -> Volumes \cup {0}]
    BY <1>0 DEF TypeOK, DeleteClaim, Goto
  <2>8. snapshot' \in [Calls -> VolumeStates]
    BY <1>0, RecordTypes DEF TypeOK, DeleteClaim, Goto
  <2>5. claimed' \in [Calls -> BOOLEAN]
    BY <1>0 DEF TypeOK, DeleteClaim, Goto
  <2>7. tries' \in [Calls -> 0..(MaxTries - 1)]
    BY <1>0, VolumeAssumption DEF TypeOK, DeleteClaim, Goto
  <2>6. deletes' \in Nat /\ aborts' \in Nat /\ deletes' + aborts' <= MaxUpsets
    BY <1>0, VolumeAssumption DEF TypeOK, DeleteClaim, Goto
  <2> QED
    BY <2>1, <2>2, <2>3, <2>4, <2>5, <2>6, <2>7, <2>8 DEF TypeOK
<1>2. \A v \in Volumes : VolStep(v)
  <2>1. <<"own", c[1]>> \in {"seed", "own"} \X Namespaces
    BY CallOfNamespace
  <2>2. pv' = Orphan(pv, <<"own", c[1]>>)
    BY DEF DeleteClaim
  <2> QED
    BY <1>0, <2>1, <2>2, VolOrphan
<1>3. \A n \in Namespaces : SeedOK(n)'
  <2>1. \A v \in Volumes, n \in Namespaces :
           pv[v].ref = <<"seed", n>> => pv'[v].ref = <<"seed", n>>
    BY RefsDiffer, CallOfNamespace DEF DeleteClaim, Orphan
  <2> QED
    BY <1>0, <2>1, SeedSame DEF DeleteClaim
<1>4. \A n \in Namespaces : ClaimOK(n)'
  BY <1>0, <1>2, ClaimSame, RecordTypes DEF DeleteClaim, TypeOK
<1>5. \A d \in Calls : CallOK(d)'
  <2>1. ASSUME NEW d \in Calls, d # c PROVE CallOK(d)'
    <3>1. pc'[d] = pc[d] /\ vol'[d] = vol[d] /\ claimed'[d] = claimed[d]
             /\ snapshot'[d] = snapshot[d]
      BY <1>0, <2>1 DEF TypeOK, DeleteClaim, Goto
    <3> QED
      BY <1>0, <1>2, <3>1, CallSame
  <2>2. CallOK(c)'
    BY <1>0, <1>2
      DEF OwnInv, CallOK, RetainOK, TakeOK, NameOK, HasSeeded, HasRetained, TypeOK,
         DeleteClaim, Goto
  <2> QED
    BY <2>1, <2>2
<1>6. \A d \in Calls : SoleOK(d)'
  <2>1. \A d \in Calls : pc'[d] \in HasSeeded => pc[d] \in HasSeeded /\ vol'[d] = vol[d]
    BY <1>0 DEF TypeOK, HasSeeded, DeleteClaim, Goto
  <2> QED
    BY <1>0, <1>2, <2>1, SoleSame
<1> QED
  BY <1>1, <1>2, <1>3, <1>4, <1>5, <1>6, OwnParts

\* `blimp down -v` deletes the namespace.
LEMMA DeleteNamespaceKeeps ==
    ASSUME OwnInv, NEW c \in Calls, DeleteNamespace(c)
    PROVE  OwnInv' /\ \A v \in Volumes : VolStep(v)
<1>0. OwnInv /\ TypeOK
  BY DEF OwnInv
<1>1. TypeOK'
  <2>1. pv' \in [Volumes -> VolumeStates]
    BY <1>0, RecordTypes, EditTypes DEF TypeOK, DeleteNamespace, Orphan
  <2>2. /\ seed' \in [Namespaces -> ClaimStates] /\ claim' \in [Namespaces -> ClaimStates]
        /\ live' \in SUBSET Namespaces
    BY <1>0, RecordTypes, CallOfNamespace
      DEF TypeOK, ClaimStates, DeleteNamespace, Done, Goto
  <2>3. pc' \in [Calls -> CallStates]
    BY <1>0 DEF TypeOK, CallStates, DeleteNamespace, Done, Goto
  <2>4. vol' \in [Calls -> Volumes \cup {0}]
    BY <1>0 DEF TypeOK, DeleteNamespace, Done, Goto
  <2>8. snapshot' \in [Calls -> VolumeStates]
    BY <1>0, RecordTypes DEF TypeOK, DeleteNamespace, Done, Goto
  <2>5. claimed' \in [Calls -> BOOLEAN]
    BY <1>0 DEF TypeOK, DeleteNamespace, Done, Goto
  <2>7. tries' \in [Calls -> 0..(MaxTries - 1)]
    BY <1>0, VolumeAssumption DEF TypeOK, DeleteNamespace, Done, Goto
  <2>6. deletes' \in Nat /\ aborts' \in Nat /\ deletes' + aborts' <= MaxUpsets
    BY <1>0, VolumeAssumption DEF TypeOK, DeleteNamespace, Done, Goto
  <2> QED
    BY <2>1, <2>2, <2>3, <2>4, <2>5, <2>6, <2>7, <2>8 DEF TypeOK
<1>2. \A v \in Volumes : VolStep(v)
  <2>1. <<"own", c[1]>> \in {"seed", "own"} \X Namespaces
    BY CallOfNamespace
  <2>2. pv' = Orphan(pv, <<"own", c[1]>>)
    BY DEF DeleteNamespace
  <2> QED
    BY <1>0, <2>1, <2>2, VolOrphan
<1>3. \A n \in Namespaces : SeedOK(n)'
  <2>1. \A v \in Volumes, n \in Namespaces :
           pv[v].ref = <<"seed", n>> => pv'[v].ref = <<"seed", n>>
    BY RefsDiffer, CallOfNamespace DEF DeleteNamespace, Orphan
  <2> QED
    BY <1>0, <2>1, SeedSame DEF DeleteNamespace
<1>4. \A n \in Namespaces : ClaimOK(n)'
  BY <1>0, <1>2, ClaimSame, RecordTypes DEF DeleteNamespace, TypeOK
<1>5. \A d \in Calls : CallOK(d)'
  <2>1. ASSUME NEW d \in Calls, d # c PROVE CallOK(d)'
    <3>1. pc'[d] = pc[d] /\ vol'[d] = vol[d] /\ claimed'[d] = claimed[d]
             /\ snapshot'[d] = snapshot[d]
      BY <1>0, <2>1 DEF TypeOK, DeleteNamespace, Done, Goto
    <3> QED
      BY <1>0, <1>2, <3>1, CallSame
  <2>2. CallOK(c)'
    BY <1>0, <1>2
      DEF OwnInv, CallOK, RetainOK, TakeOK, NameOK, HasSeeded, HasRetained, TypeOK,
         DeleteNamespace, Done, Goto
  <2> QED
    BY <2>1, <2>2
<1>6. \A d \in Calls : SoleOK(d)'
  <2>1. \A d \in Calls : pc'[d] \in HasSeeded => pc[d] \in HasSeeded /\ vol'[d] = vol[d]
    BY <1>0 DEF TypeOK, HasSeeded, DeleteNamespace, Done, Goto
  <2> QED
    BY <1>0, <1>2, <2>1, SoleSame
<1> QED
  BY <1>1, <1>2, <1>3, <1>4, <1>5, <1>6, OwnParts

\* `blimp down` deletes the namespace.
LEMMA DownKeeps ==
    ASSUME OwnInv, NEW m \in Namespaces, Down(m)
    PROVE  OwnInv' /\ \A v \in Volumes : VolStep(v)
<1>0. OwnInv /\ TypeOK
  BY DEF OwnInv
<1>1. TypeOK'
  <2>1. pv' \in [Volumes -> VolumeStates]
    BY <1>0, RecordTypes, EditTypes DEF TypeOK, Down, Orphan
  <2>2. /\ seed' \in [Namespaces -> ClaimStates] /\ claim' \in [Namespaces -> ClaimStates]
        /\ live' \in SUBSET Namespaces
    BY <1>0, RecordTypes, CallOfNamespace DEF TypeOK, ClaimStates, Down, callVars
  <2>3. pc' \in [Calls -> CallStates]
    BY <1>0 DEF TypeOK, CallStates, Down, callVars
  <2>4. vol' \in [Calls -> Volumes \cup {0}]
    BY <1>0 DEF TypeOK, Down, callVars
  <2>8. snapshot' \in [Calls -> VolumeStates]
    BY <1>0, RecordTypes DEF TypeOK, Down, callVars
  <2>5. claimed' \in [Calls -> BOOLEAN]
    BY <1>0 DEF TypeOK, Down, callVars
  <2>7. tries' \in [Calls -> 0..(MaxTries - 1)]
    BY <1>0, VolumeAssumption DEF TypeOK, Down, callVars
  <2>6. deletes' \in Nat /\ aborts' \in Nat /\ deletes' + aborts' <= MaxUpsets
    BY <1>0, VolumeAssumption DEF TypeOK, Down, callVars
  <2> QED
    BY <2>1, <2>2, <2>3, <2>4, <2>5, <2>6, <2>7, <2>8 DEF TypeOK
<1>2. \A v \in Volumes : VolStep(v)
  <2>1. <<"own", m>> \in {"seed", "own"} \X Namespaces
    BY CallOfNamespace
  <2>2. pv' = Orphan(pv, <<"own", m>>)
    BY DEF Down
  <2> QED
    BY <1>0, <2>1, <2>2, VolOrphan
<1>3. \A n \in Namespaces : SeedOK(n)'
  <2>1. \A v \in Volumes, n \in Namespaces :
           pv[v].ref = <<"seed", n>> => pv'[v].ref = <<"seed", n>>
    BY RefsDiffer, CallOfNamespace DEF Down, Orphan
  <2> QED
    BY <1>0, <2>1, SeedSame DEF Down
<1>4. \A n \in Namespaces : ClaimOK(n)'
  BY <1>0, <1>2, ClaimSame, RecordTypes DEF Down, TypeOK
<1>5. \A d \in Calls : CallOK(d)'
  BY <1>0, <1>2, CallSame DEF Down, callVars
<1>6. \A d \in Calls : SoleOK(d)'
  <2>1. \A d \in Calls : pc'[d] \in HasSeeded => pc[d] \in HasSeeded /\ vol'[d] = vol[d]
    BY <1>0 DEF TypeOK, HasSeeded, Down, callVars
  <2> QED
    BY <1>0, <1>2, <2>1, SoleSame
<1> QED
  BY <1>1, <1>2, <1>3, <1>4, <1>5, <1>6, OwnParts

\* Only a volume without owner gets the label, and it has been retained.
LEMMA UpdateForClaimKeeps ==
    ASSUME OwnInv, NEW c \in Calls, UpdateForClaim(c)
    PROVE  OwnInv' /\ \A v \in Volumes : VolStep(v)
<1>0. OwnInv /\ TypeOK
  BY DEF OwnInv
<1>a. /\ c[1] \in Namespaces /\ c[1] # None /\ vol[c] \in Volumes /\ pc[c] = "update"
      /\ CallOK(c) /\ pv[vol[c]].phase \in {"Available", "Released"}
      /\ pv[vol[c]] \in VolumeStates /\ (pv[vol[c]].label = None => claimed[c])
  BY <1>0, VolumeAssumption, CallOfNamespace
    DEF OwnInv, CallOK, RetainOK, TakeOK, HasSeeded, UpdateForClaim, TypeOK
<1>b. LET p == pv[vol[c]] IN
      /\ MakeAvailable(LabelIfFree(p, c[1])) \in VolumeStates
      /\ MakeAvailable(LabelIfFree(p, c[1])).ref = NoRef
      /\ MakeAvailable(LabelIfFree(p, c[1])).phase = "Available"
      /\ MakeAvailable(LabelIfFree(p, c[1])).label = (IF p.label = None THEN c[1] ELSE p.label)
      /\ MakeAvailable(LabelIfFree(p, c[1])).policy = p.policy
      /\ MakeAvailable(LabelIfFree(p, c[1])).users = p.users
      /\ MakeAvailable(LabelIfFree(p, c[1])).given = p.given
  BY <1>a, AvailableFields
<1>c. pv' = [pv EXCEPT ![vol[c]] = MakeAvailable(LabelIfFree(pv[vol[c]], c[1]))]
  BY DEF UpdateForClaim
<1>1. TypeOK'
  <2>1. pv' \in [Volumes -> VolumeStates]
    BY <1>0, <1>a, <1>b, <1>c DEF TypeOK
  <2>2. /\ seed' \in [Namespaces -> ClaimStates] /\ claim' \in [Namespaces -> ClaimStates]
        /\ live' \in SUBSET Namespaces
    BY <1>0, RecordTypes, CallOfNamespace
      DEF TypeOK, ClaimStates, UpdateForClaim, NextTry, Forget, Goto
  <2>3. pc' \in [Calls -> CallStates]
    BY <1>0 DEF TypeOK, CallStates, UpdateForClaim, NextTry, Forget, Goto
  <2>4. vol' \in [Calls -> Volumes \cup {0}]
    BY <1>0 DEF TypeOK, UpdateForClaim, NextTry, Forget, Goto
  <2>8. snapshot' \in [Calls -> VolumeStates]
    BY <1>0, RecordTypes DEF TypeOK, UpdateForClaim, NextTry, Forget, Goto
  <2>5. claimed' \in [Calls -> BOOLEAN]
    BY <1>0 DEF TypeOK, UpdateForClaim, NextTry, Forget, Goto
  <2>7. tries' \in [Calls -> 0..(MaxTries - 1)]
    BY <1>0, VolumeAssumption DEF TypeOK, UpdateForClaim, NextTry, Forget, Goto
  <2>6. deletes' \in Nat /\ aborts' \in Nat /\ deletes' + aborts' <= MaxUpsets
    BY <1>0, VolumeAssumption DEF TypeOK, UpdateForClaim, NextTry, Forget, Goto
  <2> QED
    BY <2>1, <2>2, <2>3, <2>4, <2>5, <2>6, <2>7, <2>8 DEF TypeOK
<1>2. \A v \in Volumes : VolStep(v)
  <2> SUFFICES ASSUME NEW v \in Volumes PROVE VolStep(v)
    OBVIOUS
  <2>1. CASE v # vol[c]
    <3>1. pv'[v] = pv[v]
      BY <1>0, <2>1, <1>b, <1>c DEF TypeOK
    <3> QED
      BY <1>0, <3>1, VolSame
  <2>2. CASE v = vol[c]
    <3>0. VolumeOK(v) /\ KeptOK(v) /\ pv[v] \in VolumeStates
      BY <1>0 DEF OwnInv, TypeOK
    <3>1. /\ pv'[v].phase = "Available" /\ pv'[v].ref = NoRef
          /\ pv'[v].label = (IF pv[v].label = None THEN c[1] ELSE pv[v].label)
          /\ pv'[v].policy = pv[v].policy
          /\ pv'[v].users = pv[v].users /\ pv'[v].given = pv[v].given
      BY <1>0, <2>2, <3>0, <1>b, <1>c DEF TypeOK, VolumeStates
    <3>a. pv[v].policy = "Retain" \/ pv[v].given
      BY <1>a, <2>2 DEF CallOK, RetainOK, HasRetained
    <3>b. pv[v].label = None /\ ~pv[v].given => pv[v].users = {}
      BY <3>0, VolumeAssumption DEF KeptOK, VolumeStates
    <3>c. Fresh(v) => Taken(v)
      BY <1>a, <2>2, <3>1 DEF Fresh, Taken, HasSeeded
    <3>3. VolumeOK(v)'
      BY <2>2, <3>0, <3>1, RecordTypes, RefsDiffer, <1>a, <3>a, <3>b, <3>c,
         VolumeAssumption DEF VolumeOK, Fresh, Exists
    <3>4. KeptOK(v)'
      BY <2>2, <3>0, <3>1, <1>a, <3>a, <3>b, <3>c, VolumeAssumption DEF KeptOK
    <3> QED
      BY <2>2, <3>0, <3>1, <3>3, <3>4, RefsDiffer, <1>a, <3>a, <3>b, <3>c,
         VolumeAssumption DEF VolStep, VolumeOK, BelongsTo, Fresh, Exists
  <2> QED
    BY <2>1, <2>2
<1>3. \A n \in Namespaces : SeedOK(n)'
  <2>1. ASSUME NEW v \in Volumes, NEW n \in Namespaces, pv[v].ref = <<"seed", n>>
        PROVE  pv'[v].ref = <<"seed", n>>
    <3>1. pv[v].phase = "Bound"
      BY <1>0, <2>1, SeededIsBound
    <3> QED
      BY <1>0, <2>1, <3>1, <1>a, <1>c DEF TypeOK, VolumeStates
  <2> QED
    BY <1>0, <2>1, SeedSame DEF UpdateForClaim
<1>4. \A n \in Namespaces : ClaimOK(n)'
  BY <1>0, <1>2, ClaimSame DEF TypeOK, UpdateForClaim, NextTry, Forget, Goto
<1>5. \A d \in Calls : CallOK(d)'
  <2>1. ASSUME NEW d \in Calls, d # c PROVE CallOK(d)'
    <3>1. pc'[d] = pc[d] /\ vol'[d] = vol[d] /\ claimed'[d] = claimed[d]
             /\ snapshot'[d] = snapshot[d]
      BY <1>0, <2>1 DEF TypeOK, UpdateForClaim, NextTry, Forget, Goto
    <3> QED
      BY <1>0, <1>2, <3>1, CallSame
  <2>2. CallOK(c)'
    <3>1. ~claimed'[c] /\ pc'[c] \in {"create", "seed", "idle"}
          /\ (pc'[c] = "create" => claimed[c] /\ vol'[c] = vol[c])
      BY <1>0 DEF UpdateForClaim, NextTry, Forget, Goto, TypeOK
    <3>2. ASSUME claimed[c] PROVE \A v \in Volumes : v = vol[c] => BelongsTo(v, c[1])'
      <4>1. CASE Fresh(vol[c])
        BY <1>0, <1>a, <1>b, <1>c, <4>1 DEF Fresh, BelongsTo, TypeOK
      <4>2. CASE BelongsTo(vol[c], c[1])
        BY <1>2, <1>a, <4>2 DEF VolStep
      <4> QED
        BY <1>a, <3>2, <4>1, <4>2 DEF CallOK, TakeOK
    <3>3. NameOK(c)'
      BY <1>a, <3>1, <3>2 DEF NameOK, BelongsTo
    <3> QED
      BY <3>1, <3>3 DEF CallOK, RetainOK, TakeOK, HasSeeded, HasRetained
  <2> QED
    BY <2>1, <2>2
<1>6. \A d \in Calls : SoleOK(d)'
  <2>1. \A d \in Calls : pc'[d] \in HasSeeded => pc[d] \in HasSeeded /\ vol'[d] = vol[d]
    BY <1>0 DEF TypeOK, HasSeeded, UpdateForClaim, NextTry, Forget, Goto
  <2> QED
    BY <1>0, <1>2, <2>1, SoleSame
<1> QED
  BY <1>1, <1>2, <1>3, <1>4, <1>5, <1>6, OwnParts

\* A volume that is given up is nobody's.
LEMMA GiveUpKeeps ==
    ASSUME OwnInv, NEW c \in Calls, GiveUp(c)
    PROVE  OwnInv' /\ \A v \in Volumes : VolStep(v)
<1>0. OwnInv /\ TypeOK
  BY DEF OwnInv
<1>1. TypeOK'
  <2>1. pv' \in [Volumes -> VolumeStates]
    <3>1. ASSUME Exists(vol[c])
          PROVE  [pv[vol[c]] EXCEPT !.label = None, !.policy = "Delete", !.given = TRUE]
                    \in VolumeStates
      BY <1>0, <3>1, RecordTypes, EditTypes DEF TypeOK, Exists
    <3> QED
      BY <1>0, <3>1 DEF TypeOK, GiveUp
  <2>2. /\ seed' \in [Namespaces -> ClaimStates] /\ claim' \in [Namespaces -> ClaimStates]
        /\ live' \in SUBSET Namespaces
    BY <1>0, RecordTypes, CallOfNamespace DEF TypeOK, ClaimStates, GiveUp, Goto
  <2>3. pc' \in [Calls -> CallStates]
    BY <1>0 DEF TypeOK, CallStates, GiveUp, Goto
  <2>4. vol' \in [Calls -> Volumes \cup {0}]
    BY <1>0 DEF TypeOK, GiveUp, Goto
  <2>8. snapshot' \in [Calls -> VolumeStates]
    BY <1>0, RecordTypes DEF TypeOK, GiveUp, Goto
  <2>5. claimed' \in [Calls -> BOOLEAN]
    BY <1>0 DEF TypeOK, GiveUp, Goto
  <2>7. tries' \in [Calls -> 0..(MaxTries - 1)]
    BY <1>0, VolumeAssumption DEF TypeOK, GiveUp, Goto
  <2>6. deletes' \in Nat /\ aborts' \in Nat /\ deletes' + aborts' <= MaxUpsets
    BY <1>0, VolumeAssumption DEF TypeOK, GiveUp, Goto
  <2> QED
    BY <2>1, <2>2, <2>3, <2>4, <2>5, <2>6, <2>7, <2>8 DEF TypeOK
<1>2. \A v \in Volumes : VolStep(v)
  <2> SUFFICES ASSUME NEW v \in Volumes PROVE VolStep(v)
    OBVIOUS
  <2>1. CASE v # vol[c] \/ ~(Exists(vol[c]))
    <3>1. pv'[v] = pv[v]
      BY <1>0, <2>1 DEF TypeOK, GiveUp
    <3> QED
      BY <1>0, <3>1, VolSame
  <2>2. CASE v = vol[c] /\ Exists(vol[c])
    <3>0. VolumeOK(v) /\ KeptOK(v) /\ pv[v] \in VolumeStates
      BY <1>0 DEF OwnInv, TypeOK
    <3>1. /\ pv'[v].phase = pv[v].phase /\ pv'[v].ref = pv[v].ref
          /\ pv'[v].label = None /\ pv'[v].policy = "Delete"
          /\ pv'[v].users = pv[v].users /\ pv'[v].given = TRUE
      BY <1>0, <2>2, <3>0 DEF TypeOK, VolumeStates, GiveUp
    <3>3. VolumeOK(v)'
      BY <2>2, <3>0, <3>1, RecordTypes, RefsDiffer DEF VolumeOK, Fresh, Exists
    <3>4. KeptOK(v)'
      BY <2>2, <3>0, <3>1 DEF KeptOK
    <3> QED
      BY <2>2, <3>0, <3>1, <3>3, <3>4, RefsDiffer
        DEF VolStep, VolumeOK, BelongsTo, Fresh, Exists
  <2> QED
    BY <2>1, <2>2
<1>3. \A n \in Namespaces : SeedOK(n)'
  <2>1. ASSUME NEW v \in Volumes, NEW n \in Namespaces, pv[v].ref = <<"seed", n>>
        PROVE  pv'[v].ref = <<"seed", n>>
    <3>1. pv[v].phase = "Bound"
      BY <1>0, <2>1, SeededIsBound
    <3> QED
      BY <1>0, <2>1, <3>1 DEF TypeOK, VolumeStates, GiveUp
  <2> QED
    BY <1>0, <2>1, SeedSame DEF GiveUp
<1>4. \A n \in Namespaces : ClaimOK(n)'
  BY <1>0, <1>2, ClaimSame DEF TypeOK, GiveUp, Goto
<1>5. \A d \in Calls : CallOK(d)'
  <2>1. ASSUME NEW d \in Calls, d # c PROVE CallOK(d)'
    <3>1. pc'[d] = pc[d] /\ vol'[d] = vol[d] /\ claimed'[d] = claimed[d]
             /\ snapshot'[d] = snapshot[d]
      BY <1>0, <2>1 DEF TypeOK, GiveUp, Goto
    <3> QED
      BY <1>0, <1>2, <3>1, CallSame
  <2>2. CallOK(c)'
    BY <1>0, <1>2
      DEF OwnInv, CallOK, RetainOK, TakeOK, NameOK, HasSeeded, HasRetained, TypeOK,
         GiveUp, Goto
  <2> QED
    BY <2>1, <2>2
<1>6. \A d \in Calls : SoleOK(d)'
  <2>1. \A d \in Calls : pc'[d] \in HasSeeded => pc[d] \in HasSeeded /\ vol'[d] = vol[d]
    BY <1>0 DEF TypeOK, HasSeeded, GiveUp, Goto
  <2> QED
    BY <1>0, <1>2, <2>1, SoleSame
<1> QED
  BY <1>1, <1>2, <1>3, <1>4, <1>5, <1>6, OwnParts

\* A seed is bound to a volume that is not fresh.
LEMMA BindSeedKeeps ==
    ASSUME OwnInv, NEW m \in Namespaces, NEW w \in Volumes, BindSeed(m, w)
    PROVE  OwnInv' /\ \A v \in Volumes : VolStep(v)
<1>0. OwnInv /\ TypeOK
  BY DEF OwnInv
<1>1. TypeOK'
  <2>1. pv' \in [Volumes -> VolumeStates]
    BY <1>0, RefsDiffer, EditTypes DEF TypeOK, BindSeed, Bind
  <2>2. /\ seed' \in [Namespaces -> ClaimStates] /\ claim' \in [Namespaces -> ClaimStates]
        /\ live' \in SUBSET Namespaces
    BY <1>0, RecordTypes, CallOfNamespace
      DEF TypeOK, ClaimStates, BindSeed, Bind, callVars
  <2>3. pc' \in [Calls -> CallStates]
    BY <1>0 DEF TypeOK, CallStates, BindSeed, Bind, callVars
  <2>4. vol' \in [Calls -> Volumes \cup {0}]
    BY <1>0 DEF TypeOK, BindSeed, Bind, callVars
  <2>8. snapshot' \in [Calls -> VolumeStates]
    BY <1>0, RecordTypes DEF TypeOK, BindSeed, Bind, callVars
  <2>5. claimed' \in [Calls -> BOOLEAN]
    BY <1>0 DEF TypeOK, BindSeed, Bind, callVars
  <2>7. tries' \in [Calls -> 0..(MaxTries - 1)]
    BY <1>0, VolumeAssumption DEF TypeOK, BindSeed, Bind, callVars
  <2>6. deletes' \in Nat /\ aborts' \in Nat /\ deletes' + aborts' <= MaxUpsets
    BY <1>0, VolumeAssumption DEF TypeOK, BindSeed, Bind, callVars
  <2> QED
    BY <2>1, <2>2, <2>3, <2>4, <2>5, <2>6, <2>7, <2>8 DEF TypeOK
<1>2. \A v \in Volumes : VolStep(v)
  <2> SUFFICES ASSUME NEW v \in Volumes PROVE VolStep(v)
    OBVIOUS
  <2>1. CASE v # w
    <3>1. pv'[v] = pv[v]
      BY <1>0, <2>1 DEF TypeOK, BindSeed, Bind
    <3> QED
      BY <1>0, <3>1, VolSame
  <2>2. CASE v = w
    <3>0. VolumeOK(v) /\ KeptOK(v) /\ pv[v] \in VolumeStates
      BY <1>0 DEF OwnInv, TypeOK
    <3>1. /\ pv'[v].phase = "Bound" /\ pv'[v].ref = <<"seed", m>>
          /\ pv'[v].label = pv[v].label /\ pv'[v].policy = pv[v].policy
          /\ pv'[v].users = pv[v].users /\ pv'[v].given = pv[v].given
      BY <1>0, <2>2, <3>0 DEF TypeOK, VolumeStates, BindSeed, Bind
    <3>a. pv[v].phase = "Available"
      BY <2>2 DEF BindSeed
    <3>3. VolumeOK(v)'
      BY <2>2, <3>0, <3>1, RecordTypes, RefsDiffer, <3>a DEF VolumeOK, Fresh, Exists
    <3>4. KeptOK(v)'
      BY <2>2, <3>0, <3>1, <3>a DEF KeptOK
    <3> QED
      BY <2>2, <3>0, <3>1, <3>3, <3>4, RefsDiffer, <3>a
        DEF VolStep, VolumeOK, BelongsTo, Fresh, Exists
  <2> QED
    BY <2>1, <2>2
<1>3. \A n \in Namespaces : SeedOK(n)'
  <2> SUFFICES ASSUME NEW n \in Namespaces PROVE SeedOK(n)'
    OBVIOUS
  <2>1. CASE n = m
    BY <1>0, <2>1 DEF BindSeed, Bind, TypeOK, SeedOK, VolumeStates
  <2>2. CASE n # m
    <3>1. ASSUME NEW v \in Volumes, pv[v].ref = <<"seed", n>>
          PROVE  pv'[v].ref = <<"seed", n>>
      <4>1. pv[v].phase = "Bound"
        BY <1>0, <3>1, SeededIsBound
      <4> QED
        BY <1>0, <3>1, <4>1 DEF BindSeed, Bind, TypeOK
    <3> QED
      BY <1>0, <2>2, <3>1, SeedSame DEF BindSeed, Bind, TypeOK
  <2> QED
    BY <2>1, <2>2
<1>4. \A n \in Namespaces : ClaimOK(n)'
  BY <1>0, <1>2, ClaimSame DEF TypeOK, BindSeed, Bind, callVars
<1>5. \A d \in Calls : CallOK(d)'
  BY <1>0, <1>2, CallSame DEF BindSeed, Bind, callVars
<1>6. \A d \in Calls : SoleOK(d)'
  <2>1. \A d \in Calls : pc'[d] \in HasSeeded => pc[d] \in HasSeeded /\ vol'[d] = vol[d]
    BY <1>0 DEF TypeOK, HasSeeded, BindSeed, Bind, callVars
  <2> QED
    BY <1>0, <1>2, <2>1, SoleSame
<1> QED
  BY <1>1, <1>2, <1>3, <1>4, <1>5, <1>6, OwnParts

\* A new volume is for the seed only.
LEMMA ProvisionKeeps ==
    ASSUME OwnInv, NEW m \in Namespaces, NEW w \in Volumes, Provision(m, w)
    PROVE  OwnInv' /\ \A v \in Volumes : VolStep(v)
<1>0. OwnInv /\ TypeOK
  BY DEF OwnInv
<1>a. LET p == [NoVolume EXCEPT !.phase = "Bound", !.ref = <<"seed", m>>] IN
      /\ p \in VolumeStates /\ p.phase = "Bound" /\ p.ref = <<"seed", m>> /\ p.label = None
      /\ p.policy = "Delete" /\ p.users = {} /\ p.given = FALSE
  BY RefsDiffer DEF NoVolume, VolumeStates
<1>1. TypeOK'
  <2>1. pv' \in [Volumes -> VolumeStates]
    BY <1>0, <1>a DEF TypeOK, Provision
  <2>2. /\ seed' \in [Namespaces -> ClaimStates] /\ claim' \in [Namespaces -> ClaimStates]
        /\ live' \in SUBSET Namespaces
    BY <1>0, RecordTypes, CallOfNamespace DEF TypeOK, ClaimStates, Provision, callVars
  <2>3. pc' \in [Calls -> CallStates]
    BY <1>0 DEF TypeOK, CallStates, Provision, callVars
  <2>4. vol' \in [Calls -> Volumes \cup {0}]
    BY <1>0 DEF TypeOK, Provision, callVars
  <2>8. snapshot' \in [Calls -> VolumeStates]
    BY <1>0, RecordTypes DEF TypeOK, Provision, callVars
  <2>5. claimed' \in [Calls -> BOOLEAN]
    BY <1>0 DEF TypeOK, Provision, callVars
  <2>7. tries' \in [Calls -> 0..(MaxTries - 1)]
    BY <1>0, VolumeAssumption DEF TypeOK, Provision, callVars
  <2>6. deletes' \in Nat /\ aborts' \in Nat /\ deletes' + aborts' <= MaxUpsets
    BY <1>0, VolumeAssumption DEF TypeOK, Provision, callVars
  <2> QED
    BY <2>1, <2>2, <2>3, <2>4, <2>5, <2>6, <2>7, <2>8 DEF TypeOK
<1>2. \A v \in Volumes : VolStep(v)
  <2> SUFFICES ASSUME NEW v \in Volumes PROVE VolStep(v)
    OBVIOUS
  <2>1. CASE v # w
    <3>1. pv'[v] = pv[v]
      BY <1>0, <2>1, <1>a DEF TypeOK, Provision
    <3> QED
      BY <1>0, <3>1, VolSame
  <2>2. CASE v = w
    <3>0. VolumeOK(v) /\ KeptOK(v) /\ pv[v] \in VolumeStates
      BY <1>0 DEF OwnInv, TypeOK
    <3>1. /\ pv'[v].phase = "Bound" /\ pv'[v].ref = <<"seed", m>>
          /\ pv'[v].label = None /\ pv'[v].policy = "Delete"
          /\ pv'[v].users = {} /\ pv'[v].given = FALSE
      BY <1>0, <2>2, <3>0, <1>a DEF TypeOK, VolumeStates, Provision
    <3>a. pv[v].phase = "none" /\ ~pv[v].given /\ \A n \in Namespaces : pv[v].label # n
      BY <2>2, <3>0, VolumeAssumption DEF Provision, VolumeOK
    <3>3. VolumeOK(v)'
      BY <2>2, <3>0, <3>1, RecordTypes, RefsDiffer, <3>a DEF VolumeOK, Fresh, Exists
    <3>4. KeptOK(v)'
      BY <2>2, <3>0, <3>1, <3>a DEF KeptOK
    <3> QED
      BY <2>2, <3>0, <3>1, <3>3, <3>4, RefsDiffer, <3>a
        DEF VolStep, VolumeOK, BelongsTo, Fresh, Exists
  <2> QED
    BY <2>1, <2>2
<1>3. \A n \in Namespaces : SeedOK(n)'
  <2> SUFFICES ASSUME NEW n \in Namespaces PROVE SeedOK(n)'
    OBVIOUS
  <2>1. CASE n = m
    BY <1>0, <1>a, <2>1 DEF Provision, TypeOK, SeedOK
  <2>2. CASE n # m
    <3>1. ASSUME NEW v \in Volumes, pv[v].ref = <<"seed", n>>
          PROVE  pv'[v].ref = <<"seed", n>>
      <4>1. pv[v].phase = "Bound"
        BY <1>0, <3>1, SeededIsBound
      <4> QED
        BY <1>0, <3>1, <4>1 DEF Provision, TypeOK
    <3> QED
      BY <1>0, <2>2, <3>1, SeedSame DEF Provision, TypeOK
  <2> QED
    BY <2>1, <2>2
<1>4. \A n \in Namespaces : ClaimOK(n)'
  BY <1>0, <1>2, ClaimSame DEF TypeOK, Provision, callVars
<1>5. \A d \in Calls : CallOK(d)'
  BY <1>0, <1>2, CallSame DEF Provision, callVars
<1>6. \A d \in Calls : SoleOK(d)'
  <2>1. \A d \in Calls : pc'[d] \in HasSeeded => pc[d] \in HasSeeded /\ vol'[d] = vol[d]
    BY <1>0 DEF TypeOK, HasSeeded, Provision, callVars
  <2> QED
    BY <1>0, <1>2, <2>1, SoleSame
<1> QED
  BY <1>1, <1>2, <1>3, <1>4, <1>5, <1>6, OwnParts

\* A namespace mounts only a volume of its own, or one that was given up.
LEMMA BindClaimKeeps ==
    ASSUME OwnInv, NEW m \in Namespaces, BindClaim(m)
    PROVE  OwnInv' /\ \A v \in Volumes : VolStep(v)
<1>0. OwnInv /\ TypeOK
  BY DEF OwnInv
<1>a. PICK w \in Volumes : w = claim[m].volume
  BY DEF BindClaim
<1>b. /\ claim[m].state = "pending" /\ pv[w].phase = "Available" /\ BelongsTo(w, m)
      /\ pv' = [pv EXCEPT ![w].ref = <<"own", m>>, ![w].phase = "Bound",
                         ![w].users = @ \cup {m}]
  BY <1>0, <1>a DEF BindClaim, OwnInv, ClaimOK
<1>c. pv[w] \in VolumeStates /\ (pv[w].users \cup {m}) \in SUBSET Namespaces
  BY <1>0 DEF TypeOK, VolumeStates
<1>1. TypeOK'
  <2>1. pv' \in [Volumes -> VolumeStates]
    <3>1. [pv[w] EXCEPT !.ref = <<"own", m>>, !.phase = "Bound",
                        !.users = pv[w].users \cup {m}] \in VolumeStates
      BY <1>c, RefsDiffer, EditTypes
    <3> QED
      BY <1>0, <1>b, <3>1 DEF TypeOK
  <2>2. /\ seed' \in [Namespaces -> ClaimStates] /\ claim' \in [Namespaces -> ClaimStates]
        /\ live' \in SUBSET Namespaces
    BY <1>0, RecordTypes, CallOfNamespace DEF TypeOK, ClaimStates, BindClaim, callVars
  <2>3. pc' \in [Calls -> CallStates]
    BY <1>0 DEF TypeOK, CallStates, BindClaim, callVars
  <2>4. vol' \in [Calls -> Volumes \cup {0}]
    BY <1>0 DEF TypeOK, BindClaim, callVars
  <2>8. snapshot' \in [Calls -> VolumeStates]
    BY <1>0, RecordTypes DEF TypeOK, BindClaim, callVars
  <2>5. claimed' \in [Calls -> BOOLEAN]
    BY <1>0 DEF TypeOK, BindClaim, callVars
  <2>7. tries' \in [Calls -> 0..(MaxTries - 1)]
    BY <1>0, VolumeAssumption DEF TypeOK, BindClaim, callVars
  <2>6. deletes' \in Nat /\ aborts' \in Nat /\ deletes' + aborts' <= MaxUpsets
    BY <1>0, VolumeAssumption DEF TypeOK, BindClaim, callVars
  <2> QED
    BY <2>1, <2>2, <2>3, <2>4, <2>5, <2>6, <2>7, <2>8 DEF TypeOK
<1>2. \A v \in Volumes : VolStep(v)
  <2> SUFFICES ASSUME NEW v \in Volumes PROVE VolStep(v)
    OBVIOUS
  <2>1. CASE v # w
    <3>1. pv'[v] = pv[v]
      BY <1>0, <2>1, <1>b DEF TypeOK
    <3> QED
      BY <1>0, <3>1, VolSame
  <2>2. CASE v = w
    <3>0. VolumeOK(v) /\ KeptOK(v) /\ pv[v] \in VolumeStates
      BY <1>0 DEF OwnInv, TypeOK
    <3>1. /\ pv'[v].phase = "Bound" /\ pv'[v].ref = <<"own", m>>
          /\ pv'[v].label = pv[v].label /\ pv'[v].policy = pv[v].policy
          /\ pv'[v].users = pv[v].users \cup {m} /\ pv'[v].given = pv[v].given
      BY <1>0, <2>2, <3>0, <1>b DEF TypeOK, VolumeStates
    <3>3. VolumeOK(v)'
      BY <2>2, <3>0, <3>1, RecordTypes, RefsDiffer, <1>b
        DEF VolumeOK, Fresh, Exists, BelongsTo
    <3>4. KeptOK(v)'
      BY <2>2, <3>0, <3>1, <1>b DEF KeptOK, BelongsTo
    <3> QED
      BY <2>2, <3>0, <3>1, <3>3, <3>4, RefsDiffer, <1>b
        DEF VolStep, VolumeOK, BelongsTo, Fresh, Exists
  <2> QED
    BY <2>1, <2>2
<1>3. \A n \in Namespaces : SeedOK(n)'
  <2>1. ASSUME NEW v \in Volumes, NEW n \in Namespaces, pv[v].ref = <<"seed", n>>
        PROVE  pv'[v].ref = <<"seed", n>>
    <3>1. pv[v].phase = "Bound"
      BY <1>0, <2>1, SeededIsBound
    <3> QED
      BY <1>0, <1>b, <2>1, <3>1 DEF TypeOK
  <2> QED
    BY <1>0, <2>1, SeedSame DEF BindClaim
<1>4. \A n \in Namespaces : ClaimOK(n)'
  BY <1>0, <1>2, <1>b, ClaimSame DEF BindClaim, TypeOK
<1>5. \A d \in Calls : CallOK(d)'
  BY <1>0, <1>2, CallSame DEF BindClaim, callVars
<1>6. \A d \in Calls : SoleOK(d)'
  <2>1. \A d \in Calls : pc'[d] \in HasSeeded => pc[d] \in HasSeeded /\ vol'[d] = vol[d]
    BY <1>0 DEF TypeOK, HasSeeded, BindClaim, callVars
  <2> QED
    BY <1>0, <1>2, <2>1, SoleSame
<1> QED
  BY <1>1, <1>2, <1>3, <1>4, <1>5, <1>6, OwnParts

\* A volume whose claim is gone is Released if it is retained, and gone otherwise.
LEMMA ReclaimKeeps ==
    ASSUME OwnInv, NEW w \in Volumes, Reclaim(w)
    PROVE  OwnInv' /\ \A v \in Volumes : VolStep(v)
<1>0. OwnInv /\ TypeOK
  BY DEF OwnInv
<1>1. TypeOK'
  <2>1. pv' \in [Volumes -> VolumeStates]
    <3>1. [pv[w] EXCEPT !.phase = "Released"] \in VolumeStates
      BY <1>0, RecordTypes, EditTypes DEF TypeOK
    <3> QED
      BY <1>0, <3>1, RecordTypes DEF TypeOK, Reclaim
  <2>2. /\ seed' \in [Namespaces -> ClaimStates] /\ claim' \in [Namespaces -> ClaimStates]
        /\ live' \in SUBSET Namespaces
    BY <1>0, RecordTypes, CallOfNamespace DEF TypeOK, ClaimStates, Reclaim, callVars
  <2>3. pc' \in [Calls -> CallStates]
    BY <1>0 DEF TypeOK, CallStates, Reclaim, callVars
  <2>4. vol' \in [Calls -> Volumes \cup {0}]
    BY <1>0 DEF TypeOK, Reclaim, callVars
  <2>8. snapshot' \in [Calls -> VolumeStates]
    BY <1>0, RecordTypes DEF TypeOK, Reclaim, callVars
  <2>5. claimed' \in [Calls -> BOOLEAN]
    BY <1>0 DEF TypeOK, Reclaim, callVars
  <2>7. tries' \in [Calls -> 0..(MaxTries - 1)]
    BY <1>0, VolumeAssumption DEF TypeOK, Reclaim, callVars
  <2>6. deletes' \in Nat /\ aborts' \in Nat /\ deletes' + aborts' <= MaxUpsets
    BY <1>0, VolumeAssumption DEF TypeOK, Reclaim, callVars
  <2> QED
    BY <2>1, <2>2, <2>3, <2>4, <2>5, <2>6, <2>7, <2>8 DEF TypeOK
<1>2. \A v \in Volumes : VolStep(v)
  <2> SUFFICES ASSUME NEW v \in Volumes PROVE VolStep(v)
    OBVIOUS
  <2>1. CASE v # w
    <3>1. pv'[v] = pv[v]
      BY <1>0, <2>1 DEF TypeOK, Reclaim
    <3> QED
      BY <1>0, <3>1, VolSame
  <2>2. CASE v = w /\ pv[v].policy = "Delete"
    <3>0. VolumeOK(v) /\ KeptOK(v) /\ pv[v].phase # "none"
      BY <1>0, <2>2 DEF OwnInv, Reclaim
    <3>1. /\ pv'[v].phase = "gone" /\ pv'[v].ref = NoRef /\ pv'[v].label = None
          /\ pv'[v].users = {} /\ pv'[v].given = FALSE
      BY <1>0, <2>2 DEF TypeOK, Reclaim, Gone, NoVolume
    <3> QED
      BY <3>0, <3>1, RefsDiffer DEF VolStep, VolumeOK, KeptOK, BelongsTo, Fresh, Exists
  <2>3. CASE v = w /\ pv[v].policy # "Delete"
    <3>0. VolumeOK(v) /\ KeptOK(v) /\ pv[v].phase = "Bound" /\ pv[v].ref = Deleted
      BY <1>0, <2>3 DEF OwnInv, Reclaim
    <3>1. /\ pv'[v].phase = "Released" /\ pv'[v].ref = pv[v].ref
          /\ pv'[v].label = pv[v].label /\ pv'[v].policy = pv[v].policy
          /\ pv'[v].users = pv[v].users /\ pv'[v].given = pv[v].given
      BY <1>0, <2>3 DEF TypeOK, Reclaim, VolumeStates
    <3>3. VolumeOK(v)' /\ KeptOK(v)'
      BY <3>0, <3>1, RecordTypes DEF VolumeOK, KeptOK, Fresh, Exists
    <3> QED
      BY <3>0, <3>1, <3>3 DEF VolStep, BelongsTo, Fresh, Exists
  <2> QED
    BY <2>1, <2>2, <2>3
<1>3. \A n \in Namespaces : SeedOK(n)'
  <2>1. ASSUME NEW v \in Volumes, NEW n \in Namespaces, pv[v].ref = <<"seed", n>>
        PROVE  pv'[v].ref = <<"seed", n>>
    BY <1>0, <2>1, RefsDiffer DEF TypeOK, Reclaim
  <2> QED
    BY <1>0, <2>1, SeedSame DEF Reclaim
<1>4. \A n \in Namespaces : ClaimOK(n)'
  BY <1>0, <1>2, ClaimSame DEF TypeOK, Reclaim, callVars
<1>5. \A d \in Calls : CallOK(d)'
  BY <1>0, <1>2, CallSame DEF Reclaim, callVars
<1>6. \A d \in Calls : SoleOK(d)'
  <2>1. \A d \in Calls : pc'[d] \in HasSeeded => pc[d] \in HasSeeded /\ vol'[d] = vol[d]
    BY <1>0 DEF TypeOK, HasSeeded, Reclaim, callVars
  <2> QED
    BY <1>0, <1>2, <2>1, SoleSame
<1> QED
  BY <1>1, <1>2, <1>3, <1>4, <1>5, <1>6, OwnParts

\* The first state.
LEMMA OwnInit == ASSUME Init PROVE OwnInv
<1>1. TypeOK
  <2>1. NoVolume \in VolumeStates /\ NoClaim \in ClaimStates
    BY RecordTypes
  <2>2. pc \in [Calls -> CallStates] /\ vol \in [Calls -> Volumes \cup {0}]
    BY DEF Init, CallStates
  <2>3. tries \in [Calls -> 0..(MaxTries - 1)] /\ claimed \in [Calls -> BOOLEAN]
    BY VolumeAssumption DEF Init
  <2>4. deletes \in Nat /\ aborts \in Nat /\ deletes + aborts <= MaxUpsets
    BY VolumeAssumption DEF Init
  <2> QED
    BY <2>1, <2>2, <2>3, <2>4 DEF Init, TypeOK
<1>2. \A v \in Volumes : VolumeOK(v) /\ KeptOK(v)
  BY DEF Init, VolumeOK, KeptOK, Fresh, Exists, NoVolume
<1>3. \A n \in Namespaces : SeedOK(n) /\ ClaimOK(n)
  BY DEF Init, SeedOK, ClaimOK, NoClaim
<1>4. \A c \in Calls : CallOK(c)
  BY DEF Init, CallOK, RetainOK, TakeOK, NameOK, HasSeeded, HasRetained
<1>5. \A c \in Calls : SoleOK(c)
  BY DEF Init, SoleOK, HasSeeded
<1> QED
  BY <1>1, <1>2, <1>3, <1>4, <1>5 DEF OwnInv

\* No step changes anything if none is taken.
LEMMA OwnStutter == ASSUME OwnInv, UNCHANGED vars PROVE OwnInv'
<1>1. pv' = pv /\ seed' = seed /\ claim' = claim /\ live' = live /\ pc' = pc /\ vol' = vol
         /\ snapshot' = snapshot /\ claimed' = claimed /\ tries' = tries
         /\ deletes' = deletes /\ aborts' = aborts
  BY DEF vars
<1>2. TypeOK'
  BY <1>1 DEF OwnInv, TypeOK
<1>3. \A v \in Volumes : VolStep(v)
  BY <1>1, VolSame
<1>4. \A n \in Namespaces : SeedOK(n)' /\ ClaimOK(n)'
  BY <1>1, <1>3, SeedSame, ClaimSame
<1>5. \A c \in Calls : CallOK(c)'
  BY <1>1, <1>3, CallSame
<1>6. \A c \in Calls : SoleOK(c)'
  BY <1>1, <1>3, SoleSame
<1> QED
  BY <1>2, <1>3, <1>4, <1>5, <1>6, OwnParts

\* Every step keeps the invariant.
LEMMA OwnStep == ASSUME OwnInv, [Next]_vars PROVE OwnInv'
<1>1. ASSUME NEW c \in Calls, CallStep(c) PROVE OwnInv'
  BY <1>1, ListKeeps, ReleaseKeeps, CreateSeedKeeps, SeedBoundKeeps, RetainKeeps,
     DeleteSeedKeeps, SeedReleasedKeeps, ReadForClaimKeeps, UpdateForClaimKeeps,
     ClaimConflictsKeeps, ClaimFailsKeeps, CreateClaimKeeps, ClaimBoundKeeps, GiveUpKeeps,
     DeleteClaimKeeps, DeleteClaimFailsKeeps, DeleteNamespaceKeeps
     DEF CallStep
<1>2. ASSUME NEW c \in Calls, Begin(c) \/ Abort(c) \/ DownVolumes(c) PROVE OwnInv'
  BY <1>2, BeginKeeps, AbortKeeps, DownVolumesKeeps
<1>3. ASSUME NEW n \in Namespaces, Down(n) PROVE OwnInv'
  BY <1>3, DownKeeps
<1>4. ASSUME ControllerStep PROVE OwnInv'
  BY <1>4, BindClaimKeeps, BindSeedKeeps, ProvisionKeeps, ReclaimKeeps DEF ControllerStep
<1>5. CASE UNCHANGED vars
  BY <1>5, OwnStutter
<1> QED
  BY <1>1, <1>2, <1>3, <1>4, <1>5 DEF Next

-----------------------------------------------------------------------------
(* What follows                                                            *)

\* The invariant holds in every state.
LEMMA OwnInvariant == Spec => []OwnInv
<1>1. Init => OwnInv
  BY OwnInit
<1>2. OwnInv /\ [Next]_vars => OwnInv'
  BY OwnStep
<1> QED
  BY <1>1, <1>2, PTL DEF Spec

\* Volumes, claims and the calls' locals keep their types (CreatePVC,
\* PermanentlyDeletePVC).
THEOREM TypeCorrect == Spec => []TypeOK
<1>1. OwnInv => TypeOK
  BY DEF OwnInv
<1> QED
  BY <1>1, OwnInvariant, PTL

\* Whatever the calls of any number of namespaces, or of one namespace, and the
\* volume controller do: a volume that a namespace has used carries its label and
\* no other, is no other namespace's and is retained, until `blimp down -v`.
THEOREM VolumesAreKept == Spec => []OwnVolumeIsKept
<1>1. OwnInv => OwnVolumeIsKept
  BY DEF OwnInv, KeptOK, OwnVolumeIsKept, LabelledIsRetained, UsedVolumeKeepsLabel
<1> QED
  BY <1>1, OwnInvariant, PTL

-----------------------------------------------------------------------------
(* One call of a namespace at a time                                       *)

\* Where a call has not found or labelled a volume yet.
Looking == {"seed", "awaitSeed", "retain", "deleteSeed", "awaitRelease", "claim", "update"}

\* A namespace whose call still looks for a volume has none.
LooksOK(c) == pc[c] \in Looking => \A v \in Volumes : pv[v].label # c[1]

\* A call has its seed until it deletes it.
OwnSeedOK(c) ==
    pc[c] \in {"retain", "deleteSeed"} =>
        seed[c[1]].state = "bound" /\ seed[c[1]].volume = vol[c]

\* A call lets go of a volume only when that has an owner.
HoldOK(c) ==
    /\ pc[c] \in {"idle", "list"} => vol[c] = 0
    /\ pc[c] \in {"seed", "awaitSeed", "awaitBound"} /\ vol[c] # 0 =>
          vol[c] \in Volumes /\ ~Fresh(vol[c]) /\ pv[vol[c]].phase # "none"
    /\ pc[c] \in {"giveUp", "deleteClaim", "deleteNamespace"} => deletes > 0

\* A volume that a claim is bound to was used; one is given up by `blimp down -v`.
UseOK(v) ==
    /\ \A n \in Namespaces : pv[v].ref = <<"own", n>> => n \in pv[v].users
    /\ pv[v].given => deletes > 0

\* A volume that refers to a seed is the one that the seed is bound to.
SeededOK(v) ==
    \A n \in Namespaces : pv[v].ref = <<"seed", n>> =>
        seed[n].state = "bound" /\ seed[n].volume = v

\* LeakNeedsUpset of one volume.
Left(v) ==
    /\ Exists(v) /\ pv[v].label = None
    /\ pv[v].policy = "Retain" /\ pv[v].ref \in {NoRef, Deleted}
LeakOK(v) == Left(v) => deletes + aborts > 0 \/ \E c \in Calls : vol[c] = v

OneOK ==
    \A u \in Volumes, v \in Volumes :
        pv[u].label \in Namespaces /\ pv[u].label = pv[v].label => u = v

SurplusInv ==
    /\ \A c \in Calls : LooksOK(c)
    /\ \A c \in Calls : OwnSeedOK(c)
    /\ \A c \in Calls : HoldOK(c)
    /\ \A v \in Volumes : UseOK(v)
    /\ \A v \in Volumes : SeededOK(v)
    /\ \A v \in Volumes : LeakOK(v)
    /\ OneOK

\* A namespace has one call.
LEMMA OneCall ==
    ASSUME MaxCalls = 1, NEW c \in Calls, NEW d \in Calls, c[1] = d[1]
    PROVE  c = d
<1>1. PICK n \in Namespaces, i \in 1..1 : c = <<n, i>>
  BY DEF Calls
<1>2. PICK m \in Namespaces, j \in 1..1 : d = <<m, j>>
  BY DEF Calls
<1> QED
  BY <1>1, <1>2

\* No volume gets a label in the step.
LabelsKept == \A v \in Volumes : pv'[v].label \in {pv[v].label, None}

\* Who looks for a volume did before.
LEMMA LooksSame ==
    ASSUME SurplusInv, LabelsKept, \A c \in Calls : pc'[c] \in Looking => pc[c] \in Looking
    PROVE  \A c \in Calls : LooksOK(c)'
<1> SUFFICES ASSUME NEW c \in Calls, pc'[c] \in Looking, NEW v \in Volumes
             PROVE  pv'[v].label # c[1]
  BY DEF LooksOK
<1>1. pv[v].label # c[1] /\ c[1] # None
  BY VolumeAssumption, CallOfNamespace DEF SurplusInv, LooksOK
<1> QED
  BY <1>1 DEF LabelsKept

\* The labels stay different ones.
LEMMA OneSame == ASSUME SurplusInv, LabelsKept PROVE OneOK'
BY VolumeAssumption DEF SurplusInv, OneOK, LabelsKept

\* No call gets a seed and none loses its own.
LEMMA OwnSeedSame ==
    ASSUME SurplusInv,
           \A n \in Namespaces : seed[n].state = "bound" => seed'[n] = seed[n],
           \A c \in Calls : pc'[c] \in {"retain", "deleteSeed"} =>
               pc[c] \in {"retain", "deleteSeed"} /\ vol'[c] = vol[c]
    PROVE  \A c \in Calls : OwnSeedOK(c)'
BY CallOfNamespace DEF SurplusInv, OwnSeedOK

\* A volume that has an owner has one after the step.
LEMMA OwnedStays ==
    ASSUME NEW v \in Volumes, VolStep(v), ~Fresh(v), pv[v].phase # "none"
    PROVE  ~Fresh(v)' /\ pv'[v].phase # "none"
BY DEF VolStep

\* A call that a step leaves where it is.
LEMMA HoldSame ==
    ASSUME SurplusInv, \A v \in Volumes : VolStep(v), deletes > 0 => deletes' > 0,
           NEW c \in Calls, pc'[c] = pc[c], vol'[c] = vol[c]
    PROVE  HoldOK(c)'
<1>1. HoldOK(c)
  BY DEF SurplusInv
<1>2. ASSUME pc[c] \in {"seed", "awaitSeed", "awaitBound"}, vol[c] # 0
      PROVE  vol[c] \in Volumes /\ ~Fresh(vol[c])' /\ pv'[vol[c]].phase # "none"
  <2>1. PICK v \in Volumes : v = vol[c]
    BY <1>1, <1>2 DEF HoldOK
  <2>2. ~Fresh(v)' /\ pv'[v].phase # "none"
    BY <1>1, <1>2, <2>1, OwnedStays DEF HoldOK
  <2> QED
    BY <2>1, <2>2 DEF Fresh, Exists
<1> QED
  BY <1>1, <1>2 DEF HoldOK

\* No volume is left behind unless it was, and no call lets go of a fresh one.
LEMMA LeakSame ==
    ASSUME OwnInv, SurplusInv, NEW v \in Volumes,
           deletes' + aborts' > 0 \/ (deletes + aborts = 0 /\ deletes = 0),
           Left(v)' => deletes' + aborts' > 0 \/ Left(v) \/ \E c \in Calls : vol'[c] = v,
           \A c \in Calls : vol[c] = v /\ Fresh(v) =>
               vol'[c] = v \/ deletes' + aborts' > 0 \/ ~Left(v)'
    PROVE  LeakOK(v)'
<1> SUFFICES ASSUME Left(v)', ~(deletes' + aborts' > 0), ~\E c \in Calls : vol'[c] = v
             PROVE  FALSE
  BY DEF LeakOK
<1>1. Left(v) /\ deletes = 0 /\ deletes + aborts = 0
  OBVIOUS
<1>2. Fresh(v)
  BY <1>1 DEF SurplusInv, UseOK, Left, Fresh
<1>3. PICK c \in Calls : vol[c] = v
  BY <1>1 DEF SurplusInv, LeakOK
<1> QED
  BY <1>2, <1>3

\* No seed and no volume is bound, and none is let go of.
LEMMA SeededSame ==
    ASSUME SurplusInv, NEW v \in Volumes,
           \A n \in Namespaces : seed[n].state = "bound" => seed'[n] = seed[n],
           \A n \in Namespaces : pv'[v].ref = <<"seed", n>> => pv[v].ref = <<"seed", n>>
    PROVE  SeededOK(v)'
BY DEF SurplusInv, SeededOK

\* A volume that a step leaves alone was used as before.
LEMMA UseSame ==
    ASSUME SurplusInv, NEW v \in Volumes, pv'[v] = pv[v], deletes > 0 => deletes' > 0
    PROVE  UseOK(v)'
BY DEF SurplusInv, UseOK

\* A volume that loses its claim is not left behind.
LEMMA OrphanUse ==
    ASSUME OwnInv, SurplusInv, NEW ref \in {"seed", "own"} \X Namespaces,
           pv' = Orphan(pv, ref), deletes > 0 => deletes' > 0, NEW v \in Volumes
    PROVE  /\ UseOK(v)' /\ pv'[v].label = pv[v].label
           /\ pv'[v].ref = (IF pv[v].ref = ref THEN Deleted ELSE pv[v].ref)
           /\ (\E n \in Namespaces : ref = <<"own", n>>) =>
                 (Left(v)' => deletes > 0 \/ Left(v))
<1>1. pv[v] \in VolumeStates /\ KeptOK(v) /\ UseOK(v)
  BY DEF OwnInv, TypeOK, SurplusInv
<1>2. /\ pv'[v].phase = pv[v].phase /\ pv'[v].label = pv[v].label
      /\ pv'[v].policy = pv[v].policy /\ pv'[v].users = pv[v].users
      /\ pv'[v].given = pv[v].given
      /\ pv'[v].ref = (IF pv[v].ref = ref THEN Deleted ELSE pv[v].ref)
  BY <1>1 DEF Orphan, VolumeStates
<1>3. UseOK(v)'
  BY <1>1, <1>2, RefsDiffer DEF UseOK
<1>4. ASSUME NEW n \in Namespaces, ref = <<"own", n>>, Left(v)', ~Left(v)
      PROVE  deletes > 0
  <2>1. pv[v].ref = <<"own", n>> /\ pv[v].label = None
    BY <1>2, <1>4 DEF Left, Exists
  <2>2. n \in pv[v].users /\ n # None
    BY <1>1, <2>1, VolumeAssumption DEF UseOK
  <2> QED
    BY <1>1, <2>1, <2>2 DEF KeptOK, UseOK
<1> QED
  BY <1>2, <1>3, <1>4

\* Begin labels no second volume of a namespace and leaves none behind.
LEMMA BeginSurplus ==
    ASSUME MaxCalls = 1, OwnInv, SurplusInv, NEW c \in Calls, Begin(c)
    PROVE  SurplusInv'
<1>0. TypeOK /\ OwnInv /\ SurplusInv /\ \A v \in Volumes : VolStep(v)
  BY BeginKeeps DEF OwnInv
<1>1. LabelsKept
  BY <1>0 DEF LabelsKept, Begin, Goto
<1>2. \A d \in Calls : LooksOK(d)'
  <2>1. \A d \in Calls : pc'[d] \in Looking => pc[d] \in Looking
    BY <1>0 DEF TypeOK, Looking, Begin, Goto
  <2> QED
    BY <1>0, <1>1, <2>1, LooksSame
<1>3. \A d \in Calls : OwnSeedOK(d)'
  <2>1. \A n \in Namespaces : seed[n].state = "bound" => seed'[n] = seed[n]
    BY <1>0 DEF TypeOK, Begin, Goto
  <2>2. \A d \in Calls : pc'[d] \in {"retain", "deleteSeed"} =>
           pc[d] \in {"retain", "deleteSeed"} /\ vol'[d] = vol[d]
    BY <1>0 DEF TypeOK, Begin, Goto
  <2> QED
    BY <1>0, <2>1, <2>2, OwnSeedSame
<1>4. \A v \in Volumes : UseOK(v)'
  BY <1>0, UseSame DEF TypeOK, Begin, Goto
<1>5. \A d \in Calls : HoldOK(d)'
  <2>1. ASSUME NEW d \in Calls, d # c PROVE HoldOK(d)'
    <3>1. pc'[d] = pc[d] /\ vol'[d] = vol[d] /\ (deletes > 0 => deletes' > 0)
      BY <1>0, <2>1 DEF TypeOK, Begin, Goto
    <3> QED
      BY <1>0, <3>1, HoldSame
  <2>2. HoldOK(c)'
    BY <1>0 DEF SurplusInv, HoldOK, Begin, Goto, TypeOK
  <2> QED
    BY <2>1, <2>2
<1>6. \A v \in Volumes : LeakOK(v)'
  <2> SUFFICES ASSUME NEW v \in Volumes PROVE LeakOK(v)'
    OBVIOUS
  <2>1. deletes' + aborts' > 0 \/ (deletes + aborts = 0 /\ deletes = 0)
    BY <1>0 DEF TypeOK, Begin, Goto
  <2>2. Left(v)' => deletes' + aborts' > 0 \/ Left(v) \/ \E d \in Calls : vol'[d] = v
    BY <1>0 DEF TypeOK, Left, Exists, Begin, Goto
  <2>3. \A d \in Calls : vol[d] = v /\ Fresh(v) =>
           vol'[d] = v \/ deletes' + aborts' > 0 \/ ~Left(v)'
    BY <1>0 DEF TypeOK, Begin, Goto
  <2> QED
    BY <1>0, <2>1, <2>2, <2>3, LeakSame
<1>8. \A v \in Volumes : SeededOK(v)'
  <2>1. \A n \in Namespaces : seed[n].state = "bound" => seed'[n] = seed[n]
    BY <1>0 DEF TypeOK, Begin, Goto
  <2> QED
    BY <1>0, <2>1, SeededSame DEF Begin, Goto
<1>7. OneOK'
  BY <1>0, <1>1, OneSame
<1> QED
  BY <1>2, <1>3, <1>4, <1>5, <1>6, <1>7, <1>8 DEF SurplusInv

\* List labels no second volume of a namespace and leaves none behind.
LEMMA ListSurplus ==
    ASSUME MaxCalls = 1, OwnInv, SurplusInv, NEW c \in Calls, List(c)
    PROVE  SurplusInv'
<1>0. TypeOK /\ OwnInv /\ SurplusInv /\ \A v \in Volumes : VolStep(v)
  BY ListKeeps DEF OwnInv
<1>1. LabelsKept
  BY <1>0 DEF LabelsKept, List, Goto
<1>2. \A d \in Calls : LooksOK(d)'
  <2>1. ASSUME NEW d \in Calls, d # c PROVE LooksOK(d)'
    BY <1>0, <2>1 DEF SurplusInv, LooksOK, List, Goto, TypeOK
  <2>2. LooksOK(c)'
    <3>1. ASSUME pc'[c] \in Looking, NEW v \in Volumes PROVE pv[v].label # c[1]
      <4>1. VolumeOK(v) /\ c[1] # None
        BY <1>0, VolumeAssumption, CallOfNamespace DEF OwnInv
      <4>2. ~(Exists(v) /\ pv[v].label = c[1])
        BY <1>0, <3>1 DEF List, Goto, Looking, TypeOK
      <4> QED
        BY <4>1, <4>2 DEF VolumeOK, Exists
    <3> QED
      BY <3>1 DEF LooksOK, List
  <2> QED
    BY <2>1, <2>2
<1>3. \A d \in Calls : OwnSeedOK(d)'
  <2>1. \A n \in Namespaces : seed[n].state = "bound" => seed'[n] = seed[n]
    BY <1>0 DEF TypeOK, List, Goto
  <2>2. \A d \in Calls : pc'[d] \in {"retain", "deleteSeed"} =>
           pc[d] \in {"retain", "deleteSeed"} /\ vol'[d] = vol[d]
    BY <1>0 DEF TypeOK, List, Goto
  <2> QED
    BY <1>0, <2>1, <2>2, OwnSeedSame
<1>4. \A v \in Volumes : UseOK(v)'
  BY <1>0, UseSame DEF TypeOK, List, Goto
<1>5. \A d \in Calls : HoldOK(d)'
  <2>1. ASSUME NEW d \in Calls, d # c PROVE HoldOK(d)'
    <3>1. pc'[d] = pc[d] /\ vol'[d] = vol[d] /\ (deletes > 0 => deletes' > 0)
      BY <1>0, <2>1 DEF TypeOK, List, Goto
    <3> QED
      BY <1>0, <3>1, HoldSame
  <2>2. HoldOK(c)'
    BY <1>0 DEF SurplusInv, HoldOK, List, Goto, TypeOK
  <2> QED
    BY <2>1, <2>2
<1>6. \A v \in Volumes : LeakOK(v)'
  <2> SUFFICES ASSUME NEW v \in Volumes PROVE LeakOK(v)'
    OBVIOUS
  <2>1. deletes' + aborts' > 0 \/ (deletes + aborts = 0 /\ deletes = 0)
    BY <1>0 DEF TypeOK, List, Goto
  <2>2. Left(v)' => deletes' + aborts' > 0 \/ Left(v) \/ \E d \in Calls : vol'[d] = v
    BY <1>0 DEF TypeOK, Left, Exists, List, Goto
  <2>3. \A d \in Calls : vol[d] = v /\ Fresh(v) =>
           vol'[d] = v \/ deletes' + aborts' > 0 \/ ~Left(v)'
    BY <1>0, VolumeAssumption DEF SurplusInv, HoldOK, TypeOK, List, Goto
  <2> QED
    BY <1>0, <2>1, <2>2, <2>3, LeakSame
<1>8. \A v \in Volumes : SeededOK(v)'
  <2>1. \A n \in Namespaces : seed[n].state = "bound" => seed'[n] = seed[n]
    BY <1>0 DEF TypeOK, List, Goto
  <2> QED
    BY <1>0, <2>1, SeededSame DEF List, Goto
<1>7. OneOK'
  BY <1>0, <1>1, OneSame
<1> QED
  BY <1>2, <1>3, <1>4, <1>5, <1>6, <1>7, <1>8 DEF SurplusInv

\* CreateSeed labels no second volume of a namespace and leaves none behind.
LEMMA CreateSeedSurplus ==
    ASSUME MaxCalls = 1, OwnInv, SurplusInv, NEW c \in Calls, CreateSeed(c)
    PROVE  SurplusInv'
<1>0. TypeOK /\ OwnInv /\ SurplusInv /\ \A v \in Volumes : VolStep(v)
  BY CreateSeedKeeps DEF OwnInv
<1>1. LabelsKept
  BY <1>0 DEF LabelsKept, CreateSeed, Goto
<1>2. \A d \in Calls : LooksOK(d)'
  <2>1. \A d \in Calls : pc'[d] \in Looking => pc[d] \in Looking
    BY <1>0 DEF TypeOK, Looking, CreateSeed, Goto
  <2> QED
    BY <1>0, <1>1, <2>1, LooksSame
<1>3. \A d \in Calls : OwnSeedOK(d)'
  <2>1. \A n \in Namespaces : seed[n].state = "bound" => seed'[n] = seed[n]
    BY <1>0 DEF TypeOK, CreateSeed, Goto
  <2>2. \A d \in Calls : pc'[d] \in {"retain", "deleteSeed"} =>
           pc[d] \in {"retain", "deleteSeed"} /\ vol'[d] = vol[d]
    BY <1>0 DEF TypeOK, CreateSeed, Goto
  <2> QED
    BY <1>0, <2>1, <2>2, OwnSeedSame
<1>4. \A v \in Volumes : UseOK(v)'
  BY <1>0, UseSame DEF TypeOK, CreateSeed, Goto
<1>5. \A d \in Calls : HoldOK(d)'
  <2>1. ASSUME NEW d \in Calls, d # c PROVE HoldOK(d)'
    <3>1. pc'[d] = pc[d] /\ vol'[d] = vol[d] /\ (deletes > 0 => deletes' > 0)
      BY <1>0, <2>1 DEF TypeOK, CreateSeed, Goto
    <3> QED
      BY <1>0, <3>1, HoldSame
  <2>2. HoldOK(c)'
    BY <1>0 DEF SurplusInv, HoldOK, CreateSeed, Goto, TypeOK, Fresh, Exists
  <2> QED
    BY <2>1, <2>2
<1>6. \A v \in Volumes : LeakOK(v)'
  <2> SUFFICES ASSUME NEW v \in Volumes PROVE LeakOK(v)'
    OBVIOUS
  <2>1. deletes' + aborts' > 0 \/ (deletes + aborts = 0 /\ deletes = 0)
    BY <1>0 DEF TypeOK, CreateSeed, Goto
  <2>2. Left(v)' => deletes' + aborts' > 0 \/ Left(v) \/ \E d \in Calls : vol'[d] = v
    BY <1>0 DEF TypeOK, Left, Exists, CreateSeed, Goto
  <2>3. \A d \in Calls : vol[d] = v /\ Fresh(v) =>
           vol'[d] = v \/ deletes' + aborts' > 0 \/ ~Left(v)'
    BY <1>0 DEF TypeOK, CreateSeed, Goto
  <2> QED
    BY <1>0, <2>1, <2>2, <2>3, LeakSame
<1>8. \A v \in Volumes : SeededOK(v)'
  <2>1. \A n \in Namespaces : seed[n].state = "bound" => seed'[n] = seed[n]
    BY <1>0 DEF TypeOK, CreateSeed, Goto
  <2> QED
    BY <1>0, <2>1, SeededSame DEF CreateSeed, Goto
<1>7. OneOK'
  BY <1>0, <1>1, OneSame
<1> QED
  BY <1>2, <1>3, <1>4, <1>5, <1>6, <1>7, <1>8 DEF SurplusInv

\* SeedBound labels no second volume of a namespace and leaves none behind.
LEMMA SeedBoundSurplus ==
    ASSUME MaxCalls = 1, OwnInv, SurplusInv, NEW c \in Calls, SeedBound(c)
    PROVE  SurplusInv'
<1>0. TypeOK /\ OwnInv /\ SurplusInv /\ \A v \in Volumes : VolStep(v)
  BY SeedBoundKeeps DEF OwnInv
<1>1. LabelsKept
  BY <1>0 DEF LabelsKept, SeedBound, Goto
<1>2. \A d \in Calls : LooksOK(d)'
  <2>1. \A d \in Calls : pc'[d] \in Looking => pc[d] \in Looking
    BY <1>0 DEF TypeOK, Looking, SeedBound, Goto
  <2> QED
    BY <1>0, <1>1, <2>1, LooksSame
<1>3. \A d \in Calls : OwnSeedOK(d)'
  <2>1. ASSUME NEW d \in Calls, d # c PROVE OwnSeedOK(d)'
    BY <1>0, <2>1 DEF SurplusInv, OwnSeedOK, SeedBound, Goto, TypeOK
  <2>2. OwnSeedOK(c)'
    BY <1>0 DEF OwnSeedOK, SeedBound, TypeOK
  <2> QED
    BY <2>1, <2>2
<1>4. \A v \in Volumes : UseOK(v)'
  BY <1>0, UseSame DEF TypeOK, SeedBound, Goto
<1>5. \A d \in Calls : HoldOK(d)'
  <2>1. ASSUME NEW d \in Calls, d # c PROVE HoldOK(d)'
    <3>1. pc'[d] = pc[d] /\ vol'[d] = vol[d] /\ (deletes > 0 => deletes' > 0)
      BY <1>0, <2>1 DEF TypeOK, SeedBound, Goto
    <3> QED
      BY <1>0, <3>1, HoldSame
  <2>2. HoldOK(c)'
    BY <1>0 DEF SurplusInv, HoldOK, TypeOK, SeedBound, Goto
  <2> QED
    BY <2>1, <2>2
<1>6. \A v \in Volumes : LeakOK(v)'
  <2> SUFFICES ASSUME NEW v \in Volumes PROVE LeakOK(v)'
    OBVIOUS
  <2>1. deletes' + aborts' > 0 \/ (deletes + aborts = 0 /\ deletes = 0)
    BY <1>0 DEF TypeOK, SeedBound, Goto
  <2>2. Left(v)' => deletes' + aborts' > 0 \/ Left(v) \/ \E d \in Calls : vol'[d] = v
    BY <1>0 DEF TypeOK, Left, Exists, SeedBound, Goto
  <2>3. \A d \in Calls : vol[d] = v /\ Fresh(v) =>
           vol'[d] = v \/ deletes' + aborts' > 0 \/ ~Left(v)'
    BY <1>0, VolumeAssumption DEF SurplusInv, HoldOK, TypeOK, SeedBound
  <2> QED
    BY <1>0, <2>1, <2>2, <2>3, LeakSame
<1>8. \A v \in Volumes : SeededOK(v)'
  <2>1. \A n \in Namespaces : seed[n].state = "bound" => seed'[n] = seed[n]
    BY <1>0 DEF TypeOK, SeedBound, Goto
  <2> QED
    BY <1>0, <2>1, SeededSame DEF SeedBound, Goto
<1>7. OneOK'
  BY <1>0, <1>1, OneSame
<1> QED
  BY <1>2, <1>3, <1>4, <1>5, <1>6, <1>7, <1>8 DEF SurplusInv

\* SeedReleased labels no second volume of a namespace and leaves none behind.
LEMMA SeedReleasedSurplus ==
    ASSUME MaxCalls = 1, OwnInv, SurplusInv, NEW c \in Calls, SeedReleased(c)
    PROVE  SurplusInv'
<1>0. TypeOK /\ OwnInv /\ SurplusInv /\ \A v \in Volumes : VolStep(v)
  BY SeedReleasedKeeps DEF OwnInv
<1>1. LabelsKept
  BY <1>0 DEF LabelsKept, SeedReleased, Goto
<1>2. \A d \in Calls : LooksOK(d)'
  <2>1. \A d \in Calls : pc'[d] \in Looking => pc[d] \in Looking
    BY <1>0 DEF TypeOK, Looking, SeedReleased, Goto
  <2> QED
    BY <1>0, <1>1, <2>1, LooksSame
<1>3. \A d \in Calls : OwnSeedOK(d)'
  <2>1. \A n \in Namespaces : seed[n].state = "bound" => seed'[n] = seed[n]
    BY <1>0 DEF TypeOK, SeedReleased, Goto
  <2>2. \A d \in Calls : pc'[d] \in {"retain", "deleteSeed"} =>
           pc[d] \in {"retain", "deleteSeed"} /\ vol'[d] = vol[d]
    BY <1>0 DEF TypeOK, SeedReleased, Goto
  <2> QED
    BY <1>0, <2>1, <2>2, OwnSeedSame
<1>4. \A v \in Volumes : UseOK(v)'
  BY <1>0, UseSame DEF TypeOK, SeedReleased, Goto
<1>5. \A d \in Calls : HoldOK(d)'
  <2>1. ASSUME NEW d \in Calls, d # c PROVE HoldOK(d)'
    <3>1. pc'[d] = pc[d] /\ vol'[d] = vol[d] /\ (deletes > 0 => deletes' > 0)
      BY <1>0, <2>1 DEF TypeOK, SeedReleased, Goto
    <3> QED
      BY <1>0, <3>1, HoldSame
  <2>2. HoldOK(c)'
    BY <1>0 DEF SurplusInv, HoldOK, TypeOK, SeedReleased, Goto
  <2> QED
    BY <2>1, <2>2
<1>6. \A v \in Volumes : LeakOK(v)'
  <2> SUFFICES ASSUME NEW v \in Volumes PROVE LeakOK(v)'
    OBVIOUS
  <2>1. deletes' + aborts' > 0 \/ (deletes + aborts = 0 /\ deletes = 0)
    BY <1>0 DEF TypeOK, SeedReleased, Goto
  <2>2. Left(v)' => deletes' + aborts' > 0 \/ Left(v) \/ \E d \in Calls : vol'[d] = v
    BY <1>0 DEF TypeOK, Left, Exists, SeedReleased, Goto
  <2>3. \A d \in Calls : vol[d] = v /\ Fresh(v) =>
           vol'[d] = v \/ deletes' + aborts' > 0 \/ ~Left(v)'
    BY <1>0 DEF TypeOK, SeedReleased, Goto
  <2> QED
    BY <1>0, <2>1, <2>2, <2>3, LeakSame
<1>8. \A v \in Volumes : SeededOK(v)'
  <2>1. \A n \in Namespaces : seed[n].state = "bound" => seed'[n] = seed[n]
    BY <1>0 DEF TypeOK, SeedReleased, Goto
  <2> QED
    BY <1>0, <2>1, SeededSame DEF SeedReleased, Goto
<1>7. OneOK'
  BY <1>0, <1>1, OneSame
<1> QED
  BY <1>2, <1>3, <1>4, <1>5, <1>6, <1>7, <1>8 DEF SurplusInv

\* ReadForClaim labels no second volume of a namespace and leaves none behind.
LEMMA ReadForClaimSurplus ==
    ASSUME MaxCalls = 1, OwnInv, SurplusInv, NEW c \in Calls, ReadForClaim(c)
    PROVE  SurplusInv'
<1>0. TypeOK /\ OwnInv /\ SurplusInv /\ \A v \in Volumes : VolStep(v)
  BY ReadForClaimKeeps DEF OwnInv
<1>a. CallOK(c) /\ pc[c] = "claim" /\ pv' = pv
  BY <1>0 DEF OwnInv, ReadForClaim
<1>b. vol[c] \in Volumes /\ pv[vol[c]].phase # "none"
  BY <1>a DEF CallOK, RetainOK, HasSeeded
<1>c. \/ pc'[c] \in {"update", "create"} /\ vol'[c] = vol[c]
      \/ pc'[c] = "seed" /\ vol'[c] = vol[c] /\ ~Fresh(vol[c])
      \/ pc'[c] = "idle" /\ vol'[c] = 0 /\ ~Fresh(vol[c])
  BY <1>0 DEF TypeOK, ReadForClaim, NextTry, Goto, Fresh
<1>1. LabelsKept
  BY <1>0 DEF LabelsKept, ReadForClaim, NextTry, Forget, Goto
<1>2. \A d \in Calls : LooksOK(d)'
  <2>1. \A d \in Calls : pc'[d] \in Looking => pc[d] \in Looking
    BY <1>0 DEF TypeOK, Looking, ReadForClaim, NextTry, Forget, Goto
  <2> QED
    BY <1>0, <1>1, <2>1, LooksSame
<1>3. \A d \in Calls : OwnSeedOK(d)'
  <2>1. \A n \in Namespaces : seed[n].state = "bound" => seed'[n] = seed[n]
    BY <1>0 DEF TypeOK, ReadForClaim, NextTry, Forget, Goto
  <2>2. \A d \in Calls : pc'[d] \in {"retain", "deleteSeed"} =>
           pc[d] \in {"retain", "deleteSeed"} /\ vol'[d] = vol[d]
    BY <1>0 DEF TypeOK, ReadForClaim, NextTry, Forget, Goto
  <2> QED
    BY <1>0, <2>1, <2>2, OwnSeedSame
<1>4. \A v \in Volumes : UseOK(v)'
  BY <1>0, UseSame DEF TypeOK, ReadForClaim, NextTry, Forget, Goto
<1>5. \A d \in Calls : HoldOK(d)'
  <2>1. ASSUME NEW d \in Calls, d # c PROVE HoldOK(d)'
    <3>1. pc'[d] = pc[d] /\ vol'[d] = vol[d] /\ (deletes > 0 => deletes' > 0)
      BY <1>0, <2>1 DEF TypeOK, ReadForClaim, NextTry, Forget, Goto
    <3> QED
      BY <1>0, <3>1, HoldSame
  <2>2. HoldOK(c)'
    BY <1>a, <1>b, <1>c DEF HoldOK, Fresh, Exists
  <2> QED
    BY <2>1, <2>2
<1>6. \A v \in Volumes : LeakOK(v)'
  <2> SUFFICES ASSUME NEW v \in Volumes PROVE LeakOK(v)'
    OBVIOUS
  <2>1. deletes' + aborts' > 0 \/ (deletes + aborts = 0 /\ deletes = 0)
    BY <1>0 DEF TypeOK, ReadForClaim, NextTry, Forget, Goto
  <2>2. Left(v)' => deletes' + aborts' > 0 \/ Left(v) \/ \E d \in Calls : vol'[d] = v
    BY <1>0 DEF TypeOK, Left, Exists, ReadForClaim, NextTry, Forget, Goto
  <2>3. \A d \in Calls : vol[d] = v /\ Fresh(v) =>
           vol'[d] = v \/ deletes' + aborts' > 0 \/ ~Left(v)'
    BY <1>0, <1>c DEF ReadForClaim, NextTry, TypeOK
  <2> QED
    BY <1>0, <2>1, <2>2, <2>3, LeakSame
<1>8. \A v \in Volumes : SeededOK(v)'
  <2>1. \A n \in Namespaces : seed[n].state = "bound" => seed'[n] = seed[n]
    BY <1>0 DEF TypeOK, ReadForClaim, NextTry, Forget, Goto
  <2> QED
    BY <1>0, <2>1, SeededSame DEF ReadForClaim, NextTry, Forget, Goto
<1>7. OneOK'
  BY <1>0, <1>1, OneSame
<1> QED
  BY <1>2, <1>3, <1>4, <1>5, <1>6, <1>7, <1>8 DEF SurplusInv

\* ClaimConflicts labels no second volume of a namespace and leaves none behind.
LEMMA ClaimConflictsSurplus ==
    ASSUME MaxCalls = 1, OwnInv, SurplusInv, NEW c \in Calls, ClaimConflicts(c)
    PROVE  SurplusInv'
<1>0. TypeOK /\ OwnInv /\ SurplusInv /\ \A v \in Volumes : VolStep(v)
  BY ClaimConflictsKeeps DEF OwnInv
<1>1. LabelsKept
  BY <1>0 DEF LabelsKept, ClaimConflicts, Goto
<1>2. \A d \in Calls : LooksOK(d)'
  <2>1. \A d \in Calls : pc'[d] \in Looking => pc[d] \in Looking
    BY <1>0 DEF TypeOK, Looking, ClaimConflicts, Goto
  <2> QED
    BY <1>0, <1>1, <2>1, LooksSame
<1>3. \A d \in Calls : OwnSeedOK(d)'
  <2>1. \A n \in Namespaces : seed[n].state = "bound" => seed'[n] = seed[n]
    BY <1>0 DEF TypeOK, ClaimConflicts, Goto
  <2>2. \A d \in Calls : pc'[d] \in {"retain", "deleteSeed"} =>
           pc[d] \in {"retain", "deleteSeed"} /\ vol'[d] = vol[d]
    BY <1>0 DEF TypeOK, ClaimConflicts, Goto
  <2> QED
    BY <1>0, <2>1, <2>2, OwnSeedSame
<1>4. \A v \in Volumes : UseOK(v)'
  BY <1>0, UseSame DEF TypeOK, ClaimConflicts, Goto
<1>5. \A d \in Calls : HoldOK(d)'
  <2>1. ASSUME NEW d \in Calls, d # c PROVE HoldOK(d)'
    <3>1. pc'[d] = pc[d] /\ vol'[d] = vol[d] /\ (deletes > 0 => deletes' > 0)
      BY <1>0, <2>1 DEF TypeOK, ClaimConflicts, Goto
    <3> QED
      BY <1>0, <3>1, HoldSame
  <2>2. HoldOK(c)'
    BY <1>0 DEF SurplusInv, HoldOK, TypeOK, ClaimConflicts, Goto
  <2> QED
    BY <2>1, <2>2
<1>6. \A v \in Volumes : LeakOK(v)'
  <2> SUFFICES ASSUME NEW v \in Volumes PROVE LeakOK(v)'
    OBVIOUS
  <2>1. deletes' + aborts' > 0 \/ (deletes + aborts = 0 /\ deletes = 0)
    BY <1>0 DEF TypeOK, ClaimConflicts, Goto
  <2>2. Left(v)' => deletes' + aborts' > 0 \/ Left(v) \/ \E d \in Calls : vol'[d] = v
    BY <1>0 DEF TypeOK, Left, Exists, ClaimConflicts, Goto
  <2>3. \A d \in Calls : vol[d] = v /\ Fresh(v) =>
           vol'[d] = v \/ deletes' + aborts' > 0 \/ ~Left(v)'
    BY <1>0 DEF TypeOK, ClaimConflicts, Goto
  <2> QED
    BY <1>0, <2>1, <2>2, <2>3, LeakSame
<1>8. \A v \in Volumes : SeededOK(v)'
  <2>1. \A n \in Namespaces : seed[n].state = "bound" => seed'[n] = seed[n]
    BY <1>0 DEF TypeOK, ClaimConflicts, Goto
  <2> QED
    BY <1>0, <2>1, SeededSame DEF ClaimConflicts, Goto
<1>7. OneOK'
  BY <1>0, <1>1, OneSame
<1> QED
  BY <1>2, <1>3, <1>4, <1>5, <1>6, <1>7, <1>8 DEF SurplusInv

\* ClaimFails labels no second volume of a namespace and leaves none behind.
LEMMA ClaimFailsSurplus ==
    ASSUME MaxCalls = 1, OwnInv, SurplusInv, NEW c \in Calls, ClaimFails(c)
    PROVE  SurplusInv'
<1>0. TypeOK /\ OwnInv /\ SurplusInv /\ \A v \in Volumes : VolStep(v)
  BY ClaimFailsKeeps DEF OwnInv
<1>1. LabelsKept
  BY <1>0 DEF LabelsKept, ClaimFails, Done, Goto
<1>2. \A d \in Calls : LooksOK(d)'
  <2>1. \A d \in Calls : pc'[d] \in Looking => pc[d] \in Looking
    BY <1>0 DEF TypeOK, Looking, ClaimFails, Done, Goto
  <2> QED
    BY <1>0, <1>1, <2>1, LooksSame
<1>3. \A d \in Calls : OwnSeedOK(d)'
  <2>1. \A n \in Namespaces : seed[n].state = "bound" => seed'[n] = seed[n]
    BY <1>0 DEF TypeOK, ClaimFails, Done, Goto
  <2>2. \A d \in Calls : pc'[d] \in {"retain", "deleteSeed"} =>
           pc[d] \in {"retain", "deleteSeed"} /\ vol'[d] = vol[d]
    BY <1>0 DEF TypeOK, ClaimFails, Done, Goto
  <2> QED
    BY <1>0, <2>1, <2>2, OwnSeedSame
<1>4. \A v \in Volumes : UseOK(v)'
  BY <1>0, UseSame DEF TypeOK, ClaimFails, Done, Goto
<1>5. \A d \in Calls : HoldOK(d)'
  <2>1. ASSUME NEW d \in Calls, d # c PROVE HoldOK(d)'
    <3>1. pc'[d] = pc[d] /\ vol'[d] = vol[d] /\ (deletes > 0 => deletes' > 0)
      BY <1>0, <2>1 DEF TypeOK, ClaimFails, Done, Goto
    <3> QED
      BY <1>0, <3>1, HoldSame
  <2>2. HoldOK(c)'
    BY <1>0 DEF SurplusInv, HoldOK, TypeOK, ClaimFails, Done, Goto
  <2> QED
    BY <2>1, <2>2
<1>6. \A v \in Volumes : LeakOK(v)'
  <2> SUFFICES ASSUME NEW v \in Volumes PROVE LeakOK(v)'
    OBVIOUS
  <2>1. deletes' + aborts' > 0 \/ (deletes + aborts = 0 /\ deletes = 0)
    BY <1>0 DEF TypeOK, ClaimFails, Done, Goto
  <2>2. Left(v)' => deletes' + aborts' > 0 \/ Left(v) \/ \E d \in Calls : vol'[d] = v
    BY <1>0 DEF TypeOK, Left, Exists, ClaimFails, Done, Goto
  <2>3. \A d \in Calls : vol[d] = v /\ Fresh(v) =>
           vol'[d] = v \/ deletes' + aborts' > 0 \/ ~Left(v)'
    BY <1>0 DEF TypeOK, ClaimFails, Done, Fresh
  <2> QED
    BY <1>0, <2>1, <2>2, <2>3, LeakSame
<1>8. \A v \in Volumes : SeededOK(v)'
  <2>1. \A n \in Namespaces : seed[n].state = "bound" => seed'[n] = seed[n]
    BY <1>0 DEF TypeOK, ClaimFails, Done, Goto
  <2> QED
    BY <1>0, <2>1, SeededSame DEF ClaimFails, Done, Goto
<1>7. OneOK'
  BY <1>0, <1>1, OneSame
<1> QED
  BY <1>2, <1>3, <1>4, <1>5, <1>6, <1>7, <1>8 DEF SurplusInv

\* ClaimBound labels no second volume of a namespace and leaves none behind.
LEMMA ClaimBoundSurplus ==
    ASSUME MaxCalls = 1, OwnInv, SurplusInv, NEW c \in Calls, ClaimBound(c)
    PROVE  SurplusInv'
<1>0. TypeOK /\ OwnInv /\ SurplusInv /\ \A v \in Volumes : VolStep(v)
  BY ClaimBoundKeeps DEF OwnInv
<1>1. LabelsKept
  BY <1>0 DEF LabelsKept, ClaimBound, Done, Goto
<1>2. \A d \in Calls : LooksOK(d)'
  <2>1. \A d \in Calls : pc'[d] \in Looking => pc[d] \in Looking
    BY <1>0 DEF TypeOK, Looking, ClaimBound, Done, Goto
  <2> QED
    BY <1>0, <1>1, <2>1, LooksSame
<1>3. \A d \in Calls : OwnSeedOK(d)'
  <2>1. \A n \in Namespaces : seed[n].state = "bound" => seed'[n] = seed[n]
    BY <1>0 DEF TypeOK, ClaimBound, Done, Goto
  <2>2. \A d \in Calls : pc'[d] \in {"retain", "deleteSeed"} =>
           pc[d] \in {"retain", "deleteSeed"} /\ vol'[d] = vol[d]
    BY <1>0 DEF TypeOK, ClaimBound, Done, Goto
  <2> QED
    BY <1>0, <2>1, <2>2, OwnSeedSame
<1>4. \A v \in Volumes : UseOK(v)'
  BY <1>0, UseSame DEF TypeOK, ClaimBound, Done, Goto
<1>5. \A d \in Calls : HoldOK(d)'
  <2>1. ASSUME NEW d \in Calls, d # c PROVE HoldOK(d)'
    <3>1. pc'[d] = pc[d] /\ vol'[d] = vol[d] /\ (deletes > 0 => deletes' > 0)
      BY <1>0, <2>1 DEF TypeOK, ClaimBound, Done, Goto
    <3> QED
      BY <1>0, <3>1, HoldSame
  <2>2. HoldOK(c)'
    BY <1>0 DEF SurplusInv, HoldOK, TypeOK, ClaimBound, Done, Goto
  <2> QED
    BY <2>1, <2>2
<1>6. \A v \in Volumes : LeakOK(v)'
  <2> SUFFICES ASSUME NEW v \in Volumes PROVE LeakOK(v)'
    OBVIOUS
  <2>1. deletes' + aborts' > 0 \/ (deletes + aborts = 0 /\ deletes = 0)
    BY <1>0 DEF TypeOK, ClaimBound, Done, Goto
  <2>2. Left(v)' => deletes' + aborts' > 0 \/ Left(v) \/ \E d \in Calls : vol'[d] = v
    BY <1>0 DEF TypeOK, Left, Exists, ClaimBound, Done, Goto
  <2>3. \A d \in Calls : vol[d] = v /\ Fresh(v) =>
           vol'[d] = v \/ deletes' + aborts' > 0 \/ ~Left(v)'
    BY <1>0, VolumeAssumption DEF SurplusInv, HoldOK, TypeOK, ClaimBound, Done
  <2> QED
    BY <1>0, <2>1, <2>2, <2>3, LeakSame
<1>8. \A v \in Volumes : SeededOK(v)'
  <2>1. \A n \in Namespaces : seed[n].state = "bound" => seed'[n] = seed[n]
    BY <1>0 DEF TypeOK, ClaimBound, Done, Goto
  <2> QED
    BY <1>0, <2>1, SeededSame DEF ClaimBound, Done, Goto
<1>7. OneOK'
  BY <1>0, <1>1, OneSame
<1> QED
  BY <1>2, <1>3, <1>4, <1>5, <1>6, <1>7, <1>8 DEF SurplusInv

\* DeleteClaimFails labels no second volume of a namespace and leaves none behind.
LEMMA DeleteClaimFailsSurplus ==
    ASSUME MaxCalls = 1, OwnInv, SurplusInv, NEW c \in Calls, DeleteClaimFails(c)
    PROVE  SurplusInv'
<1>0. TypeOK /\ OwnInv /\ SurplusInv /\ \A v \in Volumes : VolStep(v)
  BY DeleteClaimFailsKeeps DEF OwnInv
<1>1. LabelsKept
  BY <1>0 DEF LabelsKept, DeleteClaimFails, Done, Goto
<1>2. \A d \in Calls : LooksOK(d)'
  <2>1. \A d \in Calls : pc'[d] \in Looking => pc[d] \in Looking
    BY <1>0 DEF TypeOK, Looking, DeleteClaimFails, Done, Goto
  <2> QED
    BY <1>0, <1>1, <2>1, LooksSame
<1>3. \A d \in Calls : OwnSeedOK(d)'
  <2>1. \A n \in Namespaces : seed[n].state = "bound" => seed'[n] = seed[n]
    BY <1>0 DEF TypeOK, DeleteClaimFails, Done, Goto
  <2>2. \A d \in Calls : pc'[d] \in {"retain", "deleteSeed"} =>
           pc[d] \in {"retain", "deleteSeed"} /\ vol'[d] = vol[d]
    BY <1>0 DEF TypeOK, DeleteClaimFails, Done, Goto
  <2> QED
    BY <1>0, <2>1, <2>2, OwnSeedSame
<1>4. \A v \in Volumes : UseOK(v)'
  BY <1>0, UseSame DEF TypeOK, DeleteClaimFails, Done, Goto
<1>5. \A d \in Calls : HoldOK(d)'
  <2>1. ASSUME NEW d \in Calls, d # c PROVE HoldOK(d)'
    <3>1. pc'[d] = pc[d] /\ vol'[d] = vol[d] /\ (deletes > 0 => deletes' > 0)
      BY <1>0, <2>1 DEF TypeOK, DeleteClaimFails, Done, Goto
    <3> QED
      BY <1>0, <3>1, HoldSame
  <2>2. HoldOK(c)'
    BY <1>0 DEF SurplusInv, HoldOK, TypeOK, DeleteClaimFails, Done, Goto
  <2> QED
    BY <2>1, <2>2
<1>6. \A v \in Volumes : LeakOK(v)'
  <2> SUFFICES ASSUME NEW v \in Volumes PROVE LeakOK(v)'
    OBVIOUS
  <2>1. deletes' + aborts' > 0 \/ (deletes + aborts = 0 /\ deletes = 0)
    BY <1>0 DEF TypeOK, DeleteClaimFails, Done, Goto
  <2>2. Left(v)' => deletes' + aborts' > 0 \/ Left(v) \/ \E d \in Calls : vol'[d] = v
    BY <1>0 DEF TypeOK, Left, Exists, DeleteClaimFails, Done, Goto
  <2>3. \A d \in Calls : vol[d] = v /\ Fresh(v) =>
           vol'[d] = v \/ deletes' + aborts' > 0 \/ ~Left(v)'
    BY <1>0 DEF SurplusInv, HoldOK, TypeOK, DeleteClaimFails
  <2> QED
    BY <1>0, <2>1, <2>2, <2>3, LeakSame
<1>8. \A v \in Volumes : SeededOK(v)'
  <2>1. \A n \in Namespaces : seed[n].state = "bound" => seed'[n] = seed[n]
    BY <1>0 DEF TypeOK, DeleteClaimFails, Done, Goto
  <2> QED
    BY <1>0, <2>1, SeededSame DEF DeleteClaimFails, Done, Goto
<1>7. OneOK'
  BY <1>0, <1>1, OneSame
<1> QED
  BY <1>2, <1>3, <1>4, <1>5, <1>6, <1>7, <1>8 DEF SurplusInv

\* Abort labels no second volume of a namespace and leaves none behind.
LEMMA AbortSurplus ==
    ASSUME MaxCalls = 1, OwnInv, SurplusInv, NEW c \in Calls, Abort(c)
    PROVE  SurplusInv'
<1>0. TypeOK /\ OwnInv /\ SurplusInv /\ \A v \in Volumes : VolStep(v)
  BY AbortKeeps DEF OwnInv
<1>1. LabelsKept
  BY <1>0 DEF LabelsKept, Abort, Done, Goto
<1>2. \A d \in Calls : LooksOK(d)'
  <2>1. \A d \in Calls : pc'[d] \in Looking => pc[d] \in Looking
    BY <1>0 DEF TypeOK, Looking, Abort, Done, Goto
  <2> QED
    BY <1>0, <1>1, <2>1, LooksSame
<1>3. \A d \in Calls : OwnSeedOK(d)'
  <2>1. \A n \in Namespaces : seed[n].state = "bound" => seed'[n] = seed[n]
    BY <1>0 DEF TypeOK, Abort, Done, Goto
  <2>2. \A d \in Calls : pc'[d] \in {"retain", "deleteSeed"} =>
           pc[d] \in {"retain", "deleteSeed"} /\ vol'[d] = vol[d]
    BY <1>0 DEF TypeOK, Abort, Done, Goto
  <2> QED
    BY <1>0, <2>1, <2>2, OwnSeedSame
<1>4. \A v \in Volumes : UseOK(v)'
  BY <1>0, UseSame DEF TypeOK, Abort, Done, Goto
<1>5. \A d \in Calls : HoldOK(d)'
  <2>1. ASSUME NEW d \in Calls, d # c PROVE HoldOK(d)'
    <3>1. pc'[d] = pc[d] /\ vol'[d] = vol[d] /\ (deletes > 0 => deletes' > 0)
      BY <1>0, <2>1 DEF TypeOK, Abort, Done, Goto
    <3> QED
      BY <1>0, <3>1, HoldSame
  <2>2. HoldOK(c)'
    BY <1>0 DEF SurplusInv, HoldOK, TypeOK, Abort, Done, Goto
  <2> QED
    BY <2>1, <2>2
<1>6. \A v \in Volumes : LeakOK(v)'
  <2> SUFFICES ASSUME NEW v \in Volumes PROVE LeakOK(v)'
    OBVIOUS
  <2>1. deletes' + aborts' > 0 \/ (deletes + aborts = 0 /\ deletes = 0)
    BY <1>0 DEF TypeOK, Abort, Done, Goto
  <2>2. Left(v)' => deletes' + aborts' > 0 \/ Left(v) \/ \E d \in Calls : vol'[d] = v
    BY <1>0 DEF TypeOK, Left, Exists, Abort, Done, Goto
  <2>3. \A d \in Calls : vol[d] = v /\ Fresh(v) =>
           vol'[d] = v \/ deletes' + aborts' > 0 \/ ~Left(v)'
    BY <1>0 DEF TypeOK, Abort, Done, Goto
  <2> QED
    BY <1>0, <2>1, <2>2, <2>3, LeakSame
<1>8. \A v \in Volumes : SeededOK(v)'
  <2>1. \A n \in Namespaces : seed[n].state = "bound" => seed'[n] = seed[n]
    BY <1>0 DEF TypeOK, Abort, Done, Goto
  <2> QED
    BY <1>0, <2>1, SeededSame DEF Abort, Done, Goto
<1>7. OneOK'
  BY <1>0, <1>1, OneSame
<1> QED
  BY <1>2, <1>3, <1>4, <1>5, <1>6, <1>7, <1>8 DEF SurplusInv

\* CreateClaim labels no second volume of a namespace and leaves none behind.
LEMMA CreateClaimSurplus ==
    ASSUME MaxCalls = 1, OwnInv, SurplusInv, NEW c \in Calls, CreateClaim(c)
    PROVE  SurplusInv'
<1>0. TypeOK /\ OwnInv /\ SurplusInv /\ \A v \in Volumes : VolStep(v)
  BY CreateClaimKeeps DEF OwnInv
<1>a. /\ pv' = pv /\ vol[c] \in Volumes /\ BelongsTo(vol[c], c[1]) /\ c[1] \in Namespaces
      /\ VolumeOK(vol[c])
  BY <1>0, CallOfNamespace DEF OwnInv, CallOK, NameOK, CreateClaim
<1>b. ~Fresh(vol[c]) /\ pv[vol[c]].phase # "none"
  BY <1>a, VolumeAssumption DEF BelongsTo, VolumeOK, Fresh, Exists
<1>c. \/ pc'[c] = "awaitBound" /\ vol'[c] = vol[c]
      \/ pc'[c] = "idle" /\ vol'[c] = 0
  BY <1>0 DEF CreateClaim, Done, Goto, TypeOK
<1>1. LabelsKept
  BY <1>0 DEF LabelsKept, CreateClaim, Done, Goto
<1>2. \A d \in Calls : LooksOK(d)'
  <2>1. \A d \in Calls : pc'[d] \in Looking => pc[d] \in Looking
    BY <1>0 DEF TypeOK, Looking, CreateClaim, Done, Goto
  <2> QED
    BY <1>0, <1>1, <2>1, LooksSame
<1>3. \A d \in Calls : OwnSeedOK(d)'
  <2>1. \A n \in Namespaces : seed[n].state = "bound" => seed'[n] = seed[n]
    BY <1>0 DEF TypeOK, CreateClaim, Done, Goto
  <2>2. \A d \in Calls : pc'[d] \in {"retain", "deleteSeed"} =>
           pc[d] \in {"retain", "deleteSeed"} /\ vol'[d] = vol[d]
    BY <1>0 DEF TypeOK, CreateClaim, Done, Goto
  <2> QED
    BY <1>0, <2>1, <2>2, OwnSeedSame
<1>4. \A v \in Volumes : UseOK(v)'
  BY <1>0, UseSame DEF TypeOK, CreateClaim, Done, Goto
<1>5. \A d \in Calls : HoldOK(d)'
  <2>1. ASSUME NEW d \in Calls, d # c PROVE HoldOK(d)'
    <3>1. pc'[d] = pc[d] /\ vol'[d] = vol[d] /\ (deletes > 0 => deletes' > 0)
      BY <1>0, <2>1 DEF TypeOK, CreateClaim, Done, Goto
    <3> QED
      BY <1>0, <3>1, HoldSame
  <2>2. HoldOK(c)'
    BY <1>a, <1>b, <1>c DEF HoldOK, Fresh, Exists
  <2> QED
    BY <2>1, <2>2
<1>6. \A v \in Volumes : LeakOK(v)'
  <2> SUFFICES ASSUME NEW v \in Volumes PROVE LeakOK(v)'
    OBVIOUS
  <2>1. deletes' + aborts' > 0 \/ (deletes + aborts = 0 /\ deletes = 0)
    BY <1>0 DEF TypeOK, CreateClaim, Done, Goto
  <2>2. Left(v)' => deletes' + aborts' > 0 \/ Left(v) \/ \E d \in Calls : vol'[d] = v
    BY <1>0 DEF TypeOK, Left, Exists, CreateClaim, Done, Goto
  <2>3. \A d \in Calls : vol[d] = v /\ Fresh(v) =>
           vol'[d] = v \/ deletes' + aborts' > 0 \/ ~Left(v)'
    BY <1>0, <1>b DEF CreateClaim, Done, TypeOK
  <2> QED
    BY <1>0, <2>1, <2>2, <2>3, LeakSame
<1>8. \A v \in Volumes : SeededOK(v)'
  <2>1. \A n \in Namespaces : seed[n].state = "bound" => seed'[n] = seed[n]
    BY <1>0 DEF TypeOK, CreateClaim, Done, Goto
  <2> QED
    BY <1>0, <2>1, SeededSame DEF CreateClaim, Done, Goto
<1>7. OneOK'
  BY <1>0, <1>1, OneSame
<1> QED
  BY <1>2, <1>3, <1>4, <1>5, <1>6, <1>7, <1>8 DEF SurplusInv

\* DownVolumes labels no second volume of a namespace and leaves none behind.
LEMMA DownVolumesSurplus ==
    ASSUME MaxCalls = 1, OwnInv, SurplusInv, NEW c \in Calls, DownVolumes(c)
    PROVE  SurplusInv'
<1>0. TypeOK /\ OwnInv /\ SurplusInv /\ \A v \in Volumes : VolStep(v)
  BY DownVolumesKeeps DEF OwnInv
<1>1. LabelsKept
  BY <1>0 DEF LabelsKept, DownVolumes, Goto
<1>2. \A d \in Calls : LooksOK(d)'
  <2>1. \A d \in Calls : pc'[d] \in Looking => pc[d] \in Looking
    BY <1>0 DEF TypeOK, Looking, DownVolumes, Goto
  <2> QED
    BY <1>0, <1>1, <2>1, LooksSame
<1>3. \A d \in Calls : OwnSeedOK(d)'
  <2>1. \A n \in Namespaces : seed[n].state = "bound" => seed'[n] = seed[n]
    BY <1>0 DEF TypeOK, DownVolumes, Goto
  <2>2. \A d \in Calls : pc'[d] \in {"retain", "deleteSeed"} =>
           pc[d] \in {"retain", "deleteSeed"} /\ vol'[d] = vol[d]
    BY <1>0 DEF TypeOK, DownVolumes, Goto
  <2> QED
    BY <1>0, <2>1, <2>2, OwnSeedSame
<1>4. \A v \in Volumes : UseOK(v)'
  BY <1>0, UseSame DEF TypeOK, DownVolumes, Goto
<1>5. \A d \in Calls : HoldOK(d)'
  <2>1. ASSUME NEW d \in Calls, d # c PROVE HoldOK(d)'
    <3>1. pc'[d] = pc[d] /\ vol'[d] = vol[d] /\ (deletes > 0 => deletes' > 0)
      BY <1>0, <2>1 DEF TypeOK, DownVolumes, Goto
    <3> QED
      BY <1>0, <3>1, HoldSame
  <2>2. HoldOK(c)'
    BY <1>0 DEF SurplusInv, HoldOK, TypeOK, DownVolumes, Goto
  <2> QED
    BY <2>1, <2>2
<1>6. \A v \in Volumes : LeakOK(v)'
  <2> SUFFICES ASSUME NEW v \in Volumes PROVE LeakOK(v)'
    OBVIOUS
  <2>1. deletes' + aborts' > 0 \/ (deletes + aborts = 0 /\ deletes = 0)
    BY <1>0 DEF TypeOK, DownVolumes, Goto
  <2>2. Left(v)' => deletes' + aborts' > 0 \/ Left(v) \/ \E d \in Calls : vol'[d] = v
    BY <1>0 DEF TypeOK, Left, Exists, DownVolumes, Goto
  <2>3. \A d \in Calls : vol[d] = v /\ Fresh(v) =>
           vol'[d] = v \/ deletes' + aborts' > 0 \/ ~Left(v)'
    BY <1>0 DEF TypeOK, DownVolumes, Goto
  <2> QED
    BY <1>0, <2>1, <2>2, <2>3, LeakSame
<1>8. \A v \in Volumes : SeededOK(v)'
  <2>1. \A n \in Namespaces : seed[n].state = "bound" => seed'[n] = seed[n]
    BY <1>0 DEF TypeOK, DownVolumes, Goto
  <2> QED
    BY <1>0, <2>1, SeededSame DEF DownVolumes, Goto
<1>7. OneOK'
  BY <1>0, <1>1, OneSame
<1> QED
  BY <1>2, <1>3, <1>4, <1>5, <1>6, <1>7, <1>8 DEF SurplusInv

\* Release labels no second volume of a namespace and leaves none behind.
LEMMA ReleaseSurplus ==
    ASSUME MaxCalls = 1, OwnInv, SurplusInv, NEW c \in Calls, Release(c)
    PROVE  SurplusInv'
<1>0. TypeOK /\ OwnInv /\ SurplusInv /\ \A v \in Volumes : VolStep(v)
  BY ReleaseKeeps DEF OwnInv
<1>a. \A v \in Volumes :
        \/ pv'[v] = pv[v]
        \/ /\ v = vol[c] /\ pv'[v].label = pv[v].label /\ pv'[v].ref = NoRef
           /\ pv'[v].users = pv[v].users /\ pv'[v].given = pv[v].given
  BY <1>0, AvailableFields, CallOfNamespace DEF TypeOK, Release
<1>b. BelongsTo(vol[c], c[1]) /\ c[1] # None /\ (Exists(vol[c]) => pv[vol[c]].phase # "gone")
  BY <1>0, VolumeAssumption, CallOfNamespace DEF OwnInv, CallOK, NameOK, Release, Exists
<1>1. LabelsKept
  BY <1>a DEF LabelsKept
<1>2. \A d \in Calls : LooksOK(d)'
  <2>1. \A d \in Calls : pc'[d] \in Looking => pc[d] \in Looking
    BY <1>0 DEF TypeOK, Looking, Release, Goto
  <2> QED
    BY <1>0, <1>1, <2>1, LooksSame
<1>3. \A d \in Calls : OwnSeedOK(d)'
  <2>1. \A n \in Namespaces : seed[n].state = "bound" => seed'[n] = seed[n]
    BY <1>0 DEF TypeOK, Release, Goto
  <2>2. \A d \in Calls : pc'[d] \in {"retain", "deleteSeed"} =>
           pc[d] \in {"retain", "deleteSeed"} /\ vol'[d] = vol[d]
    BY <1>0 DEF TypeOK, Release, Goto
  <2> QED
    BY <1>0, <2>1, <2>2, OwnSeedSame
<1>4. \A v \in Volumes : UseOK(v)'
  BY <1>0, <1>a, RefsDiffer DEF SurplusInv, UseOK, Release
<1>5. \A d \in Calls : HoldOK(d)'
  <2>1. ASSUME NEW d \in Calls, d # c PROVE HoldOK(d)'
    <3>1. pc'[d] = pc[d] /\ vol'[d] = vol[d] /\ (deletes > 0 => deletes' > 0)
      BY <1>0, <2>1 DEF TypeOK, Release, Goto
    <3> QED
      BY <1>0, <3>1, HoldSame
  <2>2. HoldOK(c)'
    BY <1>0 DEF SurplusInv, HoldOK, TypeOK, Release, Goto
  <2> QED
    BY <2>1, <2>2
<1>6. \A v \in Volumes : LeakOK(v)'
  <2> SUFFICES ASSUME NEW v \in Volumes PROVE LeakOK(v)'
    OBVIOUS
  <2>1. deletes' + aborts' > 0 \/ (deletes + aborts = 0 /\ deletes = 0)
    BY <1>0 DEF TypeOK, Release, Goto
  <2>2. Left(v)' => deletes' + aborts' > 0 \/ Left(v) \/ \E d \in Calls : vol'[d] = v
    BY <1>0, <1>a, <1>b DEF TypeOK, Release, Left, Exists, BelongsTo, SurplusInv, UseOK
  <2>3. \A d \in Calls : vol[d] = v /\ Fresh(v) =>
           vol'[d] = v \/ deletes' + aborts' > 0 \/ ~Left(v)'
    BY <1>0 DEF TypeOK, Release, Goto
  <2> QED
    BY <1>0, <2>1, <2>2, <2>3, LeakSame
<1>8. \A v \in Volumes : SeededOK(v)'
  <2>1. \A n \in Namespaces : seed[n].state = "bound" => seed'[n] = seed[n]
    BY <1>0 DEF TypeOK, Release, Goto
  <2> QED
    BY <1>0, <2>1, SeededSame, <1>a, RefsDiffer DEF Release, Goto
<1>7. OneOK'
  BY <1>0, <1>1, OneSame
<1> QED
  BY <1>2, <1>3, <1>4, <1>5, <1>6, <1>7, <1>8 DEF SurplusInv

\* Retain labels no second volume of a namespace and leaves none behind.
LEMMA RetainSurplus ==
    ASSUME MaxCalls = 1, OwnInv, SurplusInv, NEW c \in Calls, Retain(c)
    PROVE  SurplusInv'
<1>0. TypeOK /\ OwnInv /\ SurplusInv /\ \A v \in Volumes : VolStep(v)
  BY RetainKeeps DEF OwnInv
<1>a. \A v \in Volumes :
        \/ pv'[v] = pv[v]
        \/ /\ v = vol[c] /\ pv'[v].label = pv[v].label /\ pv'[v].ref = pv[v].ref
           /\ pv'[v].users = pv[v].users /\ pv'[v].given = pv[v].given
  BY <1>0 DEF TypeOK, VolumeStates, Retain
<1>1. LabelsKept
  BY <1>a DEF LabelsKept
<1>2. \A d \in Calls : LooksOK(d)'
  <2>1. \A d \in Calls : pc'[d] \in Looking => pc[d] \in Looking
    BY <1>0 DEF TypeOK, Looking, Retain, Goto
  <2> QED
    BY <1>0, <1>1, <2>1, LooksSame
<1>3. \A d \in Calls : OwnSeedOK(d)'
  <2>1. \A n \in Namespaces : seed[n].state = "bound" => seed'[n] = seed[n]
    BY <1>0 DEF TypeOK, Retain, Goto
  <2>2. \A d \in Calls : pc'[d] \in {"retain", "deleteSeed"} =>
           pc[d] \in {"retain", "deleteSeed"} /\ vol'[d] = vol[d]
    BY <1>0 DEF TypeOK, Retain, Goto
  <2> QED
    BY <1>0, <2>1, <2>2, OwnSeedSame
<1>4. \A v \in Volumes : UseOK(v)'
  BY <1>0, <1>a DEF SurplusInv, UseOK, Retain
<1>5. \A d \in Calls : HoldOK(d)'
  <2>1. ASSUME NEW d \in Calls, d # c PROVE HoldOK(d)'
    <3>1. pc'[d] = pc[d] /\ vol'[d] = vol[d] /\ (deletes > 0 => deletes' > 0)
      BY <1>0, <2>1 DEF TypeOK, Retain, Goto
    <3> QED
      BY <1>0, <3>1, HoldSame
  <2>2. HoldOK(c)'
    BY <1>0 DEF SurplusInv, HoldOK, TypeOK, Retain, Goto
  <2> QED
    BY <2>1, <2>2
<1>6. \A v \in Volumes : LeakOK(v)'
  <2> SUFFICES ASSUME NEW v \in Volumes PROVE LeakOK(v)'
    OBVIOUS
  <2>1. deletes' + aborts' > 0 \/ (deletes + aborts = 0 /\ deletes = 0)
    BY <1>0 DEF TypeOK, Retain, Goto
  <2>2. Left(v)' => deletes' + aborts' > 0 \/ Left(v) \/ \E d \in Calls : vol'[d] = v
    BY <1>0, <1>a DEF Retain, Left, Exists
  <2>3. \A d \in Calls : vol[d] = v /\ Fresh(v) =>
           vol'[d] = v \/ deletes' + aborts' > 0 \/ ~Left(v)'
    BY <1>0 DEF TypeOK, Retain, Goto
  <2> QED
    BY <1>0, <2>1, <2>2, <2>3, LeakSame
<1>8. \A v \in Volumes : SeededOK(v)'
  <2>1. \A n \in Namespaces : seed[n].state = "bound" => seed'[n] = seed[n]
    BY <1>0 DEF TypeOK, Retain, Goto
  <2> QED
    BY <1>0, <2>1, SeededSame, <1>a, RefsDiffer DEF Retain, Goto
<1>7. OneOK'
  BY <1>0, <1>1, OneSame
<1> QED
  BY <1>2, <1>3, <1>4, <1>5, <1>6, <1>7, <1>8 DEF SurplusInv

\* DeleteSeed labels no second volume of a namespace and leaves none behind.
LEMMA DeleteSeedSurplus ==
    ASSUME MaxCalls = 1, OwnInv, SurplusInv, NEW c \in Calls, DeleteSeed(c)
    PROVE  SurplusInv'
<1>0. TypeOK /\ OwnInv /\ SurplusInv /\ \A v \in Volumes : VolStep(v)
  BY DeleteSeedKeeps DEF OwnInv
<1>a. /\ <<"seed", c[1]>> \in {"seed", "own"} \X Namespaces
      /\ pv' = Orphan(pv, <<"seed", c[1]>>) /\ (deletes > 0 => deletes' > 0)
  BY CallOfNamespace DEF DeleteSeed
<1>b. \A v \in Volumes : /\ UseOK(v)' /\ pv'[v].label = pv[v].label
                         /\ pv'[v].ref \in {pv[v].ref, Deleted}
  BY <1>0, <1>a, OrphanUse
<1>c. /\ pc[c] = "deleteSeed" /\ seed[c[1]].state = "bound" /\ seed[c[1]].volume = vol[c]
      /\ c[1] \in Namespaces
  BY <1>0, CallOfNamespace DEF SurplusInv, OwnSeedOK, DeleteSeed
<1>d. vol' = vol /\ pc' = [pc EXCEPT ![c] = "awaitRelease"]
  BY <1>c DEF DeleteSeed, Goto
<1>1. LabelsKept
  BY <1>b DEF LabelsKept
<1>2. \A d \in Calls : LooksOK(d)'
  <2>1. \A d \in Calls : pc'[d] \in Looking => pc[d] \in Looking
    BY <1>0 DEF TypeOK, Looking, DeleteSeed, Done, Goto
  <2> QED
    BY <1>0, <1>1, <2>1, LooksSame
<1>3. \A d \in Calls : OwnSeedOK(d)'
  <2>1. ASSUME NEW d \in Calls, d # c PROVE OwnSeedOK(d)'
    <3>1. d[1] # c[1] /\ d[1] \in Namespaces
      BY <2>1, OneCall, CallOfNamespace
    <3> QED
      BY <1>0, <1>d, <2>1, <3>1 DEF SurplusInv, OwnSeedOK, DeleteSeed, TypeOK
  <2>2. OwnSeedOK(c)'
    BY <1>0, <1>d DEF OwnSeedOK, TypeOK
  <2> QED
    BY <2>1, <2>2
<1>4. \A v \in Volumes : UseOK(v)'
  BY <1>b
<1>5. \A d \in Calls : HoldOK(d)'
  <2>1. ASSUME NEW d \in Calls, d # c PROVE HoldOK(d)'
    <3>1. pc'[d] = pc[d] /\ vol'[d] = vol[d] /\ (deletes > 0 => deletes' > 0)
      BY <1>0, <2>1 DEF TypeOK, DeleteSeed, Done, Goto
    <3> QED
      BY <1>0, <3>1, HoldSame
  <2>2. HoldOK(c)'
    BY <1>0, <1>d DEF HoldOK, TypeOK
  <2> QED
    BY <2>1, <2>2
<1>6. \A v \in Volumes : LeakOK(v)'
  <2> SUFFICES ASSUME NEW v \in Volumes PROVE LeakOK(v)'
    OBVIOUS
  <2>1. deletes' + aborts' > 0 \/ (deletes + aborts = 0 /\ deletes = 0)
    BY <1>0 DEF TypeOK, DeleteSeed, Done, Goto
  <2>2. Left(v)' => deletes' + aborts' > 0 \/ Left(v) \/ \E d \in Calls : vol'[d] = v
    <3>1. CASE pv[v].ref = <<"seed", c[1]>>
      <4>1. v = vol[c]
        BY <1>0, <1>c, <3>1 DEF SurplusInv, SeededOK
      <4> QED
        BY <1>d, <4>1
    <3>2. CASE pv[v].ref # <<"seed", c[1]>>
      BY <1>0, <3>2 DEF DeleteSeed, Orphan, Left, Exists
    <3> QED
      BY <3>1, <3>2
  <2>3. \A d \in Calls : vol[d] = v /\ Fresh(v) =>
           vol'[d] = v \/ deletes' + aborts' > 0 \/ ~Left(v)'
    BY <1>d
  <2> QED
    BY <1>0, <2>1, <2>2, <2>3, LeakSame
<1>8. \A v \in Volumes : SeededOK(v)'
  <2> SUFFICES ASSUME NEW v \in Volumes, NEW n \in Namespaces, pv'[v].ref = <<"seed", n>>
               PROVE  seed'[n].state = "bound" /\ seed'[n].volume = v
    BY DEF SeededOK
  <2>1. pv'[v].ref = (IF pv[v].ref = <<"seed", c[1]>> THEN Deleted ELSE pv[v].ref)
    BY <1>0, <1>a, OrphanUse
  <2>2. pv[v].ref = <<"seed", n>> /\ n # c[1]
    BY <1>c, <2>1, RefsDiffer
  <2> QED
    BY <1>0, <2>2 DEF SurplusInv, SeededOK, DeleteSeed, TypeOK
<1>7. OneOK'
  BY <1>0, <1>1, OneSame
<1> QED
  BY <1>2, <1>3, <1>4, <1>5, <1>6, <1>7, <1>8 DEF SurplusInv

\* DeleteClaim labels no second volume of a namespace and leaves none behind.
LEMMA DeleteClaimSurplus ==
    ASSUME MaxCalls = 1, OwnInv, SurplusInv, NEW c \in Calls, DeleteClaim(c)
    PROVE  SurplusInv'
<1>0. TypeOK /\ OwnInv /\ SurplusInv /\ \A v \in Volumes : VolStep(v)
  BY DeleteClaimKeeps DEF OwnInv
<1>a. /\ <<"own", c[1]>> \in {"seed", "own"} \X Namespaces
      /\ pv' = Orphan(pv, <<"own", c[1]>>) /\ (deletes > 0 => deletes' > 0)
  BY CallOfNamespace DEF DeleteClaim
<1>b. \A v \in Volumes : /\ UseOK(v)' /\ pv'[v].label = pv[v].label
                         /\ pv'[v].ref \in {pv[v].ref, Deleted}
  BY <1>0, <1>a, OrphanUse
<1>c. \A v \in Volumes : Left(v)' => deletes > 0 \/ Left(v)
  BY <1>0, <1>a, OrphanUse, CallOfNamespace
<1>1. LabelsKept
  BY <1>b DEF LabelsKept
<1>2. \A d \in Calls : LooksOK(d)'
  <2>1. \A d \in Calls : pc'[d] \in Looking => pc[d] \in Looking
    BY <1>0 DEF TypeOK, Looking, DeleteClaim, Goto
  <2> QED
    BY <1>0, <1>1, <2>1, LooksSame
<1>3. \A d \in Calls : OwnSeedOK(d)'
  <2>1. \A n \in Namespaces : seed[n].state = "bound" => seed'[n] = seed[n]
    BY <1>0 DEF TypeOK, DeleteClaim, Goto
  <2>2. \A d \in Calls : pc'[d] \in {"retain", "deleteSeed"} =>
           pc[d] \in {"retain", "deleteSeed"} /\ vol'[d] = vol[d]
    BY <1>0 DEF TypeOK, DeleteClaim, Goto
  <2> QED
    BY <1>0, <2>1, <2>2, OwnSeedSame
<1>4. \A v \in Volumes : UseOK(v)'
  BY <1>b
<1>5. \A d \in Calls : HoldOK(d)'
  <2>1. ASSUME NEW d \in Calls, d # c PROVE HoldOK(d)'
    <3>1. pc'[d] = pc[d] /\ vol'[d] = vol[d] /\ (deletes > 0 => deletes' > 0)
      BY <1>0, <2>1 DEF TypeOK, DeleteClaim, Goto
    <3> QED
      BY <1>0, <3>1, HoldSame
  <2>2. HoldOK(c)'
    BY <1>0 DEF SurplusInv, HoldOK, TypeOK, DeleteClaim, Goto
  <2> QED
    BY <2>1, <2>2
<1>6. \A v \in Volumes : LeakOK(v)'
  <2> SUFFICES ASSUME NEW v \in Volumes PROVE LeakOK(v)'
    OBVIOUS
  <2>1. deletes' + aborts' > 0 \/ (deletes + aborts = 0 /\ deletes = 0)
    BY <1>0 DEF TypeOK, DeleteClaim, Goto
  <2>2. Left(v)' => deletes' + aborts' > 0 \/ Left(v) \/ \E d \in Calls : vol'[d] = v
    BY <1>0, <1>c DEF TypeOK, DeleteClaim
  <2>3. \A d \in Calls : vol[d] = v /\ Fresh(v) =>
           vol'[d] = v \/ deletes' + aborts' > 0 \/ ~Left(v)'
    BY <1>0 DEF TypeOK, DeleteClaim, Goto
  <2> QED
    BY <1>0, <2>1, <2>2, <2>3, LeakSame
<1>8. \A v \in Volumes : SeededOK(v)'
  <2>1. \A n \in Namespaces : seed[n].state = "bound" => seed'[n] = seed[n]
    BY <1>0 DEF TypeOK, DeleteClaim, Goto
  <2> QED
    BY <1>0, <2>1, SeededSame, <1>b, RefsDiffer DEF DeleteClaim, Goto
<1>7. OneOK'
  BY <1>0, <1>1, OneSame
<1> QED
  BY <1>2, <1>3, <1>4, <1>5, <1>6, <1>7, <1>8 DEF SurplusInv

\* DeleteNamespace labels no second volume of a namespace and leaves none behind.
LEMMA DeleteNamespaceSurplus ==
    ASSUME MaxCalls = 1, OwnInv, SurplusInv, NEW c \in Calls, DeleteNamespace(c)
    PROVE  SurplusInv'
<1>0. TypeOK /\ OwnInv /\ SurplusInv /\ \A v \in Volumes : VolStep(v)
  BY DeleteNamespaceKeeps DEF OwnInv
<1>a. /\ <<"own", c[1]>> \in {"seed", "own"} \X Namespaces
      /\ pv' = Orphan(pv, <<"own", c[1]>>) /\ (deletes > 0 => deletes' > 0)
  BY CallOfNamespace DEF DeleteNamespace
<1>b. \A v \in Volumes : /\ UseOK(v)' /\ pv'[v].label = pv[v].label
                         /\ pv'[v].ref \in {pv[v].ref, Deleted}
  BY <1>0, <1>a, OrphanUse
<1>c. \A v \in Volumes : Left(v)' => deletes > 0 \/ Left(v)
  BY <1>0, <1>a, OrphanUse, CallOfNamespace
<1>1. LabelsKept
  BY <1>b DEF LabelsKept
<1>2. \A d \in Calls : LooksOK(d)'
  <2>1. \A d \in Calls : pc'[d] \in Looking => pc[d] \in Looking
    BY <1>0 DEF TypeOK, Looking, DeleteNamespace, Done, Goto
  <2> QED
    BY <1>0, <1>1, <2>1, LooksSame
<1>3. \A d \in Calls : OwnSeedOK(d)'
  <2>1. \A n \in Namespaces : seed[n].state = "bound" => seed'[n] = seed[n]
    BY <1>0 DEF TypeOK, DeleteNamespace, Done, Goto
  <2>2. \A d \in Calls : pc'[d] \in {"retain", "deleteSeed"} =>
           pc[d] \in {"retain", "deleteSeed"} /\ vol'[d] = vol[d]
    BY <1>0 DEF TypeOK, DeleteNamespace, Done, Goto
  <2> QED
    BY <1>0, <2>1, <2>2, OwnSeedSame
<1>4. \A v \in Volumes : UseOK(v)'
  BY <1>b
<1>5. \A d \in Calls : HoldOK(d)'
  <2>1. ASSUME NEW d \in Calls, d # c PROVE HoldOK(d)'
    <3>1. pc'[d] = pc[d] /\ vol'[d] = vol[d] /\ (deletes > 0 => deletes' > 0)
      BY <1>0, <2>1 DEF TypeOK, DeleteNamespace, Done, Goto
    <3> QED
      BY <1>0, <3>1, HoldSame
  <2>2. HoldOK(c)'
    BY <1>0 DEF SurplusInv, HoldOK, TypeOK, DeleteNamespace, Done, Goto
  <2> QED
    BY <2>1, <2>2
<1>6. \A v \in Volumes : LeakOK(v)'
  <2> SUFFICES ASSUME NEW v \in Volumes PROVE LeakOK(v)'
    OBVIOUS
  <2>1. deletes' + aborts' > 0 \/ (deletes + aborts = 0 /\ deletes = 0)
    BY <1>0 DEF TypeOK, DeleteNamespace, Done, Goto
  <2>2. Left(v)' => deletes' + aborts' > 0 \/ Left(v) \/ \E d \in Calls : vol'[d] = v
    BY <1>0, <1>c DEF TypeOK, DeleteNamespace
  <2>3. \A d \in Calls : vol[d] = v /\ Fresh(v) =>
           vol'[d] = v \/ deletes' + aborts' > 0 \/ ~Left(v)'
    BY <1>0 DEF SurplusInv, HoldOK, TypeOK, DeleteNamespace
  <2> QED
    BY <1>0, <2>1, <2>2, <2>3, LeakSame
<1>8. \A v \in Volumes : SeededOK(v)'
  <2>1. \A n \in Namespaces : seed[n].state = "bound" => seed'[n] = seed[n]
    BY <1>0 DEF TypeOK, DeleteNamespace, Done, Goto
  <2> QED
    BY <1>0, <2>1, SeededSame, <1>b, RefsDiffer DEF DeleteNamespace, Done, Goto
<1>7. OneOK'
  BY <1>0, <1>1, OneSame
<1> QED
  BY <1>2, <1>3, <1>4, <1>5, <1>6, <1>7, <1>8 DEF SurplusInv

\* Down labels no second volume of a namespace and leaves none behind.
LEMMA DownSurplus ==
    ASSUME MaxCalls = 1, OwnInv, SurplusInv, NEW m \in Namespaces, Down(m)
    PROVE  SurplusInv'
<1>0. TypeOK /\ OwnInv /\ SurplusInv /\ \A v \in Volumes : VolStep(v)
  BY DownKeeps DEF OwnInv
<1>a. /\ <<"own", m>> \in {"seed", "own"} \X Namespaces
      /\ pv' = Orphan(pv, <<"own", m>>) /\ (deletes > 0 => deletes' > 0)
  BY CallOfNamespace DEF Down
<1>b. \A v \in Volumes : /\ UseOK(v)' /\ pv'[v].label = pv[v].label
                         /\ pv'[v].ref \in {pv[v].ref, Deleted}
  BY <1>0, <1>a, OrphanUse
<1>c. \A v \in Volumes : Left(v)' => deletes > 0 \/ Left(v)
  BY <1>0, <1>a, OrphanUse, CallOfNamespace
<1>1. LabelsKept
  BY <1>b DEF LabelsKept
<1>2. \A d \in Calls : LooksOK(d)'
  <2>1. \A d \in Calls : pc'[d] \in Looking => pc[d] \in Looking
    BY <1>0 DEF TypeOK, Looking, Down, callVars
  <2> QED
    BY <1>0, <1>1, <2>1, LooksSame
<1>3. \A d \in Calls : OwnSeedOK(d)'
  <2>1. \A n \in Namespaces : seed[n].state = "bound" => seed'[n] = seed[n]
    BY <1>0 DEF TypeOK, Down, callVars
  <2>2. \A d \in Calls : pc'[d] \in {"retain", "deleteSeed"} =>
           pc[d] \in {"retain", "deleteSeed"} /\ vol'[d] = vol[d]
    BY <1>0 DEF TypeOK, Down, callVars
  <2> QED
    BY <1>0, <2>1, <2>2, OwnSeedSame
<1>4. \A v \in Volumes : UseOK(v)'
  BY <1>b
<1>5. \A d \in Calls : HoldOK(d)'
  BY <1>0, HoldSame DEF Down, callVars
<1>6. \A v \in Volumes : LeakOK(v)'
  <2> SUFFICES ASSUME NEW v \in Volumes PROVE LeakOK(v)'
    OBVIOUS
  <2>1. deletes' + aborts' > 0 \/ (deletes + aborts = 0 /\ deletes = 0)
    BY <1>0 DEF TypeOK, Down, callVars
  <2>2. Left(v)' => deletes' + aborts' > 0 \/ Left(v) \/ \E d \in Calls : vol'[d] = v
    BY <1>0, <1>c DEF TypeOK, Down
  <2>3. \A d \in Calls : vol[d] = v /\ Fresh(v) =>
           vol'[d] = v \/ deletes' + aborts' > 0 \/ ~Left(v)'
    BY <1>0 DEF TypeOK, Down, callVars
  <2> QED
    BY <1>0, <2>1, <2>2, <2>3, LeakSame
<1>8. \A v \in Volumes : SeededOK(v)'
  <2>1. \A n \in Namespaces : seed[n].state = "bound" => seed'[n] = seed[n]
    BY <1>0 DEF TypeOK, Down, callVars
  <2> QED
    BY <1>0, <2>1, SeededSame, <1>b, RefsDiffer DEF Down, callVars
<1>7. OneOK'
  BY <1>0, <1>1, OneSame
<1> QED
  BY <1>2, <1>3, <1>4, <1>5, <1>6, <1>7, <1>8 DEF SurplusInv

\* UpdateForClaim labels no second volume of a namespace and leaves none behind.
LEMMA UpdateForClaimSurplus ==
    ASSUME MaxCalls = 1, OwnInv, SurplusInv, NEW c \in Calls, UpdateForClaim(c)
    PROVE  SurplusInv'
<1>0. TypeOK /\ OwnInv /\ SurplusInv /\ \A v \in Volumes : VolStep(v)
  BY UpdateForClaimKeeps DEF OwnInv
<1>a. /\ c[1] \in Namespaces /\ c[1] # None /\ vol[c] \in Volumes /\ pc[c] = "update"
      /\ CallOK(c) /\ LooksOK(c) /\ pv[vol[c]].phase # "none"
      /\ pv[vol[c]] \in VolumeStates /\ (pv[vol[c]].label = None => claimed[c])
  BY <1>0, VolumeAssumption, CallOfNamespace
    DEF OwnInv, SurplusInv, CallOK, RetainOK, TakeOK, HasSeeded, UpdateForClaim, TypeOK
<1>b. \A v \in Volumes :
        \/ pv'[v] = pv[v] /\ v # vol[c]
        \/ /\ v = vol[c] /\ pv'[v].ref = NoRef
           /\ pv'[v].label = (IF pv[v].label = None THEN c[1] ELSE pv[v].label)
           /\ pv'[v].users = pv[v].users /\ pv'[v].given = pv[v].given
  <2>1. LET p == MakeAvailable(LabelIfFree(pv[vol[c]], c[1])) IN
        /\ pv' = [pv EXCEPT ![vol[c]] = p] /\ p.ref = NoRef
        /\ p.label = (IF pv[vol[c]].label = None THEN c[1] ELSE pv[vol[c]].label)
        /\ p.users = pv[vol[c]].users /\ p.given = pv[vol[c]].given
    BY <1>a, AvailableFields DEF UpdateForClaim
  <2> QED
    BY <1>0, <2>1 DEF TypeOK
<1>c. \/ pc'[c] = "create" /\ vol'[c] = vol[c]
      \/ pc'[c] = "seed" /\ vol'[c] = vol[c] /\ pv[vol[c]].label # None
      \/ pc'[c] = "idle" /\ vol'[c] = 0 /\ pv[vol[c]].label # None
  BY <1>0, <1>a DEF TypeOK, UpdateForClaim, NextTry, Goto
<1>d. \A d \in Calls : d # c => pc'[d] = pc[d] /\ vol'[d] = vol[d]
  BY <1>0 DEF TypeOK, UpdateForClaim, NextTry, Goto
<1>2. \A d \in Calls : LooksOK(d)'
  <2> SUFFICES ASSUME NEW d \in Calls, pc'[d] \in Looking, NEW v \in Volumes
               PROVE  pv'[v].label # d[1]
    BY DEF LooksOK
  <2>1. CASE d = c
    <3>1. pc'[c] = "seed" \/ pc'[c] = "idle"
      BY <1>c, <2>1 DEF Looking
    <3> QED
      BY <1>a, <1>b, <1>c, <2>1, <3>1 DEF LooksOK, Looking
  <2>2. CASE d # c
    <3>1. d[1] # c[1] /\ LooksOK(d) /\ pc[d] \in Looking
      BY <1>0, <1>d, <2>2, OneCall DEF SurplusInv
    <3> QED
      BY <1>b, <3>1 DEF LooksOK
  <2> QED
    BY <2>1, <2>2
<1>3. \A d \in Calls : OwnSeedOK(d)'
  <2>1. \A n \in Namespaces : seed[n].state = "bound" => seed'[n] = seed[n]
    BY <1>0 DEF TypeOK, UpdateForClaim, NextTry, Forget, Goto
  <2>2. \A d \in Calls : pc'[d] \in {"retain", "deleteSeed"} =>
           pc[d] \in {"retain", "deleteSeed"} /\ vol'[d] = vol[d]
    BY <1>0 DEF TypeOK, UpdateForClaim, NextTry, Forget, Goto
  <2> QED
    BY <1>0, <2>1, <2>2, OwnSeedSame
<1>4. \A v \in Volumes : UseOK(v)'
  BY <1>0, <1>b, RefsDiffer DEF SurplusInv, UseOK, UpdateForClaim
<1>5. \A d \in Calls : HoldOK(d)'
  <2>1. ASSUME NEW d \in Calls, d # c PROVE HoldOK(d)'
    <3>1. pc'[d] = pc[d] /\ vol'[d] = vol[d] /\ (deletes > 0 => deletes' > 0)
      BY <1>0, <2>1 DEF TypeOK, UpdateForClaim, NextTry, Forget, Goto
    <3> QED
      BY <1>0, <3>1, HoldSame
  <2>2. HoldOK(c)'
    <3>1. ASSUME pc'[c] = "seed"
          PROVE  vol'[c] = vol[c] /\ ~Fresh(vol[c])' /\ pv'[vol[c]].phase # "none"
      <4>1. PICK v \in Volumes : v = vol[c]
        BY <1>a
      <4>2. ~Fresh(v)' /\ pv'[v].phase # "none"
        BY <1>0, <1>a, <1>c, <3>1, <4>1, OwnedStays DEF Fresh
      <4> QED
        BY <1>c, <3>1, <4>1, <4>2 DEF Fresh, Exists
    <3> QED
      BY <1>a, <1>c, <3>1 DEF HoldOK, Fresh, Exists
  <2> QED
    BY <2>1, <2>2
<1>6. \A v \in Volumes : LeakOK(v)'
  <2> SUFFICES ASSUME NEW v \in Volumes PROVE LeakOK(v)'
    OBVIOUS
  <2>1. deletes' + aborts' > 0 \/ (deletes + aborts = 0 /\ deletes = 0)
    BY <1>0 DEF TypeOK, UpdateForClaim, NextTry, Forget, Goto
  <2>2. Left(v)' => deletes' + aborts' > 0 \/ Left(v) \/ \E d \in Calls : vol'[d] = v
    BY <1>0, <1>a, <1>b DEF Left, Exists
  <2>3. \A d \in Calls : vol[d] = v /\ Fresh(v) =>
           vol'[d] = v \/ deletes' + aborts' > 0 \/ ~Left(v)'
    BY <1>a, <1>b, <1>c, <1>d DEF Left
  <2> QED
    BY <1>0, <2>1, <2>2, <2>3, LeakSame
<1>8. \A v \in Volumes : SeededOK(v)'
  BY <1>0, <1>b, RefsDiffer DEF SurplusInv, SeededOK, UpdateForClaim
<1>7. OneOK'
  <2>1. \A v \in Volumes : v # vol[c] => pv'[v].label # c[1]
    BY <1>a, <1>b DEF LooksOK, Looking
  <2> QED
    BY <1>0, <1>a, <1>b, <2>1 DEF SurplusInv, OneOK
<1> QED
  BY <1>2, <1>3, <1>4, <1>5, <1>6, <1>7, <1>8 DEF SurplusInv

\* GiveUp labels no second volume of a namespace and leaves none behind.
LEMMA GiveUpSurplus ==
    ASSUME MaxCalls = 1, OwnInv, SurplusInv, NEW c \in Calls, GiveUp(c)
    PROVE  SurplusInv'
<1>0. TypeOK /\ OwnInv /\ SurplusInv /\ \A v \in Volumes : VolStep(v)
  BY GiveUpKeeps DEF OwnInv
<1>a. \A v \in Volumes :
        \/ pv'[v] = pv[v]
        \/ pv'[v].label = None /\ pv'[v].ref = pv[v].ref /\ pv'[v].users = pv[v].users
  BY <1>0 DEF TypeOK, VolumeStates, GiveUp
<1>b. deletes > 0 /\ deletes' = deletes
  BY <1>0 DEF SurplusInv, HoldOK, GiveUp
<1>1. LabelsKept
  BY <1>a DEF LabelsKept
<1>2. \A d \in Calls : LooksOK(d)'
  <2>1. \A d \in Calls : pc'[d] \in Looking => pc[d] \in Looking
    BY <1>0 DEF TypeOK, Looking, GiveUp, Goto
  <2> QED
    BY <1>0, <1>1, <2>1, LooksSame
<1>3. \A d \in Calls : OwnSeedOK(d)'
  <2>1. \A n \in Namespaces : seed[n].state = "bound" => seed'[n] = seed[n]
    BY <1>0 DEF TypeOK, GiveUp, Goto
  <2>2. \A d \in Calls : pc'[d] \in {"retain", "deleteSeed"} =>
           pc[d] \in {"retain", "deleteSeed"} /\ vol'[d] = vol[d]
    BY <1>0 DEF TypeOK, GiveUp, Goto
  <2> QED
    BY <1>0, <2>1, <2>2, OwnSeedSame
<1>4. \A v \in Volumes : UseOK(v)'
  BY <1>0, <1>a, <1>b DEF SurplusInv, UseOK
<1>5. \A d \in Calls : HoldOK(d)'
  <2>1. ASSUME NEW d \in Calls, d # c PROVE HoldOK(d)'
    <3>1. pc'[d] = pc[d] /\ vol'[d] = vol[d] /\ (deletes > 0 => deletes' > 0)
      BY <1>0, <2>1 DEF TypeOK, GiveUp, Goto
    <3> QED
      BY <1>0, <3>1, HoldSame
  <2>2. HoldOK(c)'
    BY <1>0, <1>b DEF SurplusInv, HoldOK, TypeOK, GiveUp, Goto
  <2> QED
    BY <2>1, <2>2
<1>6. \A v \in Volumes : LeakOK(v)'
  <2> SUFFICES ASSUME NEW v \in Volumes PROVE LeakOK(v)'
    OBVIOUS
  <2>1. deletes' + aborts' > 0 \/ (deletes + aborts = 0 /\ deletes = 0)
    BY <1>0 DEF TypeOK, GiveUp, Goto
  <2>2. Left(v)' => deletes' + aborts' > 0 \/ Left(v) \/ \E d \in Calls : vol'[d] = v
    BY <1>0, <1>b DEF GiveUp, TypeOK
  <2>3. \A d \in Calls : vol[d] = v /\ Fresh(v) =>
           vol'[d] = v \/ deletes' + aborts' > 0 \/ ~Left(v)'
    BY <1>0 DEF TypeOK, GiveUp, Goto
  <2> QED
    BY <1>0, <2>1, <2>2, <2>3, LeakSame
<1>8. \A v \in Volumes : SeededOK(v)'
  <2>1. \A n \in Namespaces : seed[n].state = "bound" => seed'[n] = seed[n]
    BY <1>0 DEF TypeOK, GiveUp, Goto
  <2> QED
    BY <1>0, <2>1, SeededSame, <1>a DEF GiveUp, Goto
<1>7. OneOK'
  BY <1>0, <1>1, OneSame
<1> QED
  BY <1>2, <1>3, <1>4, <1>5, <1>6, <1>7, <1>8 DEF SurplusInv

\* BindSeed labels no second volume of a namespace and leaves none behind.
LEMMA BindSeedSurplus ==
    ASSUME MaxCalls = 1, OwnInv, SurplusInv,
           NEW m \in Namespaces, NEW w \in Volumes, BindSeed(m, w)
    PROVE  SurplusInv'
<1>0. TypeOK /\ OwnInv /\ SurplusInv /\ \A v \in Volumes : VolStep(v)
  BY BindSeedKeeps DEF OwnInv
<1>a. \A v \in Volumes :
        \/ pv'[v] = pv[v]
        \/ /\ pv'[v].label = pv[v].label /\ pv'[v].ref = <<"seed", m>>
           /\ pv'[v].users = pv[v].users /\ pv'[v].given = pv[v].given
  BY <1>0 DEF TypeOK, VolumeStates, BindSeed, Bind
<1>1. LabelsKept
  BY <1>a DEF LabelsKept
<1>2. \A d \in Calls : LooksOK(d)'
  <2>1. \A d \in Calls : pc'[d] \in Looking => pc[d] \in Looking
    BY <1>0 DEF TypeOK, Looking, BindSeed, callVars
  <2> QED
    BY <1>0, <1>1, <2>1, LooksSame
<1>3. \A d \in Calls : OwnSeedOK(d)'
  <2>1. \A n \in Namespaces : seed[n].state = "bound" => seed'[n] = seed[n]
    BY <1>0 DEF TypeOK, BindSeed, callVars
  <2>2. \A d \in Calls : pc'[d] \in {"retain", "deleteSeed"} =>
           pc[d] \in {"retain", "deleteSeed"} /\ vol'[d] = vol[d]
    BY <1>0 DEF TypeOK, BindSeed, callVars
  <2> QED
    BY <1>0, <2>1, <2>2, OwnSeedSame
<1>4. \A v \in Volumes : UseOK(v)'
  BY <1>0, <1>a, RefsDiffer DEF SurplusInv, UseOK, BindSeed
<1>5. \A d \in Calls : HoldOK(d)'
  BY <1>0, HoldSame DEF BindSeed, callVars
<1>6. \A v \in Volumes : LeakOK(v)'
  <2> SUFFICES ASSUME NEW v \in Volumes PROVE LeakOK(v)'
    OBVIOUS
  <2>1. deletes' + aborts' > 0 \/ (deletes + aborts = 0 /\ deletes = 0)
    BY <1>0 DEF TypeOK, BindSeed, callVars
  <2>2. Left(v)' => deletes' + aborts' > 0 \/ Left(v) \/ \E d \in Calls : vol'[d] = v
    BY <1>0, <1>a, RefsDiffer DEF Left, Exists, NoRef, Deleted
  <2>3. \A d \in Calls : vol[d] = v /\ Fresh(v) =>
           vol'[d] = v \/ deletes' + aborts' > 0 \/ ~Left(v)'
    BY <1>0 DEF TypeOK, BindSeed, callVars
  <2> QED
    BY <1>0, <2>1, <2>2, <2>3, LeakSame
<1>8. \A v \in Volumes : SeededOK(v)'
  <2> SUFFICES ASSUME NEW v \in Volumes, NEW n \in Namespaces, pv'[v].ref = <<"seed", n>>
               PROVE  seed'[n].state = "bound" /\ seed'[n].volume = v
    BY DEF SeededOK
  <2>1. CASE v = w
    <3>1. n = m
      BY <1>0, <2>1, RefsDiffer DEF TypeOK, VolumeStates, BindSeed, Bind
    <3> QED
      BY <1>0, <2>1, <3>1 DEF TypeOK, BindSeed, Bind
  <2>2. CASE v # w
    <3>1. pv[v].ref = <<"seed", n>>
      BY <1>0, <2>2 DEF TypeOK, BindSeed, Bind
    <3>2. seed[n].state = "bound" /\ seed[n].volume = v
      BY <1>0, <3>1 DEF SurplusInv, SeededOK
    <3> QED
      BY <1>0, <3>2 DEF TypeOK, BindSeed, Bind
  <2> QED
    BY <2>1, <2>2
<1>7. OneOK'
  BY <1>0, <1>1, OneSame
<1> QED
  BY <1>2, <1>3, <1>4, <1>5, <1>6, <1>7, <1>8 DEF SurplusInv

\* Provision labels no second volume of a namespace and leaves none behind.
LEMMA ProvisionSurplus ==
    ASSUME MaxCalls = 1, OwnInv, SurplusInv,
           NEW m \in Namespaces, NEW w \in Volumes, Provision(m, w)
    PROVE  SurplusInv'
<1>0. TypeOK /\ OwnInv /\ SurplusInv /\ \A v \in Volumes : VolStep(v)
  BY ProvisionKeeps DEF OwnInv
<1>p. LET p == [NoVolume EXCEPT !.phase = "Bound", !.ref = <<"seed", m>>] IN
      /\ p.ref = <<"seed", m>> /\ p.label = None /\ p.users = {} /\ p.given = FALSE
  BY DEF NoVolume
<1>a. \A v \in Volumes :
        \/ pv'[v] = pv[v]
        \/ /\ pv'[v].label = None /\ pv'[v].ref = <<"seed", m>>
           /\ pv'[v].users = {} /\ pv'[v].given = FALSE
  BY <1>0, <1>p DEF TypeOK, VolumeStates, Provision
<1>1. LabelsKept
  BY <1>a DEF LabelsKept
<1>2. \A d \in Calls : LooksOK(d)'
  <2>1. \A d \in Calls : pc'[d] \in Looking => pc[d] \in Looking
    BY <1>0 DEF TypeOK, Looking, Provision, callVars
  <2> QED
    BY <1>0, <1>1, <2>1, LooksSame
<1>3. \A d \in Calls : OwnSeedOK(d)'
  <2>1. \A n \in Namespaces : seed[n].state = "bound" => seed'[n] = seed[n]
    BY <1>0 DEF TypeOK, Provision, callVars
  <2>2. \A d \in Calls : pc'[d] \in {"retain", "deleteSeed"} =>
           pc[d] \in {"retain", "deleteSeed"} /\ vol'[d] = vol[d]
    BY <1>0 DEF TypeOK, Provision, callVars
  <2> QED
    BY <1>0, <2>1, <2>2, OwnSeedSame
<1>4. \A v \in Volumes : UseOK(v)'
  BY <1>0, <1>a, RefsDiffer DEF SurplusInv, UseOK, Provision
<1>5. \A d \in Calls : HoldOK(d)'
  BY <1>0, HoldSame DEF Provision, callVars
<1>6. \A v \in Volumes : LeakOK(v)'
  <2> SUFFICES ASSUME NEW v \in Volumes PROVE LeakOK(v)'
    OBVIOUS
  <2>1. deletes' + aborts' > 0 \/ (deletes + aborts = 0 /\ deletes = 0)
    BY <1>0 DEF TypeOK, Provision, callVars
  <2>2. Left(v)' => deletes' + aborts' > 0 \/ Left(v) \/ \E d \in Calls : vol'[d] = v
    BY <1>0, <1>a, RefsDiffer DEF Left, Exists, NoRef, Deleted
  <2>3. \A d \in Calls : vol[d] = v /\ Fresh(v) =>
           vol'[d] = v \/ deletes' + aborts' > 0 \/ ~Left(v)'
    BY <1>0 DEF TypeOK, Provision, callVars
  <2> QED
    BY <1>0, <2>1, <2>2, <2>3, LeakSame
<1>8. \A v \in Volumes : SeededOK(v)'
  <2> SUFFICES ASSUME NEW v \in Volumes, NEW n \in Namespaces, pv'[v].ref = <<"seed", n>>
               PROVE  seed'[n].state = "bound" /\ seed'[n].volume = v
    BY DEF SeededOK
  <2>1. CASE v = w
    <3>1. n = m
      BY <1>0, <1>p, <2>1, RefsDiffer DEF TypeOK, VolumeStates, Provision
    <3> QED
      BY <1>0, <2>1, <3>1 DEF TypeOK, Provision
  <2>2. CASE v # w
    <3>1. pv[v].ref = <<"seed", n>>
      BY <1>0, <2>2 DEF TypeOK, Provision
    <3>2. seed[n].state = "bound" /\ seed[n].volume = v
      BY <1>0, <3>1 DEF SurplusInv, SeededOK
    <3> QED
      BY <1>0, <3>2 DEF TypeOK, Provision
  <2> QED
    BY <2>1, <2>2
<1>7. OneOK'
  BY <1>0, <1>1, OneSame
<1> QED
  BY <1>2, <1>3, <1>4, <1>5, <1>6, <1>7, <1>8 DEF SurplusInv

\* BindClaim labels no second volume of a namespace and leaves none behind.
LEMMA BindClaimSurplus ==
    ASSUME MaxCalls = 1, OwnInv, SurplusInv, NEW m \in Namespaces, BindClaim(m)
    PROVE  SurplusInv'
<1>0. TypeOK /\ OwnInv /\ SurplusInv /\ \A v \in Volumes : VolStep(v)
  BY BindClaimKeeps DEF OwnInv
<1>a. \A v \in Volumes :
        \/ pv'[v] = pv[v]
        \/ /\ pv'[v].label = pv[v].label /\ pv'[v].ref = <<"own", m>>
           /\ pv'[v].users = pv[v].users \cup {m} /\ pv'[v].given = pv[v].given
  BY <1>0 DEF TypeOK, VolumeStates, BindClaim
<1>1. LabelsKept
  BY <1>a DEF LabelsKept
<1>2. \A d \in Calls : LooksOK(d)'
  <2>1. \A d \in Calls : pc'[d] \in Looking => pc[d] \in Looking
    BY <1>0 DEF TypeOK, Looking, BindClaim, callVars
  <2> QED
    BY <1>0, <1>1, <2>1, LooksSame
<1>3. \A d \in Calls : OwnSeedOK(d)'
  <2>1. \A n \in Namespaces : seed[n].state = "bound" => seed'[n] = seed[n]
    BY <1>0 DEF TypeOK, BindClaim, callVars
  <2>2. \A d \in Calls : pc'[d] \in {"retain", "deleteSeed"} =>
           pc[d] \in {"retain", "deleteSeed"} /\ vol'[d] = vol[d]
    BY <1>0 DEF TypeOK, BindClaim, callVars
  <2> QED
    BY <1>0, <2>1, <2>2, OwnSeedSame
<1>4. \A v \in Volumes : UseOK(v)'
  <2> SUFFICES ASSUME NEW v \in Volumes PROVE UseOK(v)'
    OBVIOUS
  <2>1. UseOK(v) /\ deletes' = deletes
    BY <1>0 DEF SurplusInv, BindClaim
  <2>2. CASE pv'[v] = pv[v]
    BY <2>1, <2>2 DEF UseOK
  <2>3. CASE pv'[v] # pv[v]
    <3>1. /\ pv'[v].ref = <<"own", m>> /\ pv'[v].users = pv[v].users \cup {m}
          /\ pv'[v].given = pv[v].given
      BY <1>a, <2>3
    <3>2. \A n \in Namespaces : pv'[v].ref = <<"own", n>> => n = m
      BY <3>1
    <3> QED
      BY <2>1, <3>1, <3>2 DEF UseOK
  <2> QED
    BY <2>2, <2>3
<1>5. \A d \in Calls : HoldOK(d)'
  BY <1>0, HoldSame DEF BindClaim, callVars
<1>6. \A v \in Volumes : LeakOK(v)'
  <2> SUFFICES ASSUME NEW v \in Volumes PROVE LeakOK(v)'
    OBVIOUS
  <2>1. deletes' + aborts' > 0 \/ (deletes + aborts = 0 /\ deletes = 0)
    BY <1>0 DEF TypeOK, BindClaim, callVars
  <2>2. Left(v)' => deletes' + aborts' > 0 \/ Left(v) \/ \E d \in Calls : vol'[d] = v
    BY <1>0, <1>a, RefsDiffer DEF Left, Exists, NoRef, Deleted
  <2>3. \A d \in Calls : vol[d] = v /\ Fresh(v) =>
           vol'[d] = v \/ deletes' + aborts' > 0 \/ ~Left(v)'
    BY <1>0 DEF TypeOK, BindClaim, callVars
  <2> QED
    BY <1>0, <2>1, <2>2, <2>3, LeakSame
<1>8. \A v \in Volumes : SeededOK(v)'
  <2>1. \A n \in Namespaces : seed[n].state = "bound" => seed'[n] = seed[n]
    BY <1>0 DEF TypeOK, BindClaim, callVars
  <2> QED
    BY <1>0, <2>1, SeededSame, <1>a, RefsDiffer DEF BindClaim, callVars
<1>7. OneOK'
  BY <1>0, <1>1, OneSame
<1> QED
  BY <1>2, <1>3, <1>4, <1>5, <1>6, <1>7, <1>8 DEF SurplusInv

\* Reclaim labels no second volume of a namespace and leaves none behind.
LEMMA ReclaimSurplus ==
    ASSUME MaxCalls = 1, OwnInv, SurplusInv, NEW w \in Volumes, Reclaim(w)
    PROVE  SurplusInv'
<1>0. TypeOK /\ OwnInv /\ SurplusInv /\ \A v \in Volumes : VolStep(v)
  BY ReclaimKeeps DEF OwnInv
<1>p. Gone.label = None /\ Gone.ref = NoRef /\ Gone.phase = "gone" /\ Gone.given = FALSE
  BY DEF Gone, NoVolume
<1>a. \A v \in Volumes :
        \/ pv'[v] = pv[v]
        \/ pv'[v].label = None /\ pv'[v].ref = NoRef /\ pv'[v].phase = "gone" /\ ~pv'[v].given
        \/ /\ pv'[v].label = pv[v].label /\ pv'[v].ref = pv[v].ref /\ pv[v].phase = "Bound"
           /\ pv'[v].users = pv[v].users /\ pv'[v].given = pv[v].given
           /\ pv'[v].policy = pv[v].policy /\ v \in Volumes
  BY <1>0, <1>p DEF TypeOK, VolumeStates, Reclaim
<1>1. LabelsKept
  BY <1>a DEF LabelsKept
<1>2. \A d \in Calls : LooksOK(d)'
  <2>1. \A d \in Calls : pc'[d] \in Looking => pc[d] \in Looking
    BY <1>0 DEF TypeOK, Looking, Reclaim, callVars
  <2> QED
    BY <1>0, <1>1, <2>1, LooksSame
<1>3. \A d \in Calls : OwnSeedOK(d)'
  <2>1. \A n \in Namespaces : seed[n].state = "bound" => seed'[n] = seed[n]
    BY <1>0 DEF TypeOK, Reclaim, callVars
  <2>2. \A d \in Calls : pc'[d] \in {"retain", "deleteSeed"} =>
           pc[d] \in {"retain", "deleteSeed"} /\ vol'[d] = vol[d]
    BY <1>0 DEF TypeOK, Reclaim, callVars
  <2> QED
    BY <1>0, <2>1, <2>2, OwnSeedSame
<1>4. \A v \in Volumes : UseOK(v)'
  BY <1>0, <1>a, RefsDiffer DEF SurplusInv, UseOK, Reclaim
<1>5. \A d \in Calls : HoldOK(d)'
  BY <1>0, HoldSame DEF Reclaim, callVars
<1>6. \A v \in Volumes : LeakOK(v)'
  <2> SUFFICES ASSUME NEW v \in Volumes PROVE LeakOK(v)'
    OBVIOUS
  <2>1. deletes' + aborts' > 0 \/ (deletes + aborts = 0 /\ deletes = 0)
    BY <1>0 DEF TypeOK, Reclaim, callVars
  <2>2. Left(v)' => deletes' + aborts' > 0 \/ Left(v) \/ \E d \in Calls : vol'[d] = v
    BY <1>a DEF Left, Exists
  <2>3. \A d \in Calls : vol[d] = v /\ Fresh(v) =>
           vol'[d] = v \/ deletes' + aborts' > 0 \/ ~Left(v)'
    BY <1>0 DEF TypeOK, Reclaim, callVars
  <2> QED
    BY <1>0, <2>1, <2>2, <2>3, LeakSame
<1>8. \A v \in Volumes : SeededOK(v)'
  <2> SUFFICES ASSUME NEW v \in Volumes, NEW n \in Namespaces, pv'[v].ref = <<"seed", n>>
               PROVE  seed'[n].state = "bound" /\ seed'[n].volume = v
    BY DEF SeededOK
  <2>1. pv'[v].ref # NoRef
    BY RefsDiffer
  <2>2. pv[v].ref = <<"seed", n>>
    BY <1>a, <2>1
  <2> QED
    BY <1>0, <2>2 DEF SurplusInv, SeededOK, Reclaim
<1>7. OneOK'
  BY <1>0, <1>1, OneSame
<1> QED
  BY <1>2, <1>3, <1>4, <1>5, <1>6, <1>7, <1>8 DEF SurplusInv

\* The first state.
LEMMA SurplusInit == ASSUME Init PROVE SurplusInv
<1>1. \A c \in Calls : LooksOK(c) /\ OwnSeedOK(c) /\ HoldOK(c)
  BY DEF Init, LooksOK, OwnSeedOK, HoldOK, Looking
<1>2. \A v \in Volumes : UseOK(v) /\ SeededOK(v) /\ LeakOK(v)
  BY RefsDiffer DEF Init, UseOK, SeededOK, LeakOK, Left, Exists, NoVolume
<1>3. OneOK
  BY VolumeAssumption DEF Init, OneOK, NoVolume
<1> QED
  BY <1>1, <1>2, <1>3 DEF SurplusInv

\* No step changes anything if none is taken.
LEMMA SurplusStutter == ASSUME SurplusInv, UNCHANGED vars PROVE SurplusInv'
<1>1. pv' = pv /\ seed' = seed /\ pc' = pc /\ vol' = vol
         /\ deletes' = deletes /\ aborts' = aborts
  BY DEF vars
<1>2. \A c \in Calls : LooksOK(c)' /\ OwnSeedOK(c)' /\ HoldOK(c)'
  BY <1>1 DEF SurplusInv, LooksOK, OwnSeedOK, HoldOK, Fresh, Exists
<1>3. \A v \in Volumes : UseOK(v)' /\ SeededOK(v)' /\ LeakOK(v)'
  BY <1>1 DEF SurplusInv, UseOK, SeededOK, LeakOK, Left, Exists
<1>4. OneOK'
  BY <1>1 DEF SurplusInv, OneOK
<1> QED
  BY <1>2, <1>3, <1>4 DEF SurplusInv

\* Every step keeps the invariant.
LEMMA SurplusStep == ASSUME MaxCalls = 1, OwnInv, SurplusInv, [Next]_vars PROVE SurplusInv'
<1>1. ASSUME NEW c \in Calls, CallStep(c) PROVE SurplusInv'
  BY <1>1, ListSurplus, ReleaseSurplus, CreateSeedSurplus, SeedBoundSurplus,
     RetainSurplus, DeleteSeedSurplus, SeedReleasedSurplus, ReadForClaimSurplus,
     UpdateForClaimSurplus, ClaimConflictsSurplus, ClaimFailsSurplus, CreateClaimSurplus,
     ClaimBoundSurplus, GiveUpSurplus, DeleteClaimSurplus, DeleteClaimFailsSurplus,
     DeleteNamespaceSurplus
     DEF CallStep
<1>2. ASSUME NEW c \in Calls, Begin(c) \/ Abort(c) \/ DownVolumes(c) PROVE SurplusInv'
  BY <1>2, BeginSurplus, AbortSurplus, DownVolumesSurplus
<1>3. ASSUME NEW n \in Namespaces, Down(n) PROVE SurplusInv'
  BY <1>3, DownSurplus
<1>4. ASSUME ControllerStep PROVE SurplusInv'
  BY <1>4, BindClaimSurplus, BindSeedSurplus, ProvisionSurplus, ReclaimSurplus
     DEF ControllerStep
<1>5. CASE UNCHANGED vars
  BY <1>5, SurplusStutter
<1> QED
  BY <1>1, <1>2, <1>3, <1>4, <1>5 DEF Next

\* At most one element.
LEMMA AtMostOne ==
    ASSUME NEW S, \A x \in S, y \in S : x = y
    PROVE  Cardinality(S) <= 1
<1>1. CASE S = {}
  BY <1>1, FS_EmptySet
<1>2. CASE S # {}
  <2>1. PICK x \in S : TRUE
    BY <1>2
  <2>2. S = {x}
    BY <2>1
  <2> QED
    BY <2>2, FS_Singleton
<1> QED
  BY <1>1, <1>2

\* If the calls of a namespace come one after the other, as with one `blimp up` of
\* a user at a time, no namespace has two volumes, and no retained volume is left
\* without owner unless `blimp down -v` was run or a call was cut short: seeds that
\* are bound to each other's volumes, conflicts and retries leave nothing behind.
THEOREM NothingSurplus == MaxCalls = 1 => (Spec => []NoSurplusVolume)
<1> SUFFICES ASSUME MaxCalls = 1 PROVE Spec => []NoSurplusVolume
  OBVIOUS
<1>1. Init => SurplusInv
  BY SurplusInit
<1>2. OwnInv /\ SurplusInv /\ [Next]_vars => SurplusInv'
  BY SurplusStep
<1>3. SurplusInv => NoSurplusVolume
  <2> SUFFICES ASSUME SurplusInv PROVE NoSurplusVolume
    OBVIOUS
  <2>1. OneVolumePerNamespace
    <3> SUFFICES ASSUME NEW n \in Namespaces
                 PROVE  Cardinality({v \in Volumes : pv[v].label = n}) <= 1
      BY DEF OneVolumePerNamespace
    <3> DEFINE mine == {v \in Volumes : pv[v].label = n}
    <3>1. \A u \in mine, v \in mine : u = v
      BY DEF SurplusInv, OneOK
    <3> HIDE DEF mine
    <3>2. Cardinality(mine) <= 1
      BY <3>1, AtMostOne
    <3> QED
      BY <3>2 DEF mine
  <2>2. LeakNeedsUpset
    BY DEF SurplusInv, LeakOK, Left, LeakNeedsUpset
  <2> QED
    BY <2>1, <2>2 DEF NoSurplusVolume
<1> QED
  BY <1>1, <1>2, <1>3, OwnInvariant, PTL DEF Spec

=============================================================================
