-------------------------- MODULE PodDeployProofs --------------------------
(* Proofs that a deployment that is alone does what it was asked for, for  *)
(* any pods, specs, calls, restarts and crashes.                           *)
EXTENDS PodDeploy, TLAPS

-----------------------------------------------------------------------------
(* Types                                                                   *)

\* The pod a call works on is one it has yet to deploy, or a stale one.
CurShape ==
    \A c \in Calls :
        /\ pc[c] \in {"delete", "await", "create"} => cur[c] \in todo[c]
        /\ pc[c] = "awaitStale"
             => cur[c] \in StalePods(c) /\ todo[c] = {} /\ ~force[c]

TypeInv == TypeOK /\ CurShape

\* What toPods and Restart ask for, as a function from some of the names.
LEMMA WantedShape ==
  ASSUME NEW w \in Wanted
  PROVE  DOMAIN w \subseteq Names /\ \A n \in DOMAIN w : w[n] \in Specs
<1>1. PICK S \in SUBSET Names : w \in [S -> Specs]
  BY DEF Wanted
<1> QED
  BY <1>1

\* A call that is not under way was asked for nothing.
LEMMA NothingWanted == Nothing \in Wanted /\ DOMAIN Nothing = {}
<1>1. Nothing \in [{} -> Specs] /\ DOMAIN Nothing = {}
  BY DEF Nothing
<1> QED
  BY <1>1 DEF Wanted

\* Begin keeps the types if what it is given has its type.
LEMMA BeginTypes ==
  ASSUME TypeOK, NEW c \in Calls, NEW w \in Wanted, NEW f \in BOOLEAN, Begin(c, w, f)
  PROVE  /\ pc' \in [Calls -> CallStates]
         /\ want' \in [Calls -> Wanted]
         /\ force' \in [Calls -> BOOLEAN]
         /\ todo' \in [Calls -> SUBSET Names]
         /\ \A d \in Calls : todo'[d] \subseteq DOMAIN want'[d]
         /\ cur' \in [Calls -> Names \cup {NoPod}]
         /\ alone' \in [Calls -> BOOLEAN]
<1>1. DOMAIN w \subseteq Names
  BY WantedShape
<1> QED
  BY <1>1 DEF TypeOK, Begin, Goto, CallStates

\* The types are inductive together with what a call works on.
LEMMA TypeInvariant == Spec => []TypeInv
<1> USE PodDeployAssumption
<1>1. Init => TypeInv
  <2> SUFFICES ASSUME Init PROVE TypeInv
    OBVIOUS
  <2>1. pods \in [Names -> Pods \cup {NoPod}]
    <3>1. \A s \in Specs : [spec |-> s, applied |-> s, going |-> FALSE] \in Pods
      BY DEF Pods
    <3> QED
      BY <3>1 DEF Init
  <2> QED
    BY <2>1, NothingWanted DEF Init, TypeInv, TypeOK, CurShape, CallStates
<1>2. ASSUME TypeInv, [Next]_vars
      PROVE  TypeInv'
  <2>t. TypeOK
    BY <1>2 DEF TypeInv
  <2>c. CurShape
    BY <1>2 DEF TypeInv
  <2> USE <2>t DEF TypeInv, CallStates, Goto, Finish
  <2>w. \A c \in Calls : /\ want[c] \in Wanted
                         /\ \A n \in DOMAIN want[c] : n \in Names /\ want[c][n] \in Specs
    BY WantedShape DEF TypeOK
  <2>1. CASE UNCHANGED vars
    BY <2>1, <2>c DEF vars, TypeOK, CurShape, StalePods
  <2>2. ASSUME NEW c \in Calls, NEW w \in Desired, DeployCustomerPods(c, w)
        PROVE  TypeInv'
    <3>1. w \in Wanted
      <4>1. PICK S \in SUBSET Names : w \in [S -> {s \in Specs : ~s.filled}]
        BY DEF Desired
      <4>2. w \in [S -> Specs]
        BY <4>1
      <4> QED
        BY <4>2 DEF Wanted
    <3>2. stale' \in [Calls -> SUBSET Names]
      BY <2>2 DEF DeployCustomerPods, TypeOK
    <3>3. TypeOK'
      BY <2>2, <3>1, <3>2, BeginTypes DEF DeployCustomerPods, TypeOK
    <3>4. CurShape'
      BY <2>2, <2>c DEF CurShape, StalePods, DeployCustomerPods, Begin, TypeOK
    <3> QED
      BY <3>3, <3>4
  <2>3. ASSUME NEW c \in Calls, NEW n \in Names, Restart(c, n)
        PROVE  TypeInv'
    <3> DEFINE w == [m \in {n} |-> [pods[n].spec EXCEPT !.filled = TRUE]]
    <3>1. pods[n] \in Pods
      BY <2>3 DEF Restart, TypeOK
    <3>2. [pods[n].spec EXCEPT !.filled = TRUE] \in Specs
      BY <3>1 DEF Pods, Specs
    <3>3. w \in [{n} -> Specs]
      BY <3>2
    <3>4. w \in Wanted
      BY <3>3 DEF Wanted
    <3>5. Begin(c, w, TRUE) /\ UNCHANGED <<pods, stale, crashes>>
      BY <2>3 DEF Restart
    <3>r. restarts' \in 0..MaxRestarts
      <4>1. restarts \in 0..MaxRestarts
        BY DEF TypeOK
      <4>2. restarts < MaxRestarts /\ restarts' = restarts + 1
        BY <2>3 DEF Restart
      <4> QED
        BY <4>1, <4>2
    <3> HIDE DEF w
    <3>6. TypeOK'
      BY <3>4, <3>5, <3>r, BeginTypes DEF TypeOK
    <3>7. CurShape'
      BY <3>5, <2>c DEF CurShape, StalePods, Begin, TypeOK
    <3> QED
      BY <3>6, <3>7
  <2>4. ASSUME NEW c \in Calls, NEW n \in Names, DeployPod(c, n)
        PROVE  TypeInv'
    <3>1. TypeOK'
      BY <2>4 DEF DeployPod, TypeOK
    <3>2. CurShape'
      BY <2>4, <2>c DEF CurShape, StalePods, DeployPod, TypeOK
    <3> QED
      BY <3>1, <3>2
  <2>5. ASSUME NEW c \in Calls, NEW n \in Names, DeleteStale(c, n)
        PROVE  TypeInv'
    <3>1. TypeOK'
      <4>1. CASE pods[n] = NoPod
        BY <2>5, <4>1 DEF DeleteStale, TypeOK
      <4>2. CASE pods[n] # NoPod
        <5>0. pods[n] \in Pods
          BY <4>2 DEF TypeOK
        <5>1. [pods[n] EXCEPT !.going = TRUE] \in Pods
          BY <5>0 DEF Pods
        <5>2. pods' = [pods EXCEPT ![n] = [pods[n] EXCEPT !.going = TRUE]]
          BY <2>5, <4>2 DEF DeleteStale
        <5>3. pods' \in [Names -> Pods \cup {NoPod}]
          BY <5>1, <5>2 DEF TypeOK
        <5> QED
          BY <2>5, <4>2, <5>3 DEF DeleteStale, TypeOK
      <4> QED
        BY <4>1, <4>2
    <3>2. CurShape'
      BY <2>5, <2>c DEF CurShape, StalePods, DeleteStale, TypeOK, Pods
    <3> QED
      BY <3>1, <3>2
  <2>6. ASSUME NEW c \in Calls, DeletePod(c)
        PROVE  TypeInv'
    BY <2>6, <2>c DEF DeletePod, TypeOK, Pods, CurShape, StalePods
  <2>7. ASSUME NEW c \in Calls, CreatePod(c)
        PROVE  TypeInv'
    <3>1. cur[c] \in Names /\ want[c][cur[c]] \in Specs
      BY <2>w, <2>7, <2>c DEF TypeOK, CreatePod, CurShape
    <3>2. TypeOK'
      BY <2>7, <3>1 DEF CreatePod, TypeOK, Pods
    <3>3. CurShape'
      BY <2>7, <2>c DEF CreatePod, TypeOK, CurShape, StalePods
    <3> QED
      BY <3>2, <3>3
  <2>8. ASSUME NEW c \in Calls,
               DeletePodFails(c) \/ PodGone(c) \/ CreatePodFails(c) \/ StaleGone(c) \/ Return(c)
        PROVE  TypeInv'
    <3>1. TypeOK'
      BY <2>8 DEF DeletePodFails, PodGone, CreatePodFails, StaleGone, Return, TypeOK
    <3>2. CurShape'
      BY <2>8, <2>c DEF CurShape, StalePods, DeletePodFails, PodGone, CreatePodFails, StaleGone, Return, TypeOK
    <3> QED
      BY <3>1, <3>2
  <2>9. ASSUME NEW n \in Names, PodRemoved(n)
        PROVE  TypeInv'
    <3>1. TypeOK'
      BY <2>9 DEF PodRemoved, TypeOK
    <3>2. CurShape'
      BY <2>9, <2>c DEF CurShape, StalePods, PodRemoved, TypeOK
    <3> QED
      BY <3>1, <3>2
  <2>10. CASE Crash
    <3>1. TypeOK'
      BY <2>10, NothingWanted DEF Crash, TypeOK
    <3>2. CurShape'
      BY <2>10, <2>c DEF CurShape, StalePods, Crash, TypeOK
    <3> QED
      BY <3>1, <3>2
  <2> QED
    BY <1>2, <2>1, <2>2, <2>3, <2>4, <2>5, <2>6, <2>7, <2>8, <2>9, <2>10
       DEF Next, CallStep
<1> QED
  BY <1>1, <1>2, PTL DEF Spec

\* Pods, calls and their locals keep their types (DeployPod, DeletePod,
\* deployCustomerPods, Restart).
THEOREM TypeCorrect == Spec => []TypeOK
<1>1. TypeInv => TypeOK
  BY DEF TypeInv
<1> QED
  BY <1>1, TypeInvariant, PTL

-----------------------------------------------------------------------------
(* The inductive invariant                                                 *)

\* The annotation of a pod says what runs: Sanitize is compared with one and
\* filled in from the other.
Annotated == \A n \in Names : pods[n] # NoPod => pods[n].applied = pods[n].spec

\* deployCustomerPods asks for specs that come from a Compose file.
FreshSpecs ==
    \A c \in Calls : Active(c) /\ ~force[c]
        => \A n \in DOMAIN want[c] : ~want[c][n].filled

\* While a call is alone, the only pod being deleted is the one it waits for.
OnlyCurGoes ==
    \A c \in Calls : alone[c] =>
        /\ \A d \in Calls \ {c} : ~Active(d)
        /\ \A n \in Names : pods[n] # NoPod /\ pods[n].going
                              => pc[c] \in {"await", "awaitStale"} /\ n = cur[c]

\* What DeployPod saw is still so when it acts on it.
DecisionHolds ==
    \A c \in Calls : alone[c] =>
        /\ pc[c] = "delete" => pods[cur[c]] # NoPod /\ ~UpToDate(c, cur[c])
        /\ pc[c] = "create" => pods[cur[c]] = NoPod

Runs(c, n) == pods[n] # NoPod /\ pods[n].spec.body = want[c][n].body

\* What a deployment that is alone has achieved so far: wanted pods that are
\* not left to do run, any other pod is known to be stale, and a stale pod goes
\* only when the call has deleted it.
Progress ==
    \A c \in Calls : alone[c] /\ Active(c) /\ ~force[c] =>
        /\ \A n \in DOMAIN want[c] \ todo[c] : Runs(c, n)
        /\ \A n \in Names \ DOMAIN want[c] : pods[n] # NoPod => n \in stale[c]
        /\ \A n \in StalePods(c) :
             pods[n] = NoPod => pc[c] = "awaitStale" /\ cur[c] = n

DeployInv ==
    /\ Annotated /\ FreshSpecs
    /\ OnlyCurGoes /\ DecisionHolds /\ Progress
    /\ DeployConverges /\ FailsOnlyTogether

\* DeployInv is inductive relative to the types.
LEMMA DeployInvariant == Spec => []DeployInv
<1> USE PodDeployAssumption
<1>1. Init => DeployInv
  BY DEF Init, DeployInv, Annotated, FreshSpecs, OnlyCurGoes, DecisionHolds,
         Progress, DeployConverges, FailsOnlyTogether, Active
<1>2. ASSUME TypeInv, DeployInv, [Next]_vars
      PROVE  DeployInv'
  <2> USE <1>2 DEF Active, StalePods
  <2>t. /\ TypeOK /\ CurShape
        /\ \A c \in Calls : \A n \in DOMAIN want[c] : n \in Names /\ want[c][n] \in Specs
        /\ \A n \in Names : pods[n] # NoPod => pods[n] \in Pods
    BY WantedShape DEF TypeInv, TypeOK
  <2>1. CASE UNCHANGED vars
    BY <2>1 DEF vars, DeployInv, Annotated, FreshSpecs, OnlyCurGoes, DecisionHolds,
         Progress, DeployConverges, FailsOnlyTogether, Runs, UpToDate
  <2>2. ASSUME NEW c \in Calls, NEW w \in Wanted, NEW f \in BOOLEAN,
               Begin(c, w, f), UNCHANGED pods,
               ~f => /\ w \in Desired
                     /\ stale' = [stale EXCEPT ![c] = {n \in Names : pods[n] # NoPod}]
        PROVE  DeployInv'
    <3>1. /\ pc' = [pc EXCEPT ![c] = "deploy"]
          /\ \A d \in Calls : alone'[d] =>
               /\ d = c
               /\ \A e \in Calls \ {c} : ~Active(e)
               /\ \A n \in Names : pods[n] # NoPod => ~pods[n].going
          /\ todo' = [todo EXCEPT ![c] = DOMAIN w]
          /\ want' = [want EXCEPT ![c] = w]
          /\ force' = [force EXCEPT ![c] = f]
      BY <2>2 DEF Begin, Goto
    <3>2. ~f => \A n \in DOMAIN w : ~w[n].filled
      BY <2>2 DEF Desired
    <3>3. Annotated' /\ FreshSpecs'
      BY <2>2, <2>t, <3>1, <3>2 DEF DeployInv, Annotated, FreshSpecs, TypeOK
    <3>4. OnlyCurGoes' /\ DecisionHolds'
      BY <2>2, <2>t, <3>1 DEF TypeOK, OnlyCurGoes, DecisionHolds
    <3>5. Progress'
      BY <2>2, <2>t, <3>1 DEF TypeOK, Progress
    <3>6. DeployConverges' /\ FailsOnlyTogether'
      BY <2>2, <2>t, <3>1 DEF TypeOK, DeployConverges, FailsOnlyTogether
    <3> QED
      BY <3>3, <3>4, <3>5, <3>6 DEF DeployInv
  <2>3. ASSUME NEW c \in Calls, NEW n \in Names, DeployPod(c, n)
        PROVE  DeployInv'
    <3>1. /\ pc[c] = "deploy" /\ n \in todo[c]
          /\ UNCHANGED <<pods, want, force, stale, alone>>
      BY <2>3 DEF DeployPod
    <3>2. /\ pc' = [pc EXCEPT ![c] = pc'[c]] /\ pc'[c] \in {"deploy", "create", "delete"}
          /\ \A d \in Calls \ {c} : UNCHANGED <<pc[d], cur[d], todo[d]>>
          /\ todo'[c] = todo[c] \/ (todo'[c] = todo[c] \ {n} /\ UpToDate(c, n))
          /\ pc'[c] = "create" => pods[n] = NoPod /\ cur'[c] = n
          /\ pc'[c] = "delete" => pods[n] # NoPod /\ cur'[c] = n /\ ~UpToDate(c, n)
      BY <2>3, <2>t DEF DeployPod, Goto, TypeOK
    <3>3. UpToDate(c, n) => Runs(c, n)
      BY <2>t, <3>1 DEF UpToDate, Sanitize, Runs, DeployInv, Annotated, TypeOK, Specs, Pods
    <3>4. Annotated' /\ FreshSpecs'
      BY <3>1, <3>2, <2>t DEF DeployInv, Annotated, FreshSpecs, TypeOK
    <3>5. OnlyCurGoes'
      BY <3>1, <3>2 DEF DeployInv, OnlyCurGoes
    <3>d. DecisionHolds'
      <4>1. \A d \in Calls, m \in Names : UpToDate(d, m)' <=> UpToDate(d, m)
        BY <3>1 DEF UpToDate
      <4>2. \A d \in Calls \ {c} : ~alone[d]
        BY <3>1 DEF DeployInv, OnlyCurGoes
      <4> QED
        BY <3>1, <3>2, <4>1, <4>2 DEF DecisionHolds
    <3>6. Progress'
      BY <2>t, <3>1, <3>2, <3>3 DEF DeployInv, OnlyCurGoes, Progress, Runs
    <3>7. DeployConverges' /\ FailsOnlyTogether'
      BY <2>t, <3>1, <3>2 DEF DeployInv, DeployConverges, FailsOnlyTogether, TypeOK
    <3> QED
      BY <3>4, <3>5, <3>d, <3>6, <3>7 DEF DeployInv
  <2>4. ASSUME NEW c \in Calls, Active(c), ~alone[c], Finish(c, "failed"),
               UNCHANGED <<pods, want, force, alone>>
        PROVE  DeployInv'
    <3>1. /\ pc'[c] = "failed"
          /\ \A d \in Calls \ {c} : UNCHANGED <<pc[d], cur[d], todo[d], stale[d]>>
      BY <2>4, <2>t DEF Finish, Goto, TypeOK
    <3>2. Annotated' /\ FreshSpecs'
      BY <2>4, <3>1 DEF DeployInv, Annotated, FreshSpecs
    <3>3. OnlyCurGoes' /\ DecisionHolds'
      BY <2>4, <3>1 DEF DeployInv, OnlyCurGoes, DecisionHolds, UpToDate
    <3>4. Progress'
      BY <2>4, <3>1 DEF DeployInv, Progress, Runs
    <3>5. DeployConverges' /\ FailsOnlyTogether'
      BY <2>4, <3>1 DEF DeployInv, DeployConverges, FailsOnlyTogether
    <3> QED
      BY <3>2, <3>3, <3>4, <3>5 DEF DeployInv
  <2>5. ASSUME NEW c \in Calls, NEW n \in Names, NEW label \in {"await", "awaitStale"},
               pods[n] # NoPod,
               pods' = [pods EXCEPT ![n].going = TRUE],
               pc[c] \in {"deploy", "delete"},
               pc' = [pc EXCEPT ![c] = label],
               cur' = [cur EXCEPT ![c] = n],
               alone[c] /\ ~force[c] => n \notin DOMAIN want[c] \ todo[c],
               UNCHANGED <<want, force, todo, stale, alone>>
        PROVE  DeployInv'
    <3>1. /\ \A m \in Names : pods'[m] = NoPod <=> pods[m] = NoPod
          /\ \A m \in Names : pods[m] # NoPod => pods'[m].spec = pods[m].spec
          /\ \A m \in Names : pods[m] # NoPod => pods'[m].applied = pods[m].applied
          /\ \A m \in Names \ {n} : pods'[m] = pods[m]
      BY <2>5, <2>t DEF TypeOK, Pods
    <3>2. /\ pc'[c] = label /\ cur'[c] = n
          /\ \A d \in Calls \ {c} : UNCHANGED <<pc[d], cur[d]>>
      BY <2>5, <2>t DEF TypeOK
    <3>3. Annotated' /\ FreshSpecs'
      BY <2>5, <3>1, <3>2 DEF DeployInv, Annotated, FreshSpecs
    <3>4. OnlyCurGoes' /\ DecisionHolds'
      BY <2>5, <3>1, <3>2 DEF DeployInv, OnlyCurGoes, DecisionHolds, UpToDate
    <3>5. Progress'
      <4> SUFFICES ASSUME NEW d \in Calls, alone[d], Active(d)', ~force[d]
                   PROVE  /\ \A m \in DOMAIN want[d] \ todo[d] : Runs(d, m)'
                          /\ \A m \in Names \ DOMAIN want[d] : pods'[m] # NoPod => m \in stale[d]
                          /\ \A m \in StalePods(d) : pods'[m] # NoPod
        BY <2>5 DEF Progress
      <4>1. d = c
        BY <2>5 DEF DeployInv, OnlyCurGoes
      <4>2. /\ \A m \in DOMAIN want[c] \ todo[c] : Runs(c, m)
            /\ \A m \in Names \ DOMAIN want[c] : pods[m] # NoPod => m \in stale[c]
            /\ \A m \in StalePods(c) : pods[m] # NoPod
        BY <2>5, <4>1 DEF DeployInv, Progress
      <4>3. \A m \in DOMAIN want[c] \ todo[c] : Runs(c, m)'
        <5>1. want' = want /\ DOMAIN want[c] \subseteq Names
          BY <2>t, <2>5
        <5>2. ASSUME NEW m \in DOMAIN want[c] \ todo[c] PROVE Runs(c, m)'
          <6>1. m \in Names /\ pods[m] # NoPod /\ pods[m].spec.body = want[c][m].body
            BY <5>1, <4>2 DEF Runs
          <6>2. pods'[m] # NoPod /\ pods'[m].spec = pods[m].spec
            BY <6>1, <3>1
          <6> QED
            BY <5>1, <6>1, <6>2 DEF Runs
        <5> QED
          BY <5>2
      <4>4. StalePods(c) \subseteq Names
        BY <2>t DEF TypeOK
      <4> QED
        BY <3>1, <4>1, <4>2, <4>3, <4>4
    <3>6. DeployConverges' /\ FailsOnlyTogether'
      BY <2>t, <2>5, <3>1, <3>2 DEF DeployInv, OnlyCurGoes, DeployConverges, FailsOnlyTogether, TypeOK
    <3> QED
      BY <3>3, <3>4, <3>5, <3>6 DEF DeployInv
  <2>6. ASSUME NEW c \in Calls, DeletePod(c) PROVE DeployInv'
    <3>1. cur[c] \in Names /\ cur' = [cur EXCEPT ![c] = cur[c]] /\ cur[c] \in todo[c]
      BY <2>6, <2>t DEF DeletePod, TypeOK, CurShape
    <3> QED
      BY <2>5, <2>6, <3>1 DEF DeletePod, Goto
  <2>7. ASSUME NEW c \in Calls, NEW n \in Names, DeleteStale(c, n) PROVE DeployInv'
    <3>1. CASE pods[n] = NoPod
      <4>1. ~alone[c]
        BY <2>7, <3>1 DEF DeleteStale, DeployInv, Progress
      <4> QED
        BY <2>4, <2>7, <3>1, <4>1 DEF DeleteStale
    <3>2. CASE pods[n] # NoPod
      BY <2>5, <2>7, <3>2 DEF DeleteStale, Goto
    <3> QED
      BY <3>1, <3>2
  <2>8. ASSUME NEW c \in Calls, DeletePodFails(c) \/ CreatePodFails(c) PROVE DeployInv'
    <3>1. ~alone[c]
      BY <2>8 DEF DeletePodFails, CreatePodFails, DeployInv, DecisionHolds
    <3> QED
      BY <2>4, <2>8, <3>1 DEF DeletePodFails, CreatePodFails
  <2>9. ASSUME NEW c \in Calls, PodGone(c) PROVE DeployInv'
    <3>1. /\ pc[c] = "await" /\ pods[cur[c]] = NoPod
          /\ pc'[c] = "create"
          /\ \A d \in Calls \ {c} : UNCHANGED pc[d]
          /\ UNCHANGED <<pods, want, force, todo, stale, cur, alone>>
      BY <2>9, <2>t DEF PodGone, Goto, TypeOK
    <3>2. Annotated' /\ FreshSpecs'
      BY <3>1 DEF DeployInv, Annotated, FreshSpecs
    <3>3. OnlyCurGoes' /\ DecisionHolds'
      BY <3>1 DEF DeployInv, OnlyCurGoes, DecisionHolds, UpToDate
    <3>4. Progress'
      BY <3>1 DEF DeployInv, Progress, Runs
    <3>5. DeployConverges' /\ FailsOnlyTogether'
      BY <3>1 DEF DeployInv, DeployConverges, FailsOnlyTogether
    <3> QED
      BY <3>2, <3>3, <3>4, <3>5 DEF DeployInv
  <2>10. ASSUME NEW c \in Calls, CreatePod(c) PROVE DeployInv'
    <3> DEFINE n == cur[c]
    <3>1. n \in Names /\ n \in todo[c] /\ n \in DOMAIN want[c] /\ want[c][n] \in Specs
      BY <2>10, <2>t DEF CreatePod, CurShape, TypeOK
    <3>2. [spec |-> want[c][n], applied |-> want[c][n], going |-> FALSE] \in Pods
      BY <3>1 DEF Pods
    <3>3. /\ pods'[n] = [spec |-> want[c][n], applied |-> want[c][n], going |-> FALSE]
          /\ pods'[n] # NoPod
          /\ \A m \in Names \ {n} : pods'[m] = pods[m]
      BY <2>10, <2>t, <3>1, <3>2 DEF CreatePod, TypeOK
    <3>4. /\ pc[c] = "create" /\ pods[n] = NoPod
          /\ pc'[c] = "deploy" /\ todo'[c] = todo[c] \ {n}
          /\ \A d \in Calls \ {c} : UNCHANGED <<pc[d], todo[d]>>
          /\ UNCHANGED <<want, force, stale, cur, alone>>
      BY <2>10, <2>t DEF CreatePod, Goto, TypeOK
    <3> HIDE DEF n
    <3>5. Annotated' /\ FreshSpecs'
      BY <3>1, <3>3, <3>4 DEF DeployInv, Annotated, FreshSpecs
    <3>6. OnlyCurGoes' /\ DecisionHolds'
      BY <3>1, <3>3, <3>4 DEF DeployInv, OnlyCurGoes, DecisionHolds, UpToDate
    <3>7. Progress'
      BY <2>t, <3>1, <3>3, <3>4 DEF DeployInv, OnlyCurGoes, Progress, Runs, TypeOK
    <3>8. DeployConverges' /\ FailsOnlyTogether'
      BY <3>1, <3>3, <3>4 DEF DeployInv, OnlyCurGoes, DeployConverges, FailsOnlyTogether
    <3> QED
      BY <3>5, <3>6, <3>7, <3>8 DEF DeployInv
  <2>11. ASSUME NEW c \in Calls, StaleGone(c) PROVE DeployInv'
    <3>1. /\ pc[c] = "awaitStale" /\ pods[cur[c]] = NoPod
          /\ pc'[c] = "deploy" /\ stale'[c] = stale[c] \ {cur[c]}
          /\ \A d \in Calls \ {c} : UNCHANGED <<pc[d], stale[d]>>
          /\ UNCHANGED <<pods, want, force, todo, cur, alone>>
      BY <2>11, <2>t DEF StaleGone, Goto, TypeOK
    <3>2. Annotated' /\ FreshSpecs'
      BY <3>1 DEF DeployInv, Annotated, FreshSpecs
    <3>3. OnlyCurGoes' /\ DecisionHolds'
      BY <3>1 DEF DeployInv, OnlyCurGoes, DecisionHolds, UpToDate
    <3>4. Progress'
      BY <3>1 DEF DeployInv, Progress, Runs
    <3>5. DeployConverges' /\ FailsOnlyTogether'
      BY <3>1 DEF DeployInv, DeployConverges, FailsOnlyTogether
    <3> QED
      BY <3>2, <3>3, <3>4, <3>5 DEF DeployInv
  <2>12. ASSUME NEW c \in Calls, Return(c) PROVE DeployInv'
    <3>1. /\ pc[c] = "deploy" /\ todo[c] = {}
          /\ force[c] \/ stale[c] \ DOMAIN want[c] = {}
          /\ pc'[c] = "done"
          /\ \A d \in Calls \ {c} : UNCHANGED <<pc[d], todo[d], stale[d], cur[d]>>
          /\ UNCHANGED <<pods, want, force, alone>>
      BY <2>12, <2>t DEF Return, Finish, Goto, TypeOK
    <3>2. Annotated' /\ FreshSpecs'
      BY <3>1 DEF DeployInv, Annotated, FreshSpecs
    <3>3. OnlyCurGoes' /\ DecisionHolds'
      BY <3>1 DEF DeployInv, OnlyCurGoes, DecisionHolds, UpToDate
    <3>4. Progress'
      BY <3>1 DEF DeployInv, Progress, Runs
    <3>5. FailsOnlyTogether'
      BY <3>1 DEF DeployInv, FailsOnlyTogether
    <3>6. DeployConverges'
      BY <3>1 DEF DeployInv, DeployConverges, Progress, Runs
    <3> QED
      BY <3>2, <3>3, <3>4, <3>5, <3>6 DEF DeployInv
  <2>13. ASSUME NEW n \in Names, PodRemoved(n) PROVE DeployInv'
    <3>1. /\ pods[n] # NoPod /\ pods[n].going
          /\ pods'[n] = NoPod /\ \A m \in Names \ {n} : pods'[m] = pods[m]
          /\ UNCHANGED <<pc, want, force, todo, stale, cur, alone>>
      BY <2>13, <2>t DEF PodRemoved, TypeOK
    <3>2. \A c \in Calls : alone[c] =>
            /\ pc[c] \in {"await", "awaitStale"} /\ cur[c] = n
            /\ pc[c] = "await" => n \in todo[c] /\ n \in DOMAIN want[c]
            /\ pc[c] = "awaitStale" => n \notin DOMAIN want[c]
      BY <3>1, <2>t DEF DeployInv, OnlyCurGoes, CurShape, TypeOK
    <3>3. Annotated' /\ FreshSpecs'
      BY <3>1 DEF DeployInv, Annotated, FreshSpecs
    <3>4. OnlyCurGoes' /\ DecisionHolds'
      BY <3>1, <3>2 DEF DeployInv, OnlyCurGoes, DecisionHolds
    <3>5. Progress'
      BY <2>t, <3>1, <3>2 DEF DeployInv, Progress, Runs, TypeOK
    <3>6. DeployConverges' /\ FailsOnlyTogether'
      BY <3>1, <3>2 DEF DeployInv, DeployConverges, FailsOnlyTogether
    <3> QED
      BY <3>3, <3>4, <3>5, <3>6 DEF DeployInv
  <2>14. CASE Crash
    BY <2>14 DEF Crash, DeployInv, Annotated, FreshSpecs, OnlyCurGoes, DecisionHolds,
         Progress, DeployConverges, FailsOnlyTogether
  <2>15. ASSUME NEW c \in Calls, NEW w \in Desired, DeployCustomerPods(c, w) PROVE DeployInv'
    <3>1. PICK S \in SUBSET Names : w \in [S -> {s \in Specs : ~s.filled}]
      BY DEF Desired
    <3>2. w \in [S -> Specs]
      BY <3>1
    <3>3. w \in Wanted
      BY <3>2 DEF Wanted
    <3> QED
      BY <2>2, <2>15, <3>3 DEF DeployCustomerPods
  <2>16. ASSUME NEW c \in Calls, NEW n \in Names, Restart(c, n) PROVE DeployInv'
    <3> DEFINE w == [m \in {n} |-> [pods[n].spec EXCEPT !.filled = TRUE]]
    <3>1. pods[n] \in Pods
      BY <2>16, <2>t DEF Restart
    <3>2. [pods[n].spec EXCEPT !.filled = TRUE] \in Specs
      BY <3>1 DEF Pods, Specs
    <3>3. w \in [{n} -> Specs]
      BY <3>2
    <3>4. w \in Wanted
      BY <3>3 DEF Wanted
    <3>5. Begin(c, w, TRUE) /\ UNCHANGED pods
      BY <2>16 DEF Restart
    <3> HIDE DEF w
    <3> QED
      BY <2>2, <3>4, <3>5
  <2> QED
    BY <1>2, <2>1, <2>3, <2>6, <2>7, <2>8, <2>9, <2>10, <2>11, <2>12, <2>13, <2>14,
       <2>15, <2>16 DEF Next, CallStep
<1> QED
  BY <1>1, <1>2, TypeInvariant, PTL DEF Spec

-----------------------------------------------------------------------------
(* What a deployment that is alone achieves                                *)

\* When a deployment that was alone returns, the namespace runs what it was
\* asked for and nothing else, and it does return without an error, whatever
\* earlier calls and crashes left behind (deployCustomerPods, DeployPod).
THEOREM AloneConverges == Spec => []DeployAloneConverges
<1>1. DeployInv => DeployAloneConverges
  BY DEF DeployInv, DeployAloneConverges
<1> QED
  BY <1>1, DeployInvariant, PTL

\* DeployPod does not delete a pod that was deployed from the same service of
\* a Compose file, even if init images or node affinities differ (sanitizers).
THEOREM UnchangedSurvives == Spec => UnchangedPodSurvives
<1>1. ASSUME TypeInv, DeployInv, [Next]_vars,
             NEW c \in Calls, NEW n \in Names,
             pc[c] = "delete", cur[c] = n, alone[c], ~force[c],
             pods[n] # NoPod, ~pods[n].spec.filled
      PROVE  pods[n].spec.body # want[c][n].body
  <2>1. /\ n \in DOMAIN want[c] /\ want[c][n] \in Specs /\ pods[n] \in Pods
    BY <1>1, WantedShape DEF TypeInv, TypeOK, CurShape
  <2>2. ~want[c][n].filled /\ ~UpToDate(c, n) /\ pods[n].applied = pods[n].spec
    BY <1>1, <2>1 DEF DeployInv, FreshSpecs, DecisionHolds, Annotated, Active
  <2>3. [want[c][n] EXCEPT !.image = pods[n].spec.image] # pods[n].spec
    BY <1>1, <2>2 DEF UpToDate, Sanitize
  <2> QED
    BY <1>1, <2>1, <2>2, <2>3 DEF Specs, Pods
<1>2. TypeInv /\ DeployInv /\ [Next]_vars
        => [\A c \in Calls, n \in Names :
             /\ pc[c] = "delete" /\ pc'[c] # "delete" /\ cur[c] = n
             /\ alone[c] /\ ~force[c]
             /\ pods[n] # NoPod /\ ~pods[n].spec.filled
             => pods[n].spec.body # want[c][n].body]_vars
  BY <1>1
<1> QED
  BY <1>2, TypeInvariant, DeployInvariant, PTL DEF Spec, UnchangedPodSurvives

=============================================================================
