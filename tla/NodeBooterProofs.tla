-------------------------- MODULE NodeBooterProofs --------------------------
(* Proofs that a node controller runs only where it was prepared for, for  *)
(* any nodes, workers, retries, failures, deletions and crashes.           *)
EXTENDS NodeBooter, TLAPS

-----------------------------------------------------------------------------
(* The inductive invariant                                                 *)

\* A worker has a key until it is idle again, the keys that are processed are
\* those that some worker has, and none of them is handed out.
KeyInv ==
    /\ OneWorkerPerNode
    /\ \A w \in Workers : key[w] = NoNode <=> pc[w] = "idle"
    /\ \A n \in Nodes : n \in queue.processing <=> \E w \in Workers : key[w] = n
    /\ queue.waiting \cap queue.processing = {}

\* What a worker has done before it gets to where it is.
StepsDone ==
    \A w \in Workers :
        /\ pc[w] \in {"taint", "cert", "pod"} => service[key[w]] = "addressed"
        /\ pc[w] = "pod" => key[w] \in cert

\* Only hostnames of load balancers are published late, and no taint is removed
\* before they are.
LateDNS ==
    /\ kind = "nodePort" => dns = Nodes
    /\ \A n \in Nodes : kind = "ip" /\ service[n] = "addressed" => n \in dns
    /\ \A n \in Nodes : removers[n] > 0 => n \in dns

\* A node whose Service was created is tainted, or the worker that created it
\* is about to do so.
TaintFollows ==
    \A n \in Nodes :
        kind = "hostname" /\ n \notin dns /\ n \notin cut /\ deletes = 0
          /\ service[n] # "none"
        => \/ node[n].taint
           \/ \E w \in Workers : key[w] = n /\ fresh[w] /\ pc[w] \in {"address", "taint"}

BooterInv ==
    StepsDone /\ LateDNS /\ TaintFollows /\ CertBeforePod /\ UnreachableIsTainted

TypeInv == TypeOK /\ KeyInv

-----------------------------------------------------------------------------
(* The work queue                                                          *)

\* Add hands nothing out that is being processed.
LEMMA AddedShape ==
  ASSUME NEW q \in Queues, NEW n \in Nodes
  PROVE  /\ Added(q, n) \in Queues
         /\ Added(q, n).processing = q.processing
         /\ Added(q, n).waiting \subseteq q.waiting \cup ({n} \ q.processing)
BY DEF Added, Queues

\* Done frees the key, and hands it out again if it was added meanwhile.
LEMMA FinishedShape ==
  ASSUME NEW q \in Queues, NEW n \in Nodes
  PROVE  /\ Finished(q, n) \in Queues
         /\ Finished(q, n).processing = q.processing \ {n}
         /\ Finished(q, n).waiting \subseteq q.waiting \cup {n}
BY DEF Finished, Queues

\* requeue is Done, with a delayed Add or without.
LEMMA RequeueShape ==
  ASSUME NEW n \in Nodes, TypeOK, Requeue(n)
  PROVE  /\ queue' \in Queues
         /\ queue'.processing = queue.processing \ {n}
         /\ queue'.waiting \subseteq queue.waiting \cup {n}
         /\ requeues' \in [Nodes -> 0..MaxRetries]
         /\ abandoned' \in SUBSET Nodes
<1> USE NodeBooterAssumption
<1>1. queue \in Queues /\ Finished(queue, n) \in Queues
  BY FinishedShape DEF TypeOK
<1>2. [Finished(queue, n) EXCEPT !.delayed = @ \cup {n}] \in Queues
  BY <1>1 DEF Queues
<1>3. /\ [Finished(queue, n) EXCEPT !.delayed = @ \cup {n}].processing
            = Finished(queue, n).processing
      /\ [Finished(queue, n) EXCEPT !.delayed = @ \cup {n}].waiting
            = Finished(queue, n).waiting
  BY <1>1 DEF Queues
<1>4. requeues' \in [Nodes -> 0..MaxRetries] /\ abandoned' \in SUBSET Nodes
  BY DEF Requeue, TypeOK
<1>5. \/ queue' = Finished(queue, n)
      \/ queue' = [Finished(queue, n) EXCEPT !.delayed = @ \cup {n}]
  BY DEF Requeue
<1> QED
  BY <1>1, <1>2, <1>3, <1>4, <1>5, FinishedShape

\* A worker that is done gives its key back, the others keep theirs.
LEMMA WorkerDoneKeys ==
  ASSUME TypeInv, NEW w \in Workers, key[w] \in Nodes, WorkerDone(w),
         queue'.processing = queue.processing \ {key[w]},
         queue'.waiting \subseteq queue.waiting \cup {key[w]},
         queue' \in Queues
  PROVE  /\ KeyInv'
         /\ pc' \in [Workers -> {"idle", "lookup", "service", "address", "taint", "cert", "pod"}]
         /\ key' \in [Workers -> Nodes \cup {NoNode}]
         /\ fresh' \in [Workers -> BOOLEAN]
<1> USE NodeBooterAssumption
<1>1. /\ pc' \in [Workers -> {"idle", "lookup", "service", "address", "taint", "cert", "pod"}]
      /\ key' \in [Workers -> Nodes \cup {NoNode}]
      /\ fresh' \in [Workers -> BOOLEAN]
  BY DEF TypeInv, TypeOK, WorkerDone, Goto
<1>2. /\ key'[w] = NoNode /\ pc'[w] = "idle"
      /\ \A v \in Workers \ {w} : key'[v] = key[v] /\ pc'[v] = pc[v] /\ key[v] # key[w]
  BY DEF TypeInv, TypeOK, KeyInv, OneWorkerPerNode, WorkerDone, Goto
<1>3. KeyInv'
  BY <1>2 DEF TypeInv, KeyInv, OneWorkerPerNode
<1> QED
  BY <1>1, <1>3

\* Types and keys are inductive.
LEMMA TypeInvariant == Spec => []TypeInv
<1> USE NodeBooterAssumption
<1>1. Init => TypeInv
  <2> SUFFICES ASSUME Init PROVE TypeInv
    OBVIOUS
  <2>1. node \in [Nodes -> NodeStates]
    <3>1. [exists : {TRUE}, taint : {FALSE}, changed : {FALSE}, public : Annotation]
            \subseteq NodeStates
      BY DEF NodeStates, Annotation
    <3> QED
      BY <3>1 DEF Init
  <2>2. queue \in Queues /\ queue.processing = {}
    BY DEF Init, Empty, Queues
  <2>3. TypeOK
    BY <2>1, <2>2 DEF Init, TypeOK
  <2>4. KeyInv
    BY <2>2 DEF Init, KeyInv, OneWorkerPerNode
  <2> QED
    BY <2>3, <2>4 DEF TypeInv
<1>2. ASSUME TypeInv, [Next]_vars
      PROVE  TypeInv'
  <2>t. TypeOK /\ KeyInv
    BY <1>2 DEF TypeInv
  <2> USE <2>t DEF TypeInv, kube, work, watchers, history, bounds
  <2>u. UNCHANGED <<queue, pc, key>> => KeyInv'
    BY DEF KeyInv, OneWorkerPerNode
  <2>n. \A n \in Nodes : node[n] \in NodeStates
    BY DEF TypeOK
  <2>k. \A w \in Workers : pc[w] # "idle" => key[w] \in Nodes
    BY DEF TypeOK, KeyInv
  <2>1. CASE UNCHANGED vars
    BY <2>1 DEF vars, TypeOK, KeyInv, OneWorkerPerNode
  <2>2. ASSUME NEW w \in Workers, NEW n \in Nodes, Get(w, n) PROVE TypeInv'
    <3>1. /\ queue' \in Queues
          /\ queue'.processing = queue.processing \cup {n}
          /\ queue'.waiting = queue.waiting \ {n}
      BY <2>2 DEF Get, TypeOK, Queues
    <3>2. TypeOK'
      BY <2>2, <3>1 DEF Get, Goto, TypeOK
    <3>3. /\ pc[w] = "idle" /\ n \in queue.waiting /\ key'[w] = n /\ pc'[w] = "lookup"
          /\ \A v \in Workers \ {w} : key'[v] = key[v] /\ pc'[v] = pc[v]
      BY <2>2 DEF Get, Goto, TypeOK
    <3>4. \A v \in Workers : key[v] # n
      BY <3>3 DEF KeyInv
    <3>5. KeyInv'
      BY <3>1, <3>3, <3>4 DEF KeyInv, OneWorkerPerNode
    <3> QED
      BY <3>2, <3>5
  <2>3. ASSUME NEW w \in Workers, UNCHANGED <<queue, key>>, pc[w] # "idle",
               NEW l \in {"service", "address", "taint", "cert", "pod"},
               pc' = [pc EXCEPT ![w] = l]
        PROVE  KeyInv'
    BY <2>3 DEF TypeOK, KeyInv, OneWorkerPerNode
  <2>4. ASSUME NEW w \in Workers, Lookup(w) \/ HasAddress(w) PROVE TypeInv'
    <3>1. TypeOK'
      BY <2>4 DEF Lookup, HasAddress, Goto, TypeOK
    <3>2. KeyInv'
      BY <2>3, <2>4 DEF Lookup, HasAddress, Goto
    <3> QED
      BY <3>1, <3>2
  <2>5. ASSUME NEW w \in Workers, CreateService(w) PROVE TypeInv'
    <3>1. TypeOK'
      BY <2>5, <2>k DEF CreateService, Goto, TypeOK
    <3>2. KeyInv'
      BY <2>3, <2>5 DEF CreateService, Goto
    <3> QED
      BY <3>1, <3>2
  <2>6. ASSUME NEW w \in Workers, CreateNodePort(w) PROVE TypeInv'
    <3>1. TypeOK'
      BY <2>6, <2>k DEF CreateNodePort, Goto, TypeOK
    <3>2. KeyInv'
      BY <2>3, <2>6 DEF CreateNodePort, Goto
    <3> QED
      BY <3>1, <3>2
  <2>7. ASSUME NEW w \in Workers, TaintAndWatch(w) PROVE TypeInv'
    <3> DEFINE n == key[w]
    <3>n. n \in Nodes
      BY <2>7, <2>k DEF TaintAndWatch
    <3>m. node' \in [Nodes -> NodeStates]
      <4>1. [node[n] EXCEPT !.taint = TRUE, !.changed = TRUE] \in NodeStates
        BY <2>n, <3>n DEF NodeStates
      <4>2. \/ node' = node
            \/ node' = [node EXCEPT ![n] = [node[n] EXCEPT !.taint = TRUE, !.changed = TRUE]]
        BY <2>7, <3>n DEF TaintAndWatch, TypeOK
      <4> QED
        BY <3>n, <4>1, <4>2 DEF TypeOK
    <3>l. lookers' \in [Nodes -> Nat]
      BY <2>7, <3>n DEF TaintAndWatch, TypeOK
    <3>1. TypeOK'
      BY <2>7, <3>m, <3>l DEF TaintAndWatch, Goto, TypeOK
    <3>2. KeyInv'
      BY <2>3, <2>7 DEF TaintAndWatch, Goto
    <3> QED
      BY <3>1, <3>2
  <2>8. ASSUME NEW w \in Workers, CreateCert(w) PROVE TypeInv'
    <3>1. TypeOK'
      BY <2>8, <2>k DEF CreateCert, Goto, TypeOK
    <3>2. KeyInv'
      BY <2>3, <2>8 DEF CreateCert, Goto
    <3> QED
      BY <3>1, <3>2
  <2>9. ASSUME NEW w \in Workers, LookupFindsNothing(w) PROVE TypeInv'
    <3>1. key[w] \in Nodes /\ queue \in Queues
      BY <2>9, <2>k DEF LookupFindsNothing, TypeOK
    <3>2. WorkerDone(w) /\ queue' = Finished(queue, key[w])
      BY <2>9 DEF LookupFindsNothing
    <3>3. requeues' \in [Nodes -> 0..MaxRetries]
      BY <2>9, <3>1 DEF LookupFindsNothing, TypeOK
    <3>4. /\ queue' \in Queues
          /\ queue'.processing = queue.processing \ {key[w]}
          /\ queue'.waiting \subseteq queue.waiting \cup {key[w]}
      BY <3>1, <3>2, FinishedShape
    <3>5. /\ KeyInv'
          /\ pc' \in [Workers -> {"idle", "lookup", "service", "address", "taint", "cert", "pod"}]
          /\ key' \in [Workers -> Nodes \cup {NoNode}]
          /\ fresh' \in [Workers -> BOOLEAN]
      BY <3>1, <3>2, <3>4, WorkerDoneKeys DEF TypeInv
    <3> QED
      BY <2>9, <3>3, <3>4, <3>5 DEF LookupFindsNothing, TypeOK
  <2>10. ASSUME NEW w \in Workers, DeployController(w) PROVE TypeInv'
    <3>1. key[w] \in Nodes /\ queue \in Queues
      BY <2>10, <2>k DEF DeployController, TypeOK
    <3>2. WorkerDone(w) /\ queue' = Finished(queue, key[w])
      BY <2>10 DEF DeployController
    <3>4. /\ queue' \in Queues
          /\ queue'.processing = queue.processing \ {key[w]}
          /\ queue'.waiting \subseteq queue.waiting \cup {key[w]}
      BY <3>1, <3>2, FinishedShape
    <3>5. /\ KeyInv'
          /\ pc' \in [Workers -> {"idle", "lookup", "service", "address", "taint", "cert", "pod"}]
          /\ key' \in [Workers -> Nodes \cup {NoNode}]
          /\ fresh' \in [Workers -> BOOLEAN]
      BY <3>1, <3>2, <3>4, WorkerDoneKeys DEF TypeInv
    <3> QED
      BY <2>10, <3>1, <3>4, <3>5 DEF DeployController, TypeOK
  <2>11. ASSUME NEW w \in Workers, DeployFails(w), UNCHANGED <<dnsErrors, updates, deletes, crashes>>,
                faults' \in Nat
         PROVE  TypeInv'
    <3>1. key[w] \in Nodes /\ Requeue(key[w]) /\ WorkerDone(w)
      BY <2>11, <2>k DEF DeployFails
    <3> QED
      BY <2>11, <3>1, RequeueShape, WorkerDoneKeys DEF DeployFails, TypeOK
  <2>12. ASSUME NEW w \in Workers, RequestFails(w) \/ NodeGone(w) \/ Unannotated(w)
         PROVE  TypeInv'
    <3>1. faults + 1 \in Nat /\ faults \in Nat
      BY DEF TypeOK
    <3> QED
      BY <2>11, <2>12, <3>1 DEF RequestFails, NodeGone, Unannotated
  <2>13. ASSUME NEW n \in Nodes, DelayOver(n) PROVE TypeInv'
    <3> DEFINE q == [queue EXCEPT !.delayed = @ \ {n}]
    <3>1. q \in Queues /\ q.processing = queue.processing /\ q.waiting = queue.waiting
      BY DEF TypeOK, Queues
    <3>2. queue' = Added(q, n) /\ UNCHANGED <<pc, key>>
      BY <2>13 DEF DelayOver
    <3> HIDE DEF q
    <3>3. queue' \in Queues /\ KeyInv'
      BY <3>1, <3>2, AddedShape DEF KeyInv, OneWorkerPerNode
    <3> QED
      BY <2>13, <3>3 DEF DelayOver, TypeOK
  <2>14. ASSUME NEW n \in Nodes, Notify(n) PROVE TypeInv'
    <3>1. queue \in Queues /\ queue' = Added(queue, n) /\ UNCHANGED <<pc, key>>
      BY <2>14 DEF Notify, TypeOK
    <3>2. queue' \in Queues /\ KeyInv'
      BY <3>1, AddedShape DEF KeyInv, OneWorkerPerNode
    <3>3. node' \in [Nodes -> NodeStates]
      <4>1. [node[n] EXCEPT !.changed = FALSE] \in NodeStates
        BY <2>n DEF NodeStates
      <4> QED
        BY <2>14, <4>1 DEF Notify, TypeOK
    <3> QED
      BY <2>14, <3>2, <3>3 DEF Notify, TypeOK
  <2>15. ASSUME NEW n \in Nodes, NothingToWatch(n) \/ FoundRecord(n) PROVE TypeInv'
    <3>1. lookers' \in [Nodes -> Nat] /\ removers' \in [Nodes -> Nat]
      BY <2>15 DEF NothingToWatch, FoundRecord, TypeOK
    <3> QED
      BY <2>15, <2>u, <3>1 DEF NothingToWatch, FoundRecord, TypeOK
  <2>16. ASSUME NEW n \in Nodes, RemoveTaint(n) PROVE TypeInv'
    <3>1. removers' \in [Nodes -> Nat]
      BY <2>16 DEF RemoveTaint, TypeOK
    <3>2. node' \in [Nodes -> NodeStates]
      <4>1. [node[n] EXCEPT !.taint = FALSE, !.changed = TRUE] \in NodeStates
        BY <2>n DEF NodeStates
      <4>2. \/ node' = node
            \/ node' = [node EXCEPT ![n] = [node[n] EXCEPT !.taint = FALSE, !.changed = TRUE]]
        BY <2>16 DEF RemoveTaint, TypeOK
      <4> QED
        BY <4>1, <4>2 DEF TypeOK
    <3> QED
      BY <2>16, <2>u, <3>1, <3>2 DEF RemoveTaint, TypeOK
  <2>17. ASSUME NEW n \in Nodes, WatcherGivesUp(n) PROVE TypeInv'
    <3>1. lookers' \in [Nodes -> Nat] /\ removers' \in [Nodes -> Nat]
      BY <2>17 DEF WatcherGivesUp, TypeOK
    <3> QED
      BY <2>17, <2>u, <3>1 DEF WatcherGivesUp, TypeOK
  <2>18. ASSUME NEW n \in Nodes, NodeUpdated(n) PROVE TypeInv'
    <3>1. PICK a \in Annotation :
            node' = [node EXCEPT ![n].changed = TRUE, ![n].public = a]
      BY <2>18 DEF NodeUpdated
    <3>2. [node[n] EXCEPT !.changed = TRUE, !.public = a] \in NodeStates
      BY <2>n DEF NodeStates, Annotation
    <3>3. node' \in [Nodes -> NodeStates]
      BY <3>1, <3>2 DEF TypeOK
    <3> QED
      BY <2>18, <2>u, <3>3 DEF NodeUpdated, TypeOK
  <2>19. ASSUME NEW n \in Nodes, NodeDeleted(n) PROVE TypeInv'
    BY <2>19, <2>u DEF NodeDeleted, TypeOK, NodeStates
  <2>20. ASSUME NEW n \in Nodes, NodeAdded(n) PROVE TypeInv'
    <3>1. PICK a \in Annotation :
            node' = [node EXCEPT ![n].exists = TRUE, ![n].changed = TRUE, ![n].public = a]
      BY <2>20 DEF NodeAdded
    <3>2. [node[n] EXCEPT !.exists = TRUE, !.changed = TRUE, !.public = a] \in NodeStates
      BY <2>n DEF NodeStates, Annotation
    <3>3. node' \in [Nodes -> NodeStates]
      BY <3>1, <3>2 DEF TypeOK
    <3> QED
      BY <2>20, <2>u, <3>3 DEF NodeAdded, TypeOK
  <2>21. ASSUME NEW n \in Nodes, AddressAssigned(n) \/ DNSAppears(n) PROVE TypeInv'
    BY <2>21 DEF AddressAssigned, DNSAppears, TypeOK, KeyInv, OneWorkerPerNode
  <2>22. CASE Crash
    <3>1. /\ queue' \in Queues /\ queue'.processing = {}
      BY <2>22 DEF Crash, Empty, Queues
    <3>n. node' \in [Nodes -> NodeStates]
      <4>1. \A n \in Nodes : [node[n] EXCEPT !.changed = FALSE] \in NodeStates
        BY <2>n DEF NodeStates
      <4> QED
        BY <2>22, <4>1 DEF Crash
    <3>2. TypeOK'
      BY <2>22, <3>1, <3>n DEF Crash, TypeOK
    <3>3. KeyInv'
      BY <2>22, <3>1 DEF Crash, KeyInv, OneWorkerPerNode
    <3> QED
      BY <3>2, <3>3
  <2> QED
    BY <1>2, <2>1, <2>2, <2>4, <2>5, <2>6, <2>7, <2>8, <2>9, <2>10, <2>12, <2>13, <2>14,
       <2>15, <2>16, <2>17, <2>18, <2>19, <2>20, <2>21, <2>22
       DEF Next, WorkerStep, WatcherStep
<1> QED
  BY <1>1, <1>2, PTL DEF Spec

\* Requests, goroutines and the queue keep their types (node/sync.go).
THEOREM TypeCorrect == Spec => []TypeOK
<1>1. TypeInv => TypeOK
  BY DEF TypeInv
<1> QED
  BY <1>1, TypeInvariant, PTL

\* The work queue gives a node to one worker at a time: deployments of a node
\* never overlap, however often it is added, retried or reported (runWorker).
THEOREM WorkersExclusive == Spec => []OneWorkerPerNode
<1>1. TypeInv => OneWorkerPerNode
  BY DEF TypeInv, KeyInv
<1> QED
  BY <1>1, TypeInvariant, PTL

-----------------------------------------------------------------------------
(* Preparation of a node                                                   *)

\* A worker that stops, for whatever reason, leaves the node marked as cut or
\* tainted.
LEMMA WorkerStops ==
  ASSUME TypeInv, BooterInv, NEW w \in Workers, pc[w] # "idle", WorkerDone(w),
         UNCHANGED <<kind, node, service, dns, cert, removers, deletes>>,
         cut \subseteq cut',
         \/ key[w] \in cut' /\ pod' = pod
         \/ pc[w] = "lookup" /\ pod' = pod
         \/ pc[w] = "pod" /\ pod' = pod \cup {key[w]}
  PROVE  BooterInv'
<1> USE NodeBooterAssumption
<1>1. /\ key[w] \in Nodes /\ key[w] # NoNode
      /\ pc'[w] = "idle" /\ key'[w] = NoNode
      /\ \A v \in Workers \ {w} :
           key'[v] = key[v] /\ pc'[v] = pc[v] /\ fresh'[v] = fresh[v] /\ key[v] # key[w]
      /\ pod \subseteq Nodes
  BY DEF WorkerDone, Goto, TypeInv, TypeOK, KeyInv, OneWorkerPerNode
<1>2. StepsDone' /\ LateDNS'
  BY <1>1 DEF BooterInv, StepsDone, LateDNS
<1>3. TaintFollows'
  <2> SUFFICES ASSUME NEW n \in Nodes, kind = "hostname", n \notin dns, n \notin cut',
                      deletes = 0, service[n] # "none", ~node[n].taint
               PROVE  \E v \in Workers :
                        key'[v] = n /\ fresh'[v] /\ pc'[v] \in {"address", "taint"}
    BY DEF TaintFollows
  <2>1. PICK v \in Workers : key[v] = n /\ fresh[v] /\ pc[v] \in {"address", "taint"}
    BY DEF BooterInv, TaintFollows
  <2>2. v # w
    BY <2>1
  <2> QED
    BY <1>1, <2>1, <2>2
<1>4. CertBeforePod'
  BY DEF BooterInv, CertBeforePod, StepsDone
<1>5. UnreachableIsTainted'
  <2> SUFFICES ASSUME NEW n \in pod', n \notin dns, n \notin cut', ~(deletes > 0)
               PROVE  node[n].taint
    BY DEF UnreachableIsTainted
  <2>1. CASE n \in pod
    BY <2>1 DEF BooterInv, UnreachableIsTainted
  <2>2. CASE n = key[w] /\ pc[w] = "pod"
    <3>1. service[n] = "addressed"
      BY <2>2 DEF BooterInv, StepsDone
    <3>2. kind = "hostname"
      BY <1>1, <2>2, <3>1 DEF BooterInv, LateDNS, TypeInv, TypeOK
    <3>3. deletes = 0
      BY DEF TypeInv, TypeOK
    <3>4. ~ \E v \in Workers : key[v] = n /\ fresh[v] /\ pc[v] \in {"address", "taint"}
      BY <1>1, <2>2
    <3> QED
      BY <1>1, <2>2, <3>1, <3>2, <3>3, <3>4 DEF BooterInv, TaintFollows
  <2> QED
    BY <2>1, <2>2
<1> QED
  BY <1>2, <1>3, <1>4, <1>5 DEF BooterInv

\* BooterInv is inductive relative to types and keys.
LEMMA BooterInvariant == Spec => []BooterInv
<1> USE NodeBooterAssumption
<1>1. Init => BooterInv
  BY DEF Init, BooterInv, StepsDone, LateDNS, TaintFollows, CertBeforePod, UnreachableIsTainted
<1>2. ASSUME TypeInv, BooterInv, [Next]_vars
      PROVE  BooterInv'
  <2> USE <1>2 DEF kube, work, watchers, history, bounds
  <2>k. \A w \in Workers : pc[w] # "idle" => key[w] \in Nodes
    BY DEF TypeInv, TypeOK, KeyInv
  <2>p. pod \subseteq Nodes
    BY DEF TypeInv, TypeOK
  \* Steps that leave workers and what they prepare alone, and do not take a
  \* taint off before the name resolves.
  <2>1. ASSUME UNCHANGED <<kind, service, cert, pc, key, fresh, cut>>,
               dns \subseteq dns', dns' \subseteq Nodes, pod' \subseteq pod,
               deletes' = deletes \/ deletes' > 0,
               \A n \in Nodes : removers'[n] > 0 => removers[n] > 0 \/ n \in dns,
               \A n \in Nodes : node[n].taint => node'[n].taint \/ n \in dns \/ deletes' > 0
        PROVE  BooterInv'
    <3>1. StepsDone' /\ LateDNS'
      BY <2>1 DEF BooterInv, StepsDone, LateDNS
    <3>2. TaintFollows'
      BY <2>1 DEF BooterInv, TaintFollows
    <3>3. CertBeforePod' /\ UnreachableIsTainted'
      BY <2>1, <2>p DEF BooterInv, CertBeforePod, UnreachableIsTainted
    <3> QED
      BY <3>1, <3>2, <3>3 DEF BooterInv
  <2>2. CASE UNCHANGED vars
    BY <2>1, <2>2 DEF vars, TypeInv, TypeOK
  <2>3. ASSUME NEW w \in Workers, NEW n \in Nodes, Get(w, n) PROVE BooterInv'
    <3>1. /\ pc[w] = "idle" /\ pc'[w] = "lookup"
          /\ \A v \in Workers \ {w} : pc'[v] = pc[v] /\ key'[v] = key[v]
          /\ UNCHANGED <<kind, node, service, dns, cert, pod, fresh, removers, cut, deletes>>
      BY <2>3 DEF Get, Goto, TypeInv, TypeOK
    <3>2. StepsDone' /\ LateDNS'
      BY <3>1 DEF BooterInv, StepsDone, LateDNS
    <3>3. TaintFollows'
      BY <3>1 DEF BooterInv, TaintFollows
    <3>4. CertBeforePod' /\ UnreachableIsTainted'
      BY <3>1 DEF BooterInv, CertBeforePod, UnreachableIsTainted
    <3> QED
      BY <3>2, <3>3, <3>4 DEF BooterInv
  <2>4. ASSUME NEW w \in Workers, Lookup(w) \/ HasAddress(w) PROVE BooterInv'
    <3>1. /\ \/ pc[w] = "lookup" /\ pc'[w] = "service"
             \/ /\ pc[w] = "address" /\ service[key[w]] = "addressed"
                /\ pc'[w] = IF kind = "hostname" THEN "taint" ELSE "cert"
          /\ \A v \in Workers \ {w} : pc'[v] = pc[v]
          /\ UNCHANGED <<kind, node, service, dns, cert, pod, key, fresh, removers, cut, deletes>>
      BY <2>4 DEF Lookup, HasAddress, Goto, TypeInv, TypeOK
    <3>2. StepsDone' /\ LateDNS'
      BY <3>1 DEF BooterInv, StepsDone, LateDNS
    <3>3. TaintFollows'
      BY <3>1 DEF BooterInv, TaintFollows
    <3>4. CertBeforePod' /\ UnreachableIsTainted'
      BY <3>1 DEF BooterInv, CertBeforePod, UnreachableIsTainted
    <3> QED
      BY <3>2, <3>3, <3>4 DEF BooterInv
  <2>5. ASSUME NEW w \in Workers, CreateService(w) \/ CreateNodePort(w) PROVE BooterInv'
    <3>1. /\ pc[w] = "service" /\ pc'[w] = "address" /\ key[w] \in Nodes
          /\ \A v \in Workers \ {w} : pc'[v] = pc[v] /\ fresh'[v] = fresh[v]
          /\ kind # "nodePort" => fresh'[w] = (service[key[w]] = "none")
          /\ service'[key[w]] = IF service[key[w]] = "none" THEN "pending" ELSE service[key[w]]
          /\ \A n \in Nodes \ {key[w]} : service'[n] = service[n]
          /\ UNCHANGED <<kind, node, dns, cert, pod, key, removers, cut, deletes>>
      BY <2>5, <2>k DEF CreateService, CreateNodePort, Goto, TypeInv, TypeOK
    <3>2. StepsDone' /\ LateDNS'
      BY <3>1, <2>k DEF BooterInv, StepsDone, LateDNS
    <3>3. TaintFollows'
      <4> SUFFICES ASSUME NEW n \in Nodes, kind = "hostname", n \notin dns, n \notin cut,
                          deletes = 0, service'[n] # "none", ~node[n].taint
                   PROVE  \E v \in Workers :
                            key[v] = n /\ fresh'[v] /\ pc'[v] \in {"address", "taint"}
        BY <3>1 DEF TaintFollows
      <4>1. CASE n = key[w] /\ service[n] = "none"
        BY <3>1, <4>1
      <4>2. CASE service[n] # "none"
        <5>1. PICK v \in Workers : key[v] = n /\ fresh[v] /\ pc[v] \in {"address", "taint"}
          BY <4>2 DEF BooterInv, TaintFollows
        <5> QED
          BY <3>1, <5>1
      <4> QED
        BY <3>1, <4>1, <4>2
    <3>4. CertBeforePod' /\ UnreachableIsTainted'
      BY <3>1, <2>p DEF BooterInv, CertBeforePod, UnreachableIsTainted
    <3> QED
      BY <3>2, <3>3, <3>4 DEF BooterInv
  <2>6. ASSUME NEW w \in Workers, TaintAndWatch(w) PROVE BooterInv'
    <3>1. /\ pc[w] = "taint" /\ pc'[w] = "cert" /\ key[w] \in Nodes
          /\ \A v \in Workers \ {w} : pc'[v] = pc[v]
          /\ \A n \in Nodes : node[n].taint => node'[n].taint
          /\ fresh[w] => node'[key[w]].taint
          /\ UNCHANGED <<kind, service, dns, cert, pod, key, fresh, removers, cut, deletes>>
      BY <2>6, <2>k DEF TaintAndWatch, Goto, TypeInv, TypeOK, NodeStates
    <3>2. StepsDone' /\ LateDNS'
      BY <3>1 DEF BooterInv, StepsDone, LateDNS
    <3>3. TaintFollows'
      <4> SUFFICES ASSUME NEW n \in Nodes, kind = "hostname", n \notin dns, n \notin cut,
                          deletes = 0, service[n] # "none", ~node'[n].taint
                   PROVE  \E v \in Workers :
                            key[v] = n /\ fresh[v] /\ pc'[v] \in {"address", "taint"}
        BY <3>1 DEF TaintFollows
      <4>1. PICK v \in Workers : key[v] = n /\ fresh[v] /\ pc[v] \in {"address", "taint"}
        BY <3>1 DEF BooterInv, TaintFollows
      <4> QED
        BY <3>1, <4>1
    <3>4. CertBeforePod' /\ UnreachableIsTainted'
      BY <3>1, <2>p DEF BooterInv, CertBeforePod, UnreachableIsTainted
    <3> QED
      BY <3>2, <3>3, <3>4 DEF BooterInv
  <2>7. ASSUME NEW w \in Workers, CreateCert(w) PROVE BooterInv'
    <3>1. /\ pc[w] = "cert" /\ pc'[w] = "pod" /\ cert' = cert \cup {key[w]}
          /\ \A v \in Workers \ {w} : pc'[v] = pc[v]
          /\ UNCHANGED <<kind, node, service, dns, pod, key, fresh, removers, cut, deletes>>
      BY <2>7 DEF CreateCert, Goto, TypeInv, TypeOK
    <3>2. StepsDone' /\ LateDNS'
      BY <3>1 DEF BooterInv, StepsDone, LateDNS
    <3>3. TaintFollows'
      BY <3>1 DEF BooterInv, TaintFollows
    <3>4. CertBeforePod' /\ UnreachableIsTainted'
      BY <3>1 DEF BooterInv, CertBeforePod, UnreachableIsTainted
    <3> QED
      BY <3>2, <3>3, <3>4 DEF BooterInv
  <2>8. ASSUME NEW w \in Workers, LookupFindsNothing(w) \/ DeployController(w)
        PROVE  BooterInv'
    BY <2>8, WorkerStops DEF LookupFindsNothing, DeployController
  <2>9. ASSUME NEW w \in Workers, RequestFails(w) \/ NodeGone(w) \/ Unannotated(w)
        PROVE  BooterInv'
    BY <2>9, WorkerStops DEF RequestFails, NodeGone, Unannotated, DeployFails
  <2>10. ASSUME NEW n \in Nodes, DelayOver(n) \/ NothingToWatch(n) PROVE BooterInv'
    BY <2>1, <2>10 DEF DelayOver, NothingToWatch, TypeInv, TypeOK
  <2>11. ASSUME NEW n \in Nodes, FoundRecord(n) \/ WatcherGivesUp(n) PROVE BooterInv'
    <3>1. /\ UNCHANGED <<kind, node, service, dns, cert, pod, pc, key, fresh, cut, deletes>>
          /\ \A m \in Nodes : removers'[m] > 0 => removers[m] > 0 \/ m \in dns
      BY <2>11 DEF FoundRecord, WatcherGivesUp, TypeInv, TypeOK
    <3> QED
      BY <2>1, <3>1 DEF TypeInv, TypeOK
  <2>12. ASSUME NEW n \in Nodes, RemoveTaint(n) PROVE BooterInv'
    <3>1. /\ n \in dns
          /\ \A m \in Nodes : removers'[m] > 0 => removers[m] > 0
          /\ \A m \in Nodes : node[m].taint => node'[m].taint \/ m = n
      BY <2>12 DEF RemoveTaint, BooterInv, LateDNS, TypeInv, TypeOK, NodeStates
    <3> QED
      BY <2>1, <2>12, <3>1 DEF RemoveTaint, TypeInv, TypeOK
  <2>13. ASSUME NEW n \in Nodes, Notify(n) \/ NodeUpdated(n) \/ NodeAdded(n) PROVE BooterInv'
    <3>1. \A m \in Nodes : node'[m].taint = node[m].taint
      <4>0. node \in [Nodes -> NodeStates]
        BY DEF TypeInv, TypeOK
      <4>1. CASE Notify(n)
        BY <4>0, <4>1 DEF Notify, NodeStates
      <4>2. CASE NodeUpdated(n)
        BY <4>0, <4>2 DEF NodeUpdated, NodeStates
      <4>3. CASE NodeAdded(n)
        BY <4>0, <4>3 DEF NodeAdded, NodeStates
      <4> QED
        BY <2>13, <4>1, <4>2, <4>3
    <3> QED
      BY <2>1, <2>13, <3>1 DEF Notify, NodeUpdated, NodeAdded, TypeInv, TypeOK
  <2>14. ASSUME NEW n \in Nodes, NodeDeleted(n) PROVE BooterInv'
    <3>1. deletes' > 0
      BY <2>14 DEF NodeDeleted, TypeInv, TypeOK
    <3> QED
      BY <2>1, <2>14, <3>1 DEF NodeDeleted, TypeInv, TypeOK
  <2>15. ASSUME NEW n \in Nodes, DNSAppears(n) PROVE BooterInv'
    BY <2>1, <2>15 DEF DNSAppears, TypeInv, TypeOK
  <2>16. ASSUME NEW n \in Nodes, AddressAssigned(n) PROVE BooterInv'
    <3>1. /\ service[n] = "pending" /\ service'[n] = "addressed"
          /\ \A m \in Nodes \ {n} : service'[m] = service[m]
          /\ dns' = IF kind = "ip" THEN dns \cup {n} ELSE dns
          /\ dns \subseteq Nodes
          /\ UNCHANGED <<kind, node, cert, pod, pc, key, fresh, removers, cut, deletes>>
      BY <2>16 DEF AddressAssigned, TypeInv, TypeOK
    <3>2. StepsDone' /\ LateDNS'
      BY <2>k, <3>1 DEF BooterInv, StepsDone, LateDNS
    <3>3. TaintFollows'
      BY <3>1 DEF BooterInv, TaintFollows
    <3>4. CertBeforePod' /\ UnreachableIsTainted'
      BY <2>p, <3>1 DEF BooterInv, CertBeforePod, UnreachableIsTainted
    <3> QED
      BY <3>2, <3>3, <3>4 DEF BooterInv
  <2>17. CASE Crash
    <3>1. /\ \A n \in Nodes : node'[n].taint = node[n].taint
          /\ \A n \in Nodes : removers'[n] = 0
          /\ \A w \in Workers : pc'[w] = "idle"
          /\ \A n \in Nodes : n \in cut' <=> n \in cut \/ \E w \in Workers : key[w] = n
          /\ UNCHANGED <<kind, service, dns, cert, pod, deletes>>
      BY <2>17 DEF Crash, TypeInv, TypeOK, NodeStates
    <3>2. StepsDone' /\ LateDNS'
      BY <3>1 DEF BooterInv, StepsDone, LateDNS
    <3>3. TaintFollows'
      BY <3>1 DEF BooterInv, TaintFollows
    <3>4. CertBeforePod' /\ UnreachableIsTainted'
      BY <2>p, <3>1 DEF BooterInv, CertBeforePod, UnreachableIsTainted
    <3> QED
      BY <3>2, <3>3, <3>4 DEF BooterInv
  <2> QED
    BY <1>2, <2>2, <2>3, <2>4, <2>5, <2>6, <2>7, <2>8, <2>9, <2>10, <2>11, <2>12, <2>13,
       <2>14, <2>15, <2>16, <2>17 DEF Next, WorkerStep, WatcherStep
<1> QED
  BY <1>1, <1>2, TypeInvariant, PTL DEF Spec

\* Wherever a node controller runs there is a certificate and a public address,
\* and a node that cannot be reached yet keeps sandboxes away, unless its
\* deployment was cut short or a node with this name was deleted
\* (deployNodeController, watchDNSTaint).
THEOREM ControllerPrepared == Spec => []ControllerIsPrepared
<1>1. BooterInv => ControllerIsPrepared
  BY DEF BooterInv, ControllerIsPrepared
<1> QED
  BY <1>1, BooterInvariant, PTL

=============================================================================
