----------------------------- MODULE NodeBooter -----------------------------
(***************************************************************************)
(* The cluster controller deploys a node controller onto every Kubernetes  *)
(* node (cluster-controller/node).                                         *)
(*                                                                         *)
(* Nodes are put into a rate limited work queue when the informer reports  *)
(* them; workers create the node's Service, wait for its public address,   *)
(* keep sandboxes off the node with a taint until the address resolves,    *)
(* create the certificate and deploy the pod.  A goroutine per deployment  *)
(* watches DNS and takes the taint off.  Requests fail, addresses come     *)
(* late, nodes come and go and the cluster controller crashes.             *)
(***************************************************************************)
EXTENDS Naturals, FiniteSets

CONSTANTS
    Nodes,
    Workers,     \* 4 in the code
    MaxRetries,  \* 4 in the code
    Kinds,       \* of public addresses: load balancers with a "hostname" (as in
                 \* EKS) or an "ip", or with useNodePort the "nodePort" of a node
    NoNode,
    MaxFaults,   \* how many requests fail or time out
    MaxDNSErrors,\* how many lookups fail in an unexpected way
    MaxUpdates,  \* how many times somebody else changes a node
    MaxDeletes,  \* how many times a node is deleted
    MaxCrashes   \* how many times the cluster controller crashes

ASSUME NodeBooterAssumption ==
    /\ NoNode \notin Nodes
    /\ Kinds \subseteq {"hostname", "ip", "nodePort"}
    /\ MaxRetries \in Nat /\ MaxFaults \in Nat /\ MaxDNSErrors \in Nat
    /\ MaxUpdates \in Nat /\ MaxDeletes \in Nat /\ MaxCrashes \in Nat

VARIABLES
    kind,      \* the kind of public addresses, the same for all nodes
    node,      \* a node: it exists, has dnsTaint, has a change nobody was told of,
               \* and an annotation with its public address
    service,   \* its Service: none, pending, addressed
    dns,       \* nodes whose hostname resolves
    cert,      \* nodes with a certificate Secret
    pod,       \* nodes with a node controller's pod
    queue,     \* the work queue: keys waiting, dirty, being processed, delayed
    requeues,  \* the rate limiter's NumRequeues
    pc, key,   \* where a worker is, and with which node
    fresh,     \* a worker's newService
    lookers,   \* watchDNSTaint goroutines in their loop, per node
    removers,  \* watchDNSTaint goroutines that found a DNS record, per node
    cut,       \* history: nodes with a deployment that was cut short
    abandoned, \* history: nodes that were given up, by requeue or watchDNSTaint
    faults, dnsErrors, updates, deletes, crashes

kube == <<kind, node, service, dns, cert, pod>>
work == <<pc, key, fresh>>
watchers == <<lookers, removers>>
history == <<cut, abandoned>>
bounds == <<faults, dnsErrors, updates, deletes, crashes>>
vars == <<kube, queue, requeues, work, watchers, history, bounds>>

-----------------------------------------------------------------------------
(* client-go's work queue                                                  *)

\* Add: a key that is being processed waits until it is Done.
Added(q, n) ==
    IF n \in q.dirty THEN q
    ELSE [q EXCEPT !.dirty = @ \cup {n},
                   !.waiting = IF n \in q.processing THEN @ ELSE @ \cup {n}]

Finished(q, n) ==
    [q EXCEPT !.processing = @ \ {n},
              !.waiting = IF n \in q.dirty THEN @ \cup {n} ELSE @]

Queues == [waiting : SUBSET Nodes, dirty : SUBSET Nodes,
           processing : SUBSET Nodes, delayed : SUBSET Nodes]

Empty == [waiting |-> {}, dirty |-> {}, processing |-> {}, delayed |-> {}]

\* The rate limiter's delay is over.
DelayOver(n) ==
    /\ n \in queue.delayed
    /\ queue' = Added([queue EXCEPT !.delayed = @ \ {n}], n)
    /\ UNCHANGED <<kube, requeues, work, watchers, history, bounds>>

\* Whether a node has the annotation; it is read for nodePort only.
Annotation == IF kind = "nodePort" THEN BOOLEAN ELSE {FALSE}

Init ==
    /\ kind \in Kinds
    /\ node \in [Nodes -> [exists : {TRUE}, taint : {FALSE}, changed : {FALSE},
                           public : Annotation]]
    /\ service = [n \in Nodes |-> "none"]
    /\ dns = (IF kind = "nodePort" THEN Nodes ELSE {}) /\ cert = {}
    /\ pod = {}
    /\ queue = [Empty EXCEPT !.waiting = Nodes, !.dirty = Nodes]
    /\ requeues = [n \in Nodes |-> 0]
    /\ pc = [w \in Workers |-> "idle"]
    /\ key = [w \in Workers |-> NoNode]
    /\ fresh = [w \in Workers |-> FALSE]
    /\ lookers = [n \in Nodes |-> 0]
    /\ removers = [n \in Nodes |-> 0]
    /\ cut = {} /\ abandoned = {}
    /\ faults = 0 /\ dnsErrors = 0 /\ updates = 0 /\ deletes = 0 /\ crashes = 0

-----------------------------------------------------------------------------
(* Workers                                                                 *)

Goto(w, label) == pc' = [pc EXCEPT ![w] = label]

\* runWorker is over, its deferred Done included.
WorkerDone(w) ==
    /\ Goto(w, "idle")
    /\ key' = [key EXCEPT ![w] = NoNode]
    /\ fresh' = [fresh EXCEPT ![w] = FALSE]

\* Take a key.
Get(w, n) ==
    /\ pc[w] = "idle"
    /\ n \in queue.waiting
    /\ queue' = [queue EXCEPT !.waiting = @ \ {n}, !.dirty = @ \ {n},
                              !.processing = @ \cup {n}]
    /\ key' = [key EXCEPT ![w] = n]
    /\ Goto(w, "lookup")
    /\ UNCHANGED <<kube, requeues, fresh, watchers, history, bounds>>

\* The node in the informer's cache: without it there is nothing to do.
Lookup(w) ==
    LET n == key[w] IN
    /\ pc[w] = "lookup"
    /\ node[n].exists
    /\ Goto(w, "service")
    /\ UNCHANGED <<kube, queue, requeues, key, fresh, watchers, history, bounds>>

LookupFindsNothing(w) ==
    LET n == key[w] IN
    /\ pc[w] = "lookup"
    /\ ~node[n].exists
    /\ requeues' = [requeues EXCEPT ![n] = 0]
    /\ queue' = Finished(queue, n)
    /\ WorkerDone(w)
    /\ UNCHANGED <<kube, watchers, history, bounds>>

\* createLoadBalancerService: create the Service if it is not there.
CreateService(w) ==
    LET n == key[w] IN
    /\ pc[w] = "service" /\ kind # "nodePort"
    /\ fresh' = [fresh EXCEPT ![w] = service[n] = "none"]
    /\ service' = IF service[n] = "none" THEN [service EXCEPT ![n] = "pending"]
                                         ELSE service
    /\ Goto(w, "address")
    /\ UNCHANGED <<kind, node, dns, cert, pod, queue, requeues, key, watchers, history, bounds>>

\* createNodePortService: the node's annotation is required.
CreateNodePort(w) ==
    LET n == key[w] IN
    /\ pc[w] = "service" /\ kind = "nodePort"
    /\ node[n].public
    /\ service' = IF service[n] = "none" THEN [service EXCEPT ![n] = "pending"]
                                         ELSE service
    /\ Goto(w, "address")
    /\ UNCHANGED <<kind, node, dns, cert, pod, queue, requeues, key, fresh, watchers,
                   history, bounds>>

\* WaitForObject: the Service has its public address, or its port.
HasAddress(w) ==
    /\ pc[w] = "address"
    /\ service[key[w]] = "addressed"
    /\ Goto(w, IF kind = "hostname" THEN "taint" ELSE "cert")
    /\ UNCHANGED <<kube, queue, requeues, key, fresh, watchers, history, bounds>>

\* Fault: the watcher is started along with the taint only.
TaintAndWatchIfFresh(w) ==
    LET n == key[w] IN
    /\ pc[w] = "taint"
    /\ fresh[w] => node[n].exists
    /\ node' = IF fresh[w] /\ ~node[n].taint
                 THEN [node EXCEPT ![n].taint = TRUE, ![n].changed = TRUE]
                 ELSE node
    /\ lookers' = IF fresh[w] THEN [lookers EXCEPT ![n] = @ + 1] ELSE lookers
    /\ Goto(w, "cert")
    /\ UNCHANGED <<kind, service, dns, cert, pod, queue, requeues, key, fresh, removers,
                   history, bounds>>

\* Taint the node if the Service is new, and start watchDNSTaint.
TaintAndWatch(w) ==
    LET n == key[w] IN
    /\ pc[w] = "taint"
    /\ fresh[w] => node[n].exists
    /\ node' = IF fresh[w] /\ ~node[n].taint
                 THEN [node EXCEPT ![n].taint = TRUE, ![n].changed = TRUE]
                 ELSE node
    /\ lookers' = [lookers EXCEPT ![n] = @ + 1]
    /\ Goto(w, "cert")
    /\ UNCHANGED <<kind, service, dns, cert, pod, queue, requeues, key, fresh, removers,
                   history, bounds>>

\* Create the certificate for the public address if there is none.
CreateCert(w) ==
    /\ pc[w] = "cert"
    /\ cert' = cert \cup {key[w]}
    /\ Goto(w, "pod")
    /\ UNCHANGED <<kind, node, service, dns, pod, queue, requeues, key, fresh, watchers,
                   history, bounds>>

\* Deploy the pod (unless it is up to date).  The node controller is deployed:
\* the key is Done, and not forgotten.
DeployController(w) ==
    LET n == key[w] IN
    /\ pc[w] = "pod"
    /\ pod' = pod \cup {n}
    /\ queue' = Finished(queue, n)
    /\ WorkerDone(w)
    /\ UNCHANGED <<kind, node, service, dns, cert, requeues, watchers, history, bounds>>

\* Fault: a node controller that could not be deployed is not tried again.
RequeueNever(n) ==
    /\ requeues' = requeues
    /\ queue' = Finished(queue, n)
    /\ abandoned' = abandoned

\* Try again later, or give up.
Requeue(n) ==
    IF requeues[n] < MaxRetries
      THEN /\ requeues' = [requeues EXCEPT ![n] = @ + 1]
           /\ queue' = [Finished(queue, n) EXCEPT !.delayed = @ \cup {n}]
           /\ UNCHANGED abandoned
      ELSE /\ requeues' = [requeues EXCEPT ![n] = 0]
           /\ queue' = Finished(queue, n)
           /\ abandoned' = abandoned \cup {n}

\* Whatever deployNodeController was at fails: the request, or the wait.
DeployFails(w) ==
    LET n == key[w] IN
    /\ pc[w] \in {"service", "address", "taint", "cert", "pod"}
    /\ pc[w] = "address" => service[n] = "pending"
    /\ Requeue(n)
    /\ cut' = cut \cup {n}
    /\ WorkerDone(w)
    /\ UNCHANGED <<kube, watchers>>

RequestFails(w) ==
    /\ faults < MaxFaults
    /\ faults' = faults + 1
    /\ DeployFails(w)
    /\ UNCHANGED <<dnsErrors, updates, deletes, crashes>>

\* nodeHasTaint: the node is gone.
NodeGone(w) ==
    /\ pc[w] = "taint"
    /\ fresh[w] /\ ~node[key[w]].exists
    /\ DeployFails(w)
    /\ UNCHANGED bounds

Unannotated(w) ==
    /\ pc[w] = "service" /\ kind = "nodePort"
    /\ ~node[key[w]].public
    /\ DeployFails(w)
    /\ UNCHANGED bounds

WorkerStep(w) ==
    \/ \E n \in Nodes : Get(w, n)
    \/ Lookup(w) \/ LookupFindsNothing(w)
    \/ CreateService(w) \/ CreateNodePort(w) \/ Unannotated(w) \/ HasAddress(w)
    \/ TaintAndWatch(w) \/ NodeGone(w) \/ CreateCert(w) \/ DeployController(w)

-----------------------------------------------------------------------------
(* watchDNSTaint                                                           *)

\* The node or its taint is gone: nothing to watch.
NothingToWatch(n) ==
    /\ lookers[n] > 0
    /\ ~node[n].exists \/ ~node[n].taint
    /\ lookers' = [lookers EXCEPT ![n] = @ - 1]
    /\ UNCHANGED <<kube, queue, requeues, work, removers, history, bounds>>

\* Fault: the first lookup is believed, whatever it says.
FoundAnything(n) ==
    /\ lookers[n] > 0
    /\ node[n].exists /\ node[n].taint
    /\ lookers' = [lookers EXCEPT ![n] = @ - 1]
    /\ removers' = [removers EXCEPT ![n] = @ + 1]
    /\ UNCHANGED <<kube, queue, requeues, work, history, bounds>>

\* The lookup succeeds; otherwise the goroutine sleeps and tries again.
FoundRecord(n) ==
    /\ lookers[n] > 0
    /\ node[n].exists /\ node[n].taint
    /\ n \in dns
    /\ lookers' = [lookers EXCEPT ![n] = @ - 1]
    /\ removers' = [removers EXCEPT ![n] = @ + 1]
    /\ UNCHANGED <<kube, queue, requeues, work, history, bounds>>

\* An error that is neither temporary nor NXDOMAIN, or a request that fails,
\* ends the goroutine.
WatcherGivesUp(n) ==
    /\ dnsErrors < MaxDNSErrors
    /\ dnsErrors' = dnsErrors + 1
    /\ \/ lookers[n] > 0 /\ lookers' = [lookers EXCEPT ![n] = @ - 1] /\ UNCHANGED removers
       \/ removers[n] > 0 /\ removers' = [removers EXCEPT ![n] = @ - 1] /\ UNCHANGED lookers
    /\ abandoned' = abandoned \cup {n}
    /\ UNCHANGED <<kube, queue, requeues, work, cut, faults, updates, deletes, crashes>>

\* Take the taint off.
RemoveTaint(n) ==
    /\ removers[n] > 0
    /\ removers' = [removers EXCEPT ![n] = @ - 1]
    /\ node' = IF node[n].exists /\ node[n].taint
                 THEN [node EXCEPT ![n].taint = FALSE, ![n].changed = TRUE]
                 ELSE node
    /\ UNCHANGED <<kind, service, dns, cert, pod, queue, requeues, work, lookers, history,
                   bounds>>

-----------------------------------------------------------------------------
(* Kubernetes, and the world                                               *)

\* The informer tells of a node that has changed in more than its status.
Notify(n) ==
    /\ node[n].exists /\ node[n].changed
    /\ node' = [node EXCEPT ![n].changed = FALSE]
    /\ queue' = Added(queue, n)
    /\ UNCHANGED <<kind, service, dns, cert, pod, requeues, work, watchers, history, bounds>>

NodeUpdated(n) ==
    /\ updates < MaxUpdates
    /\ node[n].exists /\ ~node[n].changed
    /\ \E annotated \in Annotation :
          node' = [node EXCEPT ![n].changed = TRUE, ![n].public = annotated]
    /\ updates' = updates + 1
    /\ UNCHANGED <<kind, service, dns, cert, pod, queue, requeues, work, watchers, history,
                   faults, dnsErrors, deletes, crashes>>

\* A node goes, and the pod on it; its Service and certificate stay.
NodeDeleted(n) ==
    /\ deletes < MaxDeletes
    /\ node[n].exists
    /\ node' = [node EXCEPT ![n] = [exists |-> FALSE, taint |-> FALSE, changed |-> FALSE,
                                     public |-> FALSE]]
    /\ pod' = pod \ {n}
    /\ deletes' = deletes + 1
    /\ UNCHANGED <<kind, service, dns, cert, queue, requeues, work, watchers, history,
                   faults, dnsErrors, updates, crashes>>

\* A node with this name joins.
NodeAdded(n) ==
    /\ ~node[n].exists
    /\ \E annotated \in Annotation :
          node' = [node EXCEPT ![n].exists = TRUE, ![n].changed = TRUE, ![n].public = annotated]
    /\ UNCHANGED <<kind, service, dns, cert, pod, queue, requeues, work, watchers, history, bounds>>

AddressAssigned(n) ==
    /\ service[n] = "pending"
    /\ service' = [service EXCEPT ![n] = "addressed"]
    /\ dns' = IF kind = "ip" THEN dns \cup {n} ELSE dns
    /\ UNCHANGED <<kind, node, cert, pod, queue, requeues, work, watchers, history, bounds>>

DNSAppears(n) ==
    /\ service[n] = "addressed"
    /\ n \notin dns
    /\ dns' = dns \cup {n}
    /\ UNCHANGED <<kind, node, service, cert, pod, queue, requeues, work, watchers,
                   history, bounds>>

\* The cluster controller crashes.  The new one is told of every node.
Crash ==
    /\ crashes < MaxCrashes
    /\ crashes' = crashes + 1
    /\ LET there == {n \in Nodes : node[n].exists} IN
         queue' = [Empty EXCEPT !.waiting = there, !.dirty = there]
    /\ requeues' = [n \in Nodes |-> 0]
    /\ pc' = [w \in Workers |-> "idle"]
    /\ key' = [w \in Workers |-> NoNode]
    /\ fresh' = [w \in Workers |-> FALSE]
    /\ lookers' = [n \in Nodes |-> 0]
    /\ removers' = [n \in Nodes |-> 0]
    /\ node' = [n \in Nodes |-> [node[n] EXCEPT !.changed = FALSE]]
    /\ cut' = cut \cup {n \in Nodes : \E w \in Workers : key[w] = n}
    /\ UNCHANGED <<kind, service, dns, cert, pod, abandoned, faults, dnsErrors, updates, deletes>>

-----------------------------------------------------------------------------
WatcherStep(n) == NothingToWatch(n) \/ FoundRecord(n) \/ RemoveTaint(n)

Next ==
    \/ \E w \in Workers : WorkerStep(w) \/ RequestFails(w)
    \/ \E n \in Nodes :
         \/ DelayOver(n) \/ WatcherStep(n) \/ WatcherGivesUp(n)
         \/ Notify(n) \/ NodeUpdated(n) \/ NodeDeleted(n) \/ NodeAdded(n)
         \/ AddressAssigned(n) \/ DNSAppears(n)
    \/ Crash

Spec == Init /\ [][Next]_vars

\* Workers and goroutines run, the informer delivers, delays end and the cloud
\* assigns addresses and publishes their names in the end.
Fairness ==
    /\ \A w \in Workers : WF_vars(WorkerStep(w))
    /\ \A n \in Nodes :
         /\ WF_vars(DelayOver(n)) /\ WF_vars(Notify(n))
         /\ WF_vars(NothingToWatch(n) \/ FoundRecord(n)) /\ WF_vars(RemoveTaint(n))
         /\ WF_vars(AddressAssigned(n)) /\ WF_vars(DNSAppears(n))

FairSpec == Spec /\ Fairness

-----------------------------------------------------------------------------
(* Properties                                                              *)

NodeStates == [exists : BOOLEAN, taint : BOOLEAN, changed : BOOLEAN, public : BOOLEAN]

TypeOK ==
    /\ node \in [Nodes -> NodeStates]
    /\ kind \in Kinds
    /\ service \in [Nodes -> {"none", "pending", "addressed"}]
    /\ dns \in SUBSET Nodes /\ cert \in SUBSET Nodes /\ pod \in SUBSET Nodes
    /\ queue \in Queues
    /\ requeues \in [Nodes -> 0..MaxRetries]
    /\ pc \in [Workers -> {"idle", "lookup", "service", "address", "taint", "cert", "pod"}]
    /\ key \in [Workers -> Nodes \cup {NoNode}]
    /\ fresh \in [Workers -> BOOLEAN]
    /\ lookers \in [Nodes -> Nat] /\ removers \in [Nodes -> Nat]
    /\ cut \in SUBSET Nodes /\ abandoned \in SUBSET Nodes
    /\ faults \in Nat /\ dnsErrors \in Nat /\ updates \in Nat /\ deletes \in Nat
    /\ crashes \in Nat

\* The work queue hands a node to one worker at a time: deployments of a node
\* never overlap, though it is added again and again.
OneWorkerPerNode ==
    \A v, w \in Workers : key[v] # NoNode /\ key[v] = key[w] => v = w

\* The CLI can rely on a certificate wherever there is a node controller, even
\* if deployments of the node failed, overlapped or were interrupted.
CertBeforePod ==
    \A n \in pod : n \in cert /\ service[n] = "addressed"

\* A node controller that cannot be reached yet has its node tainted, unless a
\* deployment was cut short before it came to the taint, or the node was
\* replaced by another with its name.
UnreachableIsTainted ==
    \A n \in pod : n \notin dns
        => node[n].taint \/ n \in cut \/ deletes > 0

\* What must hold where a node controller runs, whatever was cut short before.
ControllerIsPrepared == CertBeforePod /\ UnreachableIsTainted

\* "We will remove the taint once DNS records for the service are available"
\* (sync.go), unless watchDNSTaint or the retries gave up.
TaintRemoved == \A n \in Nodes : node[n].taint ~> ~node[n].taint \/ n \in abandoned

\* A node gets its node controller, whatever fails on the way, unless all
\* retries are used up or the node is gone.
EventuallyDeployed ==
    \A n \in Nodes : node[n].exists ~> (n \in pod \/ n \in abandoned \/ ~node[n].exists)

=============================================================================
