----------------------------- MODULE StatusWatch ----------------------------
(***************************************************************************)
(* The status watch: the informers of the cluster controller, the Watcher  *)
(* that turns their events into notifications (pkg/kube/watch.go),         *)
(* statusFetcher.Watch and the WatchStatus handler, and the two CLI        *)
(* commands that wait for a status, `blimp up` (cli/up/status.go) and      *)
(* `blimp down` (cli/down/down.go).                                        *)
(*                                                                         *)
(* The namespace, the pods and the events are three sources with a history *)
(* each.  An informer's cache is the version it has got to; its handlers   *)
(* run later.  Get reads the three caches one after the other.  Channels   *)
(* of capacity one hold a notification or not, so notifications coalesce.  *)
(***************************************************************************)
EXTENDS ServiceStatus

CONSTANTS
    PodStates,   \* the pod records of this instance
    PodNext(_),  \* the records that may follow this one; NoPod is one of them
    EventStates, \* the image events of this instance
    InitPods,    \* the pods when the command starts
    MaxBreaks,   \* how often the connection of a watch breaks
    MaxChanges,  \* changes of the three sources together
    MaxInFlight, \* messages a stream holds before Send blocks
    None

Sources == {"ns", "pods", "events"}

ASSUME StatusWatchAssumption ==
    /\ PodStates \subseteq PodRecords /\ NoPod \notin PodStates
    /\ \A p \in PodStates \cup {NoPod} : PodNext(p) \subseteq PodStates \cup {NoPod}
    /\ EventStates \subseteq ImageEvents
    /\ InitPods \subseteq [reservation : BOOLEAN, of : [Services -> PodStates \cup {NoPod}]]
    /\ MaxBreaks \in Nat
    /\ MaxChanges \in Nat
    /\ MaxInFlight \in Nat \ {0}

VARIABLES
    hist,        \* hist[src]: every version the source has had
    cache,       \* cache[src]: the version the informer's store holds
    pending,     \* an informer still has handlers to call.  Which one and how
                 \* often makes no difference: a call only fills channels
    deaf,        \* the store dropped the namespace on a relist: see Relist
    stream,      \* the command's last stream: "unused", "open" or "closed"
    srv,         \* the WatchStatus handler of that stream
    wire,        \* its messages that the client has not received
    cli          \* the command that watches

vars == <<hist, cache, pending, deaf, srv, stream, wire, cli>>
clusterVars == <<hist, cache, pending, deaf>>

Latest(src) == hist[src][Len(hist[src])]
Cached(src) == hist[src][cache[src]]
NoPods == [reservation |-> FALSE, of |-> [s \in Services |-> NoPod]]
AnyPod(pods) == pods # NoPods
Notified == {"ns", "pods"}   \* nothing subscribes to the events informer

\* The status that these versions of the sources make.
Picture(v) == Get(hist["ns"][v["ns"]], hist["pods"][v["pods"]], hist["events"][v["events"]])

NoRead == [s \in Sources |-> 0]
Idle == [pc |-> "idle", sub |-> FALSE, trig |-> FALSE, got |-> NoRead]

\* `blimp up` starts to watch when it has deployed, `blimp down` when
\* DeleteSandbox has asked for the deletion of the namespace.
Init ==
    /\ \E pods \in InitPods, kind \in {"up", "down"} :
         /\ hist = [ns     |-> IF kind = "up" THEN <<"Active">> ELSE <<"Active", "Terminating">>,
                    pods   |-> <<pods>>,
                    events |-> <<{}>>]
         /\ cli = [kind |-> kind, pc |-> "off", breaks |-> 0, seen |-> NoRead, shown |-> None]
    /\ cache = [s \in Sources |-> 1]
    /\ pending = FALSE
    /\ deaf = FALSE
    /\ srv = Idle
    /\ stream = "unused"
    /\ wire = <<>>

-----------------------------------------------------------------------------
(* The sandbox                                                             *)

\* Changes are counted, and of interest while the command runs.
Following == cli.pc \in {"watching", "retry"}
MayChange ==
    /\ Len(hist["ns"]) + Len(hist["pods"]) + Len(hist["events"])
         < MaxChanges + (IF cli.kind = "up" THEN 3 ELSE 4)
    /\ Following

NewVersion(src, v) ==
    /\ MayChange
    /\ hist' = [hist EXCEPT ![src] = Append(@, v)]
    /\ UNCHANGED <<cache, pending, deaf, srv, stream, wire, cli>>

\* Another `blimp down` starts the deletion, Kubernetes ends it once the pods are gone,
\* and a later `blimp up` makes the namespace anew.
NamespaceChanges ==
    \/ Latest("ns") = "Active" /\ NewVersion("ns", "Terminating")
    \/ Latest("ns") = "Terminating" /\ ~AnyPod(Latest("pods")) /\ NewVersion("ns", "gone")
    \/ Latest("ns") = "gone" /\ NewVersion("ns", "Active")

\* A pod moves on, is deleted or is created; the reservation pod is deleted.
PodChanges ==
    /\ Latest("ns") = "Active"
    /\ LET pods == Latest("pods") IN
       \/ /\ pods.reservation
          /\ NewVersion("pods", [pods EXCEPT !.reservation = FALSE])
       \/ \E s \in Services : \E p \in PodNext(pods.of[s]) :
            NewVersion("pods", [pods EXCEPT !.of[s] = p])

\* The deletion of the namespace deletes its pods.
PodsDeleted ==
    /\ Latest("ns") = "Terminating"
    /\ AnyPod(Latest("pods"))
    /\ NewVersion("pods", NoPods)

\* The kubelet reports that it pulls, or has pulled, an image.  An event is in
\* the controller's store at once: before that it concerns nobody.
EventRecorded ==
    /\ Latest("ns") # "gone"
    /\ MayChange
    /\ \E event \in EventStates \ Latest("events") :
         /\ \A e \in Latest("events") : e.at <= event.at
         /\ hist' = [hist EXCEPT !["events"] = Append(@, Latest("events") \cup {event})]
    /\ cache' = [cache EXCEPT !["events"] = @ + 1]
    /\ UNCHANGED <<pending, deaf, srv, stream, wire, cli>>

-----------------------------------------------------------------------------
(* Informers and Watcher                                                   *)

Subscribed == srv.pc \notin {"idle", "ended"}

\* Objects of a source that the store holds in version v.
HasObjects(src, v) ==
    \/ src = "ns" /\ v # "gone"
    \/ src = "pods" /\ AnyPod(v)

\* Fault: the deletion of an object is not reported.
ApplySilentDelete(src) ==
    /\ cache[src] < Len(hist[src])
    /\ cache' = [cache EXCEPT ![src] = @ + 1]
    /\ pending' = (pending \/ HasObjects(src, hist[src][cache[src] + 1]))
    /\ deaf' = (deaf /\ src # "ns")
    /\ UNCHANGED <<hist, srv, stream, wire, cli>>

\* A watch event: the store is updated, and then the handler will be called.
Apply(src) ==
    /\ cache[src] < Len(hist[src])
    /\ cache' = [cache EXCEPT ![src] = @ + 1]
    /\ pending' = TRUE
    /\ deaf' = (deaf /\ src # "ns")
    /\ UNCHANGED <<hist, srv, stream, wire, cli>>

\* The informer's watch broke and it lists again.  Objects that are there are
\* reported as updates; for those that are gone the handler gets a tombstone,
\* in which notifySubscribers finds no object and gives up.
Relist(src) ==
    /\ cache[src] < Len(hist[src])
    /\ cache' = [cache EXCEPT ![src] = Len(hist[src])]
    /\ pending' = (pending \/ HasObjects(src, Latest(src)))
    /\ deaf' = IF src = "ns" THEN Latest("ns") = "gone" ELSE deaf
    /\ UNCHANGED <<hist, srv, stream, wire, cli>>

\* Every 30 seconds the informer reports the objects in its store as updated;
\* it matters when somebody is subscribed.
Resync(src) ==
    /\ Subscribed /\ ~pending
    /\ HasObjects(src, Cached(src))
    /\ pending' = TRUE
    /\ UNCHANGED <<hist, cache, deaf, srv, stream, wire, cli>>

\* notifySubscribers: a send that does not block to every subscriber.
notifySubscribers ==
    /\ pending
    /\ pending' = FALSE
    /\ srv' = [srv EXCEPT !.sub = Subscribed]
    /\ UNCHANGED <<hist, cache, deaf, stream, wire, cli>>

-----------------------------------------------------------------------------
(* The WatchStatus handler                                                 *)

Server(s) == srv' = s /\ UNCHANGED <<clusterVars, cli>>

\* The handler subscribes before it gets the first status.
Subscribe ==
    /\ srv.pc = "idle" /\ stream # "unused"
    /\ Server([srv EXCEPT !.pc = "namespace"])
    /\ UNCHANGED <<stream, wire>>

\* Fault: trig has no buffer, and a send that would block is given up.
ForwardOnlyWhenAwaited ==
    /\ Subscribed /\ srv.sub
    /\ Server([srv EXCEPT !.sub = FALSE, !.trig = srv.pc = "wait"])
    /\ UNCHANGED <<stream, wire>>

\* The goroutine of statusFetcher.Watch forwards both subscriptions to trig.
Forward ==
    /\ Subscribed /\ srv.sub
    /\ Server([srv EXCEPT !.sub = FALSE, !.trig = TRUE])
    /\ UNCHANGED <<stream, wire>>

\* Get, first part: the namespace.  If it is gone or terminating Get returns,
\* and what the other stores hold does not matter.
GetNamespace ==
    /\ srv.pc = "namespace"
    /\ IF ReadsPods(Cached("ns"))
         THEN Server([srv EXCEPT !.pc = "pods", !.got = [NoRead EXCEPT !["ns"] = cache["ns"]]])
         ELSE Server([srv EXCEPT !.pc = "send", !.got = cache])
    /\ UNCHANGED <<stream, wire>>

\* Get, second part: the pods, and the events of their images.
GetPods ==
    /\ srv.pc = "pods"
    /\ Server([srv EXCEPT !.pc = "send", !.got = [cache EXCEPT !["ns"] = srv.got["ns"]]])
    /\ UNCHANGED <<stream, wire>>

\* Fault: the error of Send is ignored.
SendIgnoresError ==
    /\ srv.pc = "send"
    /\ \/ stream = "open" /\ Len(wire) < MaxInFlight /\ wire' = Append(wire, srv.got)
       \/ stream = "closed" /\ UNCHANGED wire
    /\ Server([srv EXCEPT !.pc = "wait", !.got = NoRead])
    /\ UNCHANGED stream

\* Send, after which the handler waits for trig; it returns, and cancels its
\* subscriptions, if the stream is closed.
Send ==
    /\ srv.pc = "send"
    /\ \/ /\ stream = "open" /\ Len(wire) < MaxInFlight
          /\ Server([srv EXCEPT !.pc = "wait", !.got = NoRead])
          /\ wire' = Append(wire, srv.got)
       \/ /\ stream = "closed"
          /\ Server([Idle EXCEPT !.pc = "ended"])
          /\ UNCHANGED wire
    /\ UNCHANGED stream

\* <-trig, whatever has become of the stream.
Triggered ==
    /\ srv.pc = "wait" /\ srv.trig
    /\ Server([srv EXCEPT !.pc = "namespace", !.trig = FALSE])
    /\ UNCHANGED <<stream, wire>>

-----------------------------------------------------------------------------
(* The commands                                                            *)

Client(c) == cli' = c /\ UNCHANGED <<clusterVars, srv>>

StartWatch ==
    /\ cli.pc = "off"
    /\ Client([cli EXCEPT !.pc = "watching"])
    /\ stream' = "open"
    /\ UNCHANGED wire

\* A message: `blimp up` keeps it, `blimp down` returns if the sandbox is gone.
Recv ==
    LET v == Head(wire)
        gone == cli.kind = "down" /\ Picture(v).phase = "DOES_NOT_EXIST"
    IN  /\ cli.pc = "watching" /\ wire # <<>>
        /\ Client([cli EXCEPT !.seen = v, !.shown = Picture(v),
                              !.pc = IF gone THEN "done" ELSE @])
        /\ wire' = Tail(wire)
        /\ stream' = IF gone THEN "closed" ELSE stream

\* statusPrinter.Run finds every service booted, and stops the watch; or the
\* user interrupts it.
UpEnds ==
    /\ cli.kind = "up" /\ cli.pc \in {"watching", "retry"}
    /\ \/ /\ cli.shown # None /\ \A s \in Services : Booted(cli.shown.services, s)
          /\ Client([cli EXCEPT !.pc = "ready"])
       \/ Client([cli EXCEPT !.pc = "interrupted"])
    /\ stream' = "closed"
    /\ UNCHANGED wire

\* The connection breaks; messages on their way may be lost.
Break ==
    /\ cli.pc = "watching" /\ stream = "open"
    /\ cli.breaks < MaxBreaks
    /\ Client([cli EXCEPT !.breaks = @ + 1])
    /\ stream' = "closed"
    /\ wire' \in {wire, <<>>}

\* Recv's error: `blimp up` tries again after 5 seconds, `blimp down` fails.
RecvError ==
    /\ cli.pc = "watching" /\ stream = "closed" /\ wire = <<>>
    /\ Client([cli EXCEPT !.pc = IF cli.kind = "up" THEN "retry" ELSE "failed"])
    /\ UNCHANGED <<stream, wire>>

\* The new stream has a handler of its own; the old one has nothing to do with
\* the client any more, and is followed only while there is no new one.
Rewatch ==
    /\ cli.pc = "retry"
    /\ cli' = [cli EXCEPT !.pc = "watching"]
    /\ stream' = "open"
    /\ srv' = Idle
    /\ wire' = <<>>
    /\ UNCHANGED clusterVars

-----------------------------------------------------------------------------

Handler ==
    \/ Subscribe \/ Forward
    \/ GetNamespace \/ GetPods
    \/ Send \/ Triggered

Next ==
    \/ NamespaceChanges \/ PodChanges \/ PodsDeleted \/ EventRecorded
    \/ \E src \in Notified : Apply(src) \/ Relist(src) \/ Resync(src)
    \/ notifySubscribers
    \/ Handler
    \/ StartWatch \/ Recv \/ UpEnds \/ Break \/ RecvError \/ Rewatch

Spec == Init /\ [][Next]_vars

\* The informers deliver what happened and resync, handlers and goroutines run,
\* and the client receives.  Nothing is assumed of the cluster or of the user.
Fairness ==
    /\ \A src \in Notified : WF_vars(Apply(src)) /\ WF_vars(Resync(src))
    /\ WF_vars(notifySubscribers)
    /\ WF_vars(Subscribe) /\ WF_vars(Forward) /\ WF_vars(GetNamespace)
    /\ WF_vars(GetPods) /\ WF_vars(Send) /\ WF_vars(Triggered)
    /\ WF_vars(Recv) /\ WF_vars(RecvError) /\ WF_vars(Rewatch)

FairSpec == Spec /\ Fairness

-----------------------------------------------------------------------------
(* Properties                                                              *)

ServiceStatuses ==
    [phase : {"INITIALIZING_VOLUMES", "WAIT_DEPENDS_ON", "WAIT_SYNC_BIND", "PENDING", "UNHEALTHY",
              "RUNNING", "EXITED", "UNSCHEDULABLE", "UNKNOWN"},
     msg : {"none", "pulling", "pullFailure", "clusterError", "systemError", "reason"},
     hasStarted : BOOLEAN]

SandboxPictures ==
    [phase : {"DOES_NOT_EXIST", "TERMINATING", "PREPARING", "RUNNING"},
     services : UNION {[S -> ServiceStatuses] : S \in SUBSET Services}]

\* The feed that the watch implements: the versions are those of the histories,
\* the client's picture is the last message it received.
Feed == INSTANCE StatusFeed WITH
    Pictures  <- SandboxPictures,
    Nothing   <- None,
    version   <- [s \in Sources |-> Len(hist[s])],
    truth     <- Picture([s \in Sources |-> Len(hist[s])]),
    seen      <- cli.seen,
    shown     <- cli.shown,
    following <- Following

\* The safety of StatusFeed: what a client is shown was so, and never goes back in
\* time, in no part of it and not across a reconnection.
NeverGoesBack == Feed!SafeSpec

\* WatchStatus implements StatusFeed: what a client is shown never goes back in
\* time, also across a reconnection, and although notifications coalesce and
\* Get reads three stores one after the other, a client that keeps following is
\* shown the status as it is in the end -- unless the namespace's deletion
\* reached the controller as a tombstone only.
ImplementsFeed == NeverGoesBack /\ Feed!Settles

\* `blimp down` returns once the namespace is gone: the deletion that it waits
\* for is reported to it, unless the controller is deaf to it or the next
\* `blimp up` made the namespace anew before the status was read.
DownReturns ==
    (cli.kind = "down" /\ cli.pc = "watching" /\ Latest("ns") = "gone")
        ~> (cli.pc # "watching" \/ deaf \/ Latest("ns") # "gone")

\* The handler of a stream that was closed ends, with its subscriptions, as long
\* as the sandbox exists.  It notices at its next Send only and waits for trig
\* without a look at the stream, so it is the resync of the informers that ends
\* it; the handler of a client that left a deleted sandbox stays for ever.
HandlerEnds ==
    (stream = "closed" /\ Subscribed)
        ~> (srv.pc = "ended" \/ stream = "open" \/ Latest("ns") = "gone")

\* `blimp up` says that all containers have started only if the container of
\* each service did run, in the pods of which it was told.  The exception is a
\* pod that failed before its containers were created: getServiceStatus falls
\* back on the phase of the pod and calls it exited.
ReadyMeansRan ==
    cli.pc = "ready" =>
        \A s \in Services :
            LET pod == hist["pods"][cli.seen["pods"]].of[s]
            IN  pod # NoPod /\ (pod.ran \/ (pod.phase = "Failed" /\ pod.container = NoContainer))

\* Type of the state.
TypeOK ==
    /\ \A s \in Sources : cache[s] \in 1..Len(hist[s])
    /\ pending \in BOOLEAN /\ deaf \in BOOLEAN
    /\ srv \in [pc : {"idle", "namespace", "pods", "send", "wait", "ended"},
                sub : BOOLEAN, trig : BOOLEAN, got : [Sources -> Nat]]
    /\ stream \in {"unused", "open", "closed"}
    /\ Len(wire) <= MaxInFlight
    /\ cli.pc \in {"off", "watching", "retry", "ready", "interrupted", "done", "failed"}

=============================================================================
