------------------------- MODULE StatusWatchProofs -------------------------
(***************************************************************************)
(* Proofs that a client of WatchStatus is never shown an older picture     *)
(* than the one it has, for any pods, changes, broken streams and messages *)
(* in flight, and that `blimp up` is not told that a container has started *)
(* when it has not.                                                        *)
(***************************************************************************)
EXTENDS StatusWatch, SequenceTheorems, WellFoundedInduction, TLAPS

-----------------------------------------------------------------------------
(* What a service's status can be                                          *)

\* A set of natural numbers that is not empty has a least member.
LEMMA LeastMember ==
  ASSUME NEW I \in SUBSET Nat, I # {}
  PROVE  Min(I) \in I
<1>1. PICK x \in I : \A y \in I : ~ (<<y, x>> \in OpToRel(<, Nat))
  BY WFMin, NatLessThanWellFounded
<1>2. \A y \in I : ~ (y < x)
  BY <1>1 DEF OpToRel
<1>3. \A y \in I : x =< y
  BY <1>2
<1> QED
  BY <1>3 DEF Min

\* PendingInit is the place of an init container, or 0.
LEMMA PendingIsInit ==
  ASSUME NEW pod \in PodRecords
  PROVE  PendingInit(pod) = 0 \/ PendingInit(pod) \in 1..Len(pod.init)
<1> DEFINE I == {i \in 1..Len(pod.init) : pod.init[i].state # "completed"}
<1>1. PendingInit(pod) = IF I # {} THEN Min(I) ELSE 0
  BY DEF PendingInit, SelectInSeq
<1>2. I \in SUBSET Nat /\ I \subseteq 1..Len(pod.init)
  BY DEF PodRecords
<1> HIDE DEF I
<1>3. I # {} => Min(I) \in I
  BY <1>2, LeastMember
<1> QED
  BY <1>1, <1>2, <1>3

\* getServiceStatus answers with a status.
LEMMA StatusShape ==
  ASSUME NEW pod \in PodRecords, NEW svc, NEW events
  PROVE  getServiceStatus(pod, svc, events) \in ServiceStatuses
<1>1. CASE PendingInit(pod) # 0
  <2>1. pod.init[PendingInit(pod)] \in InitContainers
    BY <1>1, PendingIsInit DEF PodRecords
  <2>2. ASSUME NEW c \in InitContainers
        PROVE  InitStatus(c, svc, events) \in ServiceStatuses
    BY <2>2 DEF InitStatus, InitContainers, InitNames, InitPhase, ClusterError, Status,
                ServiceStatuses
  <2> QED
    BY <1>1, <2>1, <2>2 DEF getServiceStatus
<1>2. CASE PendingInit(pod) = 0 /\ pod.container # NoContainer
  <2>1. pod.container \in Containers \ {NoContainer}
    BY <1>2 DEF PodRecords
  <2>2. ContainerStatus(pod.container, svc, events) \in ServiceStatuses
    BY <2>1 DEF ContainerStatus, Containers, Waiting, ClusterError, Status, ServiceStatuses
  <2> QED
    BY <1>2, <2>2 DEF getServiceStatus
<1>3. CASE PendingInit(pod) = 0 /\ pod.container = NoContainer
  <2>1. PhaseStatus(pod.phase) \in ServiceStatuses
    BY DEF PhaseStatus, PodRecords, Status, ServiceStatuses
  <2>2. Status("UNSCHEDULABLE", "none", FALSE) \in ServiceStatuses
    BY DEF Status, ServiceStatuses
  <2> QED
    BY <1>3, <2>1, <2>2 DEF getServiceStatus
<1> QED
  BY <1>1, <1>2, <1>3

\* A container that is said to have started has, unless its pod failed before.
LEMMA StartedHasRun ==
  ASSUME NEW pod \in PodRecords, NEW svc, NEW events,
         getServiceStatus(pod, svc, events).hasStarted
  PROVE  pod.ran \/ (pod.phase = "Failed" /\ pod.container = NoContainer)
<1>1. CASE PendingInit(pod) # 0
  <2>1. pod.init[PendingInit(pod)] \in InitContainers
    BY <1>1, PendingIsInit DEF PodRecords
  <2>2. ASSUME NEW c \in InitContainers
        PROVE  InitStatus(c, svc, events).hasStarted = FALSE
    BY <2>2 DEF InitStatus, InitContainers, InitNames, InitPhase, ClusterError, Status
  <2> QED
    BY <1>1, <2>1, <2>2 DEF getServiceStatus
<1>2. CASE PendingInit(pod) = 0 /\ pod.container # NoContainer
  <2>1. pod.container \in Containers \ {NoContainer}
    BY <1>2 DEF PodRecords
  <2>2. ContainerStatus(pod.container, svc, events).hasStarted
    BY <1>2 DEF getServiceStatus
  <2>3. pod.container.state \in {"running", "terminated"} \/ pod.container.restarted
    BY <2>1, <2>2 DEF ContainerStatus, Containers, Waiting, ClusterError, Status
  <2> QED
    BY <2>3 DEF PodRecords
<1>3. CASE PendingInit(pod) = 0 /\ pod.container = NoContainer
  <2>1. PhaseStatus(pod.phase).hasStarted
    BY <1>3 DEF getServiceStatus, Status
  <2>2. pod.phase \in {"Running", "Succeeded", "Failed"}
    BY <2>1 DEF PhaseStatus, PodRecords, Status
  <2> QED
    BY <1>3, <2>2 DEF PodRecords
<1> QED
  BY <1>1, <1>2, <1>3

-----------------------------------------------------------------------------
(* The inductive invariant                                                 *)

PodSets == [reservation : BOOLEAN, of : [Services -> PodStates \cup {NoPod}]]

\* What a version of a source can be.
Versions(src) ==
    IF src = "ns" THEN {"Active", "Terminating", "gone"}
    ELSE IF src = "pods" THEN PodSets ELSE SUBSET EventStates

\* Every source has a history, and an informer is somewhere in it.
HistInv ==
    /\ DOMAIN hist = Sources
    /\ \A src \in Sources : hist[src] \in Seq(Versions(src)) /\ hist[src] # <<>>
    /\ cache \in [Sources -> Nat]
    /\ \A src \in Sources : 1 <= cache[src] /\ cache[src] <= Len(hist[src])

ShapeInv ==
    /\ pending \in BOOLEAN /\ deaf \in BOOLEAN
    /\ srv \in [pc : {"idle", "namespace", "pods", "send", "wait", "ended"},
                sub : BOOLEAN, trig : BOOLEAN, got : [Sources -> Nat]]
    /\ stream \in {"unused", "open", "closed"}
    /\ wire \in Seq([Sources -> Nat]) /\ Len(wire) <= MaxInFlight
    /\ DOMAIN cli = {"kind", "pc", "breaks", "seen", "shown"}
    /\ cli.pc \in {"off", "watching", "retry", "ready", "interrupted", "done", "failed"}
    /\ cli.seen \in [Sources -> Nat]

\* v is made of versions that the informers have got to, and is not older than w.
Read(v) == \A src \in Sources : 1 <= v[src] /\ v[src] <= cache[src]
NotOlder(v, w) == \A src \in Sources : w[src] <= v[src]

\* What is under way to the client was read, in this order, after what it has seen.
WireInv ==
    /\ \A i \in 1..Len(wire) : Read(wire[i]) /\ NotOlder(wire[i], cli.seen)
    /\ \A i, j \in 1..Len(wire) : i <= j => NotOlder(wire[j], wire[i])

\* So was what the handler holds.
GotInv ==
    /\ srv.pc = "send" =>
          /\ Read(srv.got) /\ NotOlder(srv.got, cli.seen)
          /\ \A i \in 1..Len(wire) : NotOlder(srv.got, wire[i])
    /\ srv.pc = "pods" =>
          /\ 1 <= srv.got["ns"] /\ srv.got["ns"] <= cache["ns"]
          /\ cli.seen["ns"] <= srv.got["ns"]
          /\ \A i \in 1..Len(wire) : wire[i]["ns"] <= srv.got["ns"]

\* The client's picture is that of what it has seen.
ShownInv ==
    /\ NotOlder(cache, cli.seen)
    /\ \/ cli.seen = NoRead /\ cli.shown = None /\ cli.pc # "ready"
       \/ Read(cli.seen) /\ cli.shown = Picture(cli.seen)
    /\ cli.pc = "ready" => \A s \in Services : Booted(cli.shown.services, s)

WatchInv == HistInv /\ ShapeInv /\ WireInv /\ GotInv /\ ShownInv

\* Histories only get longer, and informers do not go back.
Grows ==
    \A src \in Sources :
        /\ cache[src] <= cache'[src]
        /\ Len(hist[src]) <= Len(hist'[src])
        /\ \A i \in 1..Len(hist[src]) : hist'[src][i] = hist[src][i]

-----------------------------------------------------------------------------
(* The histories                                                           *)

\* A new version at the end of one history.
LEMMA NewVersionGrows ==
  ASSUME HistInv, NEW src \in Sources, NEW v \in Versions(src),
         hist' = [hist EXCEPT ![src] = Append(@, v)],
         cache' = cache \/ cache' = [cache EXCEPT ![src] = @ + 1]
  PROVE  HistInv' /\ Grows
<1> DEFINE old == hist[src]
           new == Append(old, v)
<1>1. /\ old \in Seq(Versions(src)) /\ Len(old) \in Nat
      /\ \A s \in Sources : Len(hist[s]) \in Nat
  BY DEF HistInv
<1>2. /\ new \in Seq(Versions(src)) /\ new # <<>> /\ Len(new) = Len(old) + 1
      /\ \A i \in 1..Len(old) : new[i] = old[i]
  <2> HIDE DEF old
  <2>1. \A i \in 1..Len(old) : i \in 1..(Len(old) + 1) /\ i # Len(old) + 1
    BY <1>1
  <2>2. new \in Seq(Versions(src)) /\ Len(new) = Len(old) + 1
    BY <1>1
  <2>3. \A i \in 1..Len(old) : new[i] = old[i]
    BY <1>1, <2>1
  <2>4. new # <<>>
    BY <1>1, <2>2
  <2> QED
    BY <2>2, <2>3, <2>4
<1>3. DOMAIN hist' = Sources /\ \A s \in Sources : hist'[s] = IF s = src THEN new ELSE hist[s]
  BY DEF HistInv
<1> HIDE DEF new
<1>4. \A s \in Sources : hist'[s] \in Seq(Versions(s)) /\ hist'[s] # <<>>
  BY <1>2, <1>3 DEF HistInv
<1>5. \A s \in Sources : /\ Len(hist[s]) <= Len(hist'[s])
                         /\ \A i \in 1..Len(hist[s]) : hist'[s][i] = hist[s][i]
  BY <1>1, <1>2, <1>3
<1>6. cache' \in [Sources -> Nat]
  BY DEF HistInv
<1>7. \A s \in Sources : /\ cache[s] <= cache'[s] /\ 1 <= cache'[s]
                         /\ cache'[s] <= Len(hist'[s])
  <2> SUFFICES ASSUME NEW s \in Sources
               PROVE  /\ cache[s] <= cache'[s] /\ 1 <= cache'[s]
                      /\ cache'[s] <= Len(hist'[s])
    OBVIOUS
  <2>1. /\ cache[s] \in Nat /\ 1 <= cache[s] /\ cache[s] <= Len(hist[s])
        /\ Len(hist[s]) \in Nat /\ Len(hist[s]) <= Len(hist'[s])
    BY <1>1, <1>5 DEF HistInv
  <2>2. CASE cache'[s] = cache[s]
    BY <2>1, <2>2, <1>1, <1>2, <1>3
  <2>3. CASE s = src /\ cache'[s] = cache[s] + 1
    BY <2>1, <2>3, <1>2, <1>3
  <2>4. cache'[s] = cache[s] \/ (s = src /\ cache'[s] = cache[s] + 1)
    BY DEF HistInv
  <2> QED
    BY <2>2, <2>3, <2>4
<1> QED
  BY <1>3, <1>4, <1>5, <1>6, <1>7 DEF HistInv, Grows

\* An informer moves on in a history.
LEMMA CacheGrows ==
  ASSUME HistInv, NEW src \in Sources, NEW n \in Nat,
         cache[src] <= n, n <= Len(hist[src]),
         cache' = [cache EXCEPT ![src] = n], hist' = hist
  PROVE  HistInv' /\ Grows
<1>1. \A s \in Sources : cache[s] \in Nat /\ 1 <= cache[s] /\ Len(hist[s]) \in Nat
  BY DEF HistInv
<1>2. cache' \in [Sources -> Nat] /\ \A s \in Sources : cache'[s] = IF s = src THEN n ELSE cache[s]
  BY DEF HistInv
<1>3. \A s \in Sources : cache[s] <= cache'[s] /\ 1 <= cache'[s] /\ cache'[s] <= Len(hist[s])
  BY <1>1, <1>2 DEF HistInv
<1> QED
  BY <1>1, <1>2, <1>3 DEF HistInv, Grows

LEMMA Stays ==
  ASSUME HistInv, UNCHANGED <<hist, cache>>
  PROVE  HistInv' /\ Grows
<1>1. \A s \in Sources : cache[s] \in Nat /\ Len(hist[s]) \in Nat
  BY DEF HistInv
<1> QED
  BY <1>1 DEF HistInv, Grows

\* The last version of a source is one.
LEMMA LatestShape ==
  ASSUME HistInv, NEW src \in Sources
  PROVE  Latest(src) \in Versions(src)
BY DEF HistInv, Latest

\* The sandbox changes.
LEMMA SandboxChanges ==
  ASSUME HistInv, NamespaceChanges \/ PodChanges \/ PodsDeleted \/ EventRecorded
  PROVE  /\ HistInv' /\ Grows
         /\ UNCHANGED <<pending, deaf, srv, stream, wire, cli>> /\ Following
         /\ \E src \in Sources : \E v : hist' = [hist EXCEPT ![src] = Append(@, v)]
<1> USE StatusWatchAssumption
<1>0. "ns" \in Sources /\ "pods" \in Sources /\ "events" \in Sources
  BY DEF Sources
<1>1. ASSUME NEW src \in Sources, NEW v \in Versions(src), NewVersion(src, v)
      PROVE  /\ HistInv' /\ Grows
             /\ UNCHANGED <<pending, deaf, srv, stream, wire, cli>> /\ Following
             /\ \E x \in Sources : \E y : hist' = [hist EXCEPT ![x] = Append(@, y)]
  BY <1>1, NewVersionGrows DEF NewVersion, MayChange
<1>2. CASE NamespaceChanges
  <2>1. \E v \in Versions("ns") : NewVersion("ns", v)
    BY <1>2 DEF NamespaceChanges, Versions
  <2> QED
    BY <1>0, <1>1, <2>1
<1>3. CASE PodChanges
  <2>1. Latest("pods") \in PodSets
    BY <1>0, LatestShape DEF Versions
  <2>2. CASE NewVersion("pods", [Latest("pods") EXCEPT !.reservation = FALSE])
    <3>1. [Latest("pods") EXCEPT !.reservation = FALSE] \in Versions("pods")
      BY <2>1 DEF PodSets, Versions
    <3> QED
      BY <1>0, <1>1, <2>2, <3>1
  <2>3. ASSUME NEW s \in Services, NEW p \in PodNext(Latest("pods").of[s]),
               NewVersion("pods", [Latest("pods") EXCEPT !.of[s] = p])
        PROVE  \E v \in Versions("pods") : NewVersion("pods", v)
    <3>1. Latest("pods").of[s] \in PodStates \cup {NoPod}
      BY <2>1 DEF PodSets
    <3>2. p \in PodStates \cup {NoPod}
      BY <3>1
    <3>3. [Latest("pods") EXCEPT !.of[s] = p] \in PodSets
      BY <2>1, <3>2 DEF PodSets
    <3> QED
      BY <2>3, <3>3 DEF Versions
  <2> QED
    BY <1>0, <1>1, <1>3, <2>2, <2>3 DEF PodChanges
<1>4. CASE PodsDeleted
  <2>1. NoPods \in Versions("pods")
    BY DEF NoPods, Versions, PodSets
  <2> QED
    BY <1>0, <1>1, <1>4, <2>1 DEF PodsDeleted
<1>5. CASE EventRecorded
  <2>1. PICK event \in EventStates :
          hist' = [hist EXCEPT !["events"] = Append(@, Latest("events") \cup {event})]
    BY <1>5 DEF EventRecorded
  <2>2. Latest("events") \cup {event} \in Versions("events")
    BY <1>0, LatestShape DEF Versions
  <2>3. cache' = [cache EXCEPT !["events"] = @ + 1] /\ Following
        /\ UNCHANGED <<pending, deaf, srv, stream, wire, cli>>
    BY <1>5 DEF EventRecorded, MayChange
  <2> QED
    BY <1>0, <2>1, <2>2, <2>3, NewVersionGrows
<1> QED
  BY <1>2, <1>3, <1>4, <1>5

\* The informers and the Watcher.
LEMMA InformerSteps ==
  ASSUME HistInv, ShapeInv, NEW src \in Notified,
         Apply(src) \/ Relist(src) \/ Resync(src) \/ notifySubscribers
  PROVE  /\ HistInv' /\ Grows /\ ShapeInv'
         /\ UNCHANGED <<hist, stream, wire, cli>>
         /\ srv'.pc = srv.pc /\ srv'.got = srv.got
<1>0. src \in Sources /\ cache[src] \in Nat /\ Len(hist[src]) \in Nat
  BY DEF Notified, Sources, HistInv
<1>1. CASE Apply(src)
  <2>1. /\ cache[src] < Len(hist[src]) /\ cache' = [cache EXCEPT ![src] = cache[src] + 1]
        /\ UNCHANGED <<hist, srv, stream, wire, cli>> /\ pending' \in BOOLEAN /\ deaf' \in BOOLEAN
    BY <1>1 DEF Apply, ShapeInv
  <2>2. cache[src] <= cache[src] + 1 /\ cache[src] + 1 <= Len(hist[src]) /\ cache[src] + 1 \in Nat
    BY <1>0, <2>1
  <2>3. HistInv' /\ Grows
    BY <1>0, <2>1, <2>2, CacheGrows
  <2> QED
    BY <2>1, <2>3 DEF ShapeInv
<1>2. CASE Relist(src)
  <2>1. /\ cache[src] < Len(hist[src]) /\ cache' = [cache EXCEPT ![src] = Len(hist[src])]
        /\ UNCHANGED <<hist, srv, stream, wire, cli>>
    BY <1>2 DEF Relist
  <2>2. pending' \in BOOLEAN /\ deaf' \in BOOLEAN
    BY <1>2 DEF Relist, ShapeInv
  <2>3. cache[src] <= Len(hist[src]) /\ Len(hist[src]) <= Len(hist[src])
    BY <1>0, <2>1
  <2>4. HistInv' /\ Grows
    BY <1>0, <2>1, <2>3, CacheGrows
  <2> QED
    BY <2>1, <2>2, <2>4 DEF ShapeInv
<1>3. CASE Resync(src)
  <2>1. UNCHANGED <<hist, cache, deaf, srv, stream, wire, cli>> /\ pending' \in BOOLEAN
    BY <1>3 DEF Resync
  <2> QED
    BY <2>1, Stays DEF ShapeInv
<1>4. CASE notifySubscribers
  <2>1. UNCHANGED <<hist, cache, deaf, stream, wire, cli>> /\ pending' = FALSE
        /\ srv' = [srv EXCEPT !.sub = Subscribed] /\ Subscribed \in BOOLEAN
    BY <1>4 DEF notifySubscribers, Subscribed
  <2> HIDE DEF Subscribed
  <2>2. srv'.pc = srv.pc /\ srv'.got = srv.got
    BY <2>1 DEF ShapeInv
  <2>3. ShapeInv'
    BY <2>1 DEF ShapeInv
  <2> QED
    BY <2>1, <2>2, <2>3, Stays
<1> QED
  BY <1>1, <1>2, <1>3, <1>4

-----------------------------------------------------------------------------
(* What a client holds stays true                                          *)

\* The picture of versions that were read is not changed by later ones.
LEMMA PictureStays ==
  ASSUME HistInv, Grows, NEW v, v \in [Sources -> Nat], Read(v)
  PROVE  Get(hist'["ns"][v["ns"]], hist'["pods"][v["pods"]], hist'["events"][v["events"]])
           = Picture(v)
<1>1. ASSUME NEW src \in Sources PROVE hist'[src][v[src]] = hist[src][v[src]]
  <2>1. v[src] \in Nat /\ cache[src] \in Nat /\ Len(hist[src]) \in Nat
    BY DEF HistInv
  <2>2. v[src] \in 1..Len(hist[src])
    BY <2>1 DEF HistInv, Read
  <2> QED
    BY <2>2 DEF Grows
<1> QED
  BY <1>1 DEF Picture, Sources

\* What was read is not newer than the caches, also when these move on.
LEMMA ReadStays ==
  ASSUME HistInv, HistInv', Grows, NEW v, v \in [Sources -> Nat], NotOlder(cache, v)
  PROVE  /\ \A src \in Sources : v[src] <= cache'[src]
         /\ Read(v) => \A src \in Sources : 1 <= v[src] /\ v[src] <= cache'[src]
<1>1. \A src \in Sources : /\ v[src] \in Nat /\ cache[src] \in Nat /\ cache'[src] \in Nat
                           /\ v[src] <= cache[src] /\ cache[src] <= cache'[src]
  BY DEF HistInv, NotOlder, Grows
<1>2. \A src \in Sources : v[src] <= cache'[src]
  BY <1>1
<1> QED
  BY <1>2 DEF Read

\* The client and the messages on their way to it do not change.
LEMMA ClientStays ==
  ASSUME WatchInv, HistInv', Grows, UNCHANGED <<wire, cli>>
  PROVE  WireInv' /\ ShownInv'
<1>1. \A i \in 1..Len(wire) : wire[i] \in [Sources -> Nat]
  BY DEF WatchInv, ShapeInv
<1>2. \A i \in 1..Len(wire) : NotOlder(cache, wire[i])
  BY DEF WatchInv, WireInv, Read, NotOlder
<1>3. ASSUME NEW i \in 1..Len(wire) PROVE Read(wire[i])'
  <2>1. \A src \in Sources : 1 <= wire[i][src] /\ wire[i][src] <= cache'[src]
    BY <1>1, <1>2, ReadStays DEF WatchInv, WireInv
  <2> QED
    BY <2>1 DEF Read
<1>4. WireInv'
  BY <1>3 DEF WatchInv, WireInv, NotOlder
<1>5. cli.seen \in [Sources -> Nat] /\ NotOlder(cache, cli.seen)
  BY DEF WatchInv, ShapeInv, ShownInv
<1>6. NotOlder(cache, cli.seen)'
  BY <1>5, ReadStays DEF WatchInv, NotOlder
<1>7. ASSUME Read(cli.seen), cli.shown = Picture(cli.seen)
      PROVE  Read(cli.seen)' /\ (cli.shown = Picture(cli.seen))'
  <2>1. Read(cli.seen)'
    BY <1>5, <1>7, ReadStays DEF WatchInv, Read
  <2>2. Picture(cli.seen)' = Picture(cli.seen)
    BY <1>5, <1>7, PictureStays DEF WatchInv, Picture
  <2> QED
    BY <1>7, <2>1, <2>2
<1>8. ShownInv'
  BY <1>6, <1>7 DEF WatchInv, ShownInv
<1> QED
  BY <1>4, <1>8

\* Nor does what the handler holds.
LEMMA HandlerStays ==
  ASSUME WatchInv, HistInv', Grows, UNCHANGED <<wire, cli>>,
         srv'.pc = srv.pc, srv'.got = srv.got
  PROVE  GotInv'
<1>1. srv.got \in [Sources -> Nat] /\ "ns" \in Sources
  BY DEF WatchInv, ShapeInv, Sources
<1>2. ASSUME srv.pc = "send" PROVE Read(srv.got)'
  <2>1. Read(srv.got) /\ NotOlder(cache, srv.got)
    BY <1>2 DEF WatchInv, GotInv, Read, NotOlder
  <2>2. \A src \in Sources : 1 <= srv.got[src] /\ srv.got[src] <= cache'[src]
    BY <1>1, <2>1, ReadStays DEF WatchInv
  <2> QED
    BY <2>2 DEF Read
<1>3. ASSUME srv.pc = "pods" PROVE srv.got["ns"] <= cache'["ns"]
  <2>1. /\ srv.got["ns"] \in Nat /\ cache["ns"] \in Nat /\ cache'["ns"] \in Nat
        /\ srv.got["ns"] <= cache["ns"] /\ cache["ns"] <= cache'["ns"]
    BY <1>1, <1>3 DEF WatchInv, GotInv, HistInv, Grows
  <2> QED
    BY <2>1
<1> QED
  BY <1>2, <1>3 DEF WatchInv, GotInv, NotOlder

-----------------------------------------------------------------------------
(* The handler and the client                                              *)

\* Steps of the handler that read and send nothing.
LEMMA HandlerMoves ==
  ASSUME WatchInv, Subscribe \/ Forward \/ Triggered
  PROVE  WatchInv' /\ UNCHANGED <<hist, deaf, cli>>
<1>1. UNCHANGED <<hist, cache, pending, deaf, cli, stream, wire>>
  BY DEF Subscribe, Forward, Triggered, Server, clusterVars
<1>2. /\ srv' \in [pc : {"idle", "namespace", "pods", "send", "wait", "ended"},
                   sub : BOOLEAN, trig : BOOLEAN, got : [Sources -> Nat]]
      /\ srv'.got = srv.got
      /\ srv'.pc = srv.pc \/ srv'.pc = "namespace"
  BY DEF WatchInv, ShapeInv, Subscribe, Forward, Triggered, Server
<1>3. HistInv' /\ Grows
  BY <1>1, Stays DEF WatchInv
<1>4. ShapeInv'
  BY <1>1, <1>2 DEF WatchInv, ShapeInv
<1>5. WireInv' /\ ShownInv'
  BY <1>1, <1>3, ClientStays
<1>6. GotInv'
  <2>1. CASE srv'.pc = srv.pc
    BY <1>1, <1>2, <1>3, <2>1, HandlerStays
  <2>2. CASE srv'.pc = "namespace"
    BY <2>2 DEF GotInv
  <2> QED
    BY <1>2, <2>1, <2>2
<1> QED
  BY <1>1, <1>3, <1>4, <1>5, <1>6 DEF WatchInv

\* The caches are not older than anything the client has or will have.
LEMMA CacheIsNewest ==
  ASSUME WatchInv
  PROVE  /\ Read(cache) /\ NotOlder(cache, cli.seen)
         /\ \A i \in 1..Len(wire) : NotOlder(cache, wire[i])
<1>1. \A src \in Sources : cache[src] \in Nat /\ 1 <= cache[src]
  BY DEF WatchInv, HistInv
<1>2. Read(cache)
  BY <1>1 DEF Read
<1> QED
  BY <1>2 DEF WatchInv, ShownInv, WireInv, Read, NotOlder

\* Get reads the caches: the pods' after the namespace's.
LEMMA GetReads ==
  ASSUME WatchInv, GetNamespace \/ GetPods
  PROVE  WatchInv' /\ UNCHANGED <<hist, deaf, cli>>
<1>1. UNCHANGED <<hist, cache, pending, deaf, cli, stream, wire>>
  BY DEF GetNamespace, GetPods, Server, clusterVars
<1>2. HistInv' /\ Grows
  BY <1>1, Stays DEF WatchInv
<1>3. WireInv' /\ ShownInv'
  BY <1>1, <1>2, ClientStays
<1>4. cache \in [Sources -> Nat] /\ NoRead \in [Sources -> Nat] /\ "ns" \in Sources
  BY DEF WatchInv, HistInv, NoRead, Sources
<1>5. CASE GetNamespace /\ srv' = [srv EXCEPT !.pc = "pods", !.got = [NoRead EXCEPT !["ns"] = cache["ns"]]]
  <2>1. srv'.pc = "pods" /\ srv'.got["ns"] = cache["ns"]
    BY <1>4, <1>5 DEF WatchInv, ShapeInv
  <2>2. ShapeInv'
    BY <1>1, <1>4, <1>5 DEF WatchInv, ShapeInv
  <2>3. cache["ns"] \in Nat /\ 1 <= cache["ns"] /\ cli.seen["ns"] <= cache["ns"]
        /\ \A i \in 1..Len(wire) : wire[i]["ns"] <= cache["ns"]
    BY <1>4, CacheIsNewest DEF Read, NotOlder
  <2>4. GotInv'
    BY <1>1, <2>1, <2>3 DEF GotInv
  <2> QED
    BY <1>1, <1>2, <1>3, <2>2, <2>4 DEF WatchInv
<1>6. CASE GetNamespace /\ srv' = [srv EXCEPT !.pc = "send", !.got = cache]
  <2>1. srv'.pc = "send" /\ srv'.got = cache
    BY <1>4, <1>6 DEF WatchInv, ShapeInv
  <2>2. ShapeInv'
    BY <1>1, <1>4, <1>6 DEF WatchInv, ShapeInv
  <2>3. GotInv'
    BY <1>1, <2>1, CacheIsNewest DEF GotInv, Read, NotOlder
  <2> QED
    BY <1>1, <1>2, <1>3, <2>2, <2>3 DEF WatchInv
<1>7. CASE GetPods
  <2> DEFINE v == [cache EXCEPT !["ns"] = srv.got["ns"]]
  <2>1. srv.pc = "pods" /\ srv' = [srv EXCEPT !.pc = "send", !.got = v]
    BY <1>7 DEF GetPods, Server
  <2>2. srv.got["ns"] \in Nat
    BY <1>4 DEF WatchInv, ShapeInv
  <2>3. v \in [Sources -> Nat] /\ \A src \in Sources : v[src] = IF src = "ns" THEN srv.got["ns"] ELSE cache[src]
    BY <1>4, <2>2
  <2> HIDE DEF v
  <2>4. srv'.pc = "send" /\ srv'.got = v
    BY <2>1 DEF WatchInv, ShapeInv
  <2>5. ShapeInv'
    BY <1>1, <2>1, <2>3 DEF WatchInv, ShapeInv
  <2>6. Read(v) /\ NotOlder(v, cli.seen) /\ \A i \in 1..Len(wire) : NotOlder(v, wire[i])
    BY <2>1, <2>3, CacheIsNewest DEF WatchInv, GotInv, Read, NotOlder
  <2>7. GotInv'
    BY <1>1, <2>4, <2>6 DEF GotInv, Read, NotOlder
  <2> QED
    BY <1>1, <1>2, <1>3, <2>5, <2>7 DEF WatchInv
<1> QED
  BY <1>5, <1>6, <1>7 DEF GetNamespace, Server

\* A message is sent after those on the way.
LEMMA SendKeeps ==
  ASSUME WatchInv, Send
  PROVE  WatchInv' /\ UNCHANGED <<hist, deaf, cli>>
<1> USE StatusWatchAssumption
<1>1. UNCHANGED <<hist, cache, pending, deaf, cli, stream>> /\ srv.pc = "send"
  BY DEF Send, Server, clusterVars
<1>2. HistInv' /\ Grows
  BY <1>1, Stays DEF WatchInv
<1>3. NoRead \in [Sources -> Nat] /\ wire \in Seq([Sources -> Nat]) /\ Len(wire) \in Nat
      /\ srv.got \in [Sources -> Nat]
  BY DEF NoRead, WatchInv, ShapeInv
<1>4. CASE srv' = [Idle EXCEPT !.pc = "ended"] /\ UNCHANGED wire
  <2>1. srv'.pc = "ended" /\ ShapeInv'
    BY <1>1, <1>3, <1>4 DEF WatchInv, ShapeInv, Idle
  <2>2. WireInv' /\ ShownInv' /\ GotInv'
    BY <1>1, <1>2, <1>4, <2>1, ClientStays DEF GotInv
  <2> QED
    BY <1>1, <1>2, <2>1, <2>2 DEF WatchInv
<1>5. CASE /\ Len(wire) < MaxInFlight
           /\ srv' = [srv EXCEPT !.pc = "wait", !.got = NoRead]
           /\ wire' = Append(wire, srv.got)
  <2> DEFINE n == Len(wire) + 1
  <2>1. /\ wire' \in Seq([Sources -> Nat]) /\ Len(wire') = n /\ n \in Nat
        /\ wire'[n] = srv.got /\ \A i \in 1..Len(wire) : wire'[i] = wire[i]
    BY <1>3, <1>5, AppendProperties
  <2>2. srv'.pc = "wait"
    BY <1>5 DEF WatchInv, ShapeInv
  <2>3. ShapeInv'
    <3>1. Len(wire') <= MaxInFlight
      BY <1>3, <1>5, <2>1
    <3>2. srv' \in [pc : {"idle", "namespace", "pods", "send", "wait", "ended"},
                   sub : BOOLEAN, trig : BOOLEAN, got : [Sources -> Nat]]
      BY <1>3, <1>5 DEF WatchInv, ShapeInv
    <3> QED
      BY <1>1, <2>1, <3>1, <3>2 DEF WatchInv, ShapeInv
  <2>4. GotInv'
    BY <2>2 DEF GotInv
  <2>5. ShownInv'
    BY <1>1 DEF WatchInv, ShownInv, Read, NotOlder, Picture
  <2>6. \A i \in 1..Len(wire') : i \in 1..Len(wire) \/ i = n
    BY <1>3, <2>1
  <2>7. /\ Read(srv.got) /\ NotOlder(srv.got, cli.seen) /\ NotOlder(srv.got, srv.got)
        /\ \A i \in 1..Len(wire) : NotOlder(srv.got, wire[i])
    BY <1>1, <1>3 DEF WatchInv, GotInv, NotOlder
  <2>8. ASSUME NEW i \in 1..Len(wire') PROVE Read(wire'[i]) /\ NotOlder(wire'[i], cli.seen)
    BY <2>1, <2>6, <2>7 DEF WatchInv, WireInv
  <2>9. ASSUME NEW i \in 1..Len(wire'), NEW j \in 1..Len(wire'), i <= j
        PROVE  NotOlder(wire'[j], wire'[i])
    <3>1. CASE i \in 1..Len(wire) /\ j \in 1..Len(wire)
      BY <2>1, <2>9, <3>1 DEF WatchInv, WireInv
    <3>2. CASE j = n
      BY <2>1, <2>6, <2>7, <3>2
    <3>3. CASE i = n /\ j \in 1..Len(wire)
      BY <1>3, <2>9, <3>3
    <3> QED
      BY <2>6, <3>1, <3>2, <3>3
  <2>10. WireInv'
    BY <1>1, <2>8, <2>9 DEF WireInv, Read, NotOlder
  <2> QED
    BY <1>1, <1>2, <2>3, <2>4, <2>5, <2>10 DEF WatchInv
<1> QED
  BY <1>4, <1>5 DEF Send, Server

\* A message is received, in the order in which they were sent.
LEMMA RecvKeeps ==
  ASSUME WatchInv, Recv
  PROVE  /\ WatchInv' /\ UNCHANGED <<hist, deaf>> /\ cli.pc = "watching"
         /\ NotOlder(cli'.seen, cli.seen) /\ Read(cli'.seen) /\ cli'.shown = Picture(cli'.seen)
<1> DEFINE v == Head(wire)
<1>1. /\ UNCHANGED <<hist, cache, pending, deaf, srv>> /\ wire # <<>> /\ wire' = Tail(wire)
      /\ cli.pc = "watching"
      /\ stream' \in {stream, "closed"}
  BY DEF Recv, Client, clusterVars
<1>2. PICK pc \in {cli.pc, "done"} : cli' = [cli EXCEPT !.seen = v, !.shown = Picture(v), !.pc = pc]
  BY DEF Recv, Client
<1>3. HistInv' /\ Grows
  BY <1>1, Stays DEF WatchInv
<1>4. wire \in Seq([Sources -> Nat]) /\ Len(wire) \in Nat /\ Len(wire) # 0
  BY <1>1 DEF WatchInv, ShapeInv
<1>5. /\ v = wire[1] /\ 1 \in 1..Len(wire)
      /\ wire' \in Seq([Sources -> Nat]) /\ Len(wire') = Len(wire) - 1
      /\ \A i \in 1..Len(wire') : wire'[i] = wire[i + 1] /\ i + 1 \in 1..Len(wire)
  BY <1>1, <1>4
<1>6. v \in [Sources -> Nat] /\ Read(v) /\ NotOlder(v, cli.seen)
  BY <1>4, <1>5 DEF WatchInv, WireInv
<1> HIDE DEF v
<1>7. /\ cli'.seen = v /\ cli'.shown = Picture(v) /\ cli'.pc \in {"watching", "done"}
      /\ DOMAIN cli' = DOMAIN cli
  BY <1>1, <1>2 DEF WatchInv, ShapeInv
<1>8. ShapeInv'
  <2>1. Len(wire) <= MaxInFlight /\ MaxInFlight \in Nat
    BY StatusWatchAssumption DEF WatchInv, ShapeInv
  <2>2. Len(wire') <= MaxInFlight
    BY <1>4, <1>5, <2>1
  <2> QED
    BY <1>1, <1>5, <1>6, <1>7, <2>2 DEF WatchInv, ShapeInv
<1>9. ShownInv'
  <2>1. NotOlder(cache, v)
    BY <1>6 DEF Read, NotOlder
  <2>2. Picture(v) = Picture(cli.seen)'
    BY <1>1, <1>7 DEF Picture
  <2> QED
    BY <1>1, <1>6, <1>7, <2>1, <2>2 DEF ShownInv, Read, NotOlder
<1>10. WireInv'
  <2>1. ASSUME NEW i \in 1..Len(wire')
        PROVE  Read(wire'[i]) /\ NotOlder(wire'[i], v)
    <3>1. i + 1 \in 1..Len(wire) /\ 1 <= i + 1
      BY <1>4, <1>5
    <3> QED
      BY <1>5, <3>1 DEF WatchInv, WireInv
  <2>2. ASSUME NEW i \in 1..Len(wire'), NEW j \in 1..Len(wire'), i <= j
        PROVE  NotOlder(wire'[j], wire'[i])
    <3>1. i + 1 \in 1..Len(wire) /\ j + 1 \in 1..Len(wire) /\ i + 1 <= j + 1
      BY <1>4, <1>5, <2>2
    <3> QED
      BY <1>5, <3>1 DEF WatchInv, WireInv
  <2> QED
    BY <1>1, <1>7, <2>1, <2>2 DEF WireInv, Read, NotOlder
<1>11. GotInv'
  <2>1. ASSUME srv.pc = "send"
        PROVE  NotOlder(srv.got, v) /\ \A i \in 1..Len(wire') : NotOlder(srv.got, wire'[i])
    BY <1>5, <2>1 DEF WatchInv, GotInv
  <2>2. ASSUME srv.pc = "pods"
        PROVE  /\ v["ns"] <= srv.got["ns"]
               /\ \A i \in 1..Len(wire') : wire'[i]["ns"] <= srv.got["ns"]
    BY <1>5, <2>2 DEF WatchInv, GotInv
  <2> QED
    BY <1>1, <1>7, <2>1, <2>2 DEF WatchInv, GotInv, Read, NotOlder
<1> QED
  BY <1>1, <1>3, <1>6, <1>7, <1>8, <1>9, <1>10, <1>11 DEF WatchInv

\* The other steps of the client: its picture stays, and what is lost on the way
\* is lost with all that was behind it.
LEMMA ClientKeeps ==
  ASSUME WatchInv, StartWatch \/ UpEnds \/ Break \/ RecvError \/ Rewatch
  PROVE  WatchInv' /\ UNCHANGED <<hist, deaf>> /\ cli'.seen = cli.seen /\ cli'.shown = cli.shown
<1>1. /\ UNCHANGED <<hist, cache, pending, deaf>>
      /\ srv' = srv \/ srv' = Idle
      /\ wire' = wire \/ wire' = <<>>
      /\ stream' \in {"unused", "open", "closed"}
  BY DEF StartWatch, UpEnds, Break, RecvError, Rewatch, Client, clusterVars, WatchInv, ShapeInv
<1>2. HistInv' /\ Grows
  BY <1>1, Stays DEF WatchInv
<1>3. /\ cli'.seen = cli.seen /\ cli'.shown = cli.shown /\ DOMAIN cli' = DOMAIN cli
      /\ cli'.pc \in {"off", "watching", "retry", "ready", "interrupted", "done", "failed"}
      /\ cli'.pc = "ready" => cli.shown # None /\ \A s \in Services : Booted(cli.shown.services, s)
  BY DEF StartWatch, UpEnds, Break, RecvError, Rewatch, Client, WatchInv, ShapeInv
<1>4. ShapeInv'
  <2>1. NoRead \in [Sources -> Nat]
    BY DEF NoRead
  <2>2. srv' \in [pc : {"idle", "namespace", "pods", "send", "wait", "ended"},
                 sub : BOOLEAN, trig : BOOLEAN, got : [Sources -> Nat]]
    <3>1. CASE srv' = srv
      BY <3>1 DEF WatchInv, ShapeInv
    <3>2. CASE srv' = Idle
      BY <2>1, <3>2 DEF Idle
    <3> QED
      BY <1>1, <3>1, <3>2
  <2>3. wire' \in Seq([Sources -> Nat]) /\ Len(wire') <= MaxInFlight
    <3>1. CASE wire' = wire
      BY <3>1 DEF WatchInv, ShapeInv
    <3>2. CASE wire' = <<>>
      BY <3>2, StatusWatchAssumption
    <3> QED
      BY <1>1, <3>1, <3>2
  <2> QED
    BY <1>1, <1>3, <2>2, <2>3 DEF WatchInv, ShapeInv
<1>5. \A i \in 1..Len(wire') : i \in 1..Len(wire) /\ wire'[i] = wire[i]
  BY <1>1
<1>6. WireInv'
  BY <1>1, <1>3, <1>5 DEF WatchInv, WireInv, Read, NotOlder
<1>7. GotInv'
  <2>1. CASE srv' = srv
    BY <1>1, <1>3, <1>5, <2>1 DEF WatchInv, GotInv, Read, NotOlder
  <2>2. CASE srv' = Idle
    BY <2>2 DEF Idle, GotInv
  <2> QED
    BY <1>1, <2>1, <2>2
<1>8. ShownInv'
  <2>1. Picture(cli.seen)' = Picture(cli.seen)
    BY <1>1, <1>3 DEF Picture
  <2> QED
    BY <1>1, <1>3, <2>1 DEF WatchInv, ShownInv, Read, NotOlder
<1> QED
  BY <1>1, <1>2, <1>3, <1>4, <1>6, <1>7, <1>8 DEF WatchInv

-----------------------------------------------------------------------------
(* The theorems                                                            *)

\* Get answers with a picture.
LEMMA GetShape ==
  ASSUME NEW ns \in {"Active", "Terminating", "gone"}, NEW pods \in PodSets, NEW events
  PROVE  Get(ns, pods, events) \in SandboxPictures
<1>1. NoServices \in [{} -> ServiceStatuses]
  BY DEF NoServices
<1> DEFINE named == {x \in Services : pods.of[x] # NoPod}
           services == [s \in named |-> getServiceStatus(pods.of[s], s, events)]
<1>2. \A s \in named : pods.of[s] \in PodRecords
  BY StatusWatchAssumption DEF PodSets
<1>3. services \in [named -> ServiceStatuses] /\ named \in SUBSET Services
  BY <1>2, StatusShape
<1>4. /\ ns = "gone" => Get(ns, pods, events) = [phase |-> "DOES_NOT_EXIST", services |-> NoServices]
      /\ ns = "Terminating" => Get(ns, pods, events) = [phase |-> "TERMINATING", services |-> NoServices]
      /\ ns = "Active" => Get(ns, pods, events)
                            = [phase    |-> IF pods.reservation THEN "PREPARING" ELSE "RUNNING",
                               services |-> services]
  BY DEF Get
<1> HIDE DEF named, services
<1>5. \A S \in SUBSET Services : \A f \in [S -> ServiceStatuses] :
        f \in UNION {[T -> ServiceStatuses] : T \in SUBSET Services}
  OBVIOUS
<1>6. /\ NoServices \in UNION {[T -> ServiceStatuses] : T \in SUBSET Services}
      /\ services \in UNION {[T -> ServiceStatuses] : T \in SUBSET Services}
  BY <1>1, <1>3, <1>5
<1> QED
  BY <1>4, <1>6 DEF SandboxPictures

\* The picture of versions that exist is one.
LEMMA PictureShape ==
  ASSUME HistInv, NEW v, \A src \in Sources : v[src] \in 1..Len(hist[src])
  PROVE  Picture(v) \in SandboxPictures
<1>1. /\ hist["ns"][v["ns"]] \in {"Active", "Terminating", "gone"}
      /\ hist["pods"][v["pods"]] \in PodSets
  BY DEF HistInv, Sources, Versions
<1> QED
  BY <1>1, GetShape DEF Picture

LEMMA InitWatches == Init => WatchInv
<1> SUFFICES ASSUME Init PROVE WatchInv
  OBVIOUS
<1> USE StatusWatchAssumption
<1>1. PICK pods \in InitPods, kind \in {"up", "down"} :
        /\ hist = [ns     |-> IF kind = "up" THEN <<"Active">> ELSE <<"Active", "Terminating">>,
                   pods   |-> <<pods>>,
                   events |-> <<{}>>]
        /\ cli = [kind |-> kind, pc |-> "off", breaks |-> 0, seen |-> NoRead, shown |-> None]
  BY DEF Init
<1>2. /\ DOMAIN hist = Sources /\ hist["pods"] = <<pods>> /\ hist["events"] = <<{}>>
      /\ hist["ns"] \in {<<"Active">>, <<"Active", "Terminating">>}
  BY <1>1 DEF Sources
<1>3. /\ hist["ns"] \in Seq(Versions("ns")) /\ hist["ns"] # <<>> /\ 1 <= Len(hist["ns"])
  <2>1. CASE hist["ns"] = <<"Active">>
    BY <2>1 DEF Versions
  <2>2. CASE hist["ns"] = <<"Active", "Terminating">>
    BY <2>2 DEF Versions
  <2> QED
    BY <1>2, <2>1, <2>2
<1>4. /\ hist["pods"] \in Seq(Versions("pods")) /\ hist["pods"] # <<>> /\ 1 <= Len(hist["pods"])
  BY <1>2 DEF Versions, PodSets
<1>5. /\ hist["events"] \in Seq(Versions("events")) /\ hist["events"] # <<>>
      /\ 1 <= Len(hist["events"])
  BY <1>2 DEF Versions
<1>6. cache = [src \in Sources |-> 1]
  BY DEF Init
<1>7. HistInv
  BY <1>2, <1>3, <1>4, <1>5, <1>6 DEF HistInv, Sources
<1>8. NoRead \in [Sources -> Nat] /\ \A src \in Sources : NoRead[src] = 0
  BY DEF NoRead
<1>9. ShapeInv
  <2>1. /\ pending \in BOOLEAN /\ deaf \in BOOLEAN /\ srv = Idle
        /\ stream \in {"unused", "open", "closed"} /\ wire = <<>>
    BY DEF Init
  <2>2. srv \in [pc : {"idle", "namespace", "pods", "send", "wait", "ended"},
                sub : BOOLEAN, trig : BOOLEAN, got : [Sources -> Nat]]
    BY <1>8, <2>1 DEF Idle
  <2>3. wire \in Seq([Sources -> Nat]) /\ Len(wire) <= MaxInFlight
    BY <2>1
  <2>4. DOMAIN cli = {"kind", "pc", "breaks", "seen", "shown"} /\ cli.pc = "off" /\ cli.seen = NoRead
    BY <1>1
  <2> QED
    BY <1>8, <2>1, <2>2, <2>3, <2>4 DEF ShapeInv
<1>10. WireInv /\ GotInv
  BY DEF WireInv, GotInv, Init, Idle
<1>11. ShownInv
  BY <1>1, <1>6, <1>8 DEF ShownInv, NotOlder
<1> QED
  BY <1>7, <1>9, <1>10, <1>11 DEF WatchInv

\* The invariant is inductive.
LEMMA WatchInvariant == Spec => []WatchInv
<1>1. ASSUME WatchInv, [Next]_vars PROVE WatchInv'
  <2>1. CASE NamespaceChanges \/ PodChanges \/ PodsDeleted \/ EventRecorded
    <3>1. /\ HistInv' /\ Grows
          /\ UNCHANGED <<pending, deaf, srv, stream, wire, cli>>
      BY <1>1, <2>1, SandboxChanges DEF WatchInv
    <3>2. ShapeInv'
      BY <1>1, <3>1 DEF WatchInv, ShapeInv
    <3> QED
      BY <1>1, <3>1, <3>2, ClientStays, HandlerStays DEF WatchInv
  <2>2. ASSUME NEW src \in Notified,
               Apply(src) \/ Relist(src) \/ Resync(src) \/ notifySubscribers
        PROVE  WatchInv'
    <3>1. /\ HistInv' /\ Grows /\ ShapeInv'
          /\ UNCHANGED <<hist, stream, wire, cli>>
          /\ srv'.pc = srv.pc /\ srv'.got = srv.got
      BY <1>1, <2>2, InformerSteps DEF WatchInv
    <3> QED
      BY <1>1, <3>1, ClientStays, HandlerStays DEF WatchInv
  <2>3. "ns" \in Notified
    BY DEF Notified
  <2>4. CASE Handler
    BY <1>1, <2>4, HandlerMoves, GetReads, SendKeeps DEF Handler
  <2>5. CASE StartWatch \/ Recv \/ UpEnds \/ Break \/ RecvError \/ Rewatch
    BY <1>1, <2>5, RecvKeeps, ClientKeeps
  <2>6. CASE UNCHANGED vars
    BY <1>1, <2>6 DEF vars, WatchInv, HistInv, ShapeInv, WireInv, GotInv, ShownInv, Read, NotOlder,
                      Picture
  <2> QED
    BY <1>1, <2>1, <2>2, <2>3, <2>4, <2>5, <2>6 DEF Next
<1> QED
  BY <1>1, InitWatches, PTL DEF Spec

\* The variables of the watch keep their types: no cache is ahead of its source,
\* and no more than MaxInFlight messages are on the way.
THEOREM TypeCorrect == Spec => []TypeOK
<1>1. WatchInv => TypeOK
  <2> SUFFICES ASSUME WatchInv PROVE TypeOK
    OBVIOUS
  <2>1. \A s \in Sources : cache[s] \in 1..Len(hist[s])
    <3>1. \A s \in Sources : cache[s] \in Nat /\ Len(hist[s]) \in Nat
      BY DEF WatchInv, HistInv
    <3> QED
      BY <3>1 DEF WatchInv, HistInv
  <2> QED
    BY <2>1 DEF WatchInv, ShapeInv, TypeOK
<1> QED
  BY <1>1, WatchInvariant, PTL

\* `blimp up` says that all containers have started only if each of them has, in
\* the pods of which it was told (statusPrinter.Run, getServiceStatus).
THEOREM ReadyContainersRan == Spec => []ReadyMeansRan
<1>1. WatchInv => ReadyMeansRan
  <2> SUFFICES ASSUME WatchInv, cli.pc = "ready", NEW s \in Services
               PROVE  LET pod == hist["pods"][cli.seen["pods"]].of[s]
                      IN  pod # NoPod /\ (pod.ran \/ (pod.phase = "Failed" /\ pod.container = NoContainer))
    BY DEF ReadyMeansRan
  <2> DEFINE ns == hist["ns"][cli.seen["ns"]]
             pods == hist["pods"][cli.seen["pods"]]
             events == hist["events"][cli.seen["events"]]
  <2>1. Read(cli.seen) /\ cli.shown = Get(ns, pods, events) /\ Booted(cli.shown.services, s)
    BY DEF WatchInv, ShownInv, Picture
  <2>2. \A src \in Sources : cli.seen[src] \in 1..Len(hist[src])
    <3>1. \A src \in Sources : cli.seen[src] \in Nat /\ cache[src] \in Nat /\ Len(hist[src]) \in Nat
      BY DEF WatchInv, HistInv, ShapeInv
    <3> QED
      BY <2>1, <3>1 DEF WatchInv, HistInv, Read
  <2>3. ns \in {"Active", "Terminating", "gone"} /\ pods \in PodSets
    BY <2>2 DEF WatchInv, HistInv, Sources, Versions
  <2> HIDE DEF ns, pods, events
  <2>4. s \in DOMAIN Get(ns, pods, events).services /\ Get(ns, pods, events).services[s].hasStarted
    BY <2>1 DEF Booted
  <2>5. ns = "Active"
    <3>1. ns # "Active" => Get(ns, pods, events).services = NoServices
      BY <2>3 DEF Get
    <3>2. s \notin DOMAIN NoServices
      BY DEF NoServices
    <3> QED
      BY <2>4, <3>1, <3>2
  <2>6. Get(ns, pods, events).services = [x \in {y \in Services : pods.of[y] # NoPod} |->
                                            getServiceStatus(pods.of[x], x, events)]
    BY <2>5 DEF Get
  <2>7. pods.of[s] # NoPod /\ getServiceStatus(pods.of[s], s, events).hasStarted
    BY <2>4, <2>6
  <2>8. pods.of[s] \in PodRecords
    BY <2>3, <2>7, StatusWatchAssumption DEF PodSets
  <2> QED
    BY <2>7, <2>8, StartedHasRun DEF pods
<1> QED
  BY <1>1, WatchInvariant, PTL

-----------------------------------------------------------------------------
(* The refinement                                                          *)

\* The picture of the sandbox as it is.
LEMMA TruthShape ==
  ASSUME HistInv
  PROVE  Picture([s \in Sources |-> Len(hist[s])]) \in SandboxPictures
<1> DEFINE v == [s \in Sources |-> Len(hist[s])]
<1>1. \A src \in Sources : Len(hist[src]) \in Nat /\ 1 <= Len(hist[src])
  <2>1. \A src \in Sources : /\ Len(hist[src]) \in Nat /\ cache[src] \in Nat
                             /\ 1 <= cache[src] /\ cache[src] <= Len(hist[src])
    BY DEF HistInv
  <2> QED
    BY <2>1
<1>2. \A src \in Sources : v[src] \in 1..Len(hist[src])
  BY <1>1
<1> HIDE DEF v
<1>3. Picture(v) \in SandboxPictures
  BY <1>2, PictureShape
<1> QED
  BY <1>3 DEF v

\* A step that changes neither the sandbox nor the client's picture is Turn,
\* Listen or nothing.
LEMMA QuietStep ==
  ASSUME HistInv, hist' = hist, cli'.seen = cli.seen, cli'.shown = cli.shown,
         deaf \in BOOLEAN, deaf' \in BOOLEAN,
         deaf' = deaf \/ Following' = Following
  PROVE  [Feed!Next]_(Feed!vars)
<1>1. /\ [s \in Sources |-> Len(hist[s])]' = [s \in Sources |-> Len(hist[s])]
      /\ Picture([s \in Sources |-> Len(hist[s])])' = Picture([s \in Sources |-> Len(hist[s])])
  BY DEF Picture
<1>2. Following \in BOOLEAN /\ Following' \in BOOLEAN
  BY DEF Following
<1> HIDE DEF Following
<1>3. CASE deaf' # deaf
  <2>1. deaf' = ~deaf
    BY <1>3
  <2> QED
    BY <1>1, <1>3, <2>1 DEF Feed!Next, Feed!Listen
<1>4. CASE deaf' = deaf /\ Following' # Following
  <2>1. Following' = ~Following
    BY <1>2, <1>4
  <2> QED
    BY <1>1, <1>4, <2>1 DEF Feed!Next, Feed!Turn
<1>5. CASE deaf' = deaf /\ Following' = Following
  BY <1>1, <1>5 DEF Feed!vars
<1> QED
  BY <1>3, <1>4, <1>5

\* A change of the sandbox.
LEMMA ChangeStep ==
  ASSUME WatchInv, NamespaceChanges \/ PodChanges \/ PodsDeleted \/ EventRecorded
  PROVE  Feed!Next
<1>1. /\ HistInv' /\ UNCHANGED <<deaf, cli>>
      /\ \E src \in Sources : \E v : hist' = [hist EXCEPT ![src] = Append(@, v)]
  BY SandboxChanges DEF WatchInv
<1>2. PICK src \in Sources : \E v : hist' = [hist EXCEPT ![src] = Append(@, v)]
  BY <1>1
<1>v. PICK v : hist' = [hist EXCEPT ![src] = Append(@, v)]
  BY <1>2
<1>3. DOMAIN hist = Sources /\ \A s \in Sources : hist[s] \in Seq(Versions(s)) /\ hist'[s] \in Seq(Versions(s))
  BY <1>1 DEF WatchInv, HistInv
<1>4. Len(hist'[src]) = Len(hist[src]) + 1
  <2>1. hist'[src] = Append(hist[src], v)
    BY <1>v, <1>3
  <2> QED
    BY <1>3, <2>1
<1>5. \A s \in Sources : Len(hist'[s]) = IF s = src THEN Len(hist[src]) + 1 ELSE Len(hist[s])
  BY <1>v, <1>3, <1>4
<1>6. [s \in Sources |-> Len(hist'[s])]
        = [[s \in Sources |-> Len(hist[s])] EXCEPT ![src] = @ + 1]
  BY <1>5
<1>7. Picture([s \in Sources |-> Len(hist[s])])' \in SandboxPictures
  <2> DEFINE w == [s \in Sources |-> Len(hist'[s])]
  <2>1. \A s \in Sources : /\ hist'[s] \in Seq(Versions(s)) /\ cache'[s] \in Nat
                           /\ 1 <= cache'[s] /\ cache'[s] <= Len(hist'[s])
    BY <1>1 DEF HistInv
  <2>2. \A s \in Sources : Len(hist'[s]) \in Nat /\ 1 <= Len(hist'[s])
    BY <2>1
  <2>3. \A s \in Sources : w[s] \in 1..Len(hist'[s])
    BY <2>2
  <2> HIDE DEF w
  <2>4. /\ hist'["ns"][w["ns"]] \in {"Active", "Terminating", "gone"}
        /\ hist'["pods"][w["pods"]] \in PodSets
    BY <2>1, <2>3 DEF Sources, Versions
  <2>5. Get(hist'["ns"][w["ns"]], hist'["pods"][w["pods"]], hist'["events"][w["events"]])
          \in SandboxPictures
    BY <2>4, GetShape
  <2> QED
    BY <2>5 DEF w, Picture
<1>8. Following' = Following
  BY <1>1 DEF Following
<1> HIDE DEF Following
<1> QED
  BY <1>1, <1>6, <1>7, <1>8 DEF Feed!Next, Feed!Change

\* A message that arrives shows the client a picture.
LEMMA ShowStep ==
  ASSUME WatchInv, Recv
  PROVE  Feed!Next
<1>1. /\ WatchInv' /\ UNCHANGED <<hist, deaf>> /\ cli.pc = "watching"
      /\ NotOlder(cli'.seen, cli.seen) /\ Read(cli'.seen) /\ cli'.shown = Picture(cli'.seen)
  BY RecvKeeps
<1>2. cli'.seen \in [Sources -> Nat] /\ Following
  BY <1>1 DEF WatchInv, ShapeInv, Following
<1>3. Following' \in BOOLEAN
  BY DEF Following
<1> HIDE DEF Following
<1>4. \A src \in Sources : cli'.seen[src] \in 1..Len(hist[src]) /\ cli'.seen[src] <= Len(hist[src])
  <2>1. \A src \in Sources : /\ cli'.seen[src] \in Nat /\ cache[src] \in Nat
                             /\ Len(hist[src]) \in Nat /\ cache[src] <= Len(hist[src])
    BY <1>2 DEF WatchInv, HistInv
  <2> QED
    BY <1>1, <2>1 DEF Read
<1>5. cli'.shown \in SandboxPictures
  BY <1>1, <1>4, PictureShape DEF WatchInv
<1>6. /\ [s \in Sources |-> Len(hist[s])]' = [s \in Sources |-> Len(hist[s])]
      /\ Picture([s \in Sources |-> Len(hist[s])])' = Picture([s \in Sources |-> Len(hist[s])])
  BY <1>1 DEF Picture
<1>7. cli'.seen = [s \in Sources |-> Len(hist[s])]
        => cli'.shown = Picture([s \in Sources |-> Len(hist[s])])
  BY <1>1
<1>8. \A s \in Sources : cli.seen[s] <= cli'.seen[s]
                        /\ cli'.seen[s] <= [x \in Sources |-> Len(hist[x])][s]
  BY <1>1, <1>4 DEF NotOlder
<1> QED
  BY <1>1, <1>2, <1>3, <1>5, <1>6, <1>7, <1>8 DEF Feed!Next, Feed!Show

\* What WatchStatus promises a client, but for the promise that it is shown the
\* truth in the end: whatever informers, notifications, streams and commands do,
\* the picture it holds is made of things that were so, it is never replaced by one
\* that is older in any part, also across a reconnection, and a picture of the last
\* version of everything is the truth.
THEOREM WatchIsFeed == Spec => NeverGoesBack
<1>1. Init => Feed!Init
  <2> SUFFICES ASSUME Init PROVE Feed!Init
    OBVIOUS
  <2>1. WatchInv
    BY InitWatches
  <2>2. Picture([s \in Sources |-> Len(hist[s])]) \in SandboxPictures
    BY <2>1, TruthShape DEF WatchInv
  <2>3. \A src \in Sources : Len(hist[src]) \in Nat \ {0}
    BY <2>1 DEF WatchInv, HistInv
  <2>4. cli.seen = NoRead /\ cli.shown = None /\ ~Following /\ deaf = FALSE
    BY DEF Init, Following
  <2>5. Following = FALSE
    BY <2>4 DEF Following
  <2> HIDE DEF Following
  <2> QED
    BY <2>2, <2>3, <2>4, <2>5 DEF Feed!Init, NoRead
<1>2. ASSUME WatchInv, WatchInv', [Next]_vars PROVE [Feed!Next]_(Feed!vars)
  <2>0. deaf \in BOOLEAN /\ deaf' \in BOOLEAN /\ HistInv
    BY <1>2 DEF WatchInv, ShapeInv
  <2>1. CASE NamespaceChanges \/ PodChanges \/ PodsDeleted \/ EventRecorded
    BY <1>2, <2>1, ChangeStep
  <2>2. ASSUME NEW src \in Notified,
               Apply(src) \/ Relist(src) \/ Resync(src) \/ notifySubscribers
        PROVE  [Feed!Next]_(Feed!vars)
    <3>1. UNCHANGED <<hist, cli>>
      BY <1>2, <2>2, InformerSteps DEF WatchInv
    <3>2. Following' = Following
      BY <3>1 DEF Following
    <3> QED
      BY <2>0, <3>1, <3>2, QuietStep
  <2>3. "ns" \in Notified
    BY DEF Notified
  <2>4. CASE Handler
    <3>1. UNCHANGED <<hist, deaf, cli>>
      BY <1>2, <2>4, HandlerMoves, GetReads, SendKeeps DEF Handler
    <3> QED
      BY <2>0, <3>1, QuietStep
  <2>5. CASE Recv
    BY <1>2, <2>5, ShowStep
  <2>6. CASE StartWatch \/ UpEnds \/ Break \/ RecvError \/ Rewatch
    BY <1>2, <2>0, <2>6, ClientKeeps, QuietStep
  <2>7. CASE UNCHANGED vars
    BY <2>0, <2>7, QuietStep DEF vars
  <2> QED
    BY <1>2, <2>1, <2>2, <2>3, <2>4, <2>5, <2>6, <2>7 DEF Next
<1> QED
  BY <1>1, <1>2, WatchInvariant, PTL DEF Spec, NeverGoesBack, Feed!SafeSpec

=============================================================================
