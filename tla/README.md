# A specification of Blimp in TLA+

Blimp runs the services of a Docker Compose file in Kubernetes. `blimp up` asks
the *cluster controller* for a sandbox (a namespace), builds images, syncs local
files with Syncthing and has the services deployed as pods; a *node controller*
on every Kubernetes node tells the pods when they may boot and tunnels
connections. All three are Go programs that keep very little state of their own:
the state is in Kubernetes objects, which several RPCs, goroutines and Kubernetes'
own controllers read and write one request at a time, without locks. What can go
wrong is therefore mostly a matter of order, and that is what these modules are
about.

## Inventory

| Part | Source | State | Operations | Hard behaviour |
|---|---|---|---|---|
| Sync tracker | `node/wait/sync.go`, `pkg/syncthing/notifier.go` | map of streams, waiters, result channels | RunServer, Run, WaitFor, NewWaiter; the CLI's runServer | streams that replace each other, reads under a lock used after it, lost streams, CLI restarts |
| Boot order | `node/wait/wait.go`, `cluster-controller/pod.go`, `sandbox/init` | pods and their statuses, an informer's copy of them, the native volume | CheckReady and its waiters, ToPod, vcp | stale cache, waits that depend on each other, a stream that breaks |
| Persistent volumes | `cluster-controller/volume` | PersistentVolumes, seed claims, claims | CreatePVC, PermanentlyDeletePVC | seeds bound to other namespaces' volumes, conflicts, calls cut short |
| Pod deployment | `pkg/kube/deploy.go`, `delete.go`, `deployCustomerPods`, `Restart` | pods with the spec they were made from | DeployPod, DeletePod | delete-and-recreate by concurrent calls, crash in between |
| Node controller booter | `cluster-controller/node/sync.go` | work queue, Services, taints, certificates | runWorker, deployNodeController, watchDNSTaint | retries, goroutines that end, crash, nodes that come back |
| Sandbox RPCs | `cluster-controller/main.go` | namespaces, policy, claim, service account, pods, two informer caches | CreateSandbox, GetBuildkit, DeployToSandbox, DeleteSandbox | calls of one or more users at the same time, check-then-create |
| Mounts of the CLI | `pkg/syncthing/client.go`, `cli/up/up.go` | mounts, ignore rules | NewClient, GetStignore | order of merging and of rules |
| Sandbox status | `cluster-controller/status.go`, `pkg/kube/watch.go`, `cli/up/status.go`, `cli/down` | informers' stores, subscriptions, channels of capacity 1, a stream | WatchStatus, statusFetcher.Get, `blimp down` | coalesced notifications, three stores read one after the other, broken streams, missed deletions |
| Logs | `cli/logs` | a forwarder and a phase notifier per service, a merged channel, a window of lines | ForwardLogs, forwardLogs, the status watch, the printer | reconnections, timestamps of one second, ends of streams against ends of containers |
| Tunnels | `pkg/tunnel`, `link-proxy`, `node/main.go` | a stream and a connection each, a shared buffer, a connection cache | Client, ServerStream, the proxy's reader and writer | half-close, errors in one direction, cancellation |
| `blimp up` | `cli/up`, `cli/util/pidfile.go`, `pkg/syncthing` | the lock file, contexts, channels of errors, the Syncthing process | run, the Syncthing client's Run, signals | several goroutines that may end first, a second `blimp up`, a process that dies |
| Images | `cli/up/build.go`, `pkg/build`, TagImages | local images, registry, two unbuffered channels, a stream | buildImages, BuildAndPush, pushBaseImages, TagImages | goroutines that end early, results in any order, a broken stream |
| Exposed services | `cluster-controller/main.go` | namespace annotations | Expose, Unexpose | RetryOnConflict |
| DNS server of a sandbox | `sandbox/dns` | table of names | rebuild on pod events and every 30 seconds | |
| HTTP gateway, Compose parsing, other CLI commands, protocol buffers | | none, or files of the user | | I/O, parsing, generated code |

How they interact: `blimp up` (Up) calls CreateSandbox (Sandbox, which calls CreatePVC
of Volume and DeployPod of PodDeploy), builds images (ImageBuild), calls DeployToSandbox
(PodDeploy), starts Syncthing with the mounts of SyncMounts, opens the stream of SyncTracker
and tunnels (Tunnel) to the node controller that NodeBooter has deployed, follows the status
(StatusWatch) and then the logs (Logs), and at a signal runs `blimp down` (StatusWatch). The pods' init containers then
call CheckReady (BootOrder), which for bind volumes waits for SyncTracker.
The modules meet at narrow interfaces, and each one has the others' behaviour as an
environment: in BootOrder the end of the initial sync is one action, and in Sandbox
DeployPod's wait for the deletion takes no time and CreatePVC's search for a volume one step
(its claim, its volume's phase and its waits are those of the code). Up is composed
with ImageBuild, whose variables and actions it extends; of the tunnels and the logs it
knows only that they go on or have ended.

## Modules

Each component has one module with the name of its idea. State variables are the
Kubernetes objects, the Go variables that survive an operation that can block,
and the program counters of the calls and goroutines under way. One action is
what happens between two points at which somebody else can act: a request to the
API server, a channel operation, the code under one lock. Variables marked
"history" in the declarations are read by properties only. The definitions marked
`Fault:` are plausible bugs; no specification uses them, they exist to show that
each property would notice.

* **SyncTracker** is one namespace's streams, waiters and CheckReady calls, and
  the CLI's end of a stream. `run` is where the SyncNotifications handler of a
  stream is (RunServer and Run), `pc` where a CheckReady call is (newWaiter,
  NewWaiter, WaitFor), `waiters`, `shutdown`, `result` and `current` are the Go
  variables of these names. A gRPC stream is a count of requests and a queue of
  statuses; it can be lost silently. The CLI answers, notifies unasked when its
  initial sync is over, loses streams, reconnects, and can be restarted. When the stream of a
  CheckReady call breaks (`broken`), the init container makes another call while the first one
  goes on, since its context is not the stream's.
* **BootOrder** is the pods of a Compose file: the init containers that
  `addInitContainers` gives them (BootSequence), vcp seeding the native volume,
  CheckReady's waiters and conditions evaluated on what the informer shows (`seen`),
  which lags behind the pods. The Compose file is chosen in Init from `Composes`.
  MCBootOrder defines the files: every acyclic one of two services.
* **Volume** is CreatePVC and PermanentlyDeletePVC request by request, for several
  namespaces, and Kubernetes' volume controller: binding, provisioning, reclaiming.
  Volume names are never used again. `claimed` survives a conflict, as in the closure.
* **PodDeploy** is deployCustomerPods, DeployPod, DeletePod and Restart. A spec is a
  body (what the user wrote), the images that sanitizers ignore, and whether it was
  read back from Kubernetes.
* **NodeBooter** is client-go's work queue, the workers, the load balancer Service,
  the DNS taint and its watchers, certificate and pod. Whether nodes are reached through load
  balancers with a hostname or an IP, or through NodePorts, which need an annotation on the
  node and no taint, is chosen in Init. What address a certificate names is left out: the
  code keeps the first one, also when a node of the same name comes back with another.
* **Sandbox** is the four RPCs over all users, with the two informer caches that
  CreateSandbox reads. Object contents are left out but for what a pod was made from. Of
  CreatePVC it has the requests and waits with the phase of the user's PersistentVolume, which
  Kubernetes' volume controller and the seed claims of other users change meanwhile; what
  createPersistentVolume does to find or make a volume is one step that may take for ever, since
  that is Volume. `stranded` remembers the claims that were made for a volume that an older claim had.
  `outlived` is the history of users whose namespace went while a call was at work in it.
* **SyncMounts** is NewClient's merge of mounts, step by step, and GetStignore's
  rules. Which path a list of rules lets through (Matches, Synced) is Syncthing's,
  from its documented first-match rule. MCSyncMounts defines a small tree.
* **ServiceStatus** is statusFetcher.Get and getServiceStatus as functions of what they read:
  the namespace, the pods with their init containers, and the kubelet's events. It has no
  state and says what picture of a sandbox a client is sent.
* **StatusFeed** is the abstract specification of WatchStatus: a client's picture is made of
  things that were so, never goes back in time, and becomes the truth in the end.
* **StatusWatch** is the way from Kubernetes to the client: watch events that an informer
  applies to its store, its resync and a relist that finds a deletion, notifySubscribers,
  the coalescing channels, the handler that reads namespace, pods and events from three
  stores at three times, the stream with its breaks, and the client: `blimp up` or `blimp down`.
  `hist` is the history of each Kubernetes object kind and `cache` the place in it that an
  informer has got to; the picture a client holds is the triple of places it was made from.
  MCStatusWatch defines the pods: one for each branch of getServiceStatus that the watch can
  meet, and how a pod moves between them.
* **Logs** is `blimp logs`: the forwarders with their reconnections (SinceTime counts whole
  seconds, isOldMessage filters by the last time), the phase notifiers that the status watch
  feeds, the count of running forwarders, and the printer, which sorts a window of lines.
  `written` holds the lines of every instance of every container; a line is its service, the
  instance, its number and its time, which `clock` counts. GetLogs opens a stream of the instance
  that is last then, SortedWindows is what printLogs makes of a window.
  MCLogs defines the commands.
* **Pipe** is the abstract specification of a tunnel: each program receives a prefix of what
  the other one sent.
* **Tunnel** is one tunnel: both ends with the goroutines that copy (a reader that shares one
  buffer with a sender, and a writer), the EOF message, the handler of the node controller,
  and for the link proxy the simpler client of `link-proxy/tunnel.go`. Data are numbered units.
* **ImageBuild** is buildImages: the lookups in the registry, Docker's BuildAndPush next to
  pushBaseImages and the handler TagImages with its goroutines, or buildkit. Images are told
  apart by where they come from; tar files, Dockerfiles and digests are left out.
* **Up** extends it to the whole of `blimp up`: the lock file and another `blimp up`, the steps up
  to the deployment, the Syncthing client's Run with the steps of the initial sync, the
  tunnels, the GUI, the two selects at the end, and the user's signals.
* **VolumeProofs**, **PodDeployProofs**, **NodeBooterProofs**, **SandboxProofs**,
  **StatusWatchProofs** and **UpProofs** (with ImageBuild) have the theorems about the module of
  their name, **WaitProofs** those about what a booting service waits for (BootOrder, SyncTracker),
  **StreamProofs** those about the streams that the CLI keeps open (Tunnel, Logs); see "Proofs".
  Since two modules meet in each of the last two, the initial states, steps and specifications
  of BootOrder and Logs have the module's name in theirs (BootSpec, LogsSpec, and with
  fairness FairBootSpec, FairLogsSpec).

PROJECT.json maps every definition to its lines.

## Runs

Every passing run but `mounts` checks safety and liveness together, under the fair
specification; for that reason they use no symmetry.
Deadlock is not checked: every instance is bounded by counters, or follows a command to its
end, and may stop.

* `sync` (SyncTracker.cfg): two stream slots, two call slots, one init container, one
  loss (of a stream or of a call), one CLI restart; 765,000 states. Two slots let an old stream
  and its successor overlap, and a call whose own stream broke and the one that the container
  makes next; the loss and the restart are the two reasons for a successor, and slots are
  reused, so that a container calls any number of times. NoSendOnClosedResult,
  ReadyOnlyAfterSync, ServedStreamIsCurrent, AnswerOnItsWay,
  OnlyLateCallsAreOrphaned and BootsUnlessOrphaned. Larger instances are what the
  proofs are for.
* `boot` (BootOrder.cfg): two services, all conditions, links, sharing of the volume
  and bind volumes, one broken CheckReady stream, one flap of a probe; s1 may exit.
  DependencyOrder (StartedOrder, HealthyOrder, SeededOrder), and AllBoot: no waits block
  each other.
* `volume` (Volume.cfg): two namespaces with a call each, two volumes, two tries
  instead of eight, and one `blimp down -v` or aborted call. `blimp up` and
  `blimp down` are repeated any number of times. OwnVolumeIsKept (LabelledIsRetained and
  UsedVolumeKeepsLabel: a volume is private to its owner), NoSurplusVolume
  (OneVolumePerNamespace, LeakNeedsUpset), StolenVolumeComesBack, GivenUpIsDeleted. A second
  call of the same namespace is left out of the run: the code then does label two volumes.
  That OwnVolumeIsKept holds for any number of calls is proved.
* `deploy` (PodDeploy.cfg): one pod, two bodies, two images, two calls at a time, two
  restarts and two crashes; deployments are not bounded. DeployAloneConverges
  (DeployConverges, FailsOnlyTogether), UnchangedPodSurvives, AloneReturns. Pods of different
  names do not interact in these calls.
* `node` (NodeBooter.cfg): one node, all kinds of addresses, two workers, one retry, two failing
  requests (so that the retries can be used up), one DNS error, one update, one deletion, one
  crash. ControllerIsPrepared (CertBeforePod, UnreachableIsTainted), EventuallyDeployed,
  TaintRemoved. Two workers are needed for a key that is added while it is processed.
* `sandbox` (Sandbox.cfg): two users and a cap of one, two calls at a time and in all,
  one of which may be DeleteSandbox or be cut short; 606,000 states. The sandbox of one user was
  removed just before (`Returning`), so that its volume is still Bound to the old claim at first.
  The other user has no volume yet, and so a seed claim that may bind the first one's. CapUnlessBlind (of all sandboxes but the
  excused ones), MadeInOrder (IsolatedBeforePods, ReservationFirstUnlessSkipped, for every user
  whose namespace did not go under a call), SuccessMeansUsable, and CallsReturn:
  each call returns or comes to one of the waits that nothing may end (Hangs).
* `mounts` (SyncMounts.cfg): all lists of up to four volumes over a tree of depth
  three. SyncsWhatIsMounted (SyncedUnlessFileFirst, NothingElseSynced, NoNestedMounts). Every
  run of NewClient is one behaviour, so the state count is large and the graph a forest.
* `status` (StatusWatch.cfg): one service with the ten pods of MCStatusWatch, two changes
  after the start of a command, one broken stream, one message in flight; 230,000 states. Two
  changes are what a notification can coalesce, or what can come between two of Get's reads.
  ImplementsFeed is the refinement of StatusFeed, its safety part NeverGoesBack with its liveness
  Settles; DownReturns,
  HandlerEnds and ReadyMeansRan are about the handler and the two commands.
* `logs` (Logs.cfg): one service with two lines, one restart and one broken stream, or two
  services with a line each, of which one restarts; a channel of one line instead of 32 per service, and
  seconds of two ticks, so that lines share a second; 200,000 states. PrintedOnce, NoGap,
  AllPrinted, Returns, TailedAgain.
* `tunnel` (Tunnel.cfg): one unit from the client and two from the service, one message in
  flight in each direction, both kinds of client, any program may close, half-close or stop
  reading, the network may break; 550,000 states. Two units are enough to see the second in
  the buffer that the first was sent from. ImplementsPipe is the refinement of Pipe;
  EndsTogether, ReplyComplete.
* `up` (Up.cfg): two services to build and two published ports, every flag and answer, one
  other `blimp up` at a time, which may come, be asked, and go; 480,000 states. Two services let one base
  image be copied and the other not, two ports let one tunnel fail while the other listens.
  LockKept, ImagesPushed, ResponseComes, BuildEnds, ExitOrErrorEndsUp.

One run ends in a violation: the code does not do what a comment says.

* `volume_quick_up`: `blimp up` right after `blimp down` finds the namespace's volume
  still Bound to the old claim. Only a Released volume is made available, so the new
  claim stays Pending and CreatePVC waits until its client gives up.

### Observed

Other places where the code falls short of a comment, or of what one might expect, appear as
the exceptions in the passing properties, which hold with them and fail without them:

* a CheckReady call that looked a stream up, and registers after Run's cleanup while the
  handler has not returned yet, sends its request successfully and is forgotten; `sync.go`
  says that the send would fail (`late` in OnlyLateCallsAreOrphaned and BootsUnlessOrphaned);
* conditionFinishedVolumeInit ignores pods without a volume-initialising container, and takes a
  pod that the kubelet has not reported on yet for one (SeededOrder);
* conditionPodHealthy holds of a pod without container statuses (`blind` in HealthyOrder);
* a volume that `blimp down -v` gives up may be taken over by a call whose seed is bound to
  it (`given`), and a call that is cut short leaves a retained volume without owner
  (LeakNeedsUpset);
* two concurrent calls of one namespace may label two volumes, and of three one may leave a
  retained volume without owner behind, although nothing was deleted or cut short; hence
  NoSurplusVolume is checked, and proved, for one call per namespace;
* a pod that Restart made never equals what a Compose file says and is recreated by the
  next `blimp up` (UnchangedPodSurvives excepts it);
* the taint is set only by the deployment that creates the Service; if that one fails while it
  waits for an address, the retry deploys the node controller on an untainted node (`cut` in
  UnreachableIsTainted);
* an unexpected DNS error ends watchDNSTaint, and failures count over a node's whole life
  since a success does not call Forget (`abandoned`);
* the cap on sandboxes is checked in a cache, requests before the namespace is created, and
  not by GetBuildkit (`excused` in CapUnlessBlind);
* a reservation that was not scheduled in time counts as a customer pod when CreateSandbox is
  repeated (`skipped`);
* CreatePVC waits without a timeout: for a seed claim to be bound, for its own claim when the
  namespace has gone, when the volume has been bound by another user's seed claim, and when the
  volume was still Bound to an older claim as CreatePVC looked at it, or was released between that
  and the creation of the claim (`Hangs` in CallsReturn; the run above shows one of them);
* of two calls of one user that both find an object missing, one fails (SuccessMeansUsable is about
  the one that succeeds);
* a deployment next to another one, or to a Restart, may fail at the other's pod, be undone, or wait
  as long as pods of the name are made again (`alone` in DeployAloneConverges and AloneReturns);
* when a client has half-closed its side, the end of its direction and data from the service are
  selected among at random, and the answer may be cut off (ReplyComplete is about clients that
  keep their side open);
* the context of a CheckReady call is not its stream's: a call whose stream broke goes on in the
  node controller until it has something to send (`broken` in SyncTracker);
* a call that started before `blimp down` may go on in the namespace that the next `blimp up`
  creates, and deploy pods there before the policy and the reservation (`outlived` in MadeInOrder);
* with a file of a directory, the directory and a mount above them, the rule that keeps the
  file's siblings out comes before the one that lets the directory in (SyncedUnlessFileFirst);
* the informer's handler ignores a deletion that it learns of from a relist (a tombstone), so
  that a client is not told that the namespace has gone (`deaf` in ImplementsFeed, DownReturns);
* WatchStatus waits for a notification without a look at its stream: the handler of a client
  that has gone ends at the next resync, and never if the sandbox is gone (HandlerEnds);
* a pod that failed before it had containers counts as one that has started (ReadyMeansRan);
* podExited of a phase notifier stays closed: a later disconnection of a container that runs is
  taken for its exit, and its log is printed from the beginning (`staleExit` in PrintedOnce);
* of two lines with the same time, the second is lost if the stream breaks between them (NoGap);
* the link proxy never cancels its RPC, so that the handler may wait in Send for ever, and a
  program that does not read holds up the end of its tunnel (EndsTogether);
* when the stream of TagImages breaks, its goroutines may drop their responses and leave the
  handler waiting for them (ResponseComes);
* the lock file is checked and written in two steps, and released by whoever returns (`shared` in
  LockKept);
* the failure of one published port is not reported while another tunnel listens
  (ExitOrErrorEndsUp).

Met while modelling and outside the properties: the Syncthing process may outlive `blimp up`
when it returns because of an error, since nobody waits for it then; WriteConfig looks for a
stale `.stignore` in the working directory and not in the mount it is about; the initial sync
does not check whose Syncthing answers at the fixed port; a cycle in `depends_on` is not
rejected by `validate.go`, and its services wait for each other; two services that share an
empty volume may both copy their files into it (`vcp/main.go`).

### Fairness

Weak fairness of the steps of goroutines and calls (the Go scheduler runs them, requests
are answered), of informers, kubelets and controllers of Kubernetes, and of retry loops and
timers. Users are not fair: nothing says that they run a command. In Volume the binding of
a claim is strongly fair, since the volume controller goes through all pending claims
again and again and does not put one off forever in favour of others. In Sandbox nothing
says that a pod is ever scheduled: calls return because they time out. The volume controller, which
releases volumes and binds claims, is fair there too, but not the making of a volume for a seed
claim, and not that another user's call gives a volume back. In SyncTracker a call whose stream is
gone need not ever notice it. In StatusWatch the
informers' resync, every 30 seconds in the code, is fair. In Logs nothing is assumed of containers,
and a stream need not break; in Tunnel nothing of the programs and the network, not even that
a program reads; in Up the builders, the registry and the controller answer in the end, with or
without an error, while the initial sync, the GUI, tunnels and the other `blimp up` need not end.

## Proofs

The theorems hold for every value of the constants that satisfies the assumptions of its module.
Those say that "none" values (None, NoPod, NoNode) are none of the things they stand apart from,
that bounds are natural numbers, and in five modules:

* users (Sandbox), services and tunnels (Up) are finite sets, since the code counts
  sandboxes and responses, and waits for all tunnels; a Compose file has a service to build
  (ImageBuild), and there is a spec for pods (Sandbox);
* volumes are positive numbers (Volume): 0 is "no volume" of a call, and List takes the first
  one, for which the numbers stand;
* Compose files are records with the types of BootOrder. That they are acyclic is not assumed: a
  cycle blocks its services, which breaks AllBoot but no safety property;
* pods are records of ServiceStatus (StatusWatch), which says of the history `ran` only what
  Kubernetes guarantees: a container has been started if the kubelet reports that it runs, has ended
  or was restarted, or that its pod runs or has succeeded. PodNext may lead from any of an
  instance's pods to any other;
* a command is a set of services with its bounds, and the channel holds at least one line (Logs).

Every module has TypeCorrect (its TypeOK). The other theorems, and what their invariants add to
the property because the property alone is not inductive:

**WaitProofs** (SyncTracker): any number of streams, calls, containers, losses and restarts.

* TypeCorrect is inductive with CallShape, which says which calls have a stream and a container.
* ResultChannelsSafe: NoSendOnClosedResult. The invariant RegistrationInv adds that whoever is
  in `waiters` is past its registration, that a call has an empty result before it, and that a
  call whose result is empty is still registered: it is these facts that make closing the
  channel and removing the waiter one step as far as anyone can see.
* ServedStreamFound: ServedStreamIsCurrent. HandlerInv adds that nobody holds a stream that was
  not installed, and that a handler that has returned leaves a closed, empty stream.
* OrphansAreLate: OnlyLateCallsAreOrphaned, from RegistrationInv and HandlerInv.
* BootImpliesSynced: ReadyOnlyAfterSync. StatusInv traces a Ready back: a closed result to a
  "synced" in the stream, that one to the CLI process that opened the stream and had notified.
* NoLostWakeup: AnswerOnItsWay. For every call that awaits an answer of a stream one is coming
  (AnswerInv): the request, the status, or the notification that is still to be sent.

**WaitProofs** (BootOrder): any services and Compose files, broken streams and flapping probes.

* DependenciesFirst: DependencyOrder. A service boots on what a CheckReady call read in the
  informer's copy some time ago, so the invariant has to say what survives that time. ViewInv: what
  the copy shows of a pod has been so, and nothing of it is undone (a container that started stays
  started, a volume stays seeded, a pod that was ready once was ready once). MetInv: the waiters
  that have returned belong to the init container that runs, and what they waited for is there.
  PastInv: once that container is over, all that it waited for is there; it gives
  DependencyOrder, since the service's own container is the last.

**VolumeProofs**: any number of namespaces, volumes, tries and upsets.

* VolumesAreKept: OwnVolumeIsKept, for any number of calls of a namespace at the same time. A
  call reads a volume and writes it requests later, when it may be somebody else's. RetainOK,
  TakeOK and NameOK say what a call may rely on at each of its requests; SoleOK, that only one
  namespace can be about to take a fresh volume over, the one whose seed it was provisioned for;
  ClaimOK, that a claim names a volume that is the namespace's own, or lost to `blimp down -v`. VolStep
  is all that any step may do to a volume: it is proved action by action, and the facts about the
  calls that the step does not move follow from it.
* NothingSurplus: NoSurplusVolume, if MaxCalls = 1 (one call of a namespace at a time, as with one
  `blimp up` of a user). The hypothesis is needed: see "Observed". SurplusInv adds that a
  call still looking for a volume has none (LooksOK), that a call has its seed until it deletes it
  and lets go of a volume only when that has an owner (OwnSeedOK, HoldOK), and that a
  volume that refers to a seed is the one the seed is bound to (SeededOK).

**PodDeployProofs**: any pods, specs, calls, restarts and crashes.

* AloneConverges: DeployAloneConverges. DeployInv adds that the annotation of a pod tells what runs
  (Annotated), that while a call is alone the only pod that is going is the one it waits for, whatever
  earlier calls left behind (OnlyCurGoes), that what DeployPod saw is still so when it acts
  on it (DecisionHolds), and what has been achieved so far (Progress).
* UnchangedSurvives: UnchangedPodSurvives, an action property, from DecisionHolds, Annotated
  and FreshSpecs (what a Compose file asks for was not read back from Kubernetes).

**NodeBooterProofs**: any nodes, workers, retries, failures, deletions and crashes.

* WorkersExclusive: no two workers have the same node (OneWorkerPerNode). It rests on KeyInv: the
  keys being processed are those that workers have, and none of them is handed out. That is what
  makes the reads and writes of a deployment safe without locks, and the next theorem
  uses it.
* ControllerPrepared: ControllerIsPrepared. BooterInv adds what a worker has done before it gets to
  where it is (StepsDone), that only hostnames are published late and no taint is removed before
  (LateDNS), and that a node whose Service was created is tainted, or the worker
  that created it is about to do so (TaintFollows).

**SandboxProofs**: any finite number of users, any number of calls and of upsets.

* CapKept: CapUnlessBlind. The check sees a cache, hence the invariant CapInv: there is at most one
  CreateSandbox whose check saw every sandbox and which has not created its own yet,
  since every later check is blind meanwhile, and there is room for that sandbox.
* OrderKept: MadeInOrder. Each call carries what it has found in the namespace (Found):
  the policy before the claim, the claim before the account, the account before any pod,
  the reservation before the customer's pods. FoundStays shows that nothing anybody does takes that away as long as the
  namespace stays.
* SuccessUsable: SuccessMeansUsable. UsableInv adds what a call has waited for so far; a pod
  that was waited for stays as it is without a DeleteSandbox, because the dns and
  buildkitd pods have one spec (PodInv), so that DeployPod never replaces them.

**StatusWatchProofs**: any services, pods and events, any changes, broken streams and messages in flight.

* ReadyContainersRan: ReadyMeansRan. What the client holds was made from three caches read at three
  times, perhaps long ago. WatchInv says that a picture on its way is made of versions that the
  informers had got to (WireInv, GotInv), so that it is about a pod that existed, and that the
  client's picture is that of the versions it has seen (ShownInv). What getServiceStatus can say
  of a pod record is StartedHasRun, case by case. Histories only grow (Grows), so a picture of
  versions once read stays what it was.
* WatchIsFeed: NeverGoesBack, the safety part of ImplementsFeed. Every step is a change of the
  sandbox, the client being shown a picture, its coming or going, the controller missing something,
  or a stutter of StatusFeed. The client is not shown an older picture because WireInv and GotInv
  also order what is under way: what the handler holds was read after what is on the stream, and
  that after what the client has seen. The handler reads the namespace before the pods, and GotInv
  has to say so for the half of a picture that is there in between. All of it survives a broken
  stream, since the next handler reads the caches anew and caches only move on.

**StreamProofs** (Tunnel): any number of units in both directions and any room in the gRPC stream.

* RepliesComplete: ReplyComplete. ReplyInv: until the client has the whole answer, no
  goroutine of either end has given up, unless one of the excuses of the property applies.
* TunnelIsPipe: Tunnel implements Pipe, with its next-state relation: every step of Tunnel is a step of
  Pipe or leaves the variables of Pipe unchanged. The invariant accounts for every
  unit on its way, in order: what arrived is the first part of what was sent (ArrivedInv), what is queued
  follows on it (TransitInv), and what is in the reader's buffer follows on that as long
  as it will be sent; BufferInv says that the shared buffer is never in the hands of both
  goroutines, without which a unit could be overwritten, and EofInv that nothing follows Eof.
  Delivery of a message is then the step of Pipe by which a program receives the next units.

**StreamProofs** (Logs): any services and commands, lines with any times, restarts, broken streams
and any capacity of the channel. What was sent is what is printed, in the window and on the
channel, in this order; the theorems are about it, and the printer is shown to respect them:
a window is reordered only so that a line passes those with a later time (Reordered), and the
times of a container do not decrease (TimeInv). LogsInvariant is the invariant LogsInv, in parts:

* LinesPrintedOnce: PrintedOnce. A line is sent once (OnceInv) because of FreshOk: a sent line
  is before the forwarder's place in the stream or not later than its last line, which
  isOldMessage drops, and a forwardLogs that starts from the beginning starts on a later
  instance. The second half needs what the notifier may be believed: that an exit it has told of
  was the end of an instance which has not recovered (NotifierOk, ExitOk), unless
  the exit was stale.
* NothingSkipped: NoGap. The last time is that of a line of this instance or an earlier one
  (LastOk); hence whatever SinceTime or isOldMessage leaves out was sent, or has the time of the
  line before it (GapOk), and a line is sent after those before it (OrderInv).
* EverythingPrinted: AllPrinted. As long as the network holds, a stream is read to its end and the
  container has exited by then (WholeOk); when the last forwarder has gone nothing is left in the
  window or on the channel (EndInv).

**UpProofs**: any finite number of services and tunnels.

* LockIsKept: LockKept. LockInv adds that whoever is past the check when another `blimp up` is there
  is known to share, a process whose user is still being asked not among them, and that nobody else
  writes the file.
* ImagesArePushed: ImagesPushed. ImageInv says for every phase of buildImages how far the image of
  each service is; it needs that nothing of the pushes has begun before the sandbox is there
  (PhaseOff, NotStarted) and that a service's response is given once and is then in one place: in the
  handler's hand, on the stream, in the hand of the goroutine that reads it, or being pushed (OneResult).
* ResponsesCome: ResponseComes. CountInv: TagImages has sent all the responses that it was given
  but the one in hand, and asks for another only while there are more requests.

Each invariant is inductive, or inductive relative to those before it; its proof has a step per action.

Only model-checked, with the bounds above:

* all liveness (the prover handles neither fairness nor ENABLED): BootsUnlessOrphaned, AllBoot,
  StolenVolumeComesBack, GivenUpIsDeleted, AloneReturns, EventuallyDeployed, TaintRemoved,
  CallsReturn, DownReturns, HandlerEnds, Returns, TailedAgain, EndsTogether, BuildEnds and
  ExitOrErrorEndsUp, and of the refinement of StatusFeed its last part, Settles;
* SyncsWhatIsMounted: NewClient's merge and GetStignore are loops over lists, and what they compute
  for lists of any length needs induction over data, which is out of the prover's reach.

## Not modelled

* Exposed services and the DNS server: state of their own, and next in the plan.
* The link proxy's cache of connections to node controllers; GetConnectionInfo; AttachToSandbox
  and BlimpUpPreview, which only read.
* `blimp build`, previews, the registry's authorization, the Syncthing server in the sandbox.
* The HTTP gateway, parsing and validation of Compose files, the other commands of the CLI,
  error values: requests and output, or functions without state. Protocol buffers are generated.
* Inside the modelled parts: object contents, log messages, the bytes and addresses of
  certificates, the contents of files and images, credentials.
* Simplified there: BootOrder deploys all pods anew, and MCBootOrder gives bind volumes to one
  service only; in Logs the entries that only carry an error are left out, and a status changes the
  phases of all services in one step; in Tunnel the empty message that precedes Eof is left out,
  which no program sees.

## Plan

1. Done: SyncTracker with its proofs, BootOrder, Volume, PodDeploy, NodeBooter, Sandbox,
   SyncMounts; StatusWatch with StatusFeed, Logs, Tunnel with Pipe, Up with ImageBuild.
2. Done: the proofs of every safety property but SyncsWhatIsMounted, and the refinements of Pipe
   and of StatusFeed (without Settles).
3. Modules: Expose with RetryOnConflict, the DNS table, the link proxy's cache.
