--------------------------------- MODULE Up ---------------------------------
(***************************************************************************)
(* `blimp up` as a process: the lock file that it shares with another      *)
(* `blimp up` of the same user, its steps up to the deployment (the images *)
(* are those of ImageBuild), and then the goroutines it waits for: the one *)
(* that runs Syncthing, the tunnels to the services' ports and the GUI,    *)
(* with the user's signals among them.                                     *)
(***************************************************************************)
EXTENDS ImageBuild

CONSTANT Tunnels \* the TCP ports that the Compose file may publish

ASSUME TunnelsAssumption == IsFiniteSet(Tunnels)

VARIABLES
    pc,         \* where run is
    pidfile,    \* whose pid is in up.pid: "none", "me", "other", or a "dead" process
    other,      \* the other up: "off", at the "prompt", past the check and the
                \* prompt ("checked"), or has it "locked"
    shared,     \* history: both have been past the check at the same time
    detach,     \* the flag --detach
    mounts,     \* there are folders to sync
    tunnels,    \* tunnels[t]: "off", "listening" or "failed"
    gui,        \* runGUI: "off", "running" or "returned"
    syncthing,  \* Run of the Syncthing client: "off", what it does next, or
                \* "returned", when syncthingError is closed
    crashed,    \* syncthingError holds an error
    cancelled,  \* syncthingCtx is done
    daemon,     \* the Syncthing process: "none", "alive" or "dead"
    signals,    \* signals in the channel exit, which holds one
    down        \* down.Run: "off", "running" or "returned"

lockVars == <<pidfile, other, shared>>
choiceVars == <<detach, mounts>>
goVars == <<tunnels, gui, syncthing, crashed, cancelled, daemon>>
upVars == <<pc, lockVars, choiceVars, goVars, signals, down>>
vars == <<upVars, buildVars>>

Ended == {"returned", "exited", "killed"}
BeforeLock == {"check", "prompt", "lock"}
BeforeNotify == {"load", "create", "images", "deploy", "start", "notify"}
Holding == BeforeNotify \cup {"select", "reap", "down"}
Watching == {"connect", "scan", "sync", "switch", "synced"}

RunTypeOK ==
    /\ pc \in Ended \cup BeforeLock \cup Holding
    /\ pidfile \in {"none", "me", "other", "dead"}
    /\ other \in {"off", "prompt", "checked", "locked"}
    /\ shared \in BOOLEAN /\ detach \in BOOLEAN /\ mounts \in BOOLEAN
    /\ crashed \in BOOLEAN /\ cancelled \in BOOLEAN
    /\ tunnels \in [Tunnels -> {"off", "listening", "failed"}]
    /\ gui \in {"off", "running", "returned"}
    /\ syncthing \in {"off", "config", "exec", "returned"} \cup Watching
    /\ daemon \in {"none", "alive", "dead"}
    /\ signals \in 0 .. 1
    /\ down \in {"off", "running", "returned"}

TypeOK == BuildTypeOK /\ RunTypeOK

Init ==
    /\ BuildInit
    /\ pc = "check"
    /\ pidfile \in {"none", "dead"}
    /\ other = "off" /\ shared = FALSE
    /\ detach = FALSE /\ mounts = FALSE
    /\ tunnels = [t \in Tunnels |-> "off"] /\ gui = "off"
    /\ syncthing = "off" /\ crashed = FALSE /\ cancelled = FALSE /\ daemon = "none"
    /\ signals = 0 /\ down = "off"

-----------------------------------------------------------------------------
(* The lock: reading it, writing it and removing it are separate steps      *)

\* The file names a process that exists.
UpRunning == pidfile \in {"me", "other"}

\* The other up has found no lock, or its user has chosen to go on.
OtherPast == other \in {"checked", "locked"}

\* The file as it is once the process of owner is gone
Orphaned(owner) == IF pidfile = owner THEN "dead" ELSE pidfile

CheckLock ==
    /\ pc = "check"
    /\ pc' = IF UpRunning THEN "prompt" ELSE "lock"
    /\ shared' = (shared \/ (~UpRunning /\ OtherPast))
    /\ UNCHANGED <<pidfile, other, choiceVars, goVars, signals, down, buildVars>>

\* The user's answer to the prompt
Answer ==
    /\ pc = "prompt"
    /\ \/ pc' = "lock" /\ shared' = (shared \/ OtherPast)
       \/ pc' = "exited" /\ UNCHANGED shared
    /\ UNCHANGED <<pidfile, other, choiceVars, goVars, signals, down, buildVars>>

\* Fault: a file that is there already is left alone.
TakeUpLockIfAbsent ==
    /\ pc = "lock"
    /\ pidfile' = IF pidfile = "none" THEN "me" ELSE pidfile
    /\ pc' = "load"
    /\ UNCHANGED <<other, shared, choiceVars, goVars, signals, down, buildVars>>

\* WriteFile replaces what the file holds.  If it fails, run returns before the
\* lock's release is deferred.
TakeUpLock ==
    /\ pc = "lock"
    /\ \/ pc' = "load" /\ pidfile' = "me"
       \/ pc' = "exited" /\ UNCHANGED pidfile
    /\ UNCHANGED <<other, shared, choiceVars, goVars, signals, down, buildVars>>

\* run returns and the process exits: the deferred calls cancel Syncthing's
\* context and remove the lock file, whoever wrote it.  Whether the Syncthing
\* process is killed before the process is gone is open.
Return ==
    /\ pc' = "returned"
    /\ pidfile' = "none"
    /\ cancelled' = TRUE
    /\ daemon' \in {daemon} \cup (IF daemon = "alive" THEN {"dead"} ELSE {})
    /\ UNCHANGED <<other, shared, choiceVars, tunnels, gui, syncthing, crashed, signals, down>>

\* os.Exit: nothing that was deferred runs.
Exit ==
    /\ pc' = "exited"
    /\ pidfile' = Orphaned("me")
    /\ UNCHANGED <<other, shared, choiceVars, goVars, signals, down>>

-----------------------------------------------------------------------------
(* The other up                                                             *)

OtherChecks ==
    /\ other = "off"
    /\ other' = IF UpRunning THEN "prompt" ELSE "checked"
    /\ shared' = (shared \/ (~UpRunning /\ pc \in Holding \cup {"lock"}))
    /\ UNCHANGED <<pc, pidfile, choiceVars, goVars, signals, down, buildVars>>

\* Its user answers yes.  Any other answer ends it.
OtherAnswers ==
    /\ other = "prompt"
    /\ other' = "checked"
    /\ shared' = (shared \/ pc \in Holding \cup {"lock"})
    /\ UNCHANGED <<pc, pidfile, choiceVars, goVars, signals, down, buildVars>>

OtherTakes ==
    /\ other = "checked"
    /\ other' = "locked" /\ pidfile' = "other"
    /\ UNCHANGED <<pc, shared, choiceVars, goVars, signals, down, buildVars>>

\* It returns and removes the file, or dies and leaves it.
OtherEnds ==
    /\ other # "off"
    /\ other' = "off"
    /\ \/ other = "locked" /\ pidfile' = "none"
       \/ pidfile' = Orphaned("other")
    /\ UNCHANGED <<pc, shared, choiceVars, goVars, signals, down, buildVars>>

-----------------------------------------------------------------------------
(* Up to the deployment                                                     *)

Load ==
    /\ pc = "load"
    /\ \/ pc' = "create" /\ UNCHANGED <<lockVars, choiceVars, goVars, signals, down>>
       \/ Return
    /\ UNCHANGED buildVars

\* A failure is fatal: log.Fatal exits at once.
createSandbox ==
    /\ pc = "create"
    /\ \/ /\ pc' = "images" /\ phase' = "cache"
          /\ UNCHANGED <<lockVars, choiceVars, goVars, signals, down>>
       \/ Exit /\ UNCHANGED phase
    /\ UNCHANGED <<alwaysBuild, current, toBuild, needToPush, local, registry, pushes,
                   builtImages, prePushVars, tagVars>>

ImagesBuilt ==
    /\ pc = "images"
    /\ \/ /\ phase = "done" /\ pc' = "deploy"
          /\ UNCHANGED <<lockVars, choiceVars, goVars, signals, down>>
       \/ phase = "failed" /\ Return
    /\ UNCHANGED buildVars

\* Nothing of the build is used after the deployment, and it is forgotten.
Deploy ==
    /\ pc = "deploy"
    /\ \/ /\ pc' = "start"
          /\ BuildForgotten
          /\ UNCHANGED <<lockVars, choiceVars, goVars, signals, down>>
       \/ Return /\ UNCHANGED buildVars

\* What the flags and the Compose file say is first used here: whether there are
\* bind volumes, which ports are published.
StartGoroutines ==
    /\ pc = "start"
    /\ pc' = "notify"
    /\ detach' \in BOOLEAN
    /\ mounts' \in BOOLEAN
    /\ syncthing' = IF mounts' THEN "config" ELSE "off"
    /\ \E published \in SUBSET Tunnels :
          tunnels' = [t \in Tunnels |-> IF t \in published THEN "listening" ELSE "off"]
    /\ gui' = "running"
    /\ UNCHANGED <<lockVars, crashed, cancelled, daemon, signals, down, buildVars>>

Notify ==
    /\ pc = "notify"
    /\ pc' = "select"
    /\ UNCHANGED <<lockVars, choiceVars, goVars, signals, down, buildVars>>

-----------------------------------------------------------------------------
(* Syncthing, the tunnels and the GUI                                       *)

Alive == pc \notin Ended

\* Fault: syncthingError is closed only after an error.
RunReturnsUnclosed ==
    /\ syncthing' = IF cancelled THEN "off" ELSE "returned"
    /\ crashed' = ~cancelled

\* Run returns.  The goroutine then sends an error, unless the context is done,
\* and closes syncthingError in either case.
RunReturns ==
    /\ syncthing' = "returned"
    /\ crashed' = ~cancelled

SyncthingRunVars == <<pc, lockVars, choiceVars, tunnels, gui, cancelled, signals, down, buildVars>>

\* Markers, ignore rules, the binary and its configuration are written.
WriteConfig ==
    /\ Alive /\ syncthing = "config"
    /\ \/ syncthing' = "exec" /\ UNCHANGED crashed
       \/ RunReturns
    /\ UNCHANGED <<SyncthingRunVars, daemon>>

\* The start fails if the context is done.
StartSyncthing ==
    /\ Alive /\ syncthing = "exec"
    /\ \/ /\ ~cancelled
          /\ syncthing' = "connect" /\ daemon' = "alive"
          /\ UNCHANGED crashed
       \/ RunReturns /\ UNCHANGED daemon
    /\ UNCHANGED SyncthingRunVars

\* A step of performInitialSync: it asks the APIs until they say that it is done,
\* or gives up, since the context is done, the time is over, or errors repeat.
\* It is not checked whose daemon answers: another up's has the same port.
waitUntil(step, next) ==
    /\ Alive /\ syncthing = step
    /\ \/ syncthing' = next /\ UNCHANGED crashed
       \/ RunReturns
    /\ UNCHANGED <<SyncthingRunVars, daemon>>

waitUntilConnected == waitUntil("connect", "scan")
waitUntilScanned == waitUntil("scan", "sync")
waitUntilSynced == waitUntil("sync", "switch")
setLocalFolderType == waitUntil("switch", "synced")

performInitialSync ==
    waitUntilConnected \/ waitUntilScanned \/ waitUntilSynced \/ setLocalFolderType

\* One of Syncthing's own two tunnels fails: its error, the first one, is received.
SyncthingTunnelFails ==
    /\ Alive /\ syncthing \in Watching
    /\ RunReturns
    /\ UNCHANGED <<SyncthingRunVars, daemon>>

DaemonCrashes ==
    /\ daemon = "alive"
    /\ daemon' = "dead"
    /\ UNCHANGED <<pc, lockVars, choiceVars, tunnels, gui, syncthing, crashed, cancelled,
                   signals, down, buildVars>>

\* exec.CommandContext
DaemonKilled ==
    /\ Alive /\ cancelled
    /\ DaemonCrashes

DaemonWaited ==
    /\ Alive /\ syncthing \in Watching /\ daemon = "dead"
    /\ RunReturns
    /\ UNCHANGED <<SyncthingRunVars, daemon>>

\* Listening or accepting fails.
TunnelFails(t) ==
    /\ pc \in {"notify", "select", "reap", "down"} /\ tunnels[t] = "listening"
    /\ tunnels' = [tunnels EXCEPT ![t] = "failed"]
    /\ UNCHANGED <<pc, lockVars, choiceVars, gui, syncthing, crashed, cancelled, daemon,
                   signals, down, buildVars>>

\* The logs of all services have ended, or following them fails.
GuiReturns ==
    /\ Alive /\ gui = "running"
    /\ gui' = "returned"
    /\ UNCHANGED <<pc, lockVars, choiceVars, tunnels, syncthing, crashed, cancelled, daemon,
                   signals, down, buildVars>>

-----------------------------------------------------------------------------
(* The end                                                                  *)

\* errgroup's Wait returns when all its goroutines have.
TunnelsReturned ==
    /\ \E t \in Tunnels : tunnels[t] = "failed"
    /\ \A t \in Tunnels : tunnels[t] # "listening"

SelectError ==
    /\ pc = "select"
    /\ syncthing = "returned" \/ gui = "returned" \/ TunnelsReturned
    /\ Return
    /\ UNCHANGED buildVars

\* The first signal: the contexts are cancelled, and the end of Syncthing awaited.
SelectExit ==
    /\ pc = "select" /\ signals = 1
    /\ signals' = 0
    /\ cancelled' = mounts
    /\ pc' = "reap"
    /\ UNCHANGED <<lockVars, choiceVars, tunnels, gui, syncthing, crashed, daemon, down, buildVars>>

Reaped ==
    /\ pc = "reap"
    /\ mounts => syncthing = "returned"
    /\ \/ detach /\ Return
       \/ /\ ~detach
          /\ pc' = "down" /\ down' = "running"
          /\ UNCHANGED <<lockVars, choiceVars, goVars, signals>>
    /\ UNCHANGED buildVars

\* down.Run returns: the sandbox is gone, or it failed (see StatusWatch).
DownReturns ==
    /\ pc = "down" /\ down = "running"
    /\ down' = "returned"
    /\ UNCHANGED <<pc, lockVars, choiceVars, goVars, signals, buildVars>>

\* It has finished, or there is a second signal.
SelectDown ==
    /\ pc = "down"
    /\ down = "returned" \/ signals = 1
    /\ Return
    /\ UNCHANGED buildVars

\* A signal: it ends the process until Notify, and goes to the channel afterwards,
\* unless one is there.
Signal ==
    /\ Alive
    /\ IF pc \in BeforeLock \cup BeforeNotify
       THEN /\ pc' = "killed" /\ pidfile' = Orphaned("me")
            /\ phase' = IF phase = "off" THEN "off" ELSE "dead"
            /\ UNCHANGED signals
       ELSE signals = 0 /\ signals' = 1 /\ UNCHANGED <<pc, pidfile, phase>>
    /\ UNCHANGED <<other, shared, choiceVars, goVars, down, alwaysBuild, current, toBuild,
                   needToPush, local, registry, pushes, builtImages, prePushVars, tagVars>>

-----------------------------------------------------------------------------
UpSteps ==
    \/ CheckLock \/ TakeUpLock \/ Load \/ createSandbox \/ ImagesBuilt \/ Deploy
    \/ StartGoroutines \/ Notify \/ SelectError \/ SelectExit \/ Reaped
    \/ DownReturns \/ SelectDown
    \/ WriteConfig \/ StartSyncthing \/ DaemonKilled \/ DaemonWaited

Environment ==
    \/ Answer \/ OtherChecks \/ OtherAnswers \/ OtherTakes \/ OtherEnds \/ Signal
    \/ performInitialSync \/ SyncthingTunnelFails \/ DaemonCrashes \/ GuiReturns
    \/ \E t \in Tunnels : TunnelFails(t)

Builds == BuildNext /\ UNCHANGED upVars

Next == UpSteps \/ Environment \/ Builds

(***************************************************************************)
(* The steps of the CLI and of TagImages are taken by goroutines that run. *)
(* It is assumed that Docker, buildkit, the registry and the cluster       *)
(* controller answer the CLI's calls at some time, with an error or not.   *)
(* Nothing is assumed of the user, of the other up and of what fails.      *)
(***************************************************************************)
Fairness ==
    /\ WF_vars(UpSteps)
    /\ WF_vars(WriteConfig) /\ WF_vars(StartSyncthing) /\ WF_vars(DaemonKilled) /\ WF_vars(DaemonWaited)
    /\ WF_vars(SelectExit \/ SelectError)
    /\ WF_vars(BuildSteps /\ UNCHANGED upVars)
    /\ WF_vars((pushBaseImages \/ RecvTag) /\ UNCHANGED upVars)
    /\ WF_vars(TagAuthorize /\ UNCHANGED upVars) /\ WF_vars(TagSend /\ UNCHANGED upVars)
    /\ \A s \in Services :
          WF_vars(TaskPushed(s) /\ UNCHANGED upVars) /\ WF_vars(TaskGives(s) /\ UNCHANGED upVars)

Spec == Init /\ [][Next]_vars /\ Fairness

(***************************************************************************)
(* From TakeUpLock to ReleaseUpLock the lock file says that an up is       *)
(* running, so that blimp up and blimp down ask the user first; also after *)
(* an earlier up has died and left its file.  The lock is not taken        *)
(* atomically: two ups that are past the check at the same time lose it.   *)
(***************************************************************************)
LockKept == pc \in Holding /\ ~shared => UpRunning

(***************************************************************************)
(* buildImages ends, whatever becomes of the call of TagImages and in      *)
(* whatever order its results arrive.                                      *)
(***************************************************************************)
BuildEnds == pc = "images" ~> pc # "images"

(***************************************************************************)
(* "Wait for the user to exit, or for something to error": once up waits,  *)
(* a signal, the end of Syncthing or of the GUI and the failure of the     *)
(* tunnels end it, whatever else happens in the meantime.  Of the tunnels  *)
(* all must have failed: Wait does not report the error of one while       *)
(* another goes on listening.                                              *)
(***************************************************************************)
ExitOrErrorEndsUp ==
    (pc = "select" /\ (signals = 1 \/ syncthing = "returned" \/ gui = "returned" \/ TunnelsReturned))
        ~> pc \in Ended
=============================================================================
