---------------------------- MODULE SyncTracker ----------------------------
(***************************************************************************)
(* How a service with bind volumes is held back until the CLI has synced   *)
(* the user's files (node/wait/sync.go, pkg/syncthing/notifier.go).        *)
(*                                                                         *)
(* The CLI keeps one SyncNotifications stream open to the node controller. *)
(* A service's wait-sync init container calls CheckReady in a retry loop;  *)
(* each call registers a waiter on the stream that is current, asks the    *)
(* CLI for its status over it, and blocks until the CLI reports "synced"   *)
(* or the stream goes away.  Everything here is for one namespace: no      *)
(* state of SyncTracker is shared between namespaces but the map's lock.   *)
(*                                                                         *)
(* A stream slot (Conns) is reused once nothing refers to it any more, and *)
(* so is an attempt's slot (Attempts); in the code both are fresh objects. *)
(***************************************************************************)
EXTENDS Naturals, Sequences

CONSTANTS
    Conns,        \* slots for cliConn objects and their gRPC streams
    Attempts,     \* slots for CheckReady calls with their syncWaiter
    Pods,         \* the wait-sync init containers of the namespace
    None,         \* no connection, no pod
    MaxLosses,    \* how many streams the network drops
    MaxRestarts   \* how many times the CLI process is restarted

ASSUME NoneAssumption == None \notin Conns /\ None \notin Pods
ASSUME BoundsAssumption == MaxLosses \in Nat /\ MaxRestarts \in Nat

VARIABLES
    current,   \* st.conns[namespace], or None
    run,       \* where the SyncNotifications handler of a stream is
    stream,    \* the stream as the node controller's transport sees it
    shutdown,  \* cliConn.shutdown (capacity 1) holds an error
    waiters,   \* cliConn.waiters: the attempts registered on a stream
    toCli,     \* GetSyncStatusRequests the CLI has yet to answer
    toServer,  \* the statuses the node controller has yet to read
    pc,        \* where a CheckReady call is
    on,        \* the cliConn a CheckReady call looked up
    result,    \* syncWaiter.result: empty, an error in it, or closed
    pod,       \* the init container that made the call
    broken,    \* calls whose stream is gone: the init container makes another
    ready,     \* the init containers that were told Ready
    late,      \* history: calls that registered after Run had returned
    cliOn,     \* the stream the CLI's runServer is serving, or None
    session,   \* number of the CLI process
    sync,      \* per CLI process: the initial sync and syncedChan
    sessionOf, \* the CLI process that opened a stream
    losses     \* streams dropped so far

serverVars  == <<current, run, shutdown, waiters>>
networkVars == <<stream, toCli, toServer, losses>>
callVars    == <<pc, on, result, pod, broken, ready, late>>
cliVars     == <<cliOn, session, sync, sessionOf>>
vars == <<serverVars, networkVars, callVars, cliVars>>

Sessions == 0..MaxRestarts

(***************************************************************************)
(* "accepted": waiting for the handshake or st.lock.  "exiting": Run left  *)
(* its loop but not its deferred cleanup.  "exited": Run has returned.     *)
(* "done": the handler returned, so gRPC has closed the stream.            *)
(***************************************************************************)
RunStates == {"accepted", "running", "exiting", "exited", "done"}
CallStates == {"free", "lookup", "register", "send", "wait", "cancelled"}

\* SyncStatusResponse_Synced with Synced true or false.
Statuses == {"synced", "unsynced"}

\* "silent": the link is gone and the server's transport does not know yet.
StreamStates == {"open", "silent", "closed"}

TypeOK ==
    /\ current \in Conns \cup {None}
    /\ run \in [Conns -> RunStates]
    /\ stream \in [Conns -> StreamStates]
    /\ shutdown \in [Conns -> BOOLEAN]
    /\ waiters \in [Conns -> SUBSET Attempts]
    /\ toCli \in [Conns -> Nat]
    /\ toServer \in [Conns -> Seq(Statuses)]
    /\ pc \in [Attempts -> CallStates]
    /\ on \in [Attempts -> Conns \cup {None}]
    /\ result \in [Attempts -> {"empty", "error", "closed"}]
    /\ pod \in [Attempts -> Pods \cup {None}]
    /\ broken \in SUBSET Attempts
    /\ ready \in SUBSET Pods
    /\ late \in SUBSET Attempts
    /\ cliOn \in Conns \cup {None}
    /\ session \in Sessions
    /\ sync \in [Sessions -> {"syncing", "finished", "notified"}]
    /\ sessionOf \in [Conns -> Sessions]
    /\ losses \in 0..MaxLosses

Init ==
    /\ current = None
    /\ run = [c \in Conns |-> "done"]
    /\ stream = [c \in Conns |-> "closed"]
    /\ shutdown = [c \in Conns |-> FALSE]
    /\ waiters = [c \in Conns |-> {}]
    /\ toCli = [c \in Conns |-> 0]
    /\ toServer = [c \in Conns |-> << >>]
    /\ pc = [a \in Attempts |-> "free"]
    /\ on = [a \in Attempts |-> None]
    /\ result = [a \in Attempts |-> "empty"]
    /\ pod = [a \in Attempts |-> None]
    /\ broken = {}
    /\ ready = {}
    /\ late = {}
    /\ cliOn = None
    /\ session = 0
    /\ sync = [s \in Sessions |-> "syncing"]
    /\ sessionOf = [c \in Conns |-> 0]
    /\ losses = 0

-----------------------------------------------------------------------------
(* The CLI: runSyncCompletionServer                                        *)

\* Nothing in the node controller or in the CLI refers to the slot any more.
Unreferenced(c) ==
    /\ run[c] = "done"
    /\ cliOn # c
    /\ \A a \in Attempts : on[a] # c

\* runServer opens a stream and sends the handshake.
CliConnect(c) ==
    /\ cliOn = None
    /\ Unreferenced(c) /\ c = CHOOSE d \in Conns : Unreferenced(d)
    /\ cliOn' = c
    /\ sessionOf' = [sessionOf EXCEPT ![c] = session]
    /\ run' = [run EXCEPT ![c] = "accepted"]
    /\ stream' = [stream EXCEPT ![c] = "open"]
    /\ shutdown' = [shutdown EXCEPT ![c] = FALSE]
    /\ UNCHANGED <<current, waiters, toCli, toServer, losses, callVars, session,
                   sync>>

\* conn.Send of a status on stream c: it is lost unless the link is up.
CliSend(c, status) ==
    toServer' = IF stream[c] = "open"
                  THEN [toServer EXCEPT ![c] = Append(@, status)]
                  ELSE toServer

\* performInitialSync is over and the client fills syncedChan.
InitialSyncDone ==
    /\ sync[session] = "syncing"
    /\ sync' = [sync EXCEPT ![session] = "finished"]
    /\ UNCHANGED <<serverVars, networkVars, callVars, cliOn, session, sessionOf>>

\* Fault: hasSynced is set, and only a later request would be told.
CliNotifySilently(c) ==
    /\ cliOn = c
    /\ sync[session] = "finished"
    /\ sync' = [sync EXCEPT ![session] = "notified"]
    /\ UNCHANGED <<serverVars, networkVars, callVars, cliOn, session, sessionOf>>

\* select case <-syncedChan: hasSynced is set and the status sent unasked.
CliNotify(c) ==
    /\ cliOn = c
    /\ sync[session] = "finished"
    /\ sync' = [sync EXCEPT ![session] = "notified"]
    /\ CliSend(c, "synced")
    /\ UNCHANGED <<serverVars, stream, toCli, losses, callVars, cliOn, session,
                   sessionOf>>

\* select case <-recvChan: a request is answered with hasSynced.
CliAnswer(c) ==
    /\ cliOn = c
    /\ toCli[c] > 0
    /\ toCli' = [toCli EXCEPT ![c] = @ - 1]
    /\ CliSend(c, IF sync[session] = "notified" THEN "synced" ELSE "unsynced")
    /\ UNCHANGED <<serverVars, stream, losses, callVars, cliVars>>

\* A Send or a Recv fails: runServer returns, the loop sleeps and reconnects.
CliLosesStream(c) ==
    /\ cliOn = c
    /\ stream[c] # "open"
    /\ cliOn' = None
    /\ UNCHANGED <<serverVars, networkVars, callVars, session, sync, sessionOf>>

\* The user stops `blimp up` (or the machine dies) and starts it again.
CliRestart ==
    /\ session < MaxRestarts
    /\ session' = session + 1
    /\ cliOn' = None
    /\ \E s \in {"silent", "closed"} :
         stream' = [c \in Conns |-> IF c = cliOn /\ stream[c] = "open"
                                      THEN s ELSE stream[c]]
    /\ toCli' = [c \in Conns |-> IF c = cliOn THEN 0 ELSE toCli[c]]
    /\ UNCHANGED <<serverVars, toServer, losses, callVars, sync, sessionOf>>

(* The network                                                             *)

NetworkLoss(c) ==
    /\ losses < MaxLosses
    /\ stream[c] = "open"
    /\ losses' = losses + 1
    /\ \E s \in {"silent", "closed"} : stream' = [stream EXCEPT ![c] = s]
    /\ toCli' = [toCli EXCEPT ![c] = 0]
    /\ UNCHANGED <<serverVars, toServer, callVars, cliVars>>

\* TCP or gRPC keepalive tells the server's transport about the loss.
LossDetected(c) ==
    /\ stream[c] = "silent"
    /\ stream' = [stream EXCEPT ![c] = "closed"]
    /\ UNCHANGED <<serverVars, toCli, toServer, losses, callVars, cliVars>>

-----------------------------------------------------------------------------
(* The node controller's SyncNotifications handler: RunServer and Run      *)

\* The handshake's Recv fails and the handler returns before RunServer.
HandshakeFails(c) ==
    /\ run[c] = "accepted"
    /\ stream[c] = "closed"
    /\ run' = [run EXCEPT ![c] = "done"]
    /\ toServer' = [toServer EXCEPT ![c] = << >>]
    /\ UNCHANGED <<current, shutdown, waiters, stream, toCli, losses, callVars,
                   cliVars>>

\* cliConn.Shutdown: a non-blocking send into a channel of capacity 1.  Nobody
\* reads the channel once Run has left its loop.
Shutdown(c) == shutdown' = [shutdown EXCEPT ![c] = (run[c] = "running")]

\* RunServer up to cc.Run: shut the old connection down and take its place.
Install(c) ==
    /\ run[c] = "accepted"
    /\ IF current # None THEN Shutdown(current) ELSE UNCHANGED shutdown
    /\ current' = c
    /\ run' = [run EXCEPT ![c] = "running"]
    /\ UNCHANGED <<waiters, networkVars, callVars, cliVars>>

\* Fault: the closed waiters stay in cc.waiters.
RunReceiveKeepsWaiters(c) ==
    /\ run[c] = "running"
    /\ toServer[c] # << >>
    /\ toServer' = [toServer EXCEPT ![c] = Tail(@)]
    /\ result' = [a \in Attempts |-> IF Head(toServer[c]) = "synced" /\ a \in waiters[c]
                                        THEN "closed" ELSE result[a]]
    /\ UNCHANGED <<current, run, shutdown, waiters, stream, toCli, losses,
                   pc, on, pod, broken, ready, late, cliVars>>

\* Run reads a status; "synced" closes and forgets every registered waiter.
RunReceive(c) ==
    /\ run[c] = "running"
    /\ toServer[c] # << >>
    /\ toServer' = [toServer EXCEPT ![c] = Tail(@)]
    /\ IF Head(toServer[c]) = "synced"
         THEN /\ result' = [a \in Attempts |-> IF a \in waiters[c]
                                                 THEN "closed" ELSE result[a]]
              /\ waiters' = [waiters EXCEPT ![c] = {}]
         ELSE UNCHANGED <<result, waiters>>
    /\ UNCHANGED <<current, run, shutdown, stream, toCli, losses,
                   pc, on, pod, broken, ready, late, cliVars>>

\* Run reads an error: the stream was cancelled or broke.
RunReceiveError(c) ==
    /\ run[c] = "running"
    /\ stream[c] = "closed"
    /\ run' = [run EXCEPT ![c] = "exiting"]
    /\ shutdown' = [shutdown EXCEPT ![c] = FALSE]
    /\ UNCHANGED <<current, waiters, networkVars, callVars, cliVars>>

\* Run reads the error that Shutdown left.
RunShutdown(c) ==
    /\ run[c] = "running"
    /\ shutdown[c]
    /\ shutdown' = [shutdown EXCEPT ![c] = FALSE]
    /\ run' = [run EXCEPT ![c] = "exiting"]
    /\ UNCHANGED <<current, waiters, networkVars, callVars, cliVars>>

\* Fault: the cleanup closes the channels instead of sending an error.
RunCleanupCloses(c) ==
    /\ run[c] = "exiting"
    /\ run' = [run EXCEPT ![c] = "exited"]
    /\ result' = [a \in Attempts |-> IF a \in waiters[c] THEN "closed" ELSE result[a]]
    /\ waiters' = [waiters EXCEPT ![c] = {}]
    /\ UNCHANGED <<current, shutdown, networkVars, pc, on, pod, broken, ready, late, cliVars>>

\* Fault: no cleanup.
RunCleanupMissing(c) ==
    /\ run[c] = "exiting"
    /\ run' = [run EXCEPT ![c] = "exited"]
    /\ UNCHANGED <<current, shutdown, waiters, networkVars, callVars, cliVars>>

\* Run's deferred function: an error for every waiter that has no result.
RunCleanup(c) ==
    /\ run[c] = "exiting"
    /\ run' = [run EXCEPT ![c] = "exited"]
    /\ result' = [a \in Attempts |-> IF a \in waiters[c] /\ result[a] = "empty"
                                       THEN "error" ELSE result[a]]
    /\ UNCHANGED <<current, shutdown, waiters, networkVars, pc, on, pod, broken, ready,
                   late, cliVars>>

\* Fault: the map entry is deleted even if another connection took it over.
RunServerReturnAlwaysDeletes(c) ==
    /\ run[c] = "exited"
    /\ run' = [run EXCEPT ![c] = "done"]
    /\ current' = None
    /\ stream' = [stream EXCEPT ![c] = "closed"]
    /\ toCli' = [toCli EXCEPT ![c] = 0]
    /\ toServer' = [toServer EXCEPT ![c] = << >>]
    /\ UNCHANGED <<shutdown, waiters, losses, callVars, cliVars>>

\* RunServer after cc.Run: leave the map unless replaced; the stream closes.
RunServerReturn(c) ==
    /\ run[c] = "exited"
    /\ run' = [run EXCEPT ![c] = "done"]
    /\ current' = IF current = c THEN None ELSE current
    /\ stream' = [stream EXCEPT ![c] = "closed"]
    /\ toCli' = [toCli EXCEPT ![c] = 0]
    /\ toServer' = [toServer EXCEPT ![c] = << >>]
    /\ UNCHANGED <<shutdown, waiters, losses, callVars, cliVars>>

-----------------------------------------------------------------------------
(* The init container's retry loop and one CheckReady call: WaitFor        *)

Active(a) == pc[a] \in {"lookup", "register", "send", "wait"}

\* runOnce: the init container starts a CheckReady call.  An earlier one may go
\* on in the node controller if its stream broke.
CheckReady(a, p) ==
    /\ p \notin ready
    /\ pc[a] = "free" /\ a = CHOOSE b \in Attempts : pc[b] = "free"
    /\ \A b \in Attempts \ broken : Active(b) => pod[b] # p
    /\ pc' = [pc EXCEPT ![a] = "lookup"]
    /\ pod' = [pod EXCEPT ![a] = p]
    /\ UNCHANGED <<serverVars, networkVars, on, result, broken, ready, late, cliVars>>

\* The stream of a call breaks.  The call's context is not the stream's, so the
\* node controller does not notice before it sends.
CallBreaks(a) ==
    /\ losses < MaxLosses
    /\ Active(a) /\ a \notin broken
    /\ losses' = losses + 1
    /\ broken' = broken \cup {a}
    /\ UNCHANGED <<serverVars, stream, toCli, toServer, pc, on, result, pod, ready, late,
                   cliVars>>

\* newWaiter without a connection: the call fails.
LookupFails(a) ==
    /\ pc[a] = "lookup"
    /\ current = None
    /\ pc' = [pc EXCEPT ![a] = "free"]
    /\ pod' = [pod EXCEPT ![a] = None]
    /\ broken' = broken \ {a}
    /\ UNCHANGED <<serverVars, networkVars, on, result, ready, late, cliVars>>

\* newWaiter: the connection is read under st.lock and used after it.
Lookup(a) ==
    /\ pc[a] = "lookup"
    /\ current # None
    /\ on' = [on EXCEPT ![a] = current]
    /\ pc' = [pc EXCEPT ![a] = "register"]
    /\ UNCHANGED <<serverVars, networkVars, result, pod, broken, ready, late, cliVars>>

\* NewWaiter: the waiter enters cc.waiters.
Register(a) ==
    /\ pc[a] = "register"
    /\ waiters' = [waiters EXCEPT ![on[a]] = @ \cup {a}]
    /\ pc' = [pc EXCEPT ![a] = "send"]
    /\ late' = IF run[on[a]] \in {"exited", "done"} THEN late \cup {a} ELSE late
    /\ UNCHANGED <<current, run, shutdown, networkVars, on, result, pod, broken, ready,
                   cliVars>>

\* NewWaiter: the request is sent; a request on a silent stream is lost.
SendRequest(a) ==
    LET c == on[a] IN
    /\ pc[a] = "send"
    /\ stream[c] # "closed"
    /\ pc' = [pc EXCEPT ![a] = "wait"]
    /\ toCli' = IF stream[c] = "open" THEN [toCli EXCEPT ![c] = @ + 1] ELSE toCli
    /\ UNCHANGED <<serverVars, stream, toServer, losses, on, result, pod, broken, ready,
                   late, cliVars>>

\* NewWaiter: Send fails; the whole connection is shut down, the call fails.
SendRequestFails(a) ==
    /\ pc[a] = "send"
    /\ stream[on[a]] = "closed"
    /\ Shutdown(on[a])
    /\ pc' = [pc EXCEPT ![a] = "cancelled"]
    /\ UNCHANGED <<current, run, waiters, networkVars, on, result, pod, broken, ready,
                   late, cliVars>>

\* WaitFor returns; CheckReady sends Ready or fails, and cancels its context.
Return(a) ==
    /\ pc[a] = "wait"
    /\ result[a] # "empty"
    /\ pc' = [pc EXCEPT ![a] = "cancelled"]
    /\ ready' = IF result[a] = "closed" /\ a \notin broken
                  THEN ready \cup {pod[a]} ELSE ready
    /\ UNCHANGED <<serverVars, networkVars, on, result, pod, broken, late, cliVars>>

\* The call has failed meanwhile: it could not send what another of its waiters
\* had to tell.  WaitFor sees that the context is cancelled.
ContextDone(a) ==
    /\ pc[a] = "wait"
    /\ a \in broken
    /\ pc' = [pc EXCEPT ![a] = "cancelled"]
    /\ UNCHANGED <<serverVars, networkVars, on, result, pod, broken, ready, late, cliVars>>

\* NewWaiter's goroutine sees the cancelled context and removes the waiter.
Unregister(a) ==
    /\ pc[a] = "cancelled"
    /\ waiters' = [waiters EXCEPT ![on[a]] = @ \ {a}]
    /\ pc' = [pc EXCEPT ![a] = "free"]
    /\ on' = [on EXCEPT ![a] = None]
    /\ result' = [result EXCEPT ![a] = "empty"]
    /\ pod' = [pod EXCEPT ![a] = None]
    /\ broken' = broken \ {a}
    /\ late' = late \ {a}
    /\ UNCHANGED <<current, run, shutdown, networkVars, ready, cliVars>>

-----------------------------------------------------------------------------
CliStep(c) == CliConnect(c) \/ CliNotify(c) \/ CliAnswer(c) \/ CliLosesStream(c)

HandlerStep(c) ==
    \/ HandshakeFails(c) \/ Install(c)
    \/ RunReceive(c) \/ RunReceiveError(c) \/ RunShutdown(c)
    \/ RunCleanup(c) \/ RunServerReturn(c)

CallStep(a) ==
    \/ LookupFails(a) \/ Lookup(a) \/ Register(a)
    \/ SendRequest(a) \/ SendRequestFails(a) \/ Return(a) \/ Unregister(a)

Next ==
    \/ \E c \in Conns : CliStep(c) \/ HandlerStep(c) \/ NetworkLoss(c) \/ LossDetected(c)
    \/ \E a \in Attempts : \/ CallStep(a) \/ CallBreaks(a) \/ ContextDone(a)
                           \/ \E p \in Pods : CheckReady(a, p)
    \/ InitialSyncDone
    \/ CliRestart

\* The CLI's loop, each handler and each call go on, keepalive fires, the init
\* container retries and the sync finishes.  The network need not fail, a call whose
\* stream is gone need not have anything to send, and the user need not restart the
\* CLI.
Fairness ==
    /\ WF_vars(InitialSyncDone)
    /\ WF_vars(\E c \in Conns : CliStep(c))
    /\ \A c \in Conns : WF_vars(HandlerStep(c)) /\ WF_vars(LossDetected(c))
    /\ \A a \in Attempts : WF_vars(CallStep(a))
    /\ \A p \in Pods : WF_vars(\E a \in Attempts : CheckReady(a, p))

Spec == Init /\ [][Next]_vars

FairSpec == Spec /\ Fairness

-----------------------------------------------------------------------------
(* Properties                                                              *)

\* Run closes, and its cleanup sends on, only channels that are still open:
\* a closed one has left cc.waiters, so neither close nor send can panic the
\* node controller (sync.go, Run).
NoSendOnClosedResult ==
    \A c \in Conns : \A a \in waiters[c] : on[a] = c /\ result[a] # "closed"

\* A container is let go only by the CLI that really finished its initial
\* sync: never by a status that CLI sent before, or by the end of a stream.
ReadyOnlyAfterSync ==
    /\ \A a \in Attempts :
         pc[a] \in {"send", "wait"} /\ result[a] = "closed"
            => sync[sessionOf[on[a]]] = "notified"
    /\ ready # {} => \E s \in Sessions : sync[s] = "notified"

\* The map entry follows the streams: a handler that serves its stream and
\* was not told to stop is the one waiters find, and waiters never find one
\* that has returned (sync.go, RunServer: "Don't delete the connection if
\* it's already been replaced by another").
ServedStreamIsCurrent ==
    /\ \A c \in Conns : run[c] = "running" /\ ~shutdown[c] => current = c
    /\ current # None => run[current] \notin {"accepted", "done"}

\* No lost wakeup: while a waiter waits on a healthy stream of a CLI that has
\* synced, a request or a positive status for it is on its way, however the
\* registration, the request and the unasked status interleave.
AnswerOnItsWay ==
    \A a \in Attempts :
        LET c == on[a] IN
        /\ pc[a] = "wait" /\ result[a] = "empty"
        /\ run[c] = "running" /\ stream[c] = "open" /\ cliOn = c
        /\ sync[session] = "notified"
        => toCli[c] > 0 \/ \E i \in 1..Len(toServer[c]) : toServer[c][i] = "synced"

\* A call that waits on a connection whose Run has returned: nobody is left
\* to close its result or to send an error on it.
Orphaned(a) ==
    /\ pc[a] \in {"send", "wait"}
    /\ result[a] = "empty"
    /\ run[on[a]] \in {"exited", "done"}

\* Run's cleanup reaches every waiter that was registered when it ran: only a
\* call that looked the connection up before and registered after the cleanup
\* (state read under st.lock and used after it) is left without a result.
OnlyLateCallsAreOrphaned == \A a \in Attempts : Orphaned(a) => a \in late

\* Every wait-sync container boots in the end, through lost streams, CLI
\* restarts and superseded connections, unless its call came too late.
BootsUnlessOrphaned ==
    \A p \in Pods :
        <>(p \in ready \/ \E a \in late \ broken : pod[a] = p /\ Orphaned(a))

=============================================================================
