-------------------------------- MODULE Logs --------------------------------
(***************************************************************************)
(* `blimp logs` (cli/logs): one goroutine per service forwards the lines   *)
(* of its container to a channel, reconnects when the stream breaks and    *)
(* when the container restarts; printLogs prints what is on the channel in *)
(* windows; a status updater tells the goroutines of exits and restarts;   *)
(* the command returns when no container is tailed any more.               *)
(*                                                                         *)
(* A service's container has instances 1, 2, ...; Kubernetes serves the    *)
(* lines of the last one.  A line has a timestamp, which need not be       *)
(* unique.  Lines without text, which only carry an error, are left out of *)
(* the channel: printLogs drops them.                                      *)
(***************************************************************************)
EXTENDS Naturals, Sequences, SequencesExt, FiniteSets, FiniteSetsExt, Functions

CONSTANTS
    Services,
    ChanCap,     \* capacity of combinedLogs
    Second,      \* clock ticks per second, the resolution of SinceTime
    Commands     \* the commands, each with bounds on what happens meanwhile

ASSUME LogsAssumption ==
    /\ ChanCap \in Nat \ {0} /\ Second \in Nat \ {0}
    /\ Commands \subseteq [services : SUBSET Services, maxLines : Nat, maxRestarts : Nat,
                           maxBreaks : Nat]

VARIABLES
    container,   \* container[s]: instance and status
    written,     \* written[s][i]: the lines of instance i of s, each with its
                 \* service, instance, number and time
    clock,       \* the time of the last line
    breaks,      \* failures of the network so far
    cmd,         \* the command's services
    follow,      \* its flag -f
    main,        \* progress of Run before the goroutines start
    ctx,         \* "live", "interrupted" by the user, or "cancelled" at the end
    notifier,    \* notifier[s]: the statusNotifier, see below
    watcher,     \* the goroutine of startStatusUpdater: "off", "on" or "ended"
    fwd,         \* fwd[s]: the goroutine that forwards s
    runningCount,
    combinedLogs,
    window,      \* the lines printLogs has read and not printed
    printing,    \* printLogs has not returned
    printed,     \* what it has printed
    staleExit    \* history: services with a forwardLogs that took the exit of
                 \* an earlier instance, or of none, for that of the one it read

worldVars == <<container, written, clock, breaks, cmd, follow>>
statusVars == <<notifier, watcher>>
printVars == <<window, printing, printed>>
logsVars == <<worldVars, main, ctx, statusVars, fwd, runningCount, combinedLogs, printVars, staleExit>>

Alive(s) == container[s].st \in {"RUNNING", "UNHEALTHY"}
LinesOf(s, i) == IF i \in DOMAIN written[s] THEN written[s][i] ELSE <<>>

\* Bounds on the lines and on the restarts.
WrittenBy(s) == MapThenSumSet(LAMBDA i : Len(written[s][i]), DOMAIN written[s])
MayWrite == MapThenSumSet(WrittenBy, Services) < cmd.maxLines
MayRestart == MapThenSumSet(LAMBDA s : container[s].inst - 1, Services) < cmd.maxRestarts

phaseExited(phase) == phase \in {"EXITED", "UNKNOWN"}
phaseRunning(phase) == phase = "RUNNING"

\* The forwarder's locals: the channel podExited is closed (by the exit of which
\* instance is history), or the notifier will close it; the stream's instance
\* and its next line; and the two times.
NotForwarding ==
    [pc |-> "off", exited |-> FALSE, exitOf |-> 0, running |-> FALSE,
     inst |-> 0, next |-> 0, last |-> 0, since |-> 0]

LogsInit ==
    /\ cmd \in Commands
    /\ \E up \in SUBSET cmd.services :
         container = [s \in Services |-> [inst |-> 1, st |-> IF s \in up THEN "RUNNING" ELSE "EXITED"]]
    /\ written = [s \in Services |-> << <<>> >>]
    /\ clock = 1
    /\ breaks = 0
    /\ follow \in BOOLEAN
    /\ main = "check"
    /\ ctx = "live"
    /\ notifier = [s \in Services |-> [phase |-> "", exitedChan |-> FALSE, runningChan |-> FALSE,
                                       told |-> 0]]
    /\ watcher = "off"
    /\ fwd = [s \in Services |-> NotForwarding]
    /\ runningCount = Cardinality(cmd.services)
    /\ combinedLogs = <<>> /\ window = <<>> /\ printed = <<>>
    /\ printing = TRUE
    /\ staleExit = {}

Ended == main = "failed" \/ ~printing

-----------------------------------------------------------------------------
(* The containers and the network                                          *)

\* Changes are of interest while the command follows: those before it reads the
\* first status are initial states, and those after the end are not read.
World ==
    /\ main = "started" /\ ctx = "live"
    /\ UNCHANGED <<cmd, follow, main, ctx, statusVars, fwd, runningCount, combinedLogs, printVars,
                   staleExit>>

\* Two lines of a container may get the same time.
WriteLine(s) ==
    LET before == LinesOf(s, container[s].inst)
        times  == IF before # <<>> /\ Last(before).at = clock THEN {clock, clock + 1} ELSE {clock + 1}
    IN  /\ MayWrite
        /\ Alive(s)
        /\ clock' \in times
        /\ written' = [written EXCEPT ![s][container[s].inst] =
             Append(@, [svc |-> s, inst |-> container[s].inst, n |-> Len(before) + 1, at |-> clock'])]
        /\ World /\ UNCHANGED <<container, breaks>>

ContainerExits(s) ==
    /\ Alive(s)
    /\ container' = [container EXCEPT ![s].st = "EXITED"]
    /\ World /\ UNCHANGED <<written, clock, breaks>>

\* A restarted container is unhealthy until its health check succeeds.
ContainerRestarts(s) ==
    /\ MayRestart
    /\ s \in cmd.services /\ container[s].st = "EXITED"
    /\ container' = [container EXCEPT ![s] = [inst |-> @.inst + 1, st |-> "UNHEALTHY"]]
    /\ written' = [written EXCEPT ![s] = Append(@, <<>>)]
    /\ World /\ UNCHANGED <<clock, breaks>>

TurnsHealthy(s) ==
    /\ container[s].st = "UNHEALTHY"
    /\ container' = [container EXCEPT ![s].st = "RUNNING"]
    /\ World /\ UNCHANGED <<written, clock, breaks>>

NetworkFails == breaks < cmd.maxBreaks /\ breaks' = breaks + 1
NetworkWorks == UNCHANGED breaks

-----------------------------------------------------------------------------
(* Run up to the goroutines, and the status updater                        *)

\* UpdatePhase of every notifier: it closes the channel that the last call of
\* Exited, or of Running, has left with it.
UpdatePhase(phaseOf) ==
    /\ notifier' = [s \in Services |->
         LET n == notifier[s]
             p == phaseOf[s]
         IN  IF n.phase = p THEN n
             ELSE [phase       |-> p,
                   exitedChan  |-> n.exitedChan /\ ~phaseExited(p),
                   runningChan |-> n.runningChan /\ ~phaseRunning(p),
                   told        |-> IF phaseExited(p) /\ ~Alive(s) THEN container[s].inst ELSE 0]]
    /\ fwd' = [s \in Services |->
         LET n      == notifier[s]
             closes == n.exitedChan /\ phaseExited(phaseOf[s])
         IN  [fwd[s] EXCEPT !.exited  = @ \/ closes,
                            !.exitOf  = IF closes /\ ~Alive(s) THEN container[s].inst ELSE @,
                            !.running = @ \/ (n.runningChan /\ phaseRunning(phaseOf[s]))]]

\* Exited() leaves its channel with the notifier n if the service has not exited;
\* forwardLogs starts with that call.
Exited(n) == [n EXCEPT !.exitedChan = ~phaseExited(n.phase)]

\* Fault: the phase is not looked at before the channel is waited on.
CallForwardLogsUnchecked(n) == [NotForwarding EXCEPT !.pc = "connect"]

CallForwardLogs(n) ==
    [NotForwarding EXCEPT !.pc = "connect", !.exited = follow /\ phaseExited(n.phase),
                          !.exitOf = IF phaseExited(n.phase) THEN n.told ELSE 0]

StatusOf == [s \in Services |-> container[s].st]
Main == ~Ended /\ UNCHANGED <<container, written, clock, cmd, follow, runningCount, combinedLogs,
                              printVars, staleExit>>

\* CheckServiceStarted for every service: all of them have started, but the
\* sandbox may not be running, or the call may fail.
CheckServiceStatus ==
    /\ main = "check"
    /\ main' \in {"checked", "failed"} /\ NetworkWorks
    /\ Main /\ UNCHANGED <<ctx, statusVars, fwd>>

\* startStatusUpdater, and the start of the goroutines.
StartForwarding ==
    /\ main = "checked"
    /\ \/ /\ NetworkWorks
          /\ main' = "started"
          /\ watcher' = IF follow THEN "on" ELSE "off"
          /\ notifier' = [s \in Services |->
               IF follow THEN Exited([notifier[s] EXCEPT !.phase = StatusOf[s],
                                                         !.told = IF Alive(s) THEN 0 ELSE 1])
                         ELSE notifier[s]]
          /\ fwd' = [s \in Services |->
               IF s \in cmd.services THEN CallForwardLogs(notifier'[s]) ELSE fwd[s]]
       \/ /\ follow /\ NetworkFails
          /\ main' = "failed"
          /\ UNCHANGED <<statusVars, fwd>>
    /\ Main /\ UNCHANGED ctx

\* The watch delivers the status as it is.  That its stream may break and be
\* opened again only delays this: the first message of a stream is the status.
WatchStatus ==
    /\ watcher = "on" /\ ctx = "live"
    /\ \E s \in Services : notifier[s].phase # StatusOf[s]
    /\ UpdatePhase(StatusOf)
    /\ Main /\ UNCHANGED <<main, ctx, breaks, watcher>>

\* The status says that the sandbox is not running; it may only be in the hands
\* of another `blimp up`.  The watch takes everything for exited and stops.
WatchEnds ==
    /\ watcher = "on" /\ ctx = "live"
    /\ UpdatePhase([s \in Services |-> "EXITED"])
    /\ watcher' = "ended"
    /\ Main /\ UNCHANGED <<main, ctx, breaks>>

\* The goroutine that waits for runningCount to be zero.
AllStopped ==
    /\ main = "started" /\ ctx = "live" /\ runningCount = 0
    /\ ctx' = "cancelled"
    /\ Main /\ UNCHANGED <<main, breaks, statusVars, fwd>>

-----------------------------------------------------------------------------
(* The goroutine of a service                                              *)

Forward(s, f) == fwd' = [fwd EXCEPT ![s] = f]
Forwarder ==
    /\ ~Ended
    /\ UNCHANGED <<container, written, clock, cmd, follow, main, ctx, watcher, printVars>>
Quiet == UNCHANGED <<notifier, runningCount, combinedLogs, staleExit>>

\* Fault: Running() leaves its channel without a look at the phase.
ForwardLogsReturnsUnchecked(s) ==
    /\ runningCount' = runningCount - 1
    /\ Forward(s, [NotForwarding EXCEPT !.pc = IF follow THEN "wait" ELSE "gone",
                                        !.inst = fwd[s].inst, !.next = fwd[s].next])
    /\ notifier' = [notifier EXCEPT ![s].runningChan = follow]

\* forwardLogs returns and runningCount is decremented; with -f the goroutine
\* then asks for Running(), without it ends.
ForwardLogsReturns(s) ==
    LET f       == fwd[s]
        already == phaseRunning(notifier[s].phase)
    IN  /\ runningCount' = runningCount - 1
        /\ Forward(s, [NotForwarding EXCEPT !.pc = IF follow THEN "wait" ELSE "gone",
                                            !.running = follow /\ already,
                                            !.inst = f.inst, !.next = f.next])
        /\ notifier' = [notifier EXCEPT ![s].runningChan = follow /\ ~already]

\* After an error: with -f the select that decides, without it the end.
AfterError(s) ==
    IF follow THEN /\ Forward(s, [fwd[s] EXCEPT !.pc = "broken", !.next = 0, !.since = 0])
                   /\ UNCHANGED <<notifier, runningCount>>
              ELSE ForwardLogsReturns(s)

\* Fault: a reconnection asks for what is written from now on.
ConnectFromNow(s) ==
    /\ fwd[s].pc = "connect"
    /\ Forward(s, [fwd[s] EXCEPT !.pc = "read", !.since = IF fwd[s].last = 0 THEN 0 ELSE clock,
                                 !.inst = container[s].inst, !.next = 1])
    /\ Forwarder /\ Quiet /\ NetworkWorks

\* GetLogs: the lines of the last instance, from the second of SinceTime on.
GetLogs(s) ==
    LET f     == fwd[s]
        lines == LinesOf(s, container[s].inst)
    IN  /\ f.pc = "connect"
        /\ \E next \in 1..(Len(lines) + 1) :
             /\ \A m \in DOMAIN lines : m < next <=> lines[m].at \div Second < f.last \div Second
             /\ Forward(s, [f EXCEPT !.pc = "read", !.since = f.last,
                                     !.inst = container[s].inst, !.next = next])
        /\ Forwarder /\ Quiet /\ NetworkWorks

GetLogsFails(s) ==
    /\ fwd[s].pc = "connect" /\ NetworkFails
    /\ AfterError(s)
    /\ Forwarder /\ UNCHANGED <<combinedLogs, staleExit>>

\* Fault: SinceTime is relied on.
ReadLineUnfiltered(s) ==
    LET f     == fwd[s]
        lines == LinesOf(s, f.inst)
    IN  /\ f.pc = "read" /\ f.next <= Len(lines)
        /\ Len(combinedLogs) < ChanCap
        /\ combinedLogs' = Append(combinedLogs, [line |-> lines[f.next], whole |-> TRUE])
        /\ Forward(s, [f EXCEPT !.next = @ + 1, !.last = Max({@, lines[f.next].at})])
        /\ Forwarder /\ NetworkWorks /\ UNCHANGED <<notifier, runningCount, staleExit>>

\* A line: isOldMessage discards what SinceTime has let through.
ReadLine(s) ==
    LET f     == fwd[s]
        lines == LinesOf(s, f.inst)
        line  == lines[f.next]
        isOldMessage == line.at <= f.since
    IN  /\ f.pc = "read" /\ f.next <= Len(lines)
        /\ IF isOldMessage
             THEN Forward(s, [f EXCEPT !.next = @ + 1]) /\ UNCHANGED combinedLogs
             ELSE /\ Len(combinedLogs) < ChanCap
                  /\ combinedLogs' = Append(combinedLogs, [line |-> line, whole |-> TRUE])
                  /\ Forward(s, [f EXCEPT !.next = @ + 1, !.last = Max({@, line.at})])
        /\ Forwarder /\ NetworkWorks /\ UNCHANGED <<notifier, runningCount, staleExit>>

\* The end of the stream: without -f the last line there is, otherwise the end
\* of the container.
StreamEnds(s) ==
    /\ fwd[s].pc = "read" /\ fwd[s].next > Len(LinesOf(s, fwd[s].inst))
    /\ follow => fwd[s].inst # container[s].inst \/ ~Alive(s)
    /\ AfterError(s)
    /\ Forwarder /\ NetworkWorks /\ UNCHANGED <<combinedLogs, staleExit>>

\* The connection breaks, perhaps within a line, whose beginning is sent.
StreamBreaks(s) ==
    LET lines == LinesOf(s, fwd[s].inst)
    IN  /\ fwd[s].pc = "read" /\ NetworkFails
        /\ \/ UNCHANGED combinedLogs
           \/ /\ fwd[s].next <= Len(lines) /\ Len(combinedLogs) < ChanCap
              /\ combinedLogs' = Append(combinedLogs, [line |-> lines[fwd[s].next], whole |-> FALSE])
        /\ AfterError(s)
        /\ Forwarder /\ UNCHANGED staleExit

\* 500 milliseconds after an error, or 5 seconds after a failed connection, and
\* neither the context nor podExited is done.
Reconnect(s) ==
    /\ fwd[s].pc = "broken" /\ ~fwd[s].exited /\ ctx = "live"
    /\ Forward(s, [fwd[s] EXCEPT !.pc = "connect"])
    /\ Forwarder /\ Quiet /\ NetworkWorks

\* <-podExited
PodExited(s) ==
    /\ fwd[s].pc = "broken" /\ fwd[s].exited
    /\ ForwardLogsReturns(s)
    /\ staleExit' = IF fwd[s].exitOf = fwd[s].inst THEN staleExit ELSE staleExit \cup {s}
    /\ Forwarder /\ NetworkWorks /\ UNCHANGED combinedLogs

\* <-Running(): the container is tailed again.
Restarted(s) ==
    /\ fwd[s].pc = "wait" /\ fwd[s].running
    /\ runningCount' = runningCount + 1
    /\ notifier' = [notifier EXCEPT ![s] = Exited(@)]
    /\ Forward(s, CallForwardLogs(notifier[s]))
    /\ Forwarder /\ NetworkWorks /\ UNCHANGED <<combinedLogs, staleExit>>

\* <-ctx.Done()
Cancelled(s) ==
    /\ ctx # "live"
    /\ fwd[s].pc \in {"broken", "wait"}
    /\ runningCount' = IF fwd[s].pc = "wait" THEN runningCount ELSE runningCount - 1
    /\ Forward(s, [fwd[s] EXCEPT !.pc = "gone"])
    /\ Forwarder /\ NetworkWorks /\ UNCHANGED <<notifier, combinedLogs, staleExit>>

-----------------------------------------------------------------------------
(* printLogs                                                               *)

Printer ==
    /\ ~Ended
    /\ UNCHANGED <<worldVars, main, ctx, statusVars, fwd, runningCount, staleExit>>

\* What flush makes of the window w: the lines in the order of their times, and
\* lines of the same time as they came.
SortedWindows(w) ==
    LET before(i, j) == w[i].line.at < w[j].line.at \/ (w[i].line.at = w[j].line.at /\ i < j)
    IN  {[k \in DOMAIN w |-> w[order[k]]] :
           order \in {o \in Bijection(DOMAIN w, DOMAIN w) :
                        \A i, j \in DOMAIN w : i < j => before(o[i], o[j])}}

TakeLine ==
    /\ combinedLogs # <<>>
    /\ window' = Append(window, Head(combinedLogs))
    /\ combinedLogs' = Tail(combinedLogs)
    /\ Printer /\ UNCHANGED <<printing, printed>>

\* windowSize after the first line of the window.
Flush ==
    /\ window # <<>>
    /\ \E sorted \in SortedWindows(window) : printed' = printed \o sorted
    /\ window' = <<>>
    /\ Printer /\ UNCHANGED <<combinedLogs, printing>>

\* Fault: what is on the channel is left there.
ReturnAtOnce ==
    /\ ctx # "live"
    /\ \E sorted \in SortedWindows(window) : printed' = printed \o sorted
    /\ window' = <<>>
    /\ printing' = FALSE
    /\ Printer /\ UNCHANGED combinedLogs

\* The context is done: printLogs takes what is on the channel, and when that
\* is empty flushes and returns, and Run with it.
Return ==
    /\ ctx # "live" /\ combinedLogs = <<>>
    /\ \E sorted \in SortedWindows(window) : printed' = printed \o sorted
    /\ window' = <<>>
    /\ printing' = FALSE
    /\ Printer /\ UNCHANGED combinedLogs

\* The user interrupts the command, which prints what it has and returns.  It is
\* one step: what the goroutines add meanwhile may be lost or not.
Interrupt ==
    /\ ~Ended /\ main = "started" /\ ctx = "live"
    /\ ctx' = "interrupted"
    /\ \E sorted \in SortedWindows(window \o combinedLogs) : printed' = printed \o sorted
    /\ window' = <<>> /\ combinedLogs' = <<>>
    /\ printing' = FALSE
    /\ UNCHANGED <<worldVars, main, statusVars, fwd, runningCount, staleExit>>

-----------------------------------------------------------------------------

ForwarderOf(s) ==
    \/ GetLogs(s) \/ ReadLine(s) \/ StreamEnds(s)
    \/ Reconnect(s) \/ PodExited(s)
    \/ Restarted(s) \/ Cancelled(s)

LogsNext ==
    \/ \E s \in Services : WriteLine(s) \/ ContainerExits(s) \/ ContainerRestarts(s) \/ TurnsHealthy(s)
    \/ CheckServiceStatus \/ StartForwarding \/ WatchStatus \/ WatchEnds \/ Interrupt \/ AllStopped
    \/ \E s \in Services : ForwarderOf(s) \/ GetLogsFails(s) \/ StreamBreaks(s)
    \/ TakeLine \/ Flush \/ Return

LogsSpec == LogsInit /\ [][LogsNext]_logsVars

\* The goroutines run, timers fire, and the network delivers when it does not
\* fail.  Nothing is assumed of the containers, the sandbox and the user.
LogsFairness ==
    /\ WF_logsVars(CheckServiceStatus) /\ WF_logsVars(StartForwarding)
    /\ WF_logsVars(WatchStatus) /\ WF_logsVars(AllStopped)
    /\ \A s \in Services : WF_logsVars(ForwarderOf(s))
    /\ WF_logsVars(TakeLine) /\ WF_logsVars(Flush) /\ WF_logsVars(Return)

FairLogsSpec == LogsSpec /\ LogsFairness

-----------------------------------------------------------------------------
(* Properties                                                              *)

SameLine(e, l) == e.whole /\ e.line = l
IsPrinted(l) == \E k \in DOMAIN printed : SameLine(printed[k], l)

\* A line is not printed twice, however often the stream breaks and ends,
\* although SinceTime counts whole seconds -- unless a forwardLogs took the exit
\* of an earlier instance for that of the container it was reading: podExited
\* stays closed, so the next disconnection counts as an exit, and the forwardLogs
\* that follows starts from the beginning of the same container.
PrintedOnce ==
    \A i, j \in DOMAIN printed :
        (i < j /\ printed[i].whole /\ SameLine(printed[j], printed[i].line))
            => printed[i].line.svc \in staleExit

\* The lines of a container are printed in their order, and a reconnection skips
\* none of them, except a line with the time of the line before it, which
\* isOldMessage cannot tell from that.
NoGap ==
    LET SameTime(lines, m) == m > 1 /\ lines[m].at = lines[m - 1].at
    IN  /\ \A s \in Services :
             LET lines == LinesOf(s, fwd[s].inst)
             IN  fwd[s].pc = "read" =>
                   \A m \in 1..(fwd[s].next - 1) :
                      \/ \E e \in ToSet(printed \o window \o combinedLogs) : SameLine(e, lines[m])
                      \/ SameTime(lines, m)
        /\ \A k \in DOMAIN printed :
             LET e     == printed[k].line
                 lines == LinesOf(e.svc, e.inst)
             IN  printed[k].whole =>
                   \A m \in 1..(e.n - 1) :
                      \/ \E i \in 1..(k - 1) : SameLine(printed[i], lines[m])
                      \/ SameTime(lines, m)

\* When the command returns because no container is tailed, it has printed what
\* it read: without -f everything that was there, with -f everything that the
\* containers wrote before they exited, unless the network failed.
AllPrinted ==
    (~printing /\ ctx = "cancelled" /\ breaks = 0) =>
        \A s \in Services :
            LET lines == LinesOf(s, fwd[s].inst)
            IN  fwd[s].pc \in {"wait", "gone"} =>
                  \A n \in DOMAIN lines : (follow \/ n < fwd[s].next) => IsPrinted(lines[n])

\* The command returns: without -f always, with -f once all containers have
\* exited for good, whatever the order in which ends of streams, messages of the
\* status watch and timers come.
Returns == (~follow \/ <>[](\A s \in Services : ~Alive(s))) => <>Ended

\* A service that has left and runs again is tailed again, as long as the status
\* watch goes on: no wakeup is lost between UpdatePhase and Running.
TailedAgain ==
    \A s \in Services :
        (fwd[s].pc = "wait" /\ container[s].st = "RUNNING") ~>
            \/ fwd[s].pc # "wait" \/ container[s].st # "RUNNING"
            \/ Ended \/ watcher = "ended"

\* Type of the state.
LogsTypeOK ==
    /\ \A s \in Services :
         /\ container[s].st \in {"RUNNING", "UNHEALTHY", "EXITED"}
         /\ fwd[s].pc \in {"off", "connect", "read", "broken", "wait", "gone"}
         /\ notifier[s].phase \in {"", "RUNNING", "UNHEALTHY", "EXITED"}
    /\ main \in {"check", "checked", "started", "failed"}
    /\ ctx \in {"live", "interrupted", "cancelled"}
    /\ watcher \in {"off", "on", "ended"}
    /\ runningCount \in 0..Cardinality(Services)
    /\ Len(combinedLogs) <= ChanCap
    /\ printing \in BOOLEAN
    /\ staleExit \subseteq Services

=============================================================================
