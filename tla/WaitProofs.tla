----------------------------- MODULE WaitProofs -----------------------------
(***************************************************************************)
(* What the node controller's wait package promises the init containers    *)
(* that call it.                                                           *)
(*                                                                         *)
(* First the sync tracker (SyncTracker): it keeps its safety invariants    *)
(* for any number of streams, calls, init containers, losses and CLI       *)
(* restarts.  Then the order of the boot (BootOrder): what a service waits *)
(* for is there when it boots, for any services, any Compose files and any *)
(* number of broken streams and of probes that fail.                       *)
(***************************************************************************)
EXTENDS SyncTracker, BootOrder, TLAPS


-----------------------------------------------------------------------------
(* Types                                                                   *)

\* A call has looked a connection up exactly between Lookup and Unregister,
\* and belongs to an init container until its slot is free again.
CallShape ==
    \A a \in Attempts :
        /\ on[a] # None <=> pc[a] \in {"register", "send", "wait", "cancelled"}
        /\ pc[a] # "free" => pod[a] \in Pods

TypeInv == TypeOK /\ CallShape

\* TypeInv is inductive.
LEMMA TypeInvariant == Spec => []TypeInv
<1> USE NoneAssumption, BoundsAssumption
<1>1. Init => TypeInv
  BY DEF Init, TypeInv, TypeOK, CallShape, RunStates, CallStates, StreamStates, Statuses, Sessions
<1>2. ASSUME TypeInv, [Next]_vars
      PROVE  TypeInv'
  <2> USE TypeInv DEF TypeInv, TypeOK, CallShape, RunStates, CallStates, StreamStates, Statuses, Sessions,
          serverVars, networkVars, callVars, cliVars
  <2>1. CASE UNCHANGED vars
    BY <2>1 DEF vars
  <2>2. ASSUME NEW c \in Conns, CliConnect(c) PROVE TypeInv'
    BY <2>2 DEF CliConnect
  <2>3. CASE InitialSyncDone
    BY <2>3 DEF InitialSyncDone
  <2>4. ASSUME NEW c \in Conns, CliNotify(c) PROVE TypeInv'
    BY <2>4 DEF CliNotify, CliSend
  <2>5. ASSUME NEW c \in Conns, CliAnswer(c) PROVE TypeInv'
    BY <2>5 DEF CliAnswer, CliSend
  <2>6. ASSUME NEW c \in Conns, CliLosesStream(c) PROVE TypeInv'
    BY <2>6 DEF CliLosesStream
  <2>7. CASE CliRestart
    BY <2>7 DEF CliRestart
  <2>8. ASSUME NEW c \in Conns, NetworkLoss(c) PROVE TypeInv'
    BY <2>8 DEF NetworkLoss
  <2>9. ASSUME NEW c \in Conns, LossDetected(c) PROVE TypeInv'
    BY <2>9 DEF LossDetected
  <2>10. ASSUME NEW c \in Conns, HandshakeFails(c) PROVE TypeInv'
    BY <2>10 DEF HandshakeFails
  <2>11. ASSUME NEW c \in Conns, Install(c) PROVE TypeInv'
    BY <2>11 DEF Install, Shutdown
  <2>12. ASSUME NEW c \in Conns, RunReceive(c) PROVE TypeInv'
    <3>1. Tail(toServer[c]) \in Seq(Statuses)
      BY <2>12 DEF RunReceive
    <3>2. toServer' \in [Conns -> Seq(Statuses)]
      BY <2>12, <3>1 DEF RunReceive
    <3>3. /\ result' \in [Attempts -> {"empty", "error", "closed"}]
          /\ waiters' \in [Conns -> SUBSET Attempts]
      <4>1. CASE Head(toServer[c]) = "synced"
        <5>1. /\ result' = [a \in Attempts |-> IF a \in waiters[c]
                                                 THEN "closed" ELSE result[a]]
              /\ waiters' = [waiters EXCEPT ![c] = {}]
          BY <2>12, <4>1 DEF RunReceive
        <5> QED
          BY <5>1
      <4>2. CASE Head(toServer[c]) # "synced"
        BY <2>12, <4>2 DEF RunReceive
      <4> QED
        BY <4>1, <4>2
    <3> QED
      BY <2>12, <3>2, <3>3 DEF RunReceive
  <2>13. ASSUME NEW c \in Conns, RunReceiveError(c) PROVE TypeInv'
    BY <2>13 DEF RunReceiveError
  <2>14. ASSUME NEW c \in Conns, RunShutdown(c) PROVE TypeInv'
    BY <2>14 DEF RunShutdown
  <2>15. ASSUME NEW c \in Conns, RunCleanup(c) PROVE TypeInv'
    BY <2>15 DEF RunCleanup
  <2>16. ASSUME NEW c \in Conns, RunServerReturn(c) PROVE TypeInv'
    BY <2>16 DEF RunServerReturn
  <2>17. ASSUME NEW a \in Attempts, NEW p \in Pods, CheckReady(a, p) PROVE TypeInv'
    BY <2>17 DEF CheckReady
  <2>18. ASSUME NEW a \in Attempts, LookupFails(a) PROVE TypeInv'
    BY <2>18 DEF LookupFails
  <2>19. ASSUME NEW a \in Attempts, Lookup(a) PROVE TypeInv'
    BY <2>19 DEF Lookup
  <2>20. ASSUME NEW a \in Attempts, Register(a) PROVE TypeInv'
    BY <2>20 DEF Register
  <2>21. ASSUME NEW a \in Attempts, SendRequest(a) PROVE TypeInv'
    BY <2>21 DEF SendRequest
  <2>22. ASSUME NEW a \in Attempts, SendRequestFails(a) PROVE TypeInv'
    BY <2>22 DEF SendRequestFails, Shutdown
  <2>23. ASSUME NEW a \in Attempts, Return(a) PROVE TypeInv'
    BY <2>23 DEF Return
  <2>24. ASSUME NEW a \in Attempts, Unregister(a) PROVE TypeInv'
    BY <2>24 DEF Unregister
  <2>25. ASSUME NEW a \in Attempts, CallBreaks(a) PROVE TypeInv'
    BY <2>25 DEF CallBreaks, Active
  <2>26. ASSUME NEW a \in Attempts, ContextDone(a) PROVE TypeInv'
    BY <2>26 DEF ContextDone
  <2> QED
    BY <1>2, <2>1, <2>2, <2>3, <2>4, <2>5, <2>6, <2>7, <2>8, <2>9, <2>10, <2>11,
       <2>12, <2>13, <2>14, <2>15, <2>16, <2>17, <2>18, <2>19, <2>20, <2>21,
       <2>22, <2>23, <2>24, <2>25, <2>26 DEF Next, CliStep, HandlerStep, CallStep
<1> QED
  BY <1>1, <1>2, PTL DEF Spec

\* Every variable keeps its type: requests are counted down only when one was
\* sent, the current connection is a real one (RunServer, NewWaiter).
THEOREM TypeCorrect == Spec => []TypeOK
<1>1. TypeInv => TypeOK
  BY DEF TypeInv
<1> QED
  BY <1>1, TypeInvariant, PTL

-----------------------------------------------------------------------------
(* Waiters and their result channels                                       *)

\* A waiter that can still be heard of is registered, and only such waiters
\* have a result: a call is in cc.waiters from Register until its channel is
\* closed or its context is cancelled.
RegistrationInv ==
    /\ NoSendOnClosedResult
    /\ \A c \in Conns : \A a \in waiters[c] : pc[a] \in {"send", "wait", "cancelled"}
    /\ \A a \in Attempts : pc[a] \in {"free", "lookup", "register"} => result[a] = "empty"
    /\ \A a \in Attempts :
         pc[a] \in {"send", "wait"} /\ result[a] = "empty" => a \in waiters[on[a]]

\* RegistrationInv is inductive relative to the types.
LEMMA RegistrationInvariant == Spec => []RegistrationInv
<1> USE NoneAssumption
<1>1. Init => RegistrationInv
  BY DEF Init, RegistrationInv, NoSendOnClosedResult
<1>2. ASSUME TypeInv, RegistrationInv, [Next]_vars
      PROVE  RegistrationInv'
  <2> USE TypeInv, RegistrationInv
      DEF TypeInv, TypeOK, CallShape, RegistrationInv, NoSendOnClosedResult,
          serverVars, networkVars, callVars, cliVars
  <2>1. CASE UNCHANGED <<waiters, callVars>>
    BY <2>1
  <2>2. ASSUME NEW c \in Conns, RunReceive(c) PROVE RegistrationInv'
    <3>1. CASE Head(toServer[c]) = "synced"
      <4>1. /\ result' = [a \in Attempts |-> IF a \in waiters[c]
                                               THEN "closed" ELSE result[a]]
            /\ waiters' = [waiters EXCEPT ![c] = {}]
            /\ UNCHANGED <<pc, on>>
        BY <2>2, <3>1 DEF RunReceive
      <4>2. \A d \in Conns : waiters'[d] = IF d = c THEN {} ELSE waiters[d]
        BY <4>1
      <4>3. \A a \in Attempts : result'[a] = IF a \in waiters[c]
                                                THEN "closed" ELSE result[a]
        BY <4>1
      <4>4. NoSendOnClosedResult'
        BY <4>1, <4>2, <4>3
      <4>5. \A a \in Attempts : pc[a] \in {"free", "lookup", "register"}
                                  => result'[a] = "empty"
        BY <4>3
      <4>6. \A a \in Attempts : pc[a] \in {"send", "wait"} /\ result'[a] = "empty"
                                  => a \in waiters'[on[a]]
        <5> SUFFICES ASSUME NEW a \in Attempts,
                            pc[a] \in {"send", "wait"}, result'[a] = "empty"
                     PROVE  a \in waiters'[on[a]]
          OBVIOUS
        <5>1. a \notin waiters[c] /\ result[a] = "empty"
          BY <4>3
        <5>2. on[a] \in Conns /\ a \in waiters[on[a]]
          BY <5>1
        <5> QED
          BY <4>2, <5>1, <5>2
      <4> QED
        BY <4>1, <4>2, <4>4, <4>5, <4>6
    <3>2. CASE Head(toServer[c]) # "synced"
      BY <2>2, <3>2 DEF RunReceive
    <3> QED
      BY <3>1, <3>2
  <2>3. ASSUME NEW c \in Conns, RunCleanup(c) PROVE RegistrationInv'
    <3>1. UNCHANGED <<waiters, pc, on>>
      BY <2>3 DEF RunCleanup
    <3>2. \A a \in Attempts : result'[a] = IF a \in waiters[c] /\ result[a] = "empty"
                                              THEN "error" ELSE result[a]
      BY <2>3 DEF RunCleanup
    <3>3. NoSendOnClosedResult'
      BY <3>1, <3>2
    <3>4. \A a \in Attempts : pc[a] \in {"free", "lookup", "register"}
                                => result'[a] = "empty"
      <4> SUFFICES ASSUME NEW a \in Attempts, pc[a] \in {"free", "lookup", "register"}
                   PROVE  result'[a] = "empty"
        OBVIOUS
      <4>1. result[a] = "empty" /\ a \notin waiters[c]
        OBVIOUS
      <4> QED
        BY <3>2, <4>1
    <3>5. \A a \in Attempts : pc[a] \in {"send", "wait"} /\ result'[a] = "empty"
                                => a \in waiters[on[a]]
      BY <3>2
    <3> QED
      BY <3>1, <3>3, <3>4, <3>5
  <2>4. ASSUME NEW a \in Attempts, NEW p \in Pods, CheckReady(a, p)
        PROVE  RegistrationInv'
    BY <2>4 DEF CheckReady
  <2>5. ASSUME NEW a \in Attempts, LookupFails(a) PROVE RegistrationInv'
    BY <2>5 DEF LookupFails
  <2>6. ASSUME NEW a \in Attempts, Lookup(a) PROVE RegistrationInv'
    BY <2>6 DEF Lookup
  <2>7. ASSUME NEW a \in Attempts, Register(a) PROVE RegistrationInv'
    BY <2>7 DEF Register
  <2>8. ASSUME NEW a \in Attempts, SendRequest(a) PROVE RegistrationInv'
    BY <2>8 DEF SendRequest
  <2>9. ASSUME NEW a \in Attempts, SendRequestFails(a) PROVE RegistrationInv'
    BY <2>9 DEF SendRequestFails
  <2>10. ASSUME NEW a \in Attempts, Return(a) \/ ContextDone(a) \/ CallBreaks(a)
         PROVE  RegistrationInv'
    <3>1. CASE Return(a)
      BY <3>1 DEF Return
    <3>2. CASE ContextDone(a)
      BY <3>2 DEF ContextDone
    <3>3. CASE CallBreaks(a)
      BY <3>3 DEF CallBreaks
    <3> QED
      BY <2>10, <3>1, <3>2, <3>3
  <2>11. ASSUME NEW a \in Attempts, Unregister(a) PROVE RegistrationInv'
    BY <2>11 DEF Unregister
  <2>12. ASSUME NEW c \in Conns,
                \/ CliConnect(c) \/ CliNotify(c) \/ CliAnswer(c)
                \/ CliLosesStream(c) \/ NetworkLoss(c) \/ LossDetected(c)
                \/ HandshakeFails(c) \/ Install(c) \/ RunReceiveError(c)
                \/ RunShutdown(c) \/ RunServerReturn(c)
         PROVE  UNCHANGED <<waiters, callVars>>
    BY <2>12 DEF CliConnect, CliNotify, CliAnswer, CliLosesStream, NetworkLoss,
         LossDetected, HandshakeFails, Install, RunReceiveError, RunShutdown,
         RunServerReturn
  <2>13. CASE InitialSyncDone \/ CliRestart \/ UNCHANGED vars
    BY <2>1, <2>13 DEF InitialSyncDone, CliRestart, vars
  <2> QED
    BY <1>2, <2>1, <2>2, <2>3, <2>4, <2>5, <2>6, <2>7, <2>8, <2>9, <2>10, <2>11,
       <2>12, <2>13 DEF Next, CliStep, HandlerStep, CallStep
<1> QED
  BY <1>1, <1>2, TypeInvariant, PTL DEF Spec

\* No result channel is closed twice or written after it was closed, so the
\* node controller cannot panic in Run (sync.go lines 146-184).
THEOREM ResultChannelsSafe == Spec => []NoSendOnClosedResult
<1>1. RegistrationInv => NoSendOnClosedResult
  BY DEF RegistrationInv
<1> QED
  BY <1>1, RegistrationInvariant, PTL

-----------------------------------------------------------------------------
(* Handlers and the connection map                                         *)

\* A stream is used by calls only once it was installed, and nothing is left
\* of it once its handler has returned.
HandlerInv ==
    /\ ServedStreamIsCurrent
    /\ \A a \in Attempts : on[a] # None => run[on[a]] # "accepted"
    /\ \A c \in Conns : run[c] = "done" => stream[c] = "closed" /\ toServer[c] = << >>

\* HandlerInv is inductive relative to the types.
LEMMA HandlerInvariant == Spec => []HandlerInv
<1> USE NoneAssumption
<1>1. Init => HandlerInv
  BY DEF Init, HandlerInv, ServedStreamIsCurrent
<1>2. ASSUME TypeInv, HandlerInv, [Next]_vars
      PROVE  HandlerInv'
  <2> USE TypeInv, HandlerInv
      DEF TypeInv, TypeOK, CallShape, HandlerInv, ServedStreamIsCurrent,
          serverVars, networkVars, callVars, cliVars
  <2>1. CASE UNCHANGED vars
    BY <2>1 DEF vars
  <2>2. ASSUME NEW c \in Conns, CliConnect(c) PROVE HandlerInv'
    BY <2>2 DEF CliConnect, Unreferenced
  <2>3. ASSUME NEW c \in Conns, CliNotify(c) \/ CliAnswer(c) PROVE HandlerInv'
    BY <2>3 DEF CliNotify, CliAnswer, CliSend
  <2>4. ASSUME NEW c \in Conns,
               CliLosesStream(c) \/ NetworkLoss(c) \/ LossDetected(c)
        PROVE  HandlerInv'
    BY <2>4 DEF CliLosesStream, NetworkLoss, LossDetected
  <2>5. CASE CliRestart \/ InitialSyncDone
    BY <2>5 DEF CliRestart, InitialSyncDone
  <2>6. ASSUME NEW c \in Conns, HandshakeFails(c) PROVE HandlerInv'
    BY <2>6 DEF HandshakeFails
  <2>7. ASSUME NEW c \in Conns, Install(c) PROVE HandlerInv'
    <3>1. /\ run[c] = "accepted" /\ current' = c /\ run' = [run EXCEPT ![c] = "running"]
          /\ UNCHANGED <<on, stream, toServer>>
      BY <2>7 DEF Install
    <3>2. \A d \in Conns : shutdown'[d] = IF d = current THEN run[d] = "running" ELSE shutdown[d]
      BY <2>7 DEF Install, Shutdown
    <3>3. ServedStreamIsCurrent'
      BY <3>1, <3>2
    <3> QED
      BY <3>1, <3>3
  <2>8. ASSUME NEW c \in Conns, RunReceive(c) PROVE HandlerInv'
    BY <2>8 DEF RunReceive
  <2>9. ASSUME NEW c \in Conns, RunReceiveError(c) \/ RunShutdown(c) \/ RunCleanup(c)
        PROVE  HandlerInv'
    <3>1. CASE RunReceiveError(c)
      BY <3>1 DEF RunReceiveError
    <3>2. CASE RunShutdown(c)
      BY <3>2 DEF RunShutdown
    <3>3. CASE RunCleanup(c)
      BY <3>3 DEF RunCleanup
    <3> QED
      BY <2>9, <3>1, <3>2, <3>3
  <2>10. ASSUME NEW c \in Conns, RunServerReturn(c) PROVE HandlerInv'
    BY <2>10 DEF RunServerReturn
  <2>11. ASSUME NEW a \in Attempts, NEW p \in Pods, CheckReady(a, p) PROVE HandlerInv'
    BY <2>11 DEF CheckReady
  <2>12. ASSUME NEW a \in Attempts, Lookup(a) PROVE HandlerInv'
    BY <2>12 DEF Lookup
  <2>13. ASSUME NEW a \in Attempts,
                \/ LookupFails(a) \/ Register(a) \/ SendRequest(a) \/ Return(a)
                \/ ContextDone(a) \/ CallBreaks(a)
         PROVE  HandlerInv'
    BY <2>13 DEF LookupFails, Register, SendRequest, Return, ContextDone, CallBreaks
  <2>14. ASSUME NEW a \in Attempts, SendRequestFails(a) PROVE HandlerInv'
    BY <2>14 DEF SendRequestFails, Shutdown
  <2>15. ASSUME NEW a \in Attempts, Unregister(a) PROVE HandlerInv'
    BY <2>15 DEF Unregister
  <2> QED
    BY <1>2, <2>1, <2>2, <2>3, <2>4, <2>5, <2>6, <2>7, <2>8, <2>9, <2>10, <2>11,
       <2>12, <2>13, <2>14, <2>15 DEF Next, CliStep, HandlerStep, CallStep
<1> QED
  BY <1>1, <1>2, TypeInvariant, PTL DEF Spec

\* The stream that is served and was not told to stop is the one that waiters
\* find, however old and new handlers interleave (sync.go lines 61-83).
THEOREM ServedStreamFound == Spec => []ServedStreamIsCurrent
<1>1. HandlerInv => ServedStreamIsCurrent
  BY DEF HandlerInv
<1> QED
  BY <1>1, HandlerInvariant, PTL

-----------------------------------------------------------------------------
(* Orphans                                                                 *)

\* A call that is left without a result and without anyone to give it one had
\* registered after Run's cleanup: the cleanup misses nobody (sync.go 146-158).
THEOREM OrphansAreLate == Spec => []OnlyLateCallsAreOrphaned
<1> USE NoneAssumption
<1>1. Init => OnlyLateCallsAreOrphaned
  BY DEF Init, OnlyLateCallsAreOrphaned, Orphaned
<1>2. ASSUME TypeInv, RegistrationInv, HandlerInv, OnlyLateCallsAreOrphaned, [Next]_vars
      PROVE  OnlyLateCallsAreOrphaned'
  <2> USE TypeInv, OnlyLateCallsAreOrphaned
      DEF TypeInv, TypeOK, CallShape, OnlyLateCallsAreOrphaned, Orphaned,
          serverVars, networkVars, callVars, cliVars
  <2>1. CASE UNCHANGED <<run, callVars>>
    BY <2>1
  <2>2. ASSUME NEW c \in Conns, CliConnect(c) PROVE OnlyLateCallsAreOrphaned'
    BY <2>2 DEF CliConnect, Unreferenced
  <2>3. ASSUME NEW c \in Conns, HandshakeFails(c) PROVE OnlyLateCallsAreOrphaned'
    BY <2>3, HandlerInv DEF HandshakeFails, HandlerInv
  <2>4. ASSUME NEW c \in Conns, Install(c) PROVE OnlyLateCallsAreOrphaned'
    BY <2>4 DEF Install
  <2>5. ASSUME NEW c \in Conns, RunReceive(c) PROVE OnlyLateCallsAreOrphaned'
    <3>1. /\ UNCHANGED <<run, pc, on, late>>
          /\ \A a \in Attempts : result'[a] = "empty" => result[a] = "empty"
      <4>1. CASE Head(toServer[c]) = "synced"
        BY <2>5, <4>1 DEF RunReceive
      <4>2. CASE Head(toServer[c]) # "synced"
        BY <2>5, <4>2 DEF RunReceive
      <4> QED
        BY <4>1, <4>2
    <3> QED
      BY <3>1
  <2>6. ASSUME NEW c \in Conns, RunReceiveError(c) PROVE OnlyLateCallsAreOrphaned'
    BY <2>6 DEF RunReceiveError
  <2>7. ASSUME NEW c \in Conns, RunShutdown(c) PROVE OnlyLateCallsAreOrphaned'
    BY <2>7 DEF RunShutdown
  <2>8. ASSUME NEW c \in Conns, RunCleanup(c) PROVE OnlyLateCallsAreOrphaned'
    <3> SUFFICES ASSUME NEW a \in Attempts, Orphaned(a)'
                 PROVE  a \in late'
      OBVIOUS
    <3>1. /\ result'[a] = IF a \in waiters[c] /\ result[a] = "empty"
                            THEN "error" ELSE result[a]
          /\ \A d \in Conns : d # c => run'[d] = run[d]
          /\ UNCHANGED <<pc, on, late>>
      BY <2>8 DEF RunCleanup
    <3>2. result[a] = "empty" /\ a \notin waiters[c]
      BY <3>1
    <3>3. a \in waiters[on[a]] /\ on[a] \in Conns
      BY <3>1, <3>2, RegistrationInv DEF RegistrationInv
    <3> QED
      BY <3>1, <3>2, <3>3
  <2>9. ASSUME NEW c \in Conns, RunServerReturn(c) PROVE OnlyLateCallsAreOrphaned'
    BY <2>9 DEF RunServerReturn
  <2>10. ASSUME NEW a \in Attempts, NEW p \in Pods, CheckReady(a, p)
         PROVE  OnlyLateCallsAreOrphaned'
    BY <2>10 DEF CheckReady
  <2>11. ASSUME NEW a \in Attempts, LookupFails(a) PROVE OnlyLateCallsAreOrphaned'
    BY <2>11 DEF LookupFails
  <2>12. ASSUME NEW a \in Attempts, Lookup(a) PROVE OnlyLateCallsAreOrphaned'
    BY <2>12 DEF Lookup
  <2>13. ASSUME NEW a \in Attempts, Register(a) PROVE OnlyLateCallsAreOrphaned'
    BY <2>13 DEF Register
  <2>14. ASSUME NEW a \in Attempts, SendRequest(a) PROVE OnlyLateCallsAreOrphaned'
    BY <2>14 DEF SendRequest
  <2>15. ASSUME NEW a \in Attempts, SendRequestFails(a) PROVE OnlyLateCallsAreOrphaned'
    BY <2>15 DEF SendRequestFails
  <2>16. ASSUME NEW a \in Attempts, Return(a) \/ ContextDone(a) \/ CallBreaks(a)
         PROVE  OnlyLateCallsAreOrphaned'
    <3>1. CASE Return(a)
      BY <3>1 DEF Return
    <3>2. CASE ContextDone(a)
      BY <3>2 DEF ContextDone
    <3>3. CASE CallBreaks(a)
      BY <3>3 DEF CallBreaks
    <3> QED
      BY <2>16, <3>1, <3>2, <3>3
  <2>17. ASSUME NEW a \in Attempts, Unregister(a) PROVE OnlyLateCallsAreOrphaned'
    BY <2>17 DEF Unregister
  <2>18. ASSUME NEW c \in Conns,
                \/ CliNotify(c) \/ CliAnswer(c) \/ CliLosesStream(c)
                \/ NetworkLoss(c) \/ LossDetected(c)
         PROVE  UNCHANGED <<run, callVars>>
    BY <2>18 DEF CliNotify, CliAnswer, CliLosesStream, NetworkLoss, LossDetected
  <2>19. CASE InitialSyncDone \/ CliRestart \/ UNCHANGED vars
    BY <2>1, <2>19 DEF InitialSyncDone, CliRestart, vars
  <2> QED
    BY <1>2, <2>1, <2>2, <2>3, <2>4, <2>5, <2>6, <2>7, <2>8, <2>9, <2>10, <2>11,
       <2>12, <2>13, <2>14, <2>15, <2>16, <2>17, <2>18, <2>19
       DEF Next, CliStep, HandlerStep, CallStep
<1> QED
  BY <1>1, <1>2, TypeInvariant, RegistrationInvariant, HandlerInvariant, PTL DEF Spec

-----------------------------------------------------------------------------
(* What a status means                                                     *)

\* A "synced" on a stream was sent by the CLI process that opened it, after
\* that process had finished its sync; so was whatever closed a waiter.
StatusInv ==
    /\ \A c \in Conns : cliOn = c => sessionOf[c] = session
    /\ \A c \in Conns : \A i \in 1..Len(toServer[c]) :
         toServer[c][i] = "synced" => sync[sessionOf[c]] = "notified"
    /\ \A a \in Attempts : result[a] = "closed" => sync[sessionOf[on[a]]] = "notified"
    /\ ready # {} => \E s \in Sessions : sync[s] = "notified"

\* StatusInv is inductive relative to the invariants above.
LEMMA StatusInvariant == Spec => []StatusInv
<1> USE NoneAssumption, BoundsAssumption
<1>1. Init => StatusInv
  BY DEF Init, StatusInv
<1>2. ASSUME TypeInv, RegistrationInv, HandlerInv, StatusInv, [Next]_vars
      PROVE  StatusInv'
  <2> USE TypeInv, StatusInv
      DEF TypeInv, TypeOK, CallShape, StatusInv, Sessions, Statuses,
          serverVars, networkVars, callVars, cliVars
  <2>1. CASE UNCHANGED <<toServer, on, result, ready, cliVars>>
    BY <2>1
  <2>2. ASSUME NEW c \in Conns, CliConnect(c) PROVE StatusInv'
    <3>1. toServer[c] = << >> /\ \A a \in Attempts : on[a] # c
      BY <2>2, HandlerInv DEF CliConnect, Unreferenced, HandlerInv
    <3>2. \A a \in Attempts : result[a] = "closed" => on[a] \in Conns
      <4> SUFFICES ASSUME NEW a \in Attempts, result[a] = "closed"
                   PROVE  on[a] \in Conns
        OBVIOUS
      <4>1. pc[a] \notin {"free", "lookup", "register"}
        BY RegistrationInv DEF RegistrationInv
      <4>2. pc[a] \in {"send", "wait", "cancelled"}
        BY <4>1 DEF CallStates
      <4> QED
        BY <4>2
    <3>3. /\ cliOn' = c /\ sessionOf' = [sessionOf EXCEPT ![c] = session]
          /\ UNCHANGED <<toServer, on, result, ready, session, sync>>
      BY <2>2 DEF CliConnect
    <3> QED
      BY <3>1, <3>2, <3>3
  <2>3. CASE InitialSyncDone
    BY <2>3 DEF InitialSyncDone
  <2>4. ASSUME NEW c \in Conns, CliNotify(c) PROVE StatusInv'
    BY <2>4 DEF CliNotify, CliSend
  <2>5. ASSUME NEW c \in Conns, CliAnswer(c) PROVE StatusInv'
    BY <2>5 DEF CliAnswer, CliSend
  <2>6. ASSUME NEW c \in Conns, CliLosesStream(c) PROVE StatusInv'
    BY <2>6 DEF CliLosesStream
  <2>7. CASE CliRestart
    BY <2>7 DEF CliRestart
  <2>8. ASSUME NEW c \in Conns, HandshakeFails(c) \/ RunServerReturn(c) PROVE StatusInv'
    <3>1. /\ UNCHANGED <<on, result, ready, cliVars>>
          /\ toServer' = [toServer EXCEPT ![c] = << >>]
      BY <2>8 DEF HandshakeFails, RunServerReturn
    <3>2. \A d \in Conns : toServer'[d] = IF d = c THEN << >> ELSE toServer[d]
      BY <3>1
    <3> QED
      BY <3>1, <3>2
  <2>9. ASSUME NEW c \in Conns, RunReceive(c) PROVE StatusInv'
    <3>1. \A d \in Conns : \A i \in 1..Len(toServer'[d]) :
            toServer'[d][i] = "synced" => sync[sessionOf[d]] = "notified"
      <4>1. \A d \in Conns : toServer'[d] = IF d = c THEN Tail(toServer[c]) ELSE toServer[d]
        BY <2>9 DEF RunReceive
      <4>2. toServer[c] # << >> /\ toServer[c] \in Seq(Statuses)
        BY <2>9 DEF RunReceive
      <4>3. \A i \in 1..Len(Tail(toServer[c])) :
              Tail(toServer[c])[i] = toServer[c][i + 1] /\ i + 1 \in 1..Len(toServer[c])
        BY <4>2
      <4> SUFFICES ASSUME NEW d \in Conns, NEW i \in 1..Len(toServer'[d]),
                          toServer'[d][i] = "synced"
                   PROVE  sync[sessionOf[d]] = "notified"
        OBVIOUS
      <4>4. CASE d = c
        <5>1. toServer'[d] = Tail(toServer[c])
          BY <4>1, <4>4
        <5>2. i + 1 \in 1..Len(toServer[c]) /\ toServer[c][i + 1] = "synced"
          BY <4>3, <5>1
        <5> QED
          BY <4>4, <5>2
      <4>5. CASE d # c
        <5>1. toServer'[d] = toServer[d]
          BY <4>1, <4>5
        <5> QED
          BY <5>1
      <4> QED
        BY <4>4, <4>5
    <3>2. \A a \in Attempts : result'[a] = "closed" => sync[sessionOf[on[a]]] = "notified"
      <4>1. CASE Head(toServer[c]) = "synced"
        <5>1. sync[sessionOf[c]] = "notified"
          <6>1. Len(toServer[c]) > 0 /\ toServer[c][1] = "synced"
            BY <2>9, <4>1 DEF RunReceive
          <6> QED
            BY <6>1
        <5>2. \A a \in waiters[c] : on[a] = c
          BY RegistrationInv DEF RegistrationInv, NoSendOnClosedResult
        <5> QED
          BY <2>9, <4>1, <5>1, <5>2 DEF RunReceive
      <4>2. CASE Head(toServer[c]) # "synced"
        BY <2>9, <4>2 DEF RunReceive
      <4> QED
        BY <4>1, <4>2
    <3> QED
      BY <2>9, <3>1, <3>2 DEF RunReceive
  <2>10. ASSUME NEW c \in Conns, RunCleanup(c) PROVE StatusInv'
    BY <2>10 DEF RunCleanup
  <2>11. ASSUME NEW a \in Attempts, Lookup(a) PROVE StatusInv'
    BY <2>11, RegistrationInv DEF Lookup, RegistrationInv
  <2>12. ASSUME NEW a \in Attempts, Return(a) PROVE StatusInv'
    <3>1. result[a] = "closed" => sessionOf[on[a]] \in Sessions
      BY <2>12 DEF Return
    <3> QED
      BY <2>12, <3>1 DEF Return
  <2>13. ASSUME NEW a \in Attempts, Unregister(a) PROVE StatusInv'
    BY <2>13 DEF Unregister
  <2>14. ASSUME NEW a \in Attempts,
                \/ LookupFails(a) \/ Register(a) \/ SendRequest(a) \/ SendRequestFails(a)
                \/ ContextDone(a) \/ CallBreaks(a)
         PROVE  UNCHANGED <<toServer, on, result, ready, cliVars>>
    BY <2>14 DEF LookupFails, Register, SendRequest, SendRequestFails, ContextDone, CallBreaks
  <2>15. ASSUME NEW c \in Conns,
                \/ NetworkLoss(c) \/ LossDetected(c) \/ Install(c)
                \/ RunReceiveError(c) \/ RunShutdown(c)
         PROVE  UNCHANGED <<toServer, on, result, ready, cliVars>>
    BY <2>15 DEF NetworkLoss, LossDetected, Install, RunReceiveError, RunShutdown
  <2>16. ASSUME NEW a \in Attempts, NEW p \in Pods, CheckReady(a, p)
         PROVE  UNCHANGED <<toServer, on, result, ready, cliVars>>
    BY <2>16 DEF CheckReady
  <2>17. CASE UNCHANGED vars
    BY <2>1, <2>17 DEF vars
  <2> QED
    BY <1>2, <2>1, <2>2, <2>3, <2>4, <2>5, <2>6, <2>7, <2>8, <2>9, <2>10, <2>11,
       <2>12, <2>13, <2>14, <2>15, <2>16, <2>17 DEF Next, CliStep, HandlerStep, CallStep
<1> QED
  BY <1>1, <1>2, TypeInvariant, RegistrationInvariant, HandlerInvariant, PTL DEF Spec

\* No container boots on files that are not there: a call succeeds only if the
\* CLI process behind its stream had finished the initial sync.
THEOREM BootImpliesSynced == Spec => []ReadyOnlyAfterSync
<1>1. StatusInv => ReadyOnlyAfterSync
  BY DEF StatusInv, ReadyOnlyAfterSync
<1> QED
  BY <1>1, StatusInvariant, PTL

-----------------------------------------------------------------------------
(* No lost wakeup                                                          *)

\* A "synced" survives the arrival of another status, ...
LEMMA SyncedAfterAppend ==
  ASSUME NEW q \in Seq(Statuses), NEW m \in Statuses,
         m = "synced" \/ \E i \in 1..Len(q) : q[i] = "synced"
  PROVE  \E i \in 1..Len(Append(q, m)) : Append(q, m)[i] = "synced"
<1>1. CASE m = "synced"
  <2>1. Append(q, m)[Len(q) + 1] = "synced" /\ Len(q) + 1 \in 1..Len(Append(q, m))
    BY <1>1
  <2> QED
    BY <2>1
<1>2. CASE \E i \in 1..Len(q) : q[i] = "synced"
  <2>1. PICK i \in 1..Len(q) : q[i] = "synced"
    BY <1>2
  <2>2. Append(q, m)[i] = "synced" /\ i \in 1..Len(Append(q, m))
    BY <2>1
  <2> QED
    BY <2>2
<1> QED
  BY <1>1, <1>2

\* ... and the removal of a status that is not "synced".
LEMMA SyncedAfterTail ==
  ASSUME NEW q \in Seq(Statuses), q # << >>, Head(q) # "synced",
         \E i \in 1..Len(q) : q[i] = "synced"
  PROVE  \E i \in 1..Len(Tail(q)) : Tail(q)[i] = "synced"
<1>1. PICK i \in 1..Len(q) : q[i] = "synced"
  OBVIOUS
<1>2. i # 1
  BY <1>1
<1>3. Tail(q)[i - 1] = "synced" /\ i - 1 \in 1..Len(Tail(q))
  BY <1>1, <1>2
<1> QED
  BY <1>3

\* The situation AnswerOnItsWay is about: call a waits on the healthy stream c
\* of a CLI that has synced.
Awaits(a, c) ==
    /\ on[a] = c /\ pc[a] = "wait" /\ result[a] = "empty"
    /\ run[c] = "running" /\ stream[c] = "open" /\ cliOn = c
    /\ sync[session] = "notified"

Coming(c) == toCli[c] > 0 \/ \E i \in 1..Len(toServer[c]) : toServer[c][i] = "synced"

AnswerInv == \A a \in Attempts, c \in Conns : Awaits(a, c) => Coming(c)

\* A registered waiter always has an answer coming once the CLI has synced:
\* the registration precedes the request, and the CLI reports the end of its
\* sync unasked (sync.go 202-215, notifier.go 38-55).
THEOREM NoLostWakeup == Spec => []AnswerOnItsWay
<1> USE NoneAssumption, BoundsAssumption
<1>1. Init => AnswerInv
  BY DEF Init, AnswerInv, Awaits
<1>2. ASSUME TypeInv, TypeInv', RegistrationInv, HandlerInv, AnswerInv, [Next]_vars
      PROVE  AnswerInv'
  <2> SUFFICES ASSUME NEW a \in Attempts, NEW c \in Conns, Awaits(a, c)'
               PROVE  Coming(c)'
    BY DEF AnswerInv
  <2> USE TypeInv DEF TypeInv, TypeOK, CallShape,
          serverVars, networkVars, callVars, cliVars
  <2>1. ASSUME UNCHANGED <<toCli, toServer>>, Awaits(a, c)
        PROVE  Coming(c)'
    BY <2>1, <1>2 DEF AnswerInv, Coming
  <2>2. ASSUME NEW d \in Conns, CliConnect(d) PROVE Coming(c)'
    <3>1. on[a] # d /\ c # d
      BY <2>2 DEF CliConnect, Unreferenced, Awaits
    <3>2. Awaits(a, c)
      BY <2>2, <3>1 DEF CliConnect, Awaits
    <3> QED
      BY <2>1, <2>2, <3>2 DEF CliConnect
  <2>3. CASE InitialSyncDone
    BY <2>3 DEF InitialSyncDone, Awaits
  <2>4. ASSUME NEW d \in Conns, CliNotify(d) PROVE Coming(c)'
    <3>1. d = c /\ toServer'[c] = Append(toServer[c], "synced")
      BY <2>4 DEF CliNotify, CliSend, Awaits
    <3>2. toServer[c] \in Seq(Statuses) /\ "synced" \in Statuses
      BY DEF Statuses
    <3>3. \E i \in 1..Len(Append(toServer[c], "synced")) :
            Append(toServer[c], "synced")[i] = "synced"
      BY <3>2, SyncedAfterAppend
    <3> QED
      BY <3>1, <3>3 DEF Coming
  <2>5. ASSUME NEW d \in Conns, CliAnswer(d) PROVE Coming(c)'
    <3>1. d = c /\ toServer'[c] = Append(toServer[c], "synced")
      BY <2>5 DEF CliAnswer, CliSend, Awaits
    <3>2. toServer[c] \in Seq(Statuses) /\ "synced" \in Statuses
      BY DEF Statuses
    <3>3. \E i \in 1..Len(Append(toServer[c], "synced")) :
            Append(toServer[c], "synced")[i] = "synced"
      BY <3>2, SyncedAfterAppend
    <3> QED
      BY <3>1, <3>3 DEF Coming
  <2>6. CASE CliRestart
    BY <2>6 DEF CliRestart, Awaits
  <2>7. ASSUME NEW d \in Conns,
               \/ CliLosesStream(d) \/ NetworkLoss(d) \/ LossDetected(d)
        PROVE  Coming(c)'
    <3>1. Awaits(a, c) /\ toCli'[c] = toCli[c] /\ UNCHANGED toServer
      BY <2>7 DEF CliLosesStream, NetworkLoss, LossDetected, Awaits
    <3> QED
      BY <1>2, <3>1 DEF AnswerInv, Coming
  <2>8. ASSUME NEW d \in Conns, HandshakeFails(d) \/ RunServerReturn(d) PROVE Coming(c)'
    <3>1. c # d
      BY <2>8 DEF HandshakeFails, RunServerReturn, Awaits
    <3>2. Awaits(a, c)
      <4>1. CASE HandshakeFails(d)
        BY <3>1, <4>1 DEF HandshakeFails, Awaits
      <4>2. CASE RunServerReturn(d)
        BY <3>1, <4>2 DEF RunServerReturn, Awaits
      <4> QED
        BY <2>8, <4>1, <4>2
    <3>3. toCli'[c] = toCli[c] /\ toServer'[c] = toServer[c]
      BY <2>8, <3>1 DEF HandshakeFails, RunServerReturn
    <3>4. Coming(c)
      BY <1>2, <3>2 DEF AnswerInv
    <3> QED
      BY <3>3, <3>4 DEF Coming
  <2>9. ASSUME NEW d \in Conns, Install(d) PROVE Coming(c)'
    <3>1. c # d
      BY <2>9, HandlerInv DEF Install, HandlerInv, Awaits
    <3>2. Awaits(a, c)
      BY <2>9, <3>1 DEF Install, Awaits
    <3> QED
      BY <2>1, <2>9, <3>2 DEF Install
  <2>10. ASSUME NEW d \in Conns, RunReceive(d) PROVE Coming(c)'
    <3>1. Awaits(a, c)
      <4>1. result[a] = "empty"
        <5>1. CASE Head(toServer[d]) = "synced"
          BY <2>10, <5>1 DEF RunReceive, Awaits
        <5>2. CASE Head(toServer[d]) # "synced"
          BY <2>10, <5>2 DEF RunReceive, Awaits
        <5> QED
          BY <5>1, <5>2
      <4> QED
        BY <2>10, <4>1 DEF RunReceive, Awaits
    <3>2. toCli' = toCli /\ Coming(c)
      BY <1>2, <2>10, <3>1 DEF RunReceive, AnswerInv
    <3>3. CASE c # d
      <4>1. toServer'[c] = toServer[c]
        BY <2>10, <3>3 DEF RunReceive
      <4> QED
        BY <3>2, <4>1 DEF Coming
    <3>4. CASE c = d
      <4>1. a \in waiters[c]
        BY <3>1, RegistrationInv DEF RegistrationInv, Awaits
      <4>2. Head(toServer[c]) # "synced"
        BY <2>10, <3>4, <4>1 DEF RunReceive, Awaits
      <4>3. toServer[c] # << >> /\ toServer'[c] = Tail(toServer[c])
        BY <2>10, <3>4 DEF RunReceive
      <4>4. CASE toCli[c] > 0
        BY <3>2, <4>4 DEF Coming
      <4>5. CASE \E i \in 1..Len(toServer[c]) : toServer[c][i] = "synced"
        <5>1. \E i \in 1..Len(Tail(toServer[c])) : Tail(toServer[c])[i] = "synced"
          BY <4>2, <4>3, <4>5, SyncedAfterTail
        <5> QED
          BY <4>3, <5>1 DEF Coming
      <4> QED
        BY <3>2, <4>4, <4>5 DEF Coming
    <3> QED
      BY <3>3, <3>4
  <2>11. ASSUME NEW d \in Conns, RunReceiveError(d) \/ RunShutdown(d) \/ RunCleanup(d)
         PROVE  Coming(c)'
    <3>1. Awaits(a, c)
      <4>1. CASE RunReceiveError(d)
        BY <4>1 DEF RunReceiveError, Awaits
      <4>2. CASE RunShutdown(d)
        BY <4>2 DEF RunShutdown, Awaits
      <4>3. CASE RunCleanup(d)
        BY <4>3 DEF RunCleanup, Awaits
      <4> QED
        BY <2>11, <4>1, <4>2, <4>3
    <3> QED
      BY <2>1, <2>11, <3>1 DEF RunReceiveError, RunShutdown, RunCleanup
  <2>12. ASSUME NEW b \in Attempts, SendRequest(b) PROVE Coming(c)'
    <3>1. CASE a = b
      <4>1. toCli'[c] = toCli[c] + 1
        BY <2>12, <3>1 DEF SendRequest, Awaits
      <4> QED
        BY <4>1 DEF Coming
    <3>2. CASE a # b
      <4>1. Awaits(a, c)
        BY <2>12, <3>2 DEF SendRequest, Awaits
      <4>2. toCli'[c] >= toCli[c] /\ toServer' = toServer
        BY <2>12 DEF SendRequest
      <4> QED
        BY <1>2, <4>1, <4>2 DEF AnswerInv, Coming
    <3> QED
      BY <3>1, <3>2
  <2>13. ASSUME NEW b \in Attempts, NEW p \in Pods, CheckReady(b, p) PROVE Coming(c)'
    BY <2>1, <2>13 DEF CheckReady, Awaits
  <2>14. ASSUME NEW b \in Attempts, LookupFails(b) \/ Lookup(b) \/ Register(b)
         PROVE  Coming(c)'
    BY <2>1, <2>14 DEF LookupFails, Lookup, Register, Awaits
  <2>15. ASSUME NEW b \in Attempts, SendRequestFails(b) \/ Return(b) \/ Unregister(b)
         PROVE  Coming(c)'
    BY <2>1, <2>15 DEF SendRequestFails, Return, Unregister, Awaits
  <2>17. ASSUME NEW b \in Attempts, ContextDone(b) \/ CallBreaks(b) PROVE Coming(c)'
    BY <2>1, <2>17 DEF ContextDone, CallBreaks, Awaits
  <2>16. CASE UNCHANGED vars
    BY <2>1, <2>16 DEF vars, Awaits
  <2> QED
    BY <1>2, <2>2, <2>3, <2>4, <2>5, <2>6, <2>7, <2>8, <2>9, <2>10, <2>11, <2>12,
       <2>13, <2>14, <2>15, <2>16, <2>17 DEF Next, CliStep, HandlerStep, CallStep
<1>3. AnswerInv /\ TypeInv => AnswerOnItsWay
  <2> SUFFICES ASSUME AnswerInv, TypeInv, NEW a \in Attempts, NEW c, c = on[a],
                      pc[a] = "wait", result[a] = "empty", run[c] = "running",
                      stream[c] = "open", cliOn = c, sync[session] = "notified"
               PROVE  Coming(c)
    BY DEF AnswerOnItsWay, Coming
  <2>1. c \in Conns
    BY DEF TypeInv, TypeOK, CallShape
  <2> QED
    BY <2>1 DEF AnswerInv, Awaits
<1> QED
  BY <1>1, <1>2, <1>3, TypeInvariant, RegistrationInvariant, HandlerInvariant, PTL
     DEF Spec

-----------------------------------------------------------------------------
(* The order of the boot                                                   *)


\* d has seeded the volume: its vcp container is over.
Seeded(d) == Past(d, "vcp") /\ seeder[d] = "idle"

VolumeMet(s, d) == Seeded(d) \/ <<s, d>> \in blind

StartedMet(s, d) == MarshalDependencies(s)[d] = "service_started" => Booted(d)

HealthyMet(s, d) ==
    MarshalDependencies(s)[d] = "service_healthy" => d \in wasReady \/ <<s, d>> \in blind

\* What the informer's cache shows has been so: none of it is ever undone.
ViewInv ==
    \A d \in Services :
        /\ seen[d].phase = "Running" => Booted(d)
        /\ seen[d].ready = "yes" => d \in wasReady
        /\ seen[d].ready = "noStatus" => ~seen[d].exists \/ seen[d] = Unreported
        /\ seen[d].vcp = "completed" => Seeded(d)
        /\ seen[d].vcp = "noStatus" =>
              ~seen[d].exists \/ seen[d] = Unreported \/ d \notin compose.volume

\* A container that is ready has been ready.
ReadyInv == \A s \in Services : runtime[s] = "ready" => s \in wasReady

\* vcp works only as long as its container runs.
SeederInv == \A s \in Services : seeder[s] # "idle" => at[s] = 2

\* The waiters that have returned belong to the wait container that runs, and what
\* they waited for is there.
MetInv ==
    \A s \in Services :
        /\ met[s] # {} => at[s] \in {3, 4}
        /\ at[s] = 3 => \A d \in met[s] : VolumeMet(s, d)
        /\ at[s] = 4 => \A d \in met[s] : StartedMet(s, d) /\ HealthyMet(s, d)

\* A pod past a wait container has all that it waited for.
PastInv ==
    \A s \in Services :
        /\ at[s] > 3 /\ "wait-initialized-volumes" \in ToPod(s) =>
              \A d \in SharingVolume(s) : VolumeMet(s, d)
        /\ at[s] > 4 /\ "wait-depends-on" \in ToPod(s) =>
              \A d \in Services : StartedMet(s, d) /\ HealthyMet(s, d)

BootInv == BootTypeOK /\ SeederInv /\ ReadyInv /\ ViewInv /\ MetInv /\ PastInv

-----------------------------------------------------------------------------
(* The containers of a pod                                                  *)

\* Where the containers are in the order in which ToPod appends them.
LEMMA Places ==
  /\ Place("vcp") = 2
  /\ \A i \in 1 .. 6 :
        /\ BootSequence[i] = "copy-vcp" <=> i = 1
        /\ BootSequence[i] = "vcp" <=> i = 2
        /\ BootSequence[i] = "wait-initialized-volumes" <=> i = 3
        /\ BootSequence[i] = "wait-depends-on" <=> i = 4
        /\ BootSequence[i] = "wait-initial-sync" <=> i = 5
        /\ BootSequence[i] = "runtime" <=> i = 6
<1>1. \A i \in 1 .. 6 :
        /\ BootSequence[i] = "copy-vcp" <=> i = 1
        /\ BootSequence[i] = "vcp" <=> i = 2
        /\ BootSequence[i] = "wait-initialized-volumes" <=> i = 3
        /\ BootSequence[i] = "wait-depends-on" <=> i = 4
        /\ BootSequence[i] = "wait-initial-sync" <=> i = 5
        /\ BootSequence[i] = "runtime" <=> i = 6
  BY DEF BootSequence
<1>2. Place("vcp") \in 1 .. 6 /\ BootSequence[Place("vcp")] = "vcp"
  BY <1>1 DEF Place
<1> QED
  BY <1>1, <1>2

\* Which container runs, as a number
LEMMA RunsAt ==
  ASSUME NEW s \in Services, at[s] \in 0 .. 6
  PROVE  /\ Runs(s, "copy-vcp") <=> at[s] = 1
         /\ Runs(s, "vcp") <=> at[s] = 2
         /\ Runs(s, "wait-initialized-volumes") <=> at[s] = 3
         /\ Runs(s, "wait-depends-on") <=> at[s] = 4
         /\ Runs(s, "wait-initial-sync") <=> at[s] = 5
         /\ Runs(s, "runtime") <=> at[s] = 6
         /\ Past(s, "vcp") <=> at[s] > 2
BY Places DEF Runs, Past

\* Which containers a pod has
LEMMA HasContainers ==
  ASSUME NEW s \in Services
  PROVE  /\ "vcp" \in ToPod(s) <=> s \in compose.volume
         /\ "wait-initialized-volumes" \in ToPod(s) <=>
               s \in compose.volume /\ SharingVolume(s) # {}
         /\ "wait-depends-on" \in ToPod(s) <=> \E d \in Services : DependsOn(s)[d] # "none"
BY DEF ToPod

\* The kubelet starts the next container: no container of the pod is left out.
LEMMA AdvanceShape ==
  ASSUME BootTypeOK, NEW s \in Services, Advance(s)
  PROVE  /\ at' \in [Services -> 0 .. 6]
         /\ at'[s] \in 1 .. 6 /\ at'[s] > at[s]
         /\ \A d \in Services \ {s} : at'[d] = at[d]
         /\ "wait-initialized-volumes" \in ToPod(s) /\ at[s] < 3 => at'[s] <= 3
         /\ "wait-depends-on" \in ToPod(s) /\ at[s] < 4 => at'[s] <= 4
         /\ runtime' \in [Services -> {"waiting", "unready", "ready", "exited"}]
         /\ \A d \in Services \ {s} : runtime'[d] = runtime[d]
         /\ runtime'[s] = IF at'[s] = 6 THEN "unready" ELSE runtime[s]
<1>1. PICK i \in 1 .. 6 :
        /\ i > at[s] /\ BootSequence[i] \in ToPod(s)
        /\ \A j \in 1 .. 6 : j > at[s] /\ j < i => BootSequence[j] \notin ToPod(s)
        /\ at' = [at EXCEPT ![s] = i]
        /\ runtime' = IF BootSequence[i] = "runtime"
                        THEN [runtime EXCEPT ![s] = "unready"] ELSE runtime
  BY DEF Advance
<1>2. at[s] \in 0 .. 6 /\ at \in [Services -> 0 .. 6]
      /\ runtime \in [Services -> {"waiting", "unready", "ready", "exited"}]
  BY DEF BootTypeOK
<1>3. at'[s] = i /\ \A d \in Services \ {s} : at'[d] = at[d]
  BY <1>1, <1>2
<1>4. "wait-initialized-volumes" \in ToPod(s) /\ at[s] < 3 => i <= 3
  BY <1>1, <1>2, Places
<1>5. "wait-depends-on" \in ToPod(s) /\ at[s] < 4 => i <= 4
  BY <1>1, <1>2, Places
<1>6. BootSequence[i] = "runtime" <=> i = 6
  BY Places
<1> QED
  BY <1>1, <1>2, <1>3, <1>4, <1>5, <1>6

-----------------------------------------------------------------------------
(* The steps                                                                *)

\* The container that runs in a pod
RunsRuntime == \A s \in Services : Booted(s) <=> at[s] = 6

\* The last conjunct of the type invariant, in numbers
LEMMA RuntimeRuns ==
  ASSUME at \in [Services -> 0 .. 6]
  PROVE  RunsRuntime <=> \A s \in Services : Booted(s) <=> Runs(s, "runtime")
BY RunsAt DEF RunsRuntime

\* A pod whose next container starts: the service's own container is the last.
LEMMA AdvanceTypes ==
  ASSUME BootTypeOK, NEW s \in Services, Advance(s)
  PROVE  RunsRuntime'
<1>1. RunsRuntime
  BY RuntimeRuns DEF BootTypeOK
<1>2. ASSUME NEW d \in Services PROVE (Booted(d) <=> at[d] = 6)'
  <2>1. at[d] \in 0 .. 6 /\ (Booted(d) <=> at[d] = 6)
    BY <1>1 DEF RunsRuntime, BootTypeOK
  <2>2. CASE d # s
    BY <2>1, <2>2, AdvanceShape DEF Booted
  <2>3. CASE d = s
    BY <2>1, <2>3, AdvanceShape DEF Booted
  <2> QED
    BY <2>2, <2>3
<1> QED
  BY <1>2 DEF RunsRuntime

\* Each step keeps the types, and vcp works only in its container.
LEMMA TypeStep ==
  ASSUME BootTypeOK, SeederInv, BootNext
  PROVE  BootTypeOK' /\ SeederInv'
<1>0. /\ compose \in Composes
      /\ at \in [Services -> 0..6]
      /\ seeder \in [Services -> {"idle", "checked", "copying"}]
      /\ filled \in BOOLEAN /\ synced \in BOOLEAN
      /\ runtime \in [Services -> {"waiting", "unready", "ready", "exited"}]
      /\ seen \in [Services -> PodViews]
      /\ met \in [Services -> SUBSET Services]
      /\ blind \in SUBSET (Services \X Services)
      /\ wasReady \in SUBSET Services
      /\ breaks \in 0..MaxBreaks /\ flaps \in 0..MaxFlaps
      /\ RunsRuntime
  BY RuntimeRuns DEF BootTypeOK
<1>t. ASSUME /\ compose' \in Composes
             /\ at' \in [Services -> 0..6]
             /\ seeder' \in [Services -> {"idle", "checked", "copying"}]
             /\ filled' \in BOOLEAN /\ synced' \in BOOLEAN
             /\ runtime' \in [Services -> {"waiting", "unready", "ready", "exited"}]
             /\ seen' \in [Services -> PodViews]
             /\ met' \in [Services -> SUBSET Services]
             /\ blind' \in SUBSET (Services \X Services)
             /\ wasReady' \in SUBSET Services
             /\ breaks' \in 0..MaxBreaks /\ flaps' \in 0..MaxFlaps
             /\ RunsRuntime'
      PROVE  BootTypeOK'
  <2>1. \A s \in Services : (Booted(s) <=> Runs(s, "runtime"))'
    <3>1. ASSUME NEW s \in Services PROVE (Booted(s) <=> Runs(s, "runtime"))'
      <4>1. (Booted(s) <=> at[s] = 6)'
        BY <1>t DEF RunsRuntime
      <4>2. BootSequence[6] = "runtime" /\ \A i \in 1 .. 6 : BootSequence[i] = "runtime" => i = 6
        BY Places
      <4> QED
        BY <1>t, <4>1, <4>2 DEF Runs
    <3> QED
      BY <3>1
  <2> QED
    BY <1>t, <2>1 DEF BootTypeOK
<1>a. ASSUME NEW s \in Services, Advance(s), seeder'[s] = "idle",
             \A d \in Services \ {s} : seeder'[d] = seeder[d]
      PROVE  SeederInv'
  BY <1>0, <1>a, AdvanceShape DEF SeederInv
<1>s. ASSUME UNCHANGED <<at, seeder>>
      PROVE  SeederInv'
  BY <1>s DEF SeederInv
<1>r. ASSUME UNCHANGED <<at, runtime>>
      PROVE  RunsRuntime'
  BY <1>r, <1>0 DEF RunsRuntime, Booted
<1>1. ASSUME NEW s \in Services, CreatePod(s) \/ CopyVcp(s) \/ VcpSkips(s) \/ SyncWaitOver(s)
      PROVE  BootTypeOK' /\ SeederInv'
  <2>1. Advance(s) /\ UNCHANGED <<compose, seeder, filled, synced, seen, met, blind, wasReady,
                                  breaks, flaps>>
    BY <1>1 DEF CreatePod, CopyVcp, VcpSkips, SyncWaitOver
  <2>2. seeder[s] = "idle"
    BY <1>1, <1>0, RunsAt DEF SeederInv, CreatePod, CopyVcp, VcpSkips, SyncWaitOver
  <2>3. BootTypeOK'
    BY <1>0, <1>t, <2>1, AdvanceShape, AdvanceTypes
  <2> QED
    BY <1>a, <2>1, <2>2, <2>3
<1>2. ASSUME NEW s \in Services, VcpDone(s)
      PROVE  BootTypeOK' /\ SeederInv'
  <2>1. /\ Advance(s) /\ UNCHANGED <<compose, filled, synced, seen, met, blind, wasReady,
                                     breaks, flaps>>
        /\ seeder' = [seeder EXCEPT ![s] = "idle"]
    BY <1>2 DEF VcpDone
  <2>3. BootTypeOK'
    BY <1>0, <1>t, <2>1, AdvanceShape, AdvanceTypes
  <2> QED
    BY <1>a, <1>0, <2>1, <2>3
<1>3. ASSUME NEW s \in Services, WaitOver(s)
      PROVE  BootTypeOK' /\ SeederInv'
  <2>1. /\ Advance(s) /\ UNCHANGED <<compose, seeder, filled, synced, seen, blind, wasReady,
                                     breaks, flaps>>
        /\ met' = [met EXCEPT ![s] = {}]
    BY <1>3 DEF WaitOver
  <2>2. seeder[s] = "idle"
    BY <1>3, <1>0, RunsAt DEF WaitOver, SeederInv
  <2>3. BootTypeOK'
    BY <1>0, <1>t, <2>1, AdvanceShape, AdvanceTypes
  <2> QED
    BY <1>a, <2>1, <2>2, <2>3
<1>4. ASSUME NEW s \in Services, SeeNewPod(s) \/ SeeStatus(s)
      PROVE  BootTypeOK' /\ SeederInv'
  <2>1. Unreported \in PodViews /\ Reported(s) \in PodViews
    BY DEF Unreported, Absent, Reported, PodViews
  <2>2. seen' \in [Services -> PodViews]
    BY <1>0, <1>4, <2>1 DEF SeeNewPod, SeeStatus
  <2> QED
    BY <1>0, <1>t, <1>4, <1>r, <1>s, <2>2 DEF SeeNewPod, SeeStatus
<1>5. ASSUME NEW s \in Services, VcpFindsEmpty(s)
      PROVE  BootTypeOK' /\ SeederInv'
  <2>1. at[s] = 2
    BY <1>5, <1>0, RunsAt DEF VcpFindsEmpty
  <2>2. SeederInv'
    BY <1>0, <1>5, <2>1 DEF SeederInv, VcpFindsEmpty
  <2> QED
    BY <1>0, <1>t, <1>5, <1>r, <2>2 DEF VcpFindsEmpty
<1>6. ASSUME NEW s \in Services, VcpCopies(s)
      PROVE  BootTypeOK' /\ SeederInv'
  <2>2. SeederInv'
    BY <1>0, <1>6 DEF SeederInv, VcpCopies
  <2> QED
    BY <1>0, <1>t, <1>6, <1>r, <2>2 DEF VcpCopies
<1>7. ASSUME NEW s \in Services, NEW d \in Services, WaiterReturns(s, d)
      PROVE  BootTypeOK' /\ SeederInv'
  <2>1. blind' \in SUBSET (Services \X Services) /\ met' \in [Services -> SUBSET Services]
    BY <1>0, <1>7 DEF WaiterReturns
  <2> QED
    BY <1>0, <1>t, <1>7, <1>r, <1>s, <2>1 DEF WaiterReturns
<1>8. ASSUME NEW s \in Services, StreamBreaks(s)
      PROVE  BootTypeOK' /\ SeederInv'
  <2>1. breaks' \in 0 .. MaxBreaks /\ met' \in [Services -> SUBSET Services]
    BY <1>0, <1>8, BootBoundsAssumption DEF StreamBreaks
  <2> QED
    BY <1>0, <1>t, <1>8, <1>r, <1>s, <2>1 DEF StreamBreaks
<1>9. CASE InitialSync
  BY <1>0, <1>t, <1>9, <1>r, <1>s DEF InitialSync
<1>10. ASSUME NEW s \in Services, ProbePasses(s) \/ ProbeFails(s) \/ Exit(s)
       PROVE  BootTypeOK' /\ SeederInv'
  <2>1. runtime' \in [Services -> {"waiting", "unready", "ready", "exited"}]
    BY <1>0, <1>10 DEF ProbePasses, ProbeFails, Exit
  <2>2. flaps' \in 0 .. MaxFlaps /\ wasReady' \in SUBSET Services
    BY <1>0, <1>10, BootBoundsAssumption DEF ProbePasses, ProbeFails, Exit
  <2>3. \A d \in Services : runtime'[d] = "waiting" <=> runtime[d] = "waiting"
    BY <1>0, <1>10 DEF ProbePasses, ProbeFails, Exit
  <2>4. RunsRuntime'
    BY <1>0, <1>10, <2>3 DEF RunsRuntime, Booted, ProbePasses, ProbeFails, Exit
  <2> QED
    BY <1>0, <1>t, <1>10, <1>s, <2>1, <2>2, <2>4 DEF ProbePasses, ProbeFails, Exit
<1> QED
  BY <1>1, <1>2, <1>3, <1>4, <1>5, <1>6, <1>7, <1>8, <1>9, <1>10 DEF BootNext, Progress

\* Nothing that is waited for is undone: pods go on, containers that have started
\* are not waiting again, and what was seen before a report stays known.
LEMMA StepGrows ==
  ASSUME BootTypeOK, SeederInv, BootNext
  PROVE  /\ compose' = compose /\ wasReady \subseteq wasReady' /\ blind \subseteq blind'
         /\ \A d \in Services : at'[d] >= at[d]
         /\ \A d \in Services : Booted(d) => Booted(d)'
         /\ \A d \in Services : at[d] > 2 => seeder'[d] = "idle"
<1>0. /\ at \in [Services -> 0..6]
      /\ seeder \in [Services -> {"idle", "checked", "copying"}]
      /\ runtime \in [Services -> {"waiting", "unready", "ready", "exited"}]
      /\ RunsRuntime
  BY RuntimeRuns DEF BootTypeOK
<1>s. \A d \in Services : at[d] > 2 => seeder[d] = "idle"
  BY <1>0 DEF SeederInv
<1>a. ASSUME NEW s \in Services, Advance(s)
      PROVE  /\ \A d \in Services : at'[d] >= at[d]
             /\ \A d \in Services : Booted(d) => Booted(d)'
  <2>1. \A d \in Services : at'[d] >= at[d]
    BY <1>0, <1>a, AdvanceShape
  <2>2. ASSUME NEW d \in Services, runtime[d] # "waiting" PROVE runtime'[d] # "waiting"
    BY <1>0, <1>a, <2>2, AdvanceShape
  <2> QED
    BY <2>1, <2>2 DEF Booted
<1>1. ASSUME NEW s \in Services,
             CreatePod(s) \/ CopyVcp(s) \/ VcpSkips(s) \/ SyncWaitOver(s) \/ WaitOver(s)
      PROVE  Advance(s) /\ UNCHANGED <<compose, wasReady, blind, seeder>>
  BY <1>1 DEF CreatePod, CopyVcp, VcpSkips, SyncWaitOver, WaitOver
<1>2. ASSUME NEW s \in Services, VcpDone(s)
      PROVE  /\ Advance(s) /\ UNCHANGED <<compose, wasReady, blind>>
             /\ seeder' = [seeder EXCEPT ![s] = "idle"]
  BY <1>2 DEF VcpDone
<1>3. ASSUME NEW s \in Services, SeeNewPod(s) \/ SeeStatus(s) \/ StreamBreaks(s)
      PROVE  UNCHANGED <<compose, wasReady, blind, seeder, at, runtime>>
  BY <1>3 DEF SeeNewPod, SeeStatus, StreamBreaks
<1>4. ASSUME NEW s \in Services, NEW d \in Services, WaiterReturns(s, d)
      PROVE  UNCHANGED <<compose, wasReady, seeder, at, runtime>> /\ blind \subseteq blind'
  BY <1>4 DEF WaiterReturns
<1>5. ASSUME NEW s \in Services, VcpFindsEmpty(s) \/ VcpCopies(s)
      PROVE  /\ UNCHANGED <<compose, wasReady, blind, at, runtime>>
             /\ \A d \in Services : at[d] > 2 => seeder'[d] = "idle"
  <2>1. at[s] = 2
    BY <1>5, <1>0, RunsAt DEF VcpFindsEmpty, VcpCopies, SeederInv
  <2> QED
    BY <1>0, <1>s, <1>5, <2>1 DEF VcpFindsEmpty, VcpCopies
<1>6. CASE InitialSync
  BY <1>0, <1>s, <1>6 DEF InitialSync, Booted
<1>7. ASSUME NEW s \in Services, ProbePasses(s) \/ ProbeFails(s) \/ Exit(s)
      PROVE  /\ UNCHANGED <<compose, blind, seeder, at>> /\ wasReady \subseteq wasReady'
             /\ \A d \in Services : Booted(d) => Booted(d)'
  BY <1>0, <1>7 DEF ProbePasses, ProbeFails, Exit, Booted
<1>8. ASSUME UNCHANGED at PROVE \A d \in Services : at'[d] >= at[d]
  BY <1>0, <1>8
<1>9. ASSUME UNCHANGED runtime PROVE \A d \in Services : Booted(d) => Booted(d)'
  BY <1>9 DEF Booted
<1>10. CASE \E s \in Services : CreatePod(s) \/ CopyVcp(s) \/ VcpSkips(s) \/ SyncWaitOver(s)
                                  \/ WaitOver(s)
  BY <1>1, <1>a, <1>s, <1>10
<1>11. CASE \E s \in Services : VcpDone(s)
  <2>1. PICK s \in Services : VcpDone(s)
    BY <1>11
  <2>2. \A d \in Services : at[d] > 2 => seeder'[d] = "idle"
    BY <1>0, <1>2, <1>s, <2>1
  <2> QED
    BY <1>2, <1>a, <2>1, <2>2
<1>12. CASE \E s \in Services : SeeNewPod(s) \/ SeeStatus(s) \/ StreamBreaks(s)
  BY <1>3, <1>8, <1>9, <1>s, <1>12
<1>13. CASE \E s, d \in Services : WaiterReturns(s, d)
  BY <1>4, <1>8, <1>9, <1>s, <1>13
<1>14. CASE \E s \in Services : VcpFindsEmpty(s) \/ VcpCopies(s)
  BY <1>5, <1>8, <1>9, <1>14
<1>15. CASE \E s \in Services : ProbePasses(s) \/ ProbeFails(s) \/ Exit(s)
  BY <1>7, <1>8, <1>s, <1>15
<1> QED
  BY <1>6, <1>10, <1>11, <1>12, <1>13, <1>14, <1>15 DEF BootNext, Progress

\* So what was met stays met.
LEMMA StaysMet ==
  ASSUME BootTypeOK, SeederInv, BootNext, NEW s \in Services, NEW d \in Services
  PROVE  /\ MarshalDependencies(s)' = MarshalDependencies(s)
         /\ ToPod(s)' = ToPod(s) /\ SharingVolume(s)' = SharingVolume(s)
         /\ Seeded(d) => Seeded(d)'
         /\ VolumeMet(s, d) => VolumeMet(s, d)'
         /\ StartedMet(s, d) => StartedMet(s, d)'
         /\ HealthyMet(s, d) => HealthyMet(s, d)'
<1>1. compose' = compose /\ wasReady \subseteq wasReady' /\ blind \subseteq blind'
  BY StepGrows
<1>2. Booted(d) => Booted(d)'
  BY StepGrows
<1>3. /\ MarshalDependencies(s)' = MarshalDependencies(s)
      /\ ToPod(s)' = ToPod(s) /\ SharingVolume(s)' = SharingVolume(s)
  BY <1>1 DEF MarshalDependencies, ToPod, SharingVolume, DependsOn
<1>4. Seeded(d) => Seeded(d)'
  <2>1. at[d] \in 0 .. 6 /\ at'[d] \in 0 .. 6
    BY TypeStep DEF BootTypeOK
  <2>2. at'[d] >= at[d] /\ (at[d] > 2 => seeder'[d] = "idle")
    BY StepGrows
  <2> QED
    BY <2>1, <2>2, Places DEF Seeded, Past
<1> QED
  BY <1>1, <1>2, <1>3, <1>4 DEF VolumeMet, StartedMet, HealthyMet

-----------------------------------------------------------------------------
(* The invariant                                                            *)

\* Readiness is recorded when the probe passes.
LEMMA ReadyStep ==
  ASSUME BootTypeOK, SeederInv, ReadyInv, BootNext
  PROVE  ReadyInv'
<1>0. /\ at \in [Services -> 0..6]
      /\ runtime \in [Services -> {"waiting", "unready", "ready", "exited"}]
  BY DEF BootTypeOK
<1>1. wasReady \subseteq wasReady'
  BY StepGrows
<1>2. CASE UNCHANGED runtime
  BY <1>1, <1>2 DEF ReadyInv
<1>3. ASSUME NEW s \in Services, Advance(s) PROVE ReadyInv'
  BY <1>0, <1>1, <1>3, AdvanceShape DEF ReadyInv
<1>4. ASSUME NEW s \in Services, ProbePasses(s) \/ ProbeFails(s) \/ Exit(s)
      PROVE  ReadyInv'
  BY <1>0, <1>4 DEF ReadyInv, ProbePasses, ProbeFails, Exit
<1>5. ASSUME NEW s \in Services,
             CreatePod(s) \/ CopyVcp(s) \/ VcpSkips(s) \/ SyncWaitOver(s) \/ WaitOver(s) \/ VcpDone(s)
      PROVE  Advance(s)
  BY <1>5 DEF CreatePod, CopyVcp, VcpSkips, SyncWaitOver, WaitOver, VcpDone
<1>6. ASSUME NEW s \in Services,
             \/ SeeNewPod(s) \/ SeeStatus(s) \/ StreamBreaks(s) \/ VcpFindsEmpty(s) \/ VcpCopies(s)
             \/ \E d \in Services : WaiterReturns(s, d)
      PROVE  UNCHANGED runtime
  BY <1>6 DEF SeeNewPod, SeeStatus, StreamBreaks, VcpFindsEmpty, VcpCopies, WaiterReturns
<1>7. CASE InitialSync
  BY <1>2, <1>7 DEF InitialSync
<1> QED
  BY <1>2, <1>3, <1>4, <1>5, <1>6, <1>7 DEF BootNext, Progress

\* What the cache shows of a pod has been so.
ViewOf(d) ==
    /\ seen[d].phase = "Running" => Booted(d)
    /\ seen[d].ready = "yes" => d \in wasReady
    /\ seen[d].ready = "noStatus" => ~seen[d].exists \/ seen[d] = Unreported
    /\ seen[d].vcp = "completed" => Seeded(d)
    /\ seen[d].vcp = "noStatus" =>
          ~seen[d].exists \/ seen[d] = Unreported \/ d \notin compose.volume

\* The cache learns of a pod only what holds, and what it showed before still does.
LEMMA ViewStep ==
  ASSUME BootTypeOK, SeederInv, ReadyInv, ViewInv, BootNext
  PROVE  ViewInv'
<1>0. seen \in [Services -> PodViews]
  BY DEF BootTypeOK
<1>1. compose' = compose /\ wasReady \subseteq wasReady'
  BY StepGrows
<1>2. ASSUME NEW d \in Services, seen'[d] = seen[d] PROVE ViewOf(d)'
  <2>1. (Booted(d) => Booted(d)') /\ (Seeded(d) => Seeded(d)')
    BY StepGrows, StaysMet
  <2>2. ViewOf(d)
    BY DEF ViewInv, ViewOf
  <2> QED
    BY <1>1, <1>2, <2>1, <2>2 DEF ViewOf
<1>3. ASSUME NEW s \in Services, SeeNewPod(s) PROVE \A d \in Services : ViewOf(d)'
  <2>1. seen'[s] = Unreported /\ \A d \in Services \ {s} : seen'[d] = seen[d]
    BY <1>0, <1>3 DEF SeeNewPod
  <2>2. ViewOf(s)'
    BY <2>1 DEF ViewOf, Unreported, Absent
  <2> QED
    BY <1>2, <2>1, <2>2
<1>4. ASSUME NEW s \in Services, SeeStatus(s) PROVE \A d \in Services : ViewOf(d)'
  <2>1. seen'[s] = Reported(s) /\ \A d \in Services \ {s} : seen'[d] = seen[d]
    BY <1>0, <1>4 DEF SeeStatus
  <2>2. UNCHANGED <<at, runtime, seeder, wasReady, compose>>
    BY <1>4 DEF SeeStatus
  <2>3. Reported(s).phase = "Running" => Booted(s)
    BY DEF Reported, Booted
  <2>4. Reported(s).ready # "noStatus" /\ (Reported(s).ready = "yes" => s \in wasReady)
    BY DEF Reported, ReadyInv
  <2>5. Reported(s).vcp = "completed" => Seeded(s)
    <3>1. at[s] \in 0 .. 6 /\ (Past(s, "vcp") => seeder[s] = "idle")
      BY Places DEF BootTypeOK, SeederInv, Past
    <3> QED
      BY <3>1 DEF Reported, Seeded
  <2>6. Reported(s).vcp = "noStatus" => s \notin compose.volume
    BY HasContainers DEF Reported
  <2>7. (Booted(s) => Booted(s)') /\ (Seeded(s) => Seeded(s)')
    BY StepGrows, StaysMet
  <2>8. ViewOf(s)'
    BY <2>1, <2>2, <2>3, <2>4, <2>5, <2>6, <2>7 DEF ViewOf
  <2> QED
    BY <1>2, <2>1, <2>8
<1>5. ASSUME UNCHANGED seen PROVE \A d \in Services : ViewOf(d)'
  BY <1>2, <1>5
<1>6. ASSUME NEW s \in Services,
             \/ CreatePod(s) \/ CopyVcp(s) \/ VcpFindsEmpty(s) \/ VcpCopies(s) \/ VcpDone(s)
             \/ VcpSkips(s) \/ (\E d \in Services : WaiterReturns(s, d))
             \/ WaitOver(s) \/ SyncWaitOver(s) \/ ProbePasses(s)
             \/ StreamBreaks(s) \/ ProbeFails(s) \/ Exit(s)
      PROVE  UNCHANGED seen
  BY <1>6 DEF CreatePod, CopyVcp, VcpFindsEmpty, VcpCopies, VcpDone, VcpSkips, WaiterReturns,
     WaitOver, SyncWaitOver, ProbePasses, StreamBreaks, ProbeFails, Exit
<1>7. InitialSync => UNCHANGED seen
  BY DEF InitialSync
<1>8. \A d \in Services : ViewOf(d)'
  BY <1>3, <1>4, <1>5, <1>6, <1>7 DEF BootNext, Progress
<1> QED
  BY <1>8 DEF ViewInv, ViewOf

\* A waiter returns when the cache shows what it waits for.
LEMMA WaiterMeets ==
  ASSUME BootTypeOK, ViewInv, NEW s \in Services, NEW d \in Services, WaiterReturns(s, d)
  PROVE  /\ at[s] \in {3, 4}
         /\ at[s] = 3 => VolumeMet(s, d) \/ <<s, d>> \in blind'
         /\ at[s] = 4 /\ MarshalDependencies(s)[d] = "service_started" => Booted(d)
         /\ at[s] = 4 /\ MarshalDependencies(s)[d] = "service_healthy" =>
               d \in wasReady \/ <<s, d>> \in blind'
<1>0. /\ at[s] \in 0 .. 6 /\ seen[d] \in PodViews
      /\ compose.volume \subseteq Services
  BY ComposeAssumption DEF BootTypeOK, ComposeFiles
<1>1. /\ d \in Waiters(s) /\ Satisfied(s, d)
      /\ seen[d] = Unreported => <<s, d>> \in blind'
  BY DEF WaiterReturns
<1>2. at[s] \in {3, 4}
  BY <1>0, <1>1, RunsAt DEF Waiters
<1>3. ViewOf(d)
  BY DEF ViewInv, ViewOf
<1>4. CASE at[s] = 3
  <2>0. Runs(s, "wait-initialized-volumes") /\ ~Runs(s, "wait-depends-on")
    BY <1>0, <1>4, RunsAt
  <2>1. d \in SharingVolume(s) /\ conditionFinishedVolumeInit(seen[d])
    BY <1>1, <2>0 DEF Waiters, Satisfied
  <2>2. d \in compose.volume /\ seen[d].exists /\ seen[d].vcp # "pending"
    BY <2>1 DEF SharingVolume, conditionFinishedVolumeInit
  <2>3. seen[d].vcp \in {"noStatus", "completed"}
    BY <1>0, <2>2 DEF PodViews
  <2> QED
    BY <1>1, <1>3, <1>4, <2>2, <2>3 DEF ViewOf, VolumeMet
<1>5. CASE at[s] = 4
  <2>1. ~Runs(s, "wait-initialized-volumes")
    BY <1>0, <1>5, RunsAt
  <2>2. CASE MarshalDependencies(s)[d] = "service_healthy"
    <3>1. seen[d].exists /\ seen[d].ready # "no"
      BY <1>1, <2>1, <2>2 DEF Satisfied, conditionPodHealthy
    <3>2. seen[d].ready \in {"yes", "noStatus"}
      BY <1>0, <3>1 DEF PodViews
    <3> QED
      BY <1>1, <1>3, <1>5, <2>2, <3>1, <3>2 DEF ViewOf
  <2>3. CASE MarshalDependencies(s)[d] # "service_healthy"
    <3>1. seen[d].phase = "Running"
      BY <1>1, <2>1, <2>3 DEF Satisfied, conditionPodStarted
    <3> QED
      BY <1>3, <1>5, <2>3, <3>1 DEF ViewOf
  <2> QED
    BY <2>2, <2>3
<1> QED
  BY <1>2, <1>4, <1>5

\* The waiters that have returned, one service at a time
MetOf(s) ==
    /\ met[s] # {} => at[s] \in {3, 4}
    /\ at[s] = 3 => \A d \in met[s] : VolumeMet(s, d)
    /\ at[s] = 4 => \A d \in met[s] : StartedMet(s, d) /\ HealthyMet(s, d)

\* Waiters return one by one, are started again when the stream breaks, and are
\* over when the pod goes on to its next container.
LEMMA MetStep ==
  ASSUME BootTypeOK, SeederInv, ViewInv, MetInv, BootNext
  PROVE  MetInv'
<1>0. at \in [Services -> 0..6] /\ met \in [Services -> SUBSET Services]
  BY DEF BootTypeOK
<1>m. ASSUME NEW s \in Services PROVE MetOf(s)
  BY DEF MetInv, MetOf
<1>1. ASSUME NEW s \in Services, met'[s] = {} PROVE MetOf(s)'
  BY <1>1 DEF MetOf
<1>2. ASSUME NEW s \in Services, at'[s] = at[s], met'[s] = met[s] PROVE MetOf(s)'
  <2>1. \A d \in met[s] : /\ VolumeMet(s, d) => VolumeMet(s, d)'
                          /\ StartedMet(s, d) => StartedMet(s, d)'
                          /\ HealthyMet(s, d) => HealthyMet(s, d)'
    BY <1>0, StaysMet
  <2> QED
    BY <1>2, <1>m, <2>1 DEF MetOf
<1>3. ASSUME NEW s \in Services, Advance(s), at[s] \notin {3, 4}, UNCHANGED met
      PROVE  \A d \in Services : MetOf(d)'
  <2>1. met'[s] = {}
    BY <1>3, <1>m DEF MetOf
  <2>2. \A d \in Services \ {s} : at'[d] = at[d]
    BY <1>3, AdvanceShape
  <2> QED
    BY <1>1, <1>2, <1>3, <2>1, <2>2
<1>4. ASSUME NEW s \in Services,
             CreatePod(s) \/ CopyVcp(s) \/ VcpSkips(s) \/ SyncWaitOver(s) \/ VcpDone(s)
      PROVE  \A d \in Services : MetOf(d)'
  <2>1. Advance(s) /\ UNCHANGED met
    BY <1>4 DEF CreatePod, CopyVcp, VcpSkips, SyncWaitOver, VcpDone
  <2>2. at[s] \notin {3, 4}
    BY <1>0, <1>4, RunsAt DEF CreatePod, CopyVcp, VcpSkips, SyncWaitOver, VcpDone, SeederInv
  <2> QED
    BY <1>3, <2>1, <2>2
<1>5. ASSUME NEW s \in Services, WaitOver(s)
      PROVE  \A d \in Services : MetOf(d)'
  <2>1. /\ Advance(s) /\ met'[s] = {}
        /\ \A d \in Services \ {s} : met'[d] = met[d]
    BY <1>0, <1>5 DEF WaitOver
  <2>2. \A d \in Services \ {s} : at'[d] = at[d]
    BY <2>1, AdvanceShape
  <2> QED
    BY <1>1, <1>2, <2>1, <2>2
<1>6. ASSUME NEW s \in Services, StreamBreaks(s)
      PROVE  \A d \in Services : MetOf(d)'
  <2>1. /\ met'[s] = {} /\ UNCHANGED at
        /\ \A d \in Services \ {s} : met'[d] = met[d]
    BY <1>0, <1>6 DEF StreamBreaks
  <2> QED
    BY <1>1, <1>2, <2>1
<1>7. ASSUME NEW s \in Services, NEW e \in Services, WaiterReturns(s, e)
      PROVE  \A d \in Services : MetOf(d)'
  <2>1. /\ met'[s] = met[s] \cup {e} /\ UNCHANGED <<at, compose, runtime, seeder, wasReady>>
        /\ \A d \in Services \ {s} : met'[d] = met[d]
    BY <1>0, <1>7 DEF WaiterReturns
  <2>2. \A d \in met[s] : /\ VolumeMet(s, d) => VolumeMet(s, d)'
                          /\ StartedMet(s, d) => StartedMet(s, d)'
                          /\ HealthyMet(s, d) => HealthyMet(s, d)'
    BY <1>0, StaysMet
  <2>3. /\ MarshalDependencies(s)' = MarshalDependencies(s)
        /\ VolumeMet(s, e) => VolumeMet(s, e)'
        /\ Booted(e) => Booted(e)'
    BY StaysMet, StepGrows
  <2>4. at[s] \in {3, 4}
    BY <1>7, WaiterMeets
  <2>5. at[s] = 3 => VolumeMet(s, e)'
    BY <1>7, WaiterMeets, <2>3 DEF VolumeMet
  <2>6. at[s] = 4 => StartedMet(s, e)'
    BY <1>7, WaiterMeets, <2>3 DEF StartedMet
  <2>7. at[s] = 4 => HealthyMet(s, e)'
    BY <1>7, WaiterMeets, <2>1, <2>3 DEF HealthyMet
  <2>8. MetOf(s)'
    BY <1>m, <2>1, <2>2, <2>4, <2>5, <2>6, <2>7 DEF MetOf
  <2> QED
    BY <1>2, <2>1, <2>8
<1>8. ASSUME UNCHANGED <<at, met>> PROVE \A d \in Services : MetOf(d)'
  BY <1>2, <1>8
<1>9. ASSUME NEW s \in Services,
             \/ SeeNewPod(s) \/ SeeStatus(s) \/ VcpFindsEmpty(s) \/ VcpCopies(s)
             \/ ProbePasses(s) \/ ProbeFails(s) \/ Exit(s)
      PROVE  UNCHANGED <<at, met>>
  BY <1>9 DEF SeeNewPod, SeeStatus, VcpFindsEmpty, VcpCopies, ProbePasses, ProbeFails, Exit
<1>10. InitialSync => UNCHANGED <<at, met>>
  BY DEF InitialSync
<1>11. \A d \in Services : MetOf(d)'
  BY <1>4, <1>5, <1>6, <1>7, <1>8, <1>9, <1>10 DEF BootNext, Progress
<1> QED
  BY <1>11 DEF MetInv, MetOf

\* What a pod has waited for, one service at a time
PastVolume(s) ==
    at[s] > 3 /\ "wait-initialized-volumes" \in ToPod(s) =>
        \A d \in SharingVolume(s) : VolumeMet(s, d)
PastDepends(s) ==
    at[s] > 4 /\ "wait-depends-on" \in ToPod(s) =>
        \A d \in Services : StartedMet(s, d) /\ HealthyMet(s, d)

\* A pod passes a wait container only by WaitOver, when all its waiters have
\* returned: the kubelet leaves out no container.
LEMMA PastStep ==
  ASSUME BootTypeOK, SeederInv, ViewInv, MetInv, PastInv, BootNext
  PROVE  PastInv'
<1>0. /\ at \in [Services -> 0..6] /\ met \in [Services -> SUBSET Services]
      /\ compose.volume \subseteq Services
  BY ComposeAssumption DEF BootTypeOK, ComposeFiles
<1>p. ASSUME NEW s \in Services PROVE PastVolume(s) /\ PastDepends(s)
  BY DEF PastInv, PastVolume, PastDepends
<1>c. ASSUME NEW s \in Services
      PROVE  /\ ToPod(s)' = ToPod(s) /\ SharingVolume(s)' = SharingVolume(s)
             /\ SharingVolume(s) \subseteq Services
             /\ \A d \in Services : /\ VolumeMet(s, d) => VolumeMet(s, d)'
                                    /\ StartedMet(s, d) => StartedMet(s, d)'
                                    /\ HealthyMet(s, d) => HealthyMet(s, d)'
  BY <1>0, StaysMet DEF SharingVolume
<1>1. ASSUME NEW s \in Services, at[s] > 3 \/ at'[s] <= 3 \/ "wait-initialized-volumes" \notin ToPod(s)
      PROVE  PastVolume(s)'
  BY <1>0, <1>1, <1>p, <1>c, TypeStep DEF PastVolume, BootTypeOK
<1>2. ASSUME NEW s \in Services, at[s] > 4 \/ at'[s] <= 4 \/ "wait-depends-on" \notin ToPod(s)
      PROVE  PastDepends(s)'
  BY <1>0, <1>2, <1>p, <1>c, TypeStep DEF PastDepends, BootTypeOK
<1>3. ASSUME NEW s \in Services, at'[s] = at[s] PROVE PastVolume(s)' /\ PastDepends(s)'
  BY <1>0, <1>1, <1>2, <1>3
<1>4. ASSUME NEW s \in Services, Advance(s), at[s] \notin {3, 4}
      PROVE  \A d \in Services : PastVolume(d)' /\ PastDepends(d)'
  <2>1. PastVolume(s)' /\ PastDepends(s)'
    BY <1>0, <1>1, <1>2, <1>4, AdvanceShape
  <2>2. \A d \in Services \ {s} : at'[d] = at[d]
    BY <1>4, AdvanceShape
  <2> QED
    BY <1>3, <2>1, <2>2
<1>5. ASSUME NEW s \in Services,
             CreatePod(s) \/ CopyVcp(s) \/ VcpSkips(s) \/ SyncWaitOver(s) \/ VcpDone(s)
      PROVE  \A d \in Services : PastVolume(d)' /\ PastDepends(d)'
  <2>1. Advance(s)
    BY <1>5 DEF CreatePod, CopyVcp, VcpSkips, SyncWaitOver, VcpDone
  <2>2. at[s] \notin {3, 4}
    BY <1>0, <1>5, RunsAt DEF CreatePod, CopyVcp, VcpSkips, SyncWaitOver, VcpDone, SeederInv
  <2> QED
    BY <1>4, <2>1, <2>2
<1>6. ASSUME NEW s \in Services, WaitOver(s)
      PROVE  \A d \in Services : PastVolume(d)' /\ PastDepends(d)'
  <2>1. Advance(s) /\ Waiters(s) \subseteq met[s] /\ at[s] \in {3, 4}
    BY <1>0, <1>6, RunsAt DEF WaitOver
  <2>2. \A d \in Services \ {s} : at'[d] = at[d]
    BY <2>1, AdvanceShape
  <2>3. CASE at[s] = 3
    <3>1. Runs(s, "wait-initialized-volumes") /\ ~Runs(s, "wait-depends-on")
      BY <1>0, <2>3, RunsAt
    <3>2. SharingVolume(s) \subseteq met[s]
      BY <2>1, <3>1 DEF Waiters
    <3>3. \A d \in SharingVolume(s) : VolumeMet(s, d)
      BY <2>3, <3>2 DEF MetInv
    <3>4. PastVolume(s)'
      BY <1>c, <3>3 DEF PastVolume
    <3>5. PastDepends(s)'
      BY <1>0, <1>2, <2>1, <2>3, AdvanceShape
    <3> QED
      BY <1>3, <2>2, <3>4, <3>5
  <2>4. CASE at[s] = 4
    <3>1. Runs(s, "wait-depends-on") /\ ~Runs(s, "wait-initialized-volumes")
      BY <1>0, <2>4, RunsAt
    <3>2. \A d \in Services :
            MarshalDependencies(s)[d] \in {"service_healthy", "service_started"} => d \in met[s]
      BY <2>1, <3>1 DEF Waiters
    <3>3. \A d \in Services : StartedMet(s, d) /\ HealthyMet(s, d)
      BY <2>4, <3>2 DEF MetInv, StartedMet, HealthyMet
    <3>4. PastDepends(s)'
      BY <1>c, <3>3 DEF PastDepends
    <3>5. PastVolume(s)'
      BY <1>0, <1>1, <2>4
    <3> QED
      BY <1>3, <2>2, <3>4, <3>5
  <2> QED
    BY <2>1, <2>3, <2>4
<1>7. ASSUME NEW s \in Services,
             \/ SeeNewPod(s) \/ SeeStatus(s) \/ VcpFindsEmpty(s) \/ VcpCopies(s) \/ StreamBreaks(s)
             \/ ProbePasses(s) \/ ProbeFails(s) \/ Exit(s) \/ \E d \in Services : WaiterReturns(s, d)
      PROVE  UNCHANGED at
  BY <1>7 DEF SeeNewPod, SeeStatus, VcpFindsEmpty, VcpCopies, StreamBreaks, ProbePasses,
     ProbeFails, Exit, WaiterReturns
<1>8. InitialSync => UNCHANGED at
  BY DEF InitialSync
<1>9. \A d \in Services : PastVolume(d)' /\ PastDepends(d)'
  BY <1>3, <1>5, <1>6, <1>7, <1>8 DEF BootNext, Progress
<1> QED
  BY <1>9 DEF PastInv, PastVolume, PastDepends

\* BootInv holds before any pod is there, and every step keeps it.
LEMMA BootInvariant == BootSpec => []BootInv
<1>1. BootInit => BootInv
  <2> SUFFICES ASSUME BootInit PROVE BootInv
    OBVIOUS
  <2>1. at \in [Services -> 0 .. 6] /\ \A s \in Services : at[s] = 0
    BY DEF BootInit
  <2>2. \A s \in Services : Booted(s) <=> Runs(s, "runtime")
    BY <2>1, RunsAt DEF BootInit, Booted
  <2>3. seen \in [Services -> PodViews]
    <3>1. Absent \in PodViews
      BY DEF Absent, PodViews
    <3> QED
      BY <3>1 DEF BootInit
  <2>4. BootTypeOK
    <3>1. /\ seeder \in [Services -> {"idle", "checked", "copying"}]
          /\ runtime \in [Services -> {"waiting", "unready", "ready", "exited"}]
          /\ met \in [Services -> SUBSET Services]
      BY DEF BootInit
    <3>2. filled \in BOOLEAN /\ synced \in BOOLEAN
      BY DEF BootInit
    <3>3. breaks \in 0 .. MaxBreaks /\ flaps \in 0 .. MaxFlaps
      BY BootBoundsAssumption DEF BootInit
    <3>4. compose \in Composes /\ blind \in SUBSET (Services \X Services)
          /\ wasReady \in SUBSET Services
      BY DEF BootInit
    <3> QED
      BY <2>1, <2>2, <2>3, <3>1, <3>2, <3>3, <3>4 DEF BootTypeOK
  <2>5. SeederInv /\ ReadyInv /\ MetInv
    BY DEF BootInit, SeederInv, ReadyInv, MetInv
  <2>6. PastInv
    BY <2>1 DEF PastInv
  <2>7. ViewInv
    BY DEF BootInit, ViewInv, Absent
  <2> QED
    BY <2>4, <2>5, <2>6, <2>7 DEF BootInv
<1>2. ASSUME BootInv, [BootNext]_bootVars
      PROVE  BootInv'
  <2>0. BootTypeOK /\ SeederInv /\ ReadyInv /\ ViewInv /\ MetInv /\ PastInv
    BY <1>2 DEF BootInv
  <2>1. CASE BootNext
    BY <2>0, <2>1, TypeStep, ReadyStep, ViewStep, MetStep, PastStep DEF BootInv
  <2>2. CASE UNCHANGED bootVars
    <3>0. UNCHANGED <<compose, at, seeder, filled, synced, runtime, seen, met, blind,
                      wasReady, breaks, flaps>>
      BY <2>2 DEF bootVars
    <3>1. BootTypeOK'
      BY <2>0, <3>0 DEF BootTypeOK, Booted, Runs
    <3>2. SeederInv' /\ ReadyInv'
      BY <2>0, <3>0 DEF SeederInv, ReadyInv
    <3>3. ViewInv'
      BY <2>0, <3>0 DEF ViewInv, Booted, Seeded, Past
    <3>4. MetInv'
      BY <2>0, <3>0 DEF MetInv, VolumeMet, StartedMet, HealthyMet, Seeded, Past, Booted,
         MarshalDependencies, DependsOn
    <3>5. PastInv'
      BY <2>0, <3>0 DEF PastInv, VolumeMet, StartedMet, HealthyMet, Seeded, Past, Booted,
         MarshalDependencies, DependsOn, ToPod, SharingVolume
    <3> QED
      BY <3>1, <3>2, <3>3, <3>4, <3>5 DEF BootInv
  <2> QED
    BY <1>2, <2>1, <2>2
<1> QED
  BY <1>1, <1>2, PTL DEF BootSpec

\* The type invariant: also, the service's own container runs once every init
\* container that ToPod gave its pod is over.
THEOREM BootTypeCorrect == BootSpec => []BootTypeOK
<1>1. BootInv => BootTypeOK
  BY DEF BootInv
<1> QED
  BY <1>1, BootInvariant, PTL

\* A pod that runs its service is past every wait container it has.
LEMMA BootedIsPast ==
  ASSUME BootInv, NEW s \in Services, Booted(s)
  PROVE  /\ "wait-initialized-volumes" \in ToPod(s) =>
               \A d \in SharingVolume(s) : VolumeMet(s, d)
         /\ "wait-depends-on" \in ToPod(s) =>
               \A d \in Services : StartedMet(s, d) /\ HealthyMet(s, d)
<1>1. at[s] = 6
  BY RunsAt DEF BootInv, BootTypeOK
<1> QED
  BY <1>1 DEF BootInv, PastInv

\* What a service waits for (wait-depends-on, wait-initialized-volumes) is there
\* when it boots, whatever its Compose file, however late the informer is and
\* whichever CheckReady streams break.
THEOREM DependenciesFirst == BootSpec => []DependencyOrder
<1>1. ASSUME BootInv PROVE DependencyOrder
  <2>1. StartedOrder
    BY <1>1, BootedIsPast DEF StartedOrder, StartedMet
  <2>2. HealthyOrder
    <3>1. ASSUME NEW s \in Services, NEW d \in Services, Booted(s),
                 DependsOn(s)[d] = "service_healthy"
          PROVE  d \in wasReady \/ <<s, d>> \in blind
      <4>1. "wait-depends-on" \in ToPod(s)
        BY <3>1, HasContainers
      <4>2. MarshalDependencies(s)[d] = "service_healthy"
        BY <3>1 DEF MarshalDependencies
      <4> QED
        BY <1>1, <3>1, <4>1, <4>2, BootedIsPast DEF HealthyMet
    <3> QED
      BY <3>1 DEF HealthyOrder
  <2>3. SeededOrder
    <3>1. ASSUME NEW s \in compose.volume, NEW d \in compose.volume, Booted(s), d # s
          PROVE  (Past(d, "vcp") /\ seeder[d] = "idle") \/ <<s, d>> \in blind
      <4>1. s \in Services
        BY <1>1, ComposeAssumption DEF BootInv, BootTypeOK, ComposeFiles
      <4>2. d \in SharingVolume(s)
        BY <3>1 DEF SharingVolume
      <4>3. "wait-initialized-volumes" \in ToPod(s)
        BY <4>1, <4>2, HasContainers
      <4> QED
        BY <1>1, <3>1, <4>1, <4>2, <4>3, BootedIsPast DEF VolumeMet, Seeded
    <3> QED
      BY <3>1 DEF SeededOrder
  <2> QED
    BY <2>1, <2>2, <2>3 DEF DependencyOrder
<1> QED
  BY <1>1, BootInvariant, PTL

=============================================================================
