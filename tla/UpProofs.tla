------------------------------ MODULE UpProofs ------------------------------
(* Proofs about `blimp up`: its lock file, the images that it pushes and   *)
(* the handler TagImages, for any services, tunnels and order of results.  *)
EXTENDS Up, FiniteSetTheorems, TLAPS

-----------------------------------------------------------------------------
(* The inductive invariants                                                *)

\* The image of s was found in the registry, and is the one that is named.
Found(s) ==
    builtImages[s] = "old" /\ registry[s] = "old" /\ pushes[s] = 0 /\ ~alwaysBuild

\* The image of s was built, or found in the Docker daemon.
Built(s) == local[s] \in {"compose", "fresh"} /\ (alwaysBuild => local[s] = "fresh")

\* The image of s was pushed, once.
PushedOnce(s) ==
    /\ builtImages[s] \in {"compose", "fresh"} /\ builtImages[s] = registry[s]
    /\ pushes[s] = 1
    /\ alwaysBuild => builtImages[s] = "fresh"

\* How far the image of each service is, in every phase of buildImages.
ImageInv ==
    \A s \in Services :
        /\ phase \in {"off", "cache"} => pushes[s] = 0
        /\ phase = "builder" => IF s \in toBuild THEN pushes[s] = 0 ELSE Found(s)
        /\ phase = "solve" => IF s \in toBuild THEN pushes[s] = 0
                                               ELSE Found(s) \/ PushedOnce(s)
        /\ phase = "build" /\ s \in toBuild => s \in needToPush
        /\ phase \in {"collect", "push", "prePushErr", "rest"} => s \notin toBuild
        /\ phase \in {"build", "collect", "push", "prePushErr", "rest"}
             => IF s \in needToPush THEN pushes[s] = 0 /\ (s \notin toBuild => Built(s))
                                    ELSE Found(s) \/ PushedOnce(s)
        /\ phase = "done" => Found(s) \/ PushedOnce(s)

\* Where the result for the base image of s is, once its goroutine gave it away.
Sending(s) == tagger = "send" /\ sending = s
Queued(s) == \E i \in 1..Len(stream) : stream[i] = s
Held(s) == prePush = "send" /\ held = s
Pushing(s) == phase = "push" /\ current = s

\* There is one result for a service, in one place, and until the image of the
\* service was pushed after it, the service is in needToPush.
InOnePlace(s) ==
    /\ Sending(s) \/ Queued(s) \/ Held(s) \/ Pushing(s) => task[s] = "gave"
    /\ Sending(s) => ~Queued(s) /\ ~Held(s) /\ ~Pushing(s)
    /\ Queued(s) => ~Held(s) /\ ~Pushing(s)
    /\ Held(s) => ~Pushing(s)
    /\ phase \in {"build", "collect", "push"}
         /\ (task[s] \in {"push", "give"} \/ Sending(s) \/ Queued(s) \/ Held(s) \/ Pushing(s))
         => s \in needToPush

OneResult ==
    /\ \A i, j \in 1..Len(stream) : stream[i] = stream[j] => i = j
    /\ \A s \in Services : InOnePlace(s)

\* The goroutine and the handler are not there before they are started.
NotStarted ==
    /\ phase \in {"off", "cache", "builder", "solve"} => prePush = "off"
    /\ prePush = "bases" => phase \in {"build", "collect", "failed", "dead"}
    /\ prePush = "bases" /\ phase \in {"build", "collect"} => needToPush # {}
    /\ prePush \in {"off", "bases"} => tagger = "off"
    /\ tagger = "off" => rpc = "none" /\ \A s \in Services : task[s] = "off"
    /\ tagger \in {"off", "auth"}
         => stream = <<>> /\ prePush # "send" /\ phase # "push" /\ numSent = 0
    /\ tagger = "auth" => \A s \in Services : task[s] \in {"off", "push"}
    /\ prePush = "send" => held \in Services
    /\ tagger = "send" => sending \in Services
    /\ phase = "push" => current \in Services

Gave == {s \in Services : task[s] = "gave"}
Requested == {s \in Services : task[s] # "off"}

\* The handler counts the responses: it has sent all that were given to it but
\* the one in hand, and asks for another while there are more requests.
CountInv ==
    /\ tagger \in {"off", "auth", "loop"} => numSent = Cardinality(Gave)
    /\ tagger = "send" => numSent + 1 = Cardinality(Gave)
    /\ tagger \in {"auth", "loop"} => numSent < Cardinality(Requested)
    /\ tagger # "returned" /\ rpc # "broken" => \A s \in Services : task[s] # "dropped"

BuildInv == ImageInv /\ NotStarted /\ OneResult /\ CountInv

\* buildImages has not begun before the sandbox is there.
PhaseOff == pc \in BeforeLock \cup {"load", "create"} => phase = "off"

\* Whoever is past the check when another up is there knows it by now, and
\* nobody else writes the file.
LockInv ==
    /\ pc \in Holding \cup {"lock"} /\ OtherPast => shared
    /\ pc \in Holding /\ ~shared => pidfile = "me"

UpInv == TypeOK /\ BuildInv /\ PhaseOff /\ LockInv

-----------------------------------------------------------------------------
(* The numbers of responses                                                *)

\* The sets of responses are finite.
LEMMA Counts ==
  /\ IsFiniteSet(Gave) /\ IsFiniteSet(Requested)
  /\ Cardinality(Gave) \in Nat /\ Cardinality(Requested) \in Nat
  /\ Cardinality(Gave) <= Cardinality(Requested)
  /\ Cardinality(Requested) <= Cardinality(Services)
  /\ Cardinality(Services) \in Nat
<1>1. Gave \subseteq Requested /\ Requested \subseteq Services /\ IsFiniteSet(Services)
  BY ServicesAssumption DEF Gave, Requested
<1>2. IsFiniteSet(Requested) /\ Cardinality(Requested) <= Cardinality(Services)
  BY <1>1, FS_Subset
<1>3. IsFiniteSet(Gave) /\ Cardinality(Gave) <= Cardinality(Requested)
  BY <1>1, <1>2, FS_Subset
<1> QED
  BY <1>1, <1>2, <1>3, FS_CardinalityType

\* While a response is missing, some goroutine has not given its own.
LEMMA ResponseMissing ==
  ASSUME BuildTypeOK, CountInv, tagger = "loop", rpc # "broken"
  PROVE  \E s \in Services : task[s] \in {"push", "give"}
<1>1. Gave # Requested
  BY Counts DEF CountInv
<1>2. PICK s \in Requested : s \notin Gave
  BY <1>1 DEF Gave, Requested
<1> QED
  BY <1>2 DEF Gave, Requested, CountInv, BuildTypeOK

-----------------------------------------------------------------------------
(* Types of the build                                                      *)

\* A step of the build keeps the types.
LEMMA BuildTypes ==
  ASSUME BuildTypeOK, BuildInv, BuildNext
  PROVE  BuildTypeOK'
<1> USE DEF buildVars, cliVars, prePushVars, tagVars
<1>1. CASE getRemoteCachedImages
  BY <1>1 DEF BuildTypeOK, getRemoteCachedImages, Images
<1>2. CASE getImageBuilder
  BY <1>2 DEF BuildTypeOK, getImageBuilder, StartDocker, StartBuildkit
<1>3. CASE SolveOne
  <2>1. registry' \in [Services -> Images] /\ builtImages' \in [Services -> Images]
    BY <1>3 DEF BuildTypeOK, SolveOne, Images
  <2>2. pushes' \in [Services -> Nat]
    BY <1>3 DEF BuildTypeOK, SolveOne
  <2> QED
    BY <1>3, <2>1, <2>2 DEF BuildTypeOK, SolveOne
<1>4. CASE BuildOne
  <2>1. local' \in [Services -> Images]
    BY <1>4 DEF BuildTypeOK, BuildOne, TagCached, build, Images
  <2> QED
    BY <1>4, <2>1 DEF BuildTypeOK, BuildOne
<1>5. CASE CollectResult \/ CollectClosed \/ TakePrePushErr
  BY <1>5 DEF BuildTypeOK, CollectResult, CollectClosed, TakePrePushErr
<1>6. ASSUME NEW s \in Services, Pushed(s)
      PROVE  /\ registry' \in [Services -> Images] /\ builtImages' \in [Services -> Images]
             /\ pushes' \in [Services -> Nat]
             /\ needToPush' \subseteq Services
  BY <1>6 DEF BuildTypeOK, Pushed
<1>7. CASE PushAfterPrePush
  <2>1. current \in Services
    BY <1>7 DEF PushAfterPrePush, BuildInv, NotStarted
  <2> QED
    BY <1>6, <1>7, <2>1 DEF BuildTypeOK, PushAfterPrePush, PushFails
<1>8. CASE PushRest
  <2>1. /\ registry' \in [Services -> Images] /\ builtImages' \in [Services -> Images]
        /\ pushes' \in [Services -> Nat]
        /\ needToPush' \subseteq Services
    BY <1>6, <1>8 DEF BuildTypeOK, PushRest, PushFails
  <2> QED
    BY <1>8, <2>1 DEF BuildTypeOK, PushRest, PushFails
<1>9. CASE pushBaseImages
  BY <1>9 DEF BuildTypeOK, pushBaseImages
<1>10. CASE RecvTag
  <2>1. stream' \in Seq(Services) /\ held' \in Services \cup {"none"}
    <3>1. stream \in Seq(Services) /\ held \in Services \cup {"none"}
      BY DEF BuildTypeOK
    <3>2. stream # <<>> => Head(stream) \in Services /\ Tail(stream) \in Seq(Services)
      BY <3>1
    <3> QED
      BY <1>10, <3>1, <3>2 DEF RecvTag
  <2> QED
    BY <1>10, <2>1 DEF BuildTypeOK, RecvTag
<1>11. CASE TagAuthorize
  BY <1>11 DEF BuildTypeOK, TagAuthorize
<1>12. CASE TagSend
  <2>1. stream' \in Seq(Services)
    <3>1. stream \in Seq(Services) /\ sending \in Services
      BY <1>12 DEF BuildTypeOK, TagSend, BuildInv, NotStarted
    <3>2. Append(stream, sending) \in Seq(Services)
      BY <3>1
    <3> QED
      BY <1>12, <3>1, <3>2 DEF TagSend
  <2>2. numSent' \in 0..Cardinality(Services)
    BY <1>12, Counts DEF BuildTypeOK, TagSend, BuildInv, CountInv
  <2> QED
    BY <1>12, <2>1, <2>2 DEF BuildTypeOK, TagSend
<1>13. ASSUME NEW s \in Services, TaskPushed(s) \/ TaskGives(s)
       PROVE  BuildTypeOK'
  BY <1>13 DEF BuildTypeOK, TaskPushed, TaskGives
<1>14. CASE TagBreaks
  BY <1>14 DEF BuildTypeOK, TagBreaks
<1> QED
  BY <1>1, <1>2, <1>3, <1>4, <1>5, <1>7, <1>8, <1>9, <1>10, <1>11, <1>12, <1>13, <1>14
     DEF BuildNext, BuildSteps, TagSteps

-----------------------------------------------------------------------------
(* Steps of the build                                                      *)

\* A step of the build keeps the images in order: what is pushed was built, and
\* a service is in needToPush until its push.
LEMMA ImageStep ==
  ASSUME BuildTypeOK, BuildInv, BuildNext
  PROVE  ImageInv'
<1> USE DEF buildVars, cliVars, prePushVars, tagVars
<1>i. ImageInv
  BY DEF BuildInv
<1>1. CASE getRemoteCachedImages
  BY <1>1, <1>i DEF BuildTypeOK, getRemoteCachedImages, ImageInv, Found
<1>2. CASE getImageBuilder
  BY <1>2, <1>i DEF BuildTypeOK, getImageBuilder, StartDocker, StartBuildkit, ImageInv, Found,
     PushedOnce
<1>3. CASE SolveOne
  BY <1>3, <1>i DEF BuildTypeOK, SolveOne, ImageInv, Found, PushedOnce
<1>4. CASE BuildOne
  BY <1>4, <1>i DEF BuildTypeOK, BuildOne, TagCached, build, ImageInv, Found, PushedOnce, Built
<1>5. CASE CollectResult \/ CollectClosed \/ TakePrePushErr
  BY <1>5, <1>i DEF CollectResult, CollectClosed, TakePrePushErr, ImageInv, Found, PushedOnce, Built
<1>6. ASSUME NEW s \in needToPush, Pushed(s), phase \in {"push", "rest"},
             phase' \in {"collect", "rest"},
             UNCHANGED <<alwaysBuild, toBuild, local>>
      PROVE  ImageInv'
  <2>1. /\ s \in Services /\ s \notin toBuild /\ pushes[s] = 0 /\ Built(s)
    BY <1>6, <1>i DEF BuildTypeOK, ImageInv
  <2>2. /\ registry'[s] = local[s] /\ builtImages'[s] = local[s] /\ pushes'[s] = 1
        /\ \A t \in Services \ {s} :
             UNCHANGED <<registry[t], builtImages[t], pushes[t]>>
        /\ needToPush' = needToPush \ {s}
    BY <1>6, <2>1 DEF BuildTypeOK, Pushed
  <2>3. PushedOnce(s)'
    BY <1>6, <2>1, <2>2 DEF PushedOnce, Built
  <2> QED
    BY <1>6, <1>i, <2>1, <2>2, <2>3 DEF ImageInv, Found, PushedOnce, Built
<1>7. CASE PushAfterPrePush
  <2>1. current \in needToPush
    BY <1>7 DEF PushAfterPrePush, BuildInv, OneResult, InOnePlace, NotStarted, Pushing
  <2>2. CASE phase' = "failed"
    BY <2>2 DEF ImageInv
  <2> QED
    BY <1>6, <1>7, <2>1, <2>2 DEF PushAfterPrePush, PushFails
<1>8. CASE PushRest
  <2>1. CASE phase' = "failed"
    BY <2>1 DEF ImageInv
  <2>2. CASE needToPush = {} /\ phase' = "done"
          /\ UNCHANGED <<registry, pushes, builtImages, needToPush>>
    BY <1>8, <1>i, <2>2 DEF PushRest, ImageInv, Found, PushedOnce
  <2>3. ASSUME NEW s \in needToPush, Pushed(s), UNCHANGED phase
        PROVE  ImageInv'
    BY <1>6, <1>8, <2>3 DEF PushRest
  <2> QED
    BY <1>8, <2>1, <2>2, <2>3 DEF PushRest, PushFails
<1>9. CASE UNCHANGED cliVars
  BY <1>9, <1>i DEF ImageInv, Found, PushedOnce, Built
<1>10. CASE pushBaseImages \/ RecvTag \/ TagSteps \/ TagBreaks
  BY <1>9, <1>10 DEF pushBaseImages, RecvTag, TagSteps, TagAuthorize, TagSend, TaskPushed,
     TaskGives, TagBreaks
<1> QED
  BY <1>1, <1>2, <1>3, <1>4, <1>5, <1>7, <1>8, <1>10 DEF BuildNext, BuildSteps

\* A step of the build starts nothing twice.
LEMMA StartStep ==
  ASSUME BuildTypeOK, BuildInv, BuildNext
  PROVE  NotStarted'
<1> USE DEF buildVars, cliVars, prePushVars, tagVars
<1>n. NotStarted
  BY DEF BuildInv
<1>1. CASE getRemoteCachedImages \/ SolveOne \/ BuildOne
  BY <1>1, <1>n DEF getRemoteCachedImages, SolveOne, BuildOne, NotStarted
<1>2. CASE getImageBuilder
  BY <1>2, <1>n DEF getImageBuilder, StartDocker, StartBuildkit, NotStarted
<1>3. CASE CollectResult \/ CollectClosed \/ TakePrePushErr
  BY <1>3, <1>n DEF CollectResult, CollectClosed, TakePrePushErr, NotStarted
<1>4. CASE PushAfterPrePush \/ PushRest
  BY <1>4, <1>n DEF PushAfterPrePush, PushRest, PushFails, Pushed, NotStarted
<1>5. CASE pushBaseImages
  BY <1>5, <1>n DEF pushBaseImages, NotStarted
<1>6. CASE RecvTag
  <2>1. stream # <<>> => Head(stream) \in Services
    BY DEF BuildTypeOK
  <2> QED
    BY <1>6, <1>n, <2>1 DEF RecvTag, NotStarted
<1>7. CASE TagAuthorize
  BY <1>7, <1>n DEF TagAuthorize, NotStarted
<1>8. CASE TagSend
  BY <1>8, <1>n DEF TagSend, NotStarted
<1>9. ASSUME NEW s \in Services, TaskPushed(s) \/ TaskGives(s)
      PROVE  NotStarted'
  BY <1>9, <1>n DEF TaskPushed, TaskGives, NotStarted, BuildTypeOK
<1>10. CASE TagBreaks
  BY <1>10, <1>n DEF TagBreaks, NotStarted
<1> QED
  BY <1>1, <1>2, <1>3, <1>4, <1>5, <1>6, <1>7, <1>8, <1>9, <1>10
     DEF BuildNext, BuildSteps, TagSteps

\* A step of the build keeps the count.
LEMMA CountStep ==
  ASSUME BuildTypeOK, BuildInv, BuildNext
  PROVE  CountInv'
<1> USE DEF buildVars, cliVars, prePushVars, tagVars
<1>c. CountInv /\ NotStarted
  BY DEF BuildInv
<1>1. ASSUME UNCHANGED <<tagger, numSent, task>>, rpc' # "broken" => rpc # "broken"
      PROVE  CountInv'
  BY <1>1, <1>c DEF CountInv, Gave, Requested
<1>2. CASE getRemoteCachedImages \/ SolveOne \/ BuildOne \/ getImageBuilder
             \/ CollectResult \/ CollectClosed \/ TakePrePushErr
             \/ PushAfterPrePush \/ PushRest \/ RecvTag \/ TagBreaks
  BY <1>1, <1>2 DEF getRemoteCachedImages, SolveOne, BuildOne, getImageBuilder, StartDocker,
     StartBuildkit, CollectResult, CollectClosed, TakePrePushErr, PushAfterPrePush, PushRest,
     RecvTag, TagBreaks
<1>3. CASE pushBaseImages
  <2>1. CASE UNCHANGED <<rpc, tagVars>>
    BY <1>1, <2>1
  <2>2. CASE ~ UNCHANGED <<rpc, tagVars>>
    <3>1. /\ tagger = "off" /\ tagger' = "auth" /\ UNCHANGED numSent
          /\ task' = [s \in Services |-> IF s \in needToPush THEN "push" ELSE "off"]
          /\ needToPush # {} /\ needToPush \subseteq Services
      BY <1>3, <1>c, <2>2 DEF pushBaseImages, CliAlive, NotStarted, BuildTypeOK
    <3>2. Gave' = {} /\ Gave = {} /\ Requested' = needToPush
      BY <1>c, <3>1 DEF Gave, Requested, NotStarted
    <3>3. IsFiniteSet(needToPush)
      BY <3>1, FS_Subset, ServicesAssumption
    <3>4. Cardinality(needToPush) \in Nat /\ Cardinality(needToPush) # 0
      BY <3>1, <3>3, FS_EmptySet, FS_CardinalityType
    <3>5. numSent = 0 /\ Cardinality({}) = 0
      BY <1>c, <3>1, FS_EmptySet DEF NotStarted
    <3> QED
      BY <3>1, <3>2, <3>4, <3>5 DEF CountInv
  <2> QED
    BY <2>1, <2>2
<1>4. CASE TagAuthorize
  <2>1. CASE tagger' = "loop"
    BY <1>1, <1>4, <1>c, <2>1 DEF TagAuthorize, CountInv, Gave, Requested
  <2>2. CASE tagger' = "returned"
    BY <2>2 DEF CountInv
  <2> QED
    BY <1>4, <2>1, <2>2 DEF TagAuthorize
<1>5. CASE TagSend
  <2>1. UNCHANGED <<task, rpc>> /\ Gave' = Gave /\ Requested' = Requested
    BY <1>5 DEF TagSend, Gave, Requested
  <2>2. NumRequests = Cardinality(Requested)
    BY DEF NumRequests, Requested
  <2> QED
    BY <1>5, <1>c, <2>1, <2>2 DEF TagSend, CountInv
<1>6. ASSUME NEW s \in Services, TaskPushed(s) PROVE CountInv'
  <2>1. Gave' = Gave /\ Requested' = Requested
    BY <1>6 DEF TaskPushed, Gave, Requested, BuildTypeOK
  <2> QED
    BY <1>6, <1>c, <2>1 DEF TaskPushed, CountInv, BuildTypeOK
<1>7. ASSUME NEW s \in Services, TaskGives(s) PROVE CountInv'
  <2>1. Requested' = Requested
    BY <1>7 DEF TaskGives, Requested, BuildTypeOK
  <2>2. CASE tagger = "loop" /\ tagger' = "send" /\ task' = [task EXCEPT ![s] = "gave"]
    <3>1. Gave' = Gave \cup {s} /\ s \notin Gave
      BY <1>7, <2>2 DEF TaskGives, Gave, BuildTypeOK
    <3>2. Cardinality(Gave') = Cardinality(Gave) + 1
      BY <3>1, Counts, FS_AddElement
    <3> QED
      BY <1>7, <1>c, <2>1, <2>2, <3>2 DEF TaskGives, CountInv, BuildTypeOK
  <2>3. CASE (rpc = "broken" \/ tagger = "returned") /\ task' = [task EXCEPT ![s] = "dropped"]
             /\ UNCHANGED tagger
    <3>1. Gave' = Gave
      BY <1>7, <2>3 DEF TaskGives, Gave, BuildTypeOK
    <3> QED
      BY <1>7, <1>c, <2>1, <2>3, <3>1 DEF TaskGives, CountInv
  <2> QED
    BY <1>7, <2>2, <2>3 DEF TaskGives
<1> QED
  BY <1>2, <1>3, <1>4, <1>5, <1>6, <1>7 DEF BuildNext, BuildSteps, TagSteps

\* A step of the build makes no second result for a service.
LEMMA ResultStep ==
  ASSUME BuildTypeOK, BuildInv, BuildNext
  PROVE  OneResult'
<1> USE DEF buildVars, cliVars, prePushVars, tagVars
<1>r. OneResult /\ NotStarted
  BY DEF BuildInv
<1>1. CASE getRemoteCachedImages \/ SolveOne \/ getImageBuilder
  <2>1. /\ tagger = "off" /\ stream = <<>> /\ prePush = "off"
        /\ \A s \in Services : task[s] = "off"
    BY <1>1, <1>r DEF getRemoteCachedImages, SolveOne, getImageBuilder, NotStarted
  <2>2. /\ UNCHANGED <<tagger, stream, task>>
        /\ prePush' # "send" /\ phase' # "push"
    BY <1>1, <2>1 DEF getRemoteCachedImages, SolveOne, getImageBuilder, StartDocker, StartBuildkit
  <2> QED
    BY <2>1, <2>2 DEF OneResult, InOnePlace, Sending, Queued, Held, Pushing
<1>2. CASE BuildOne \/ CollectClosed \/ TakePrePushErr \/ PushRest
  <2>1. /\ UNCHANGED <<tagger, sending, stream, held, task>>
        /\ prePush' = prePush \/ prePush' = "ended"
        /\ phase # "push" /\ phase' # "push"
        /\ \/ phase' \notin {"build", "collect", "push"}
           \/ phase = "build" /\ UNCHANGED needToPush
    BY <1>2 DEF BuildOne, CollectClosed, TakePrePushErr, PushRest, PushFails
  <2> QED
    BY <1>r, <2>1 DEF OneResult, InOnePlace, Sending, Queued, Held, Pushing
<1>3. CASE CollectResult
  <2>1. /\ UNCHANGED <<tagger, sending, stream, held, task, needToPush>>
        /\ phase = "collect" /\ prePush = "send" /\ prePush' = "recv"
        /\ phase' = "push" /\ current' = held
    BY <1>3 DEF CollectResult
  <2> QED
    BY <1>r, <2>1 DEF OneResult, InOnePlace, Sending, Queued, Held, Pushing
<1>4. CASE PushAfterPrePush
  <2>1. /\ UNCHANGED <<tagger, sending, stream, prePush, held, task>>
        /\ phase = "push"
        /\ \/ phase' = "failed"
           \/ phase' = "collect" /\ needToPush' = needToPush \ {current}
    BY <1>4 DEF PushAfterPrePush, PushFails, Pushed
  <2>2. current \in Services /\ task[current] = "gave"
    BY <1>r, <2>1 DEF NotStarted, OneResult, InOnePlace, Pushing
  <2> QED
    BY <1>r, <2>1, <2>2 DEF OneResult, InOnePlace, Sending, Queued, Held, Pushing
<1>5. CASE pushBaseImages
  <2>1. /\ tagger = "off" /\ stream = <<>> /\ phase # "push"
        /\ \A s \in Services : task[s] = "off"
    BY <1>5, <1>r DEF pushBaseImages, NotStarted
  <2>2. /\ UNCHANGED <<stream, phase, needToPush>>
        /\ prePush' # "send" /\ tagger' # "send"
        /\ \A s \in Services : task'[s] = "push" => s \in needToPush
        /\ \A s \in Services : task'[s] \in {"off", "push"}
    BY <1>5, <2>1 DEF pushBaseImages
  <2> QED
    BY <2>1, <2>2 DEF OneResult, InOnePlace, Sending, Queued, Held, Pushing
<1>6. CASE RecvTag
  <2>1. CASE stream # <<>> /\ held' = Head(stream) /\ stream' = Tail(stream) /\ prePush' = "send"
    <3>1. UNCHANGED <<phase, current, needToPush, tagger, sending, task>> /\ prePush = "recv"
      BY <1>6 DEF RecvTag
    <3>2. /\ stream \in Seq(Services) /\ Len(stream) \in Nat \ {0}
          /\ held' = stream[1] /\ Len(stream') = Len(stream) - 1
          /\ \A i \in 1..Len(stream') : stream'[i] = stream[i + 1] /\ i + 1 \in 1..Len(stream)
      BY <2>1 DEF BuildTypeOK
    <3>3. \A i, j \in 1..Len(stream') : stream'[i] = stream'[j] => i = j
      BY <1>r, <3>2 DEF OneResult
    <3>5. ASSUME NEW s \in Services PROVE InOnePlace(s)'
      <4>1. InOnePlace(s)
        BY <1>r DEF OneResult
      <4>2. /\ Queued(s)' => Queued(s) /\ s # stream[1]
            /\ s = stream[1] => Queued(s)
        BY <1>r, <3>2 DEF OneResult, Queued
      <4> QED
        BY <2>1, <3>1, <3>2, <4>1, <4>2 DEF InOnePlace, Sending, Held, Pushing
    <3> QED
      BY <3>3, <3>5 DEF OneResult
  <2>2. CASE prePush' = "closed" /\ UNCHANGED <<held, stream>>
    <3>1. UNCHANGED <<phase, current, needToPush, tagger, sending, task, stream>>
          /\ prePush' # "send"
      BY <1>6, <2>2 DEF RecvTag
    <3> QED
      BY <1>r, <3>1 DEF OneResult, InOnePlace, Sending, Queued, Held, Pushing
  <2> QED
    BY <1>6, <2>1, <2>2 DEF RecvTag
<1>7. CASE TagAuthorize
  <2>1. /\ stream = <<>> /\ prePush # "send" /\ phase # "push"
        /\ \A s \in Services : task[s] \in {"off", "push"}
    BY <1>7, <1>r DEF TagAuthorize, NotStarted
  <2>2. /\ UNCHANGED <<stream, prePush, phase, needToPush>>
        /\ tagger' # "send"
        /\ \A s \in Services : task'[s] = task[s] \/ task'[s] = "off"
    BY <1>7 DEF TagAuthorize
  <2> QED
    BY <1>r, <2>1, <2>2 DEF OneResult, InOnePlace, Sending, Queued, Held, Pushing
<1>8. CASE TagSend
  <2>0. tagger = "send" /\ UNCHANGED <<phase, current, needToPush, prePush, held, task, sending>>
    BY <1>8 DEF TagSend
  <2>1. CASE stream' = Append(stream, sending) /\ tagger' \in {"loop", "returned"}
    <3>1. /\ stream \in Seq(Services) /\ Len(stream) \in Nat /\ sending \in Services
          /\ Len(stream') = Len(stream) + 1
          /\ stream'[Len(stream) + 1] = sending
          /\ \A i \in 1..Len(stream) : stream'[i] = stream[i]
      BY <1>r, <2>0, <2>1 DEF BuildTypeOK, NotStarted
    <3>2. ~Queued(sending) /\ ~Held(sending) /\ ~Pushing(sending) /\ task[sending] = "gave"
      BY <1>r, <2>0, <3>1 DEF OneResult, InOnePlace, Sending
    <3>3. \A i, j \in 1..Len(stream') : stream'[i] = stream'[j] => i = j
      BY <1>r, <3>1, <3>2 DEF OneResult, Queued
    <3>4. \A s \in Services : Queued(s)' => Queued(s) \/ s = sending
      BY <3>1 DEF Queued
    <3>5. ASSUME NEW s \in Services PROVE InOnePlace(s)'
      <4>1. InOnePlace(s)
        BY <1>r DEF OneResult
      <4>2. Queued(s)' => Queued(s) \/ s = sending
        BY <3>4
      <4> QED
        BY <2>0, <2>1, <3>2, <4>1, <4>2 DEF InOnePlace, Sending, Held, Pushing
    <3> QED
      BY <3>3, <3>5 DEF OneResult
  <2>2. CASE tagger' = "returned" /\ UNCHANGED stream
    BY <1>r, <2>0, <2>2 DEF OneResult, InOnePlace, Sending, Queued, Held, Pushing
  <2> QED
    BY <1>8, <2>1, <2>2 DEF TagSend
<1>9. ASSUME NEW s \in Services, TaskPushed(s) \/ TaskGives(s)
      PROVE  OneResult'
  <2>1. /\ UNCHANGED <<phase, current, needToPush, prePush, held, stream>>
        /\ task[s] \in {"push", "give"}
        /\ task'[s] \in {"give", "gave", "dropped"}
        /\ \A t \in Services \ {s} : task'[t] = task[t]
        /\ \/ UNCHANGED <<tagger, sending>>
           \/ tagger = "loop" /\ tagger' = "send" /\ sending' = s /\ task'[s] = "gave"
    BY <1>9 DEF TaskPushed, TaskGives, BuildTypeOK
  <2>2. ASSUME NEW t \in Services PROVE InOnePlace(t)'
    <3>1. InOnePlace(t)
      BY <1>r DEF OneResult
    <3>2. Queued(t)' <=> Queued(t)
      BY <2>1 DEF Queued
    <3> QED
      BY <2>1, <3>1, <3>2 DEF InOnePlace, Sending, Held, Pushing
  <2>3. \A i, j \in 1..Len(stream') : stream'[i] = stream'[j] => i = j
    BY <1>r, <2>1 DEF OneResult
  <2> QED
    BY <2>2, <2>3 DEF OneResult
<1>10. CASE TagBreaks
  BY <1>10, <1>r DEF TagBreaks, OneResult, InOnePlace, Sending, Queued, Held, Pushing
<1> QED
  BY <1>1, <1>2, <1>3, <1>4, <1>5, <1>6, <1>7, <1>8, <1>9, <1>10
     DEF BuildNext, BuildSteps, TagSteps

-----------------------------------------------------------------------------
(* blimp up                                                                *)

\* Nothing is built before buildImages and after the deployment, or once the
\* process is gone.
LEMMA BuildIdle ==
  ASSUME \A s \in Services : pushes[s] = 0 /\ task[s] = "off",
         phase \in {"off", "cache"}, prePush = "off", rpc = "none", stream = <<>>,
         tagger = "off", numSent = 0
  PROVE  BuildInv
<1>1. ImageInv /\ NotStarted
  BY DEF ImageInv, NotStarted
<1>2. OneResult
  BY DEF OneResult, InOnePlace, Sending, Queued, Held, Pushing
<1>3. Gave = {}
  BY DEF Gave
<1>4. CountInv
  BY <1>3, FS_EmptySet DEF CountInv
<1> QED
  BY <1>1, <1>2, <1>4 DEF BuildInv

\* The same after a step.
LEMMA BuildIdleNext ==
  ASSUME \A s \in Services : pushes'[s] = 0 /\ task'[s] = "off",
         phase' \in {"off", "cache"}, prePush' = "off", rpc' = "none", stream' = <<>>,
         tagger' = "off", numSent' = 0
  PROVE  BuildInv'
<1>1. ImageInv' /\ NotStarted'
  BY DEF ImageInv, NotStarted
<1>2. OneResult'
  BY DEF OneResult, InOnePlace, Sending, Queued, Held, Pushing
<1>3. Gave' = {}
  BY DEF Gave
<1>4. CountInv'
  BY <1>3, FS_EmptySet DEF CountInv
<1> QED
  BY <1>1, <1>2, <1>4 DEF BuildInv

\* Steps that leave the build alone.
LEMMA SameBuild ==
  ASSUME BuildTypeOK, BuildInv, UNCHANGED buildVars
  PROVE  BuildTypeOK' /\ BuildInv'
<1> USE DEF buildVars, cliVars, prePushVars, tagVars
<1>1. BuildTypeOK'
  BY DEF BuildTypeOK
<1>2. ImageInv' /\ NotStarted'
  BY DEF BuildInv, ImageInv, NotStarted, Found, PushedOnce, Built
<1>3. OneResult'
  BY DEF BuildInv, OneResult, InOnePlace, Sending, Queued, Held, Pushing
<1>4. CountInv'
  BY DEF BuildInv, CountInv, Gave, Requested
<1> QED
  BY <1>1, <1>2, <1>3, <1>4 DEF BuildInv

\* When the CLI is killed, the handler TagImages is left on its own.
LEMMA DeadStep ==
  ASSUME BuildTypeOK, BuildInv, phase' = "dead",
         UNCHANGED <<alwaysBuild, current, toBuild, needToPush, local, registry, pushes,
                     builtImages, prePushVars, tagVars>>
  PROVE  BuildInv'
<1> USE DEF prePushVars, tagVars
<1>1. ImageInv' /\ NotStarted'
  BY DEF BuildInv, ImageInv, NotStarted
<1>2. OneResult'
  BY DEF BuildInv, OneResult, InOnePlace, Sending, Queued, Held, Pushing
<1>3. CountInv'
  BY DEF BuildInv, CountInv, Gave, Requested
<1> QED
  BY <1>1, <1>2, <1>3 DEF BuildInv

\* Nothing is built while buildImages is not called.
LEMMA OffStays ==
  ASSUME BuildTypeOK, BuildInv, BuildNext
  PROVE  phase # "off"
<1> SUFFICES ASSUME phase = "off" PROVE FALSE
  OBVIOUS
<1>1. /\ prePush = "off" /\ tagger = "off" /\ rpc = "none"
      /\ \A s \in Services : task[s] = "off"
  BY DEF BuildInv, NotStarted
<1> QED
  BY <1>1 DEF BuildNext, BuildSteps, TagSteps, getRemoteCachedImages, getImageBuilder, SolveOne,
     BuildOne, CollectResult, CollectClosed, PushAfterPrePush, TakePrePushErr, PushRest,
     pushBaseImages, RecvTag, TagAuthorize, TagSend, TaskPushed, TaskGives, TagBreaks

\* Where up touches the build: it begins, is forgotten, or dies with up.
LEMMA ChangesOfBuild ==
  ASSUME UpSteps \/ Environment
  PROVE  \/ UNCHANGED buildVars
         \/ /\ pc = "create" /\ pc' = "images" /\ phase' = "cache"
            /\ UNCHANGED <<alwaysBuild, current, toBuild, needToPush, local, registry, pushes,
                           builtImages, prePushVars, tagVars>>
         \/ pc' = "start" /\ BuildForgotten
         \/ /\ pc' = "killed" /\ phase' = IF phase = "off" THEN "off" ELSE "dead"
            /\ UNCHANGED <<alwaysBuild, current, toBuild, needToPush, local, registry, pushes,
                           builtImages, prePushVars, tagVars>>
<1> USE DEF buildVars, cliVars
<1>1. CASE CheckLock \/ Answer \/ TakeUpLock \/ OtherChecks \/ OtherAnswers \/ OtherTakes
             \/ OtherEnds \/ Load
             \/ ImagesBuilt \/ Notify \/ StartGoroutines
  BY <1>1 DEF CheckLock, Answer, TakeUpLock, OtherChecks, OtherAnswers, OtherTakes, OtherEnds, Load,
     ImagesBuilt, Notify, StartGoroutines
<1>2. CASE SelectError \/ SelectExit \/ Reaped \/ DownReturns \/ SelectDown \/ DaemonKilled
             \/ DaemonCrashes \/ GuiReturns \/ \E t \in Tunnels : TunnelFails(t)
  BY <1>2 DEF SelectError, SelectExit, Reaped, DownReturns, SelectDown, DaemonKilled,
     DaemonCrashes, GuiReturns, TunnelFails
<1>3. CASE WriteConfig \/ StartSyncthing \/ DaemonWaited \/ SyncthingTunnelFails
             \/ performInitialSync
  BY <1>3 DEF WriteConfig, StartSyncthing, DaemonWaited, SyncthingTunnelFails,
     performInitialSync, waitUntilConnected, waitUntilScanned, waitUntilSynced,
     setLocalFolderType, waitUntil, SyncthingRunVars
<1>4. CASE createSandbox
  BY <1>4 DEF createSandbox
<1>5. CASE Deploy
  BY <1>5 DEF Deploy
<1>6. CASE Signal
  BY <1>6 DEF Signal
<1> QED
  BY <1>1, <1>2, <1>3, <1>4, <1>5, <1>6 DEF UpSteps, Environment

\* The steps of up, of the other up and of the user keep the types.
LEMMA RunTypes ==
  ASSUME RunTypeOK, UpSteps \/ Environment
  PROVE  RunTypeOK'
<1> USE DEF RunTypeOK, Ended, BeforeLock, Holding, BeforeNotify, Watching,
        lockVars, choiceVars, goVars
<1>1. ASSUME Return PROVE RunTypeOK'
  BY <1>1 DEF Return
<1>2. ASSUME Exit PROVE RunTypeOK'
  BY <1>2 DEF Exit, Orphaned
<1>3. ASSUME UNCHANGED <<lockVars, choiceVars, goVars, signals, down>>,
             pc' \in Ended \cup BeforeLock \cup Holding
      PROVE  RunTypeOK'
  BY <1>3
<1>b. ASSUME shared' \in BOOLEAN, pc' \in Ended \cup BeforeLock \cup Holding,
             other' \in {"off", "prompt", "checked", "locked"},
             pidfile' \in {"none", "me", "other", "dead"},
             UNCHANGED <<choiceVars, goVars, signals, down>>
      PROVE  RunTypeOK'
  BY <1>b
<1>4. CASE CheckLock \/ Answer \/ TakeUpLock
  <2>1. shared' \in BOOLEAN
    <3>1. \/ UNCHANGED shared
          \/ shared' = (shared \/ (~UpRunning /\ OtherPast))
          \/ shared' = (shared \/ OtherPast)
      BY <1>4 DEF CheckLock, Answer, TakeUpLock
    <3> QED
      BY <3>1, Zenon
  <2>2. UNCHANGED <<choiceVars, goVars, signals, down, other>>
    BY <1>4 DEF CheckLock, Answer, TakeUpLock
  <2>3. pc' \in {"prompt", "lock", "exited", "load"} /\ (UNCHANGED pidfile \/ pidfile' = "me")
    BY <1>4 DEF CheckLock, Answer, TakeUpLock
  <2> QED
    BY <1>b, <2>1, <2>2, <2>3
<1>5. CASE OtherChecks \/ OtherAnswers \/ OtherTakes \/ OtherEnds
  <2>1. shared' \in BOOLEAN
    <3>1. \/ UNCHANGED shared
          \/ shared' = (shared \/ pc \in Holding \cup {"lock"})
          \/ shared' = (shared \/ (~UpRunning /\ pc \in Holding \cup {"lock"}))
      BY <1>5 DEF OtherChecks, OtherAnswers, OtherTakes, OtherEnds
    <3> QED
      BY <3>1, Zenon
  <2>2. UNCHANGED <<pc, choiceVars, goVars, signals, down>>
    BY <1>5 DEF OtherChecks, OtherAnswers, OtherTakes, OtherEnds
  <2>3. /\ other' \in {"off", "prompt", "checked", "locked"}
        /\ UNCHANGED pidfile \/ pidfile' \in {"none", "other", "dead"}
    BY <1>5 DEF OtherChecks, OtherAnswers, OtherTakes, OtherEnds, Orphaned
  <2> QED
    BY <1>b, <2>1, <2>2, <2>3
<1>6. CASE Load \/ createSandbox \/ ImagesBuilt \/ Deploy \/ Notify
  BY <1>1, <1>2, <1>3, <1>6 DEF Load, createSandbox, ImagesBuilt, Deploy, Notify
<1>7. CASE StartGoroutines
  BY <1>7 DEF StartGoroutines
<1>8. CASE SelectError \/ SelectDown
  BY <1>1, <1>8 DEF SelectError, SelectDown
<1>9. CASE SelectExit \/ DownReturns
  BY <1>9 DEF SelectExit, DownReturns
<1>10. CASE Reaped
  <2>1. CASE Return
    BY <1>1, <2>1
  <2>2. CASE ~Return
    BY <1>10, <2>2 DEF Reaped
  <2> QED
    BY <2>1, <2>2
<1>11. CASE WriteConfig \/ StartSyncthing \/ SyncthingTunnelFails \/ DaemonWaited
  BY <1>11 DEF WriteConfig, StartSyncthing, SyncthingTunnelFails, DaemonWaited, RunReturns,
     SyncthingRunVars
<1>12. CASE performInitialSync
  <2>1. ASSUME NEW step, NEW next \in Watching, waitUntil(step, next)
        PROVE  RunTypeOK'
    <3>1. /\ UNCHANGED <<SyncthingRunVars, daemon>>
          /\ (syncthing' = next /\ UNCHANGED crashed) \/ RunReturns
      BY <2>1 DEF waitUntil
    <3>2. crashed' \in BOOLEAN
      BY <3>1 DEF RunReturns
    <3>3. syncthing' \in {"off", "config", "exec", "returned"} \cup Watching
      BY <3>1, <2>1 DEF RunReturns
    <3> QED
      BY <3>1, <3>2, <3>3 DEF SyncthingRunVars
  <2>2. {"scan", "sync", "switch", "synced"} \subseteq Watching
    OBVIOUS
  <2> QED
    BY <1>12, <2>1, <2>2 DEF performInitialSync, waitUntilConnected, waitUntilScanned,
       waitUntilSynced, setLocalFolderType
<1>13. CASE DaemonKilled \/ DaemonCrashes \/ GuiReturns
  BY <1>13 DEF DaemonKilled, DaemonCrashes, GuiReturns
<1>14. ASSUME NEW t \in Tunnels, TunnelFails(t) PROVE RunTypeOK'
  BY <1>14 DEF TunnelFails
<1>15. CASE Signal
  BY <1>15 DEF Signal, Orphaned
<1> QED
  BY <1>4, <1>5, <1>6, <1>7, <1>8, <1>9, <1>10, <1>11, <1>12, <1>13, <1>14, <1>15
     DEF UpSteps, Environment

\* How the steps of up move it along, and who writes the lock file.
LEMMA RunShape ==
  ASSUME RunTypeOK, LockInv, UpSteps \/ Environment
  PROVE  /\ LockInv'
         /\ pc' \in BeforeLock \cup {"load", "create"} => pc \in BeforeLock \cup {"load", "create"}
<1> USE DEF RunTypeOK, LockInv, OtherPast, Ended, BeforeLock, Holding, BeforeNotify,
        lockVars, choiceVars, goVars
<1>1. CASE CheckLock \/ Answer \/ TakeUpLock
  BY <1>1 DEF CheckLock, Answer, TakeUpLock, UpRunning, OtherPast
<1>2. CASE OtherChecks \/ OtherAnswers \/ OtherTakes \/ OtherEnds
  BY <1>2 DEF OtherChecks, OtherAnswers, OtherTakes, OtherEnds, Orphaned, UpRunning, OtherPast
<1>3. CASE pc' \in Ended
  BY <1>3
<1>4. CASE Load \/ createSandbox \/ ImagesBuilt \/ Deploy \/ Notify \/ StartGoroutines
  BY <1>3, <1>4 DEF Load, createSandbox, ImagesBuilt, Deploy, Notify, StartGoroutines, Return, Exit
<1>5. CASE SelectError \/ SelectDown
  BY <1>3, <1>5 DEF SelectError, SelectDown, Return
<1>6. CASE SelectExit \/ Reaped \/ DownReturns
  BY <1>3, <1>6 DEF SelectExit, Reaped, DownReturns, Return
<1>7. CASE UNCHANGED <<pc, lockVars>>
  BY <1>7
<1>8. CASE WriteConfig \/ StartSyncthing \/ SyncthingTunnelFails \/ DaemonWaited
  BY <1>7, <1>8 DEF WriteConfig, StartSyncthing, SyncthingTunnelFails, DaemonWaited,
     SyncthingRunVars
<1>9. CASE performInitialSync
  BY <1>7, <1>9 DEF performInitialSync, waitUntilConnected, waitUntilScanned, waitUntilSynced,
     setLocalFolderType, waitUntil, SyncthingRunVars
<1>10. CASE DaemonKilled \/ DaemonCrashes \/ GuiReturns \/ \E t \in Tunnels : TunnelFails(t)
  BY <1>7, <1>10 DEF DaemonKilled, DaemonCrashes, GuiReturns, TunnelFails
<1>11. CASE Signal
  BY <1>3, <1>11 DEF Signal
<1> QED
  BY <1>1, <1>2, <1>4, <1>5, <1>6, <1>8, <1>9, <1>10, <1>11 DEF UpSteps, Environment

\* BuildInv and the types of the build hold along the way, since buildImages
\* starts from nothing and is forgotten after the deployment.
LEMMA UpInvariant == Spec => []UpInv
<1>1. Init => UpInv
  <2> SUFFICES ASSUME Init PROVE UpInv
    OBVIOUS
  <2>1. BuildTypeOK
    BY Counts DEF Init, BuildInit, BuildTypeOK, Images
  <2>2. BuildInv
    BY BuildIdle DEF Init, BuildInit
  <2>3. TypeOK
    <3>1. RunTypeOK
      <4>1. tunnels \in [Tunnels -> {"off", "listening", "failed"}]
        BY DEF Init
      <4>2. pc \in BeforeLock /\ pidfile \in {"none", "dead"}
        BY DEF Init, BeforeLock
      <4>3. /\ shared \in BOOLEAN /\ detach \in BOOLEAN /\ mounts \in BOOLEAN
            /\ crashed \in BOOLEAN /\ cancelled \in BOOLEAN
        BY DEF Init
      <4>4. /\ other = "off" /\ gui = "off" /\ syncthing = "off" /\ daemon = "none"
            /\ signals = 0 /\ down = "off"
        BY DEF Init
      <4> QED
        BY <4>1, <4>2, <4>3, <4>4 DEF RunTypeOK
    <3> QED
      BY <2>1, <3>1 DEF TypeOK
  <2>4. PhaseOff /\ LockInv
    BY DEF Init, BuildInit, PhaseOff, LockInv, Holding, BeforeNotify
  <2> QED
    BY <2>2, <2>3, <2>4 DEF UpInv
<1>2. ASSUME UpInv, [Next]_vars
      PROVE  UpInv'
  <2>t. RunTypeOK /\ BuildTypeOK /\ BuildInv /\ PhaseOff /\ LockInv
    BY <1>2 DEF UpInv, TypeOK
  <2>1. CASE UNCHANGED vars
    <3>1. BuildTypeOK' /\ BuildInv'
      BY <2>1, <2>t, SameBuild DEF vars
    <3>2. RunTypeOK' /\ PhaseOff' /\ LockInv'
      BY <2>1, <2>t DEF vars, upVars, buildVars, cliVars, lockVars, choiceVars, goVars, RunTypeOK,
         PhaseOff, LockInv, OtherPast
    <3> QED
      BY <3>1, <3>2 DEF UpInv, TypeOK
  <2>2. CASE Builds
    <3>1. BuildTypeOK' /\ BuildInv'
      BY <2>2, <2>t, BuildTypes, ImageStep, StartStep, CountStep, ResultStep DEF Builds, BuildInv
    <3>2. RunTypeOK' /\ LockInv'
      BY <2>2, <2>t DEF Builds, upVars, lockVars, choiceVars, goVars, RunTypeOK, LockInv, OtherPast
    <3>3. PhaseOff'
      <4>1. phase # "off"
        BY <2>2, <2>t, OffStays DEF Builds
      <4> QED
        BY <2>2, <2>t, <4>1 DEF Builds, upVars, PhaseOff
    <3> QED
      BY <3>1, <3>2, <3>3 DEF UpInv, TypeOK
  <2>3. CASE UpSteps \/ Environment
    <3>1. RunTypeOK' /\ LockInv'
      BY <2>3, <2>t, RunTypes, RunShape
    <3>2. \/ UNCHANGED buildVars
          \/ /\ pc = "create" /\ pc' = "images" /\ phase' = "cache"
             /\ UNCHANGED <<alwaysBuild, current, toBuild, needToPush, local, registry, pushes,
                            builtImages, prePushVars, tagVars>>
          \/ pc' = "start" /\ BuildForgotten
          \/ /\ pc' = "killed" /\ phase' = IF phase = "off" THEN "off" ELSE "dead"
             /\ UNCHANGED <<alwaysBuild, current, toBuild, needToPush, local, registry, pushes,
                            builtImages, prePushVars, tagVars>>
      BY <2>3, ChangesOfBuild
    <3>3. CASE UNCHANGED buildVars
      <4>1. BuildTypeOK' /\ BuildInv'
        BY <3>3, <2>t, SameBuild
      <4>2. PhaseOff'
        BY <2>3, <2>t, <3>3, RunShape DEF PhaseOff, buildVars, cliVars
      <4> QED
        BY <3>1, <4>1, <4>2 DEF UpInv, TypeOK
    <3>4. CASE /\ pc = "create" /\ pc' = "images" /\ phase' = "cache"
               /\ UNCHANGED <<alwaysBuild, current, toBuild, needToPush, local, registry, pushes,
                              builtImages, prePushVars, tagVars>>
      <4>1. /\ phase = "off" /\ prePush = "off" /\ tagger = "off" /\ rpc = "none"
            /\ stream = <<>> /\ numSent = 0
            /\ \A s \in Services : pushes[s] = 0 /\ task[s] = "off"
        BY <3>4, <2>t DEF PhaseOff, BuildInv, ImageInv, NotStarted
      <4>2. BuildTypeOK'
        BY <3>4, <2>t DEF BuildTypeOK, prePushVars, tagVars
      <4>3. BuildInv'
        BY <3>4, <4>1, BuildIdleNext DEF prePushVars, tagVars
      <4>4. PhaseOff'
        BY <3>4 DEF PhaseOff, BeforeLock
      <4> QED
        BY <3>1, <4>2, <4>3, <4>4 DEF UpInv, TypeOK
    <3>5. CASE pc' = "start" /\ BuildForgotten
      <4>1. BuildTypeOK'
        <5>1. /\ local' \in [Services -> Images] /\ registry' \in [Services -> Images]
              /\ builtImages' \in [Services -> Images]
          BY <3>5 DEF BuildForgotten, Images
        <5>2. pushes' \in [Services -> Nat]
          BY <3>5 DEF BuildForgotten
        <5>3. task' \in [Services -> {"off", "push", "give", "gave", "dropped"}]
          BY <3>5 DEF BuildForgotten
        <5>4. stream' \in Seq(Services) /\ numSent' \in 0 .. Cardinality(Services)
          BY <3>5, Counts DEF BuildForgotten
        <5>5. toBuild' \subseteq Services /\ needToPush' \subseteq Services
          BY <3>5 DEF BuildForgotten
        <5>6. /\ alwaysBuild' = FALSE /\ phase' = "off" /\ current' = "none"
              /\ prePush' = "off" /\ held' = "none" /\ rpc' = "none"
              /\ tagger' = "off" /\ sending' = "none"
          BY <3>5 DEF BuildForgotten
        <5> QED
          BY <5>1, <5>2, <5>3, <5>4, <5>5, <5>6 DEF BuildTypeOK
      <4>2. BuildInv'
        BY <3>5, BuildIdleNext DEF BuildForgotten
      <4>3. PhaseOff'
        BY <3>5 DEF PhaseOff, BeforeLock
      <4> QED
        BY <3>1, <4>1, <4>2, <4>3 DEF UpInv, TypeOK
    <3>6. CASE /\ pc' = "killed" /\ phase' = IF phase = "off" THEN "off" ELSE "dead"
               /\ UNCHANGED <<alwaysBuild, current, toBuild, needToPush, local, registry, pushes,
                              builtImages, prePushVars, tagVars>>
      <4>1. BuildTypeOK'
        BY <3>6, <2>t DEF BuildTypeOK, prePushVars, tagVars
      <4>2. BuildInv'
        <5>1. CASE phase = "off"
          BY <3>6, <5>1, <2>t, SameBuild DEF buildVars, cliVars
        <5>2. CASE phase # "off"
          BY <3>6, <5>2, <2>t, DeadStep
        <5> QED
          BY <5>1, <5>2
      <4>3. PhaseOff'
        BY <3>6 DEF PhaseOff, BeforeLock
      <4> QED
        BY <3>1, <4>1, <4>2, <4>3 DEF UpInv, TypeOK
    <3> QED
      BY <3>2, <3>3, <3>4, <3>5, <3>6
  <2> QED
    BY <1>2, <2>1, <2>2, <2>3 DEF Next
<1> QED
  BY <1>1, <1>2, PTL DEF Spec

\* The processes, goroutines and images of `blimp up` keep their types (up.go,
\* build.go, TagImages).
THEOREM TypeCorrect == Spec => []TypeOK
<1>1. UpInv => TypeOK
  BY DEF UpInv
<1> QED
  BY <1>1, UpInvariant, PTL

\* From TakeUpLock to ReleaseUpLock the lock file names a process that runs,
\* unless another up was past its check at the same time (up.go).
THEOREM LockIsKept == Spec => []LockKept
<1>1. UpInv => LockKept
  BY DEF UpInv, LockInv, LockKept, UpRunning
<1> QED
  BY <1>1, UpInvariant, PTL

\* When buildImages succeeds, each image it names is in the registry, pushed
\* exactly once if it is new, for any number of services and any order of the
\* pre-pushes and of their failures (buildImages, BuildAndPush).
THEOREM ImagesArePushed == Spec => []ImagesPushed
<1>1. UpInv => ImagesPushed
  BY DEF UpInv, BuildInv, ImageInv, Found, PushedOnce, ImagesPushed
<1> QED
  BY <1>1, UpInvariant, PTL

\* While its stream is whole, the handler TagImages waits only for responses
\* that some goroutine still has to give (TagImages).
THEOREM ResponsesCome == Spec => []ResponseComes
<1>1. UpInv => ResponseComes
  BY ResponseMissing DEF UpInv, TypeOK, BuildInv, ResponseComes
<1> QED
  BY <1>1, UpInvariant, PTL

=============================================================================
