----------------------------- MODULE ImageBuild -----------------------------
(***************************************************************************)
(* buildImages of `blimp up`: the images of the services that have a build *)
(* section are looked up in the registry, and the others are built and     *)
(* pushed, by the local Docker daemon or by buildkit in the sandbox.       *)
(*                                                                         *)
(* With Docker, BuildAndPush runs next to the goroutine pushBaseImages,    *)
(* which asks the cluster controller (TagImages) to copy the base images   *)
(* into the registry, so that the push of an image has fewer layers to     *)
(* send.  They meet on two unbuffered channels, and TagImages has          *)
(* goroutines and an unbuffered channel of its own.                        *)
(***************************************************************************)
EXTENDS Naturals, Sequences, FiniteSets

CONSTANT Services \* the services with a build section

ASSUME ServicesAssumption == IsFiniteSet(Services) /\ Services # {}

VARIABLES
    alwaysBuild,  \* the flag --build
    phase,        \* where buildImages is
    current,      \* the service whose image is pushed
    toBuild,      \* services that are not built yet
    needToPush,   \* services whose image is not pushed yet
    local,        \* local[s]: the image that has s's name in the Docker daemon
    registry,     \* registry[s]: the image that has s's name in the registry
    pushes,       \* history: pushes[s] counts the pushes of s's image
    builtImages,  \* builtImages[s]: the image of the result, or "none"
    prePush,      \* the goroutine of pushBaseImages
    held,         \* the service of the result it sends
    rpc,          \* the call of TagImages: "none", "open" or "broken"
    stream,       \* services whose responses are on their way to the CLI
    tagger,       \* the handler TagImages
    sending,      \* the service of the response it sends
    numSent,      \* how many responses it has sent
    task          \* task[s]: its goroutine that copies the base image of s

tagVars == <<tagger, sending, numSent, task>>
prePushVars == <<prePush, held, rpc, stream>>
cliVars == <<alwaysBuild, phase, current, toBuild, needToPush, local, registry, pushes, builtImages>>
buildVars == <<cliVars, prePushVars, tagVars>>

\* "old" is an image of an earlier build, "compose" one that docker-compose or an
\* earlier blimp built, and "fresh" one that this call builds.
Images == {"none", "old", "compose", "fresh"}

BuildTypeOK ==
    /\ alwaysBuild \in BOOLEAN
    /\ phase \in {"off", "cache", "builder", "build", "collect", "push", "prePushErr",
                  "rest", "solve", "done", "failed", "dead"}
    /\ current \in Services \cup {"none"}
    /\ toBuild \subseteq Services /\ needToPush \subseteq Services
    /\ local \in [Services -> Images] /\ registry \in [Services -> Images]
    /\ builtImages \in [Services -> Images]
    /\ pushes \in [Services -> Nat]
    /\ prePush \in {"off", "bases", "recv", "send", "closed", "ended"}
    /\ held \in Services \cup {"none"} /\ sending \in Services \cup {"none"}
    /\ rpc \in {"none", "open", "broken"}
    /\ stream \in Seq(Services)
    /\ tagger \in {"off", "auth", "loop", "send", "returned"}
    /\ numSent \in 0 .. Cardinality(Services)
    /\ task \in [Services -> {"off", "push", "give", "gave", "dropped"}]

BuildInit ==
    /\ alwaysBuild \in BOOLEAN
    /\ phase = "off" /\ current = "none" /\ toBuild = {} /\ needToPush = {}
    /\ local = [s \in Services |-> "none"]
    /\ registry \in [Services -> {"none", "old"}]
    /\ pushes = [s \in Services |-> 0]
    /\ builtImages = [s \in Services |-> "none"]
    /\ prePush = "off" /\ held = "none" /\ rpc = "none" /\ stream = <<>>
    /\ tagger = "off" /\ sending = "none" /\ numSent = 0
    /\ task = [s \in Services |-> "off"]

-----------------------------------------------------------------------------
(* buildImages                                                              *)

\* The CLI process is there; it exits when buildImages fails.
CliAlive == phase \notin {"failed", "dead"}

\* The lookups of the workers.  One that fails, for whatever reason, leaves its
\* service without a remote image, and the service is built.
getRemoteCachedImages ==
    /\ phase = "cache"
    /\ \E found \in SUBSET {s \in Services : registry[s] = "old" /\ ~alwaysBuild} :
          /\ builtImages' = [s \in Services |-> IF s \in found THEN "old" ELSE "none"]
          /\ toBuild' = Services \ found
    /\ phase' = "builder"
    /\ UNCHANGED <<alwaysBuild, current, needToPush, local, registry, pushes, prePushVars, tagVars>>

\* BuildAndPush of Docker's client starts pushBaseImages.
StartDocker ==
    /\ phase' = "build"
    /\ needToPush' = toBuild
    /\ prePush' = "bases"

\* The tunnel to buildkitd is ready, or fails.
StartBuildkit ==
    /\ phase' \in {"solve", "failed"}
    /\ UNCHANGED <<needToPush, prePush>>

\* Docker if it answers and --remote-build is not given, and buildkit otherwise.
\* The builder is made even when there is nothing left to build.
getImageBuilder ==
    /\ phase = "builder"
    /\ \/ toBuild # {} /\ StartDocker
       \/ toBuild # {} /\ StartBuildkit
       \/ toBuild = {} /\ phase' \in {"done", "failed"} /\ UNCHANGED <<needToPush, prePush>>
    /\ UNCHANGED <<alwaysBuild, current, toBuild, local, registry, pushes, builtImages,
                   held, rpc, stream, tagVars>>

\* BuildAndPush and buildOne of buildkit: the image is built and pushed at once.
SolveOne ==
    /\ phase = "solve"
    /\ \/ /\ toBuild = {}
          /\ phase' = "done"
          /\ UNCHANGED <<toBuild, registry, pushes, builtImages>>
       \/ \E s \in toBuild :
             /\ registry' = [registry EXCEPT ![s] = "fresh"]
             /\ builtImages' = [builtImages EXCEPT ![s] = "fresh"]
             /\ pushes' = [pushes EXCEPT ![s] = @ + 1]
             /\ toBuild' = toBuild \ {s}
             /\ UNCHANGED phase
       \/ /\ toBuild # {}
          /\ phase' = "failed"
          /\ UNCHANGED <<toBuild, registry, pushes, builtImages>>
    /\ UNCHANGED <<alwaysBuild, current, needToPush, local, prePushVars, tagVars>>

-----------------------------------------------------------------------------
(* BuildAndPush with Docker                                                 *)

\* An image of docker-compose or of an earlier blimp that getCachedImage finds is
\* only tagged, unless the build is forced.
TagCached(s) == ~alwaysBuild /\ local' = [local EXCEPT ![s] = "compose"]

build(s) == local' = [local EXCEPT ![s] = "fresh"]

\* One turn of the loop over the services
BuildOne ==
    /\ phase = "build"
    /\ \/ /\ toBuild = {}
          /\ phase' = "collect"
          /\ UNCHANGED <<toBuild, local>>
       \/ \E s \in toBuild :
             /\ TagCached(s) \/ build(s)
             /\ toBuild' = toBuild \ {s}
             /\ UNCHANGED phase
       \/ /\ toBuild # {}
          /\ phase' = "failed"
          /\ UNCHANGED <<toBuild, local>>
    /\ UNCHANGED <<alwaysBuild, current, needToPush, registry, pushes, builtImages,
                   prePushVars, tagVars>>

\* Receives from prePushChan: a result, also one that says that the copy of the
\* base image failed, or that the channel is closed.
CollectResult ==
    /\ phase = "collect" /\ prePush = "send"
    /\ current' = held
    /\ phase' = "push"
    /\ prePush' = "recv"
    /\ UNCHANGED <<alwaysBuild, toBuild, needToPush, local, registry, pushes, builtImages,
                   held, rpc, stream, tagVars>>

CollectClosed ==
    /\ phase = "collect" /\ prePush = "closed"
    /\ phase' = "prePushErr"
    /\ UNCHANGED <<alwaysBuild, current, toBuild, needToPush, local, registry, pushes,
                   builtImages, prePushVars, tagVars>>

\* push of the image of s, and the entry of pushedImages
Pushed(s) ==
    /\ registry' = [registry EXCEPT ![s] = local[s]]
    /\ pushes' = [pushes EXCEPT ![s] = @ + 1]
    /\ builtImages' = [builtImages EXCEPT ![s] = local[s]]
    /\ needToPush' = needToPush \ {s}

PushFails ==
    /\ phase' = "failed"
    /\ UNCHANGED <<registry, pushes, builtImages, needToPush>>

\* Fault: a service stays in needToPush after the push that follows its pre-push.
PushAfterPrePushKeepsNeed ==
    /\ phase = "push"
    /\ \/ /\ registry' = [registry EXCEPT ![current] = local[current]]
          /\ pushes' = [pushes EXCEPT ![current] = @ + 1]
          /\ builtImages' = [builtImages EXCEPT ![current] = local[current]]
          /\ phase' = "collect" /\ UNCHANGED needToPush
       \/ PushFails
    /\ UNCHANGED <<alwaysBuild, current, toBuild, local, prePushVars, tagVars>>

PushAfterPrePush ==
    /\ phase = "push"
    /\ \/ Pushed(current) /\ phase' = "collect"
       \/ PushFails
    /\ UNCHANGED <<alwaysBuild, current, toBuild, local, prePushVars, tagVars>>

\* Receives from prePushErr; an error is only logged.
TakePrePushErr ==
    /\ phase = "prePushErr" /\ prePush = "closed"
    /\ prePush' = "ended"
    /\ phase' = "rest"
    /\ UNCHANGED <<alwaysBuild, current, toBuild, needToPush, local, registry, pushes,
                   builtImages, held, rpc, stream, tagVars>>

\* The images whose base was not pushed before
PushRest ==
    /\ phase = "rest"
    /\ \/ /\ needToPush = {}
          /\ phase' = "done"
          /\ UNCHANGED <<registry, pushes, builtImages, needToPush>>
       \/ \E s \in needToPush : Pushed(s) /\ UNCHANGED phase
       \/ needToPush # {} /\ PushFails
    /\ UNCHANGED <<alwaysBuild, current, toBuild, local, prePushVars, tagVars>>

-----------------------------------------------------------------------------
(* pushBaseImages                                                           *)

\* Fault: the goroutine ends early without closing the channel.
pushBaseImagesUnclosed ==
    /\ CliAlive /\ prePush = "bases"
    /\ \/ prePush' = "ended" /\ UNCHANGED <<rpc, tagVars>>
       \/ /\ prePush' = "recv"
          /\ rpc' = "open"
          /\ tagger' = "auth"
          /\ task' = [s \in Services |-> IF s \in needToPush THEN "push" ELSE "off"]
          /\ UNCHANGED <<sending, numSent>>
    /\ UNCHANGED <<cliVars, held, stream>>

\* The Dockerfiles are read.  One that cannot be read, or one whose base is
\* "scratch", ends the goroutine for all services; otherwise TagImages is called.
\* The call may fail.
pushBaseImages ==
    /\ CliAlive /\ prePush = "bases"
    /\ \/ prePush' = "closed" /\ UNCHANGED <<rpc, tagVars>>
       \/ /\ prePush' = "recv"
          /\ rpc' = "open"
          /\ tagger' = "auth"
          /\ task' = [s \in Services |-> IF s \in needToPush THEN "push" ELSE "off"]
          /\ UNCHANGED <<sending, numSent>>
    /\ UNCHANGED <<cliVars, held, stream>>

\* Recv returns a response, io.EOF once the handler has returned, or an error.
RecvTag ==
    /\ CliAlive /\ prePush = "recv"
    /\ \/ /\ stream # <<>>
          /\ held' = Head(stream)
          /\ stream' = Tail(stream)
          /\ prePush' = "send"
       \/ /\ (stream = <<>> /\ tagger = "returned") \/ rpc = "broken"
          /\ prePush' = "closed"
          /\ UNCHANGED <<held, stream>>
    /\ UNCHANGED <<cliVars, rpc, tagVars>>

-----------------------------------------------------------------------------
(* TagImages                                                                *)

\* A request that is not authorised ends with an error.  The goroutines were
\* not started in that case.
TagAuthorize ==
    /\ tagger = "auth"
    /\ \/ tagger' = "loop" /\ UNCHANGED <<rpc, task>>
       \/ /\ tagger' = "returned"
          /\ rpc' = "broken"
          /\ task' = [s \in Services |-> "off"]
    /\ UNCHANGED <<cliVars, prePush, held, stream, sending, numSent>>

\* pushImage ends, with or without an error: both make a response.
TaskPushed(s) ==
    /\ task[s] = "push" /\ tagger # "auth"
    /\ task' = [task EXCEPT ![s] = "give"]
    /\ UNCHANGED <<cliVars, prePushVars, tagger, sending, numSent>>

\* The response goes to the handler, or nowhere when the stream's context is
\* done: the select may choose either when both are ready.
TaskGives(s) ==
    /\ task[s] = "give"
    /\ \/ /\ tagger = "loop"
          /\ tagger' = "send" /\ sending' = s
          /\ task' = [task EXCEPT ![s] = "gave"]
       \/ /\ rpc = "broken" \/ tagger = "returned"
          /\ task' = [task EXCEPT ![s] = "dropped"]
          /\ UNCHANGED <<tagger, sending>>
    /\ UNCHANGED <<cliVars, prePushVars, numSent>>

NumRequests == Cardinality({s \in Services : task[s] # "off"})

\* Fault: the loop runs once more than there are requests.
TagSendOneMore ==
    /\ tagger = "send"
    /\ \/ /\ rpc = "open"
          /\ stream' = Append(stream, sending)
          /\ numSent' = numSent + 1
          /\ tagger' = IF numSent' <= NumRequests THEN "loop" ELSE "returned"
       \/ /\ rpc = "broken"
          /\ tagger' = "returned"
          /\ UNCHANGED <<stream, numSent>>
    /\ UNCHANGED <<cliVars, prePush, held, rpc, sending, task>>

\* The loop: as many responses are sent as there were requests.
TagSend ==
    /\ tagger = "send"
    /\ \/ /\ rpc = "open"
          /\ stream' = Append(stream, sending)
          /\ numSent' = numSent + 1
          /\ tagger' = IF numSent' < NumRequests THEN "loop" ELSE "returned"
       \/ /\ rpc = "broken"
          /\ tagger' = "returned"
          /\ UNCHANGED <<stream, numSent>>
    /\ UNCHANGED <<cliVars, prePush, held, rpc, sending, task>>

\* The stream breaks, or the CLI has exited.
TagBreaks ==
    /\ rpc = "open" /\ (tagger # "returned" \/ stream # <<>>)
    /\ rpc' = "broken"
    /\ UNCHANGED <<cliVars, prePush, held, stream, tagVars>>

-----------------------------------------------------------------------------
BuildSteps ==
    \/ getRemoteCachedImages \/ getImageBuilder \/ SolveOne
    \/ BuildOne \/ CollectResult \/ CollectClosed \/ PushAfterPrePush
    \/ TakePrePushErr \/ PushRest
    \/ pushBaseImages \/ RecvTag

TagSteps ==
    \/ TagAuthorize \/ TagSend
    \/ \E s \in Services : TaskPushed(s) \/ TaskGives(s)

\* The locals of buildImages are gone, and the registry is not followed any more.
BuildForgotten ==
    /\ alwaysBuild' = FALSE
    /\ phase' = "off" /\ current' = "none" /\ toBuild' = {} /\ needToPush' = {}
    /\ local' = [s \in Services |-> "none"]
    /\ registry' = [s \in Services |-> "none"]
    /\ builtImages' = [s \in Services |-> "none"]
    /\ pushes' = [s \in Services |-> 0]
    /\ prePush' = "off" /\ held' = "none" /\ rpc' = "none" /\ stream' = <<>>
    /\ tagger' = "off" /\ sending' = "none" /\ numSent' = 0
    /\ task' = [s \in Services |-> "off"]

BuildNext == BuildSteps \/ TagSteps \/ TagBreaks

(***************************************************************************)
(* When buildImages succeeds, the image it names for a service is the one  *)
(* in the registry; it was pushed once, or not at all if it was there      *)
(* already, whatever the order of the copies of the base images and        *)
(* whatever failed among them; and with --build it is a new one.           *)
(***************************************************************************)
ImagesPushed ==
    phase = "done" =>
        \A s \in Services :
            /\ builtImages[s] # "none" /\ builtImages[s] = registry[s]
            /\ pushes[s] = (IF builtImages[s] = "old" THEN 0 ELSE 1)
            /\ alwaysBuild => builtImages[s] = "fresh"

(***************************************************************************)
(* The handler TagImages never waits for a response that no goroutine will *)
(* give, unless the stream is broken: then the goroutines may choose       *)
(* ctx.Done(), and the handler, which receives from responses without a    *)
(* look at the context, is left waiting.                                   *)
(***************************************************************************)
ResponseComes ==
    tagger = "loop" /\ rpc # "broken" => \E s \in Services : task[s] \in {"push", "give"}
=============================================================================
