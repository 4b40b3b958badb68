-------------------------- MODULE StructurizrProbe --------------------------
(***************************************************************************)
(* The live probe of the pinned image, tools/structurizr-probe.ts: nine    *)
(* bounded Docker commands, five of them containers.  Every command reads  *)
(* the current Docker context, which the user may switch between them;     *)
(* other users of an engine may pull the image for another platform.  An   *)
(* engine that emulates runs images of a foreign architecture, and uname   *)
(* in them reports the image's.                                            *)
(***************************************************************************)
EXTENDS BoundedCommand, Sequences

CONSTANTS
  Engines,   \* [os, arch, product, emulates]: what docker info reports of an engine
  Meddles,   \* bound: switches of the context and pulls by others
  Requests,  \* [host, declared, required]: the client's OS, DOCKER_DEFAULT_PLATFORM
             \* and --require-native, None when absent or empty
  None

Arch == {"amd64", "arm64"}
Stages == <<"dockerInfo", "indexInspect", "pull", "imageInspect", "platformProbe",
            "version", "validate", "jsonExport", "svgExport">>
FirstContainer == 5

ASSUME ProbeAssumption ==
  /\ \A e \in Engines : e.os \in STRING /\ e.arch \in STRING /\ e.emulates \in BOOLEAN
  /\ Meddles \in Nat
  /\ None \notin Arch

VARIABLES
  request,     \* the command line and the environment
  engine,      \* of the current Docker context
  images,      \* the architecture of the pinned image in each engine's store
  at,          \* the number of commands begun; 0 before the first
  on,          \* the engine the current command talks to
  stdout,      \* what it prints: good, or bad for output that a check refuses
  saw,         \* the image it looked at
  target,      \* the resolved target, None before
  containers,  \* the stages whose container runs
  verdict,     \* none, verified, interrupted, or an error's class and code
  ran,         \* history: the containers, with their engine and image
  asked,       \* history: the engine docker info was about
  switched,    \* history: whether the context was switched since
  meddles      \* left of Meddles

world == <<engine, images, switched, meddles>>
evidence == <<containers, ran>>
vars == <<command, request, world, at, on, stdout, saw, target, evidence, verdict, asked>>

Errors == {"CONFIG", "DEPENDENCY", "VALIDATION", "RENDER"}
          \X {"DOCKER", "PLATFORM", "IMAGE", "DSL", "JSON", "SVG", "TIMEOUT", "INVOCATION"}
Ran == [stage: 1..Len(Stages), on: Engines, arch: Arch]

TypeOK ==
  /\ CommandTypeOK
  /\ request \in Requests /\ engine \in Engines
  /\ images \in [Engines -> Arch \union {None}]
  /\ at \in 0..Len(Stages) /\ on \in Engines
  /\ stdout \in {"good", "bad"} /\ saw \in Arch \union {None}
  /\ target \in Arch \union {None}
  /\ containers \subseteq 1..Len(Stages) /\ ran \subseteq Ran
  /\ verdict \in {<<"none">>, <<"verified">>, <<"interrupted">>} \union Errors
  /\ asked \in Engines /\ switched \in BOOLEAN /\ meddles \in 0..Meddles

Init ==
  /\ CommandInit
  /\ request \in Requests /\ engine \in Engines
  /\ images = [e \in Engines |-> None]
  /\ at = 0 /\ on = engine /\ stdout = "good" /\ saw = None /\ target = None
  /\ containers = {} /\ ran = {} /\ verdict = <<"none">>
  /\ asked = engine /\ switched = FALSE /\ meddles = Meddles

-----------------------------------------------------------------------------
(* The checks.                                                             *)

\* normalizeArchitecture.
NormalArch == [a \in {"x86_64", "amd64", "aarch64", "arm64"} |->
                 IF a \in {"x86_64", "amd64"} THEN "amd64" ELSE "arm64"]
Native(e) == NormalArch[e.arch]

\* resolveTarget and requireNative: otherwise DEPENDENCY PLATFORM.  A --require-native
\* without a value ("flag") requires nothing.
Resolvable(e, r) ==
  /\ r.host \in {"Linux", "Darwin"}
  /\ e.os = "linux"
  /\ r.host = "Darwin" => e.product = "Docker Desktop"
  /\ e.arch \in DOMAIN NormalArch
  /\ r.declared \in {None, Native(e)}
  /\ r.required \in {None, "flag", Native(e)}

\* stageFailure.
FailureCode(stage, late) ==
  CASE stage = "dockerInfo" -> <<"DEPENDENCY", "DOCKER">>
    [] stage = "platformProbe" -> <<"DEPENDENCY", "PLATFORM">>
    [] stage = "validate" -> <<"VALIDATION", IF late THEN "TIMEOUT" ELSE "DSL">>
    [] stage = "jsonExport" -> <<"RENDER", IF late THEN "TIMEOUT" ELSE "JSON">>
    [] stage = "svgExport" -> <<"RENDER", IF late THEN "TIMEOUT" ELSE "SVG">>
    [] OTHER -> <<"DEPENDENCY", "IMAGE">>

\* The checks of a stage that succeeded.  Its output may be refused with the code of a
\* failure, or show another platform; verifyImage looks at the platform first.
Refused(stage) ==
  /\ stdout = "bad"
  /\ stage \in {"dockerInfo", "imageInspect", "platformProbe", "version"}
WrongPlatform(stage) ==
  \/ stage = "dockerInfo" /\ ~Refused(stage) /\ ~Resolvable(on, request)
  \/ stage \in {"imageInspect", "platformProbe"} /\ saw # target

\* The verdict after a result r: step, and the code after it.
Passed == verdict' = IF at = Len(Stages) THEN <<"verified">> ELSE <<"none">>
JudgeExit(stage, r) ==    \* mutant: neither timedOut nor the code is looked at
  Passed
Judge(stage, r) ==
  \/ r \in {"late", "failed"} /\ verdict' = FailureCode(stage, r = "late")
  \/ r = "ok" /\ Refused(stage) /\ verdict' = FailureCode(stage, FALSE)
  \/ r = "ok" /\ WrongPlatform(stage) /\ verdict' = <<"DEPENDENCY", "PLATFORM">>
  \/ r = "ok" /\ ~Refused(stage) /\ ~WrongPlatform(stage) /\ Passed

\* The target comes from docker info alone.
Resolve(stage) ==
  IF stage = "dockerInfo" /\ verdict' = <<"none">>
  THEN target' = Native(on) /\ asked' = on /\ switched' = (on # engine)
  ELSE UNCHANGED <<target, asked, switched>>

-----------------------------------------------------------------------------
Going == verdict = <<"none">>

\* parseArgs and the command line: without --live, or without --fixture.
Misuse ==
  /\ Going /\ at = 0
  /\ verdict' = <<"CONFIG", "INVOCATION">>
  /\ UNCHANGED <<command, request, world, at, on, stdout, saw, target, evidence, asked>>

\* options.run.
Begin ==
  /\ Going /\ (at = 0 \/ result # "none")
  /\ Spawn
  /\ verdict' = IF result' = "failed" THEN FailureCode(Stages[at + 1], FALSE) ELSE verdict
  /\ at' = at + 1 /\ on' = engine
  /\ UNCHANGED <<request, world, stdout, saw, target, evidence, asked>>

Settles ==
  /\ Close
  /\ Judge(Stages[at], result') /\ Resolve(Stages[at])
  /\ UNCHANGED <<request, engine, images, meddles, at, on, stdout, saw, evidence>>

Fires ==
  /\ Going /\ (TimerFires \/ KillFires)
  /\ UNCHANGED <<request, world, at, on, stdout, saw, target, evidence, verdict, asked>>

Interrupt ==
  /\ Going /\ CallerDies
  /\ verdict' = <<"interrupted">>
  /\ UNCHANGED <<request, world, at, on, stdout, saw, target, evidence, asked>>

-----------------------------------------------------------------------------
(* The Docker client and its containers.                                   *)

Others == UNCHANGED <<request, engine, switched, meddles, at, on, target, verdict, asked>>
Runs(e, a) == e.os = "linux" /\ (Native(e) = a \/ e.emulates)

\* docker run --rm --platform target: an image for another platform is pulled again.
ImageAny(e) == IF images[e] = None THEN target ELSE images[e]    \* mutant: no --platform
Image(e) == target
ContainerStarts ==
  /\ child = "runs" /\ at \geq FirstContainer /\ \A c \in ran : c.stage # at
  /\ on.arch \in DOMAIN NormalArch /\ Runs(on, Image(on))
  /\ saw' = Image(on) /\ images' = [images EXCEPT ![on] = Image(on)]
  /\ containers' = containers \union {at}
  /\ ran' = ran \union {[stage |-> at, on |-> on, arch |-> Image(on)]}
  /\ UNCHANGED <<command, stdout>> /\ Others

ContainerEnds ==
  /\ \E k \in containers : containers' = containers \ {k}
  /\ UNCHANGED <<command, images, stdout, saw, ran>> /\ Others

\* The client succeeds when what it was asked for is done.
Done(stage) ==
  /\ at \geq FirstContainer => at \notin containers /\ \E c \in ran : c.stage = at
  /\ stage = "imageInspect" => images[on] # None
  /\ stage = "pull" => on.os = "linux"
ClientExits ==
  /\ \/ ChildExits("failed") /\ UNCHANGED <<images, stdout, saw>>
     \/ /\ child = "runs" /\ Done(Stages[at]) /\ ChildExits("ok")
        /\ stdout' \in {"good", "bad"}
        /\ saw' = IF Stages[at] = "imageInspect" THEN images[on] ELSE saw
        /\ images' = IF Stages[at] = "pull" THEN [images EXCEPT ![on] = target] ELSE images
  /\ UNCHANGED evidence /\ Others

ClientRuns ==
  /\ Prints \/ Forks \/ HelperEnds \/ NumberReused
  /\ UNCHANGED <<images, stdout, saw, evidence>> /\ Others

Reading ==
  /\ Going /\ Reads
  /\ UNCHANGED <<images, stdout, saw, evidence>> /\ Others

\* docker context use.
Meddle == meddles > 0 /\ meddles' = meddles - 1
Switch ==
  /\ Meddle
  /\ engine' \in Engines \ {engine} /\ switched' = TRUE
  /\ UNCHANGED <<command, request, images, at, on, stdout, saw, target, evidence, verdict, asked>>

\* docker pull --platform, of the pinned reference, by somebody else.
OtherPull ==
  /\ Meddle
  /\ \E e \in Engines, a \in Arch : e.os = "linux" /\ images' = [images EXCEPT ![e] = a]
  /\ UNCHANGED <<command, request, engine, switched, at, on, stdout, saw, target, evidence,
                 verdict, asked>>

Next ==
  \/ Misuse \/ Begin \/ Settles \/ Fires \/ Reading \/ Interrupt
  \/ ContainerStarts \/ ContainerEnds \/ ClientExits \/ ClientRuns
  \/ Switch \/ OtherPull

Spec == Init /\ [][Next]_vars

\* The probe's own steps are its event loop's.  Nothing is assumed of the client, its
\* containers and its descendants: they may hang, and may ignore SIGTERM.
Fairness ==
  WF_vars(Begin) /\ WF_vars(Settles) /\ WF_vars(Fires) /\ WF_vars(Reading)
FairSpec == Spec /\ Fairness

-----------------------------------------------------------------------------
(* Properties.                                                             *)

\* A command is what CommandPromise promises: makeRunner's result, and step.
Promise == INSTANCE CommandPromise
             WITH begun <- at, overdue <- TimedOut, outcome <- result
KeepsPromise == Promise!Spec

\* "never a cross-target request", "emulation is not supported": a verified probe ran all
\* five containers, with the image for the target, which is the native platform of
\* the engine and what was required; unless the Docker context was switched meanwhile.
NativeEvidence ==
  verdict = <<"verified">> =>
    /\ {c.stage : c \in ran} = FirstContainer..Len(Stages)
    /\ \A c \in ran : c.arch = target /\ (switched \/ Native(c.on) = target)
    /\ request.required \in {None, "flag", target}

\* Without the exception: it is not kept, only docker info tells emulation apart.
EvidenceNative == verdict = <<"verified">> => \A c \in ran : Native(c.on) = target

\* No two containers run at a time, although both exports write the same directory: the
\* next command begins after the container of the last has ended.
OneContainer == \A k, l \in containers : k = l

\* Once a command has settled no signal is sent for it: its group number may be another's.
SilentOnceSettled == "settled" \notin misfires

\* The output is complete when a command settles as anything but a failure to start:
\* docker info and image inspect are parsed as a whole.
OutputWhole == [][Settles => ~unread /\ ~Holders]_vars

\* Every command ends within its bound and the grace, hung or not, and the probe with it,
\* unless a descendant outside the group holds the pipes: then makeRunner waits for it.
Ends == Going ~> (~Going \/ helper = "stray")

\* Without the exception: it is not kept.
EndsAlways == Going ~> ~Going

\* design.md:312-315: a timed out container is force-removed.  forceRemove has no caller.
NothingLeft == verdict \notin {<<"none">>, <<"interrupted">>} => containers = {}
=============================================================================
