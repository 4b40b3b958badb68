-------------------------- MODULE StructurizrRender --------------------------
(***************************************************************************)
(* The commands structurizr-render and structurizr-clean over one          *)
(* repository: tools/structurizr-render.ts, the lock, stages and output of *)
(* structurizr-fs.ts, the containers of structurizr-docker.ts.  A run is   *)
(* one invocation of the command line, with a nonce of its own.  Whatever a*)
(* run checks without writing is one step with its checks in code order;   *)
(* each change to build/architecture is a step, and the run may be killed  *)
(* before any of them.  Nobody but the commands, their containers and the  *)
(* operator touches build/architecture.                                    *)
(***************************************************************************)
EXTENDS Naturals, FiniteSets, Sequences

CONSTANTS
  Renders,   \* runs of structurizr-render
  Cleans,    \* runs of structurizr-clean
  Faults,    \* what may be wrong before a render starts
  None       \* no lock, no output

Run == Renders \cup Cleans

\* ERROR_PRECEDENCE, one code for those of a kind that no fault tells apart, and
\* the lines docs/structurizr.md groups them in.
Precedence == <<"LOCK_BUSY", "UNSAFE_OUTPUT", "PATH", "PIN", "SOURCE", "DOCKER",
                "PLATFORM", "IMAGE", "BUN_VERSION", "DSL", "JSON", "SVG",
                "CONSISTENCY", "PUBLISH", "CLEANUP">>
Code == {Precedence[i] : i \in DOMAIN Precedence}
Rank(c) == CHOOSE i \in DOMAIN Precedence : Precedence[i] = c
LineEnds == {1, 3, 5, 9, 10, 12, 13, 15}
Line(c) == Cardinality({e \in LineEnds : e < Rank(c)})

\* The containers, each with the code its failure has.  The last two write.
Containers == <<"PLATFORM", "IMAGE", "DSL", "JSON", "SVG">>
\* What is checked between removing the old output and creating the stage.
Preflight == <<"SOURCE", "BUN_VERSION", "DOCKER", "PLATFORM">>

ASSUME RenderAssumption ==
  /\ Renders \cap Cleans = {} /\ None \notin Run
  /\ Faults \subseteq Code \ {"LOCK_BUSY", "UNSAFE_OUTPUT", "PATH", "CLEANUP"}

VARIABLES
  lock,     \* the run whose nonce is in .structurizr-lock
  final,    \* build/architecture/structurizr
  stage,    \* each run's stage directory: without a marker, or owned
  payload,  \* what is in it
  orphans,  \* the runs with a container alive that nobody waits for
  pc, at,   \* where each run is, in which container
  wrong,    \* what is wrong when it starts
  err,      \* what it reports: a code, "other" for an error without one
  met, told \* cleanup faults and failures at its lock it has met, and those it reports

fs == <<lock, final, stage, payload>>
vars == <<fs, orphans, pc, at, wrong, err, met, told>>

\* Nothing, something not to be removed (a link), or the output of a run.
Final == [is: {"none", "unsafe", "output"}, by: Run \cup {None}, whole: BOOLEAN]
Absent == [is |-> "none", by |-> None, whole |-> FALSE]
Output(r, whole) == [is |-> "output", by |-> r, whole |-> whole]
Label == {"idle", "acquire", "final", "removing", "preflight", "stage", "mark",
          "container", "remove", "verify", "publish", "discard", "stages",
          "release", "end", "killed"}

\* docker rm -f; the stage; the lock's record; the lock's removal.
Troubles == {"FORCE_REMOVE", "CLEANUP", "RECORD", "RELEASE"}
Met(r, trouble) == met' = [met EXCEPT ![r] = @ \cup {trouble}]

TypeOK ==
  /\ lock \in Run \cup {None}
  /\ final \in Final
  /\ stage \in [Run -> {"none", "bare", "owned"}]
  /\ payload \in [Run -> {"none", "empty", "partial", "verified"}]
  /\ orphans \subseteq Run
  /\ pc \in [Run -> Label] /\ at \in [Run -> 1..Len(Containers)]
  /\ wrong \in [Run -> SUBSET Code]
  /\ err \in [Run -> Code \cup {"none", "other"}]
  /\ met \in [Run -> SUBSET Troubles] /\ told \in [Run -> SUBSET Troubles]

Init ==
  /\ lock = None
  /\ final \in {Absent, [Absent EXCEPT !.is = "unsafe"], Output(None, TRUE)}
  /\ stage = [r \in Run |-> "none"] /\ payload = [r \in Run |-> "none"]
  /\ orphans = {}
  /\ pc = [r \in Run |-> "idle"] /\ at = [r \in Run |-> 1]
  /\ wrong \in [Run -> SUBSET Faults]
  /\ err = [r \in Run |-> "none"]
  /\ met = [r \in Run |-> {}] /\ told = [r \in Run |-> {}]

-----------------------------------------------------------------------------
Goto(r, l) == pc' = [pc EXCEPT ![r] = l]
Fail(r, e, l) == Goto(r, l) /\ err' = [err EXCEPT ![r] = e]
Unchanged(r) == UNCHANGED <<orphans, at, wrong, met, told>>

\* The command line loads the pin before it calls render.
Start(r) ==
  /\ pc[r] = "idle"
  /\ IF r \in Renders /\ "PIN" \in wrong[r]
     THEN Fail(r, "PIN", "end")
     ELSE Goto(r, "acquire") /\ UNCHANGED err
  /\ Unchanged(r) /\ UNCHANGED fs

\* O_CREAT | O_EXCL.  When the record cannot be written the error leaves acquire,
\* and nobody releases the lock.
AcquireShared(r) ==    \* mutant: without O_EXCL
  /\ pc[r] = "acquire" /\ lock' = r /\ Goto(r, "final")
  /\ Unchanged(r) /\ UNCHANGED <<final, stage, payload, err>>
Acquire(r) ==
  /\ pc[r] = "acquire" /\ lock = None
  /\ lock' = r
  /\ \/ Goto(r, "final") /\ UNCHANGED err
        /\ UNCHANGED met
     \/ Fail(r, "other", "end") /\ Met(r, "RECORD")
  /\ UNCHANGED <<final, stage, payload, orphans, at, wrong, told>>

AcquireBusy(r) ==
  /\ pc[r] = "acquire" /\ lock # None
  /\ Fail(r, "LOCK_BUSY", "end")
  /\ Unchanged(r) /\ UNCHANGED fs

\* removeSafeFinal: a safe tree is removed, entry by entry; anything else stays.
AfterFinal(r) == IF r \in Renders THEN "preflight" ELSE "stages"
AfterFailure(r) == IF r \in Renders THEN "discard" ELSE "release"

InspectFinalKept(r) ==    \* mutant: an earlier output stays
  /\ pc[r] = "final" /\ Goto(r, AfterFinal(r))
  /\ Unchanged(r) /\ UNCHANGED <<fs, err>>
InspectFinal(r) ==
  /\ pc[r] = "final"
  /\ \/ final.is = "none" /\ Goto(r, AfterFinal(r)) /\ UNCHANGED <<final, err>>
     \/ final.is = "unsafe" /\ Fail(r, "UNSAFE_OUTPUT", AfterFailure(r)) /\ UNCHANGED final
     \/ final.is = "output" /\ Goto(r, "removing")
        /\ final' = Output(r, FALSE) /\ UNCHANGED err
  /\ Unchanged(r) /\ UNCHANGED <<lock, stage, payload>>

RemoveFinal(r) ==
  /\ pc[r] = "removing"
  /\ \/ final' = Absent /\ Goto(r, AfterFinal(r)) /\ UNCHANGED err
     \/ Fail(r, "other", AfterFailure(r)) /\ UNCHANGED final
  /\ Unchanged(r) /\ UNCHANGED <<lock, stage, payload>>

-----------------------------------------------------------------------------
(* render.                                                                 *)

\* The first of a sequence of checks that fails.
FirstWrong(r, checks) ==
  {i \in DOMAIN checks : checks[i] \in wrong[r]
                         /\ \A j \in 1..(i - 1) : checks[j] \notin wrong[r]}

CheckBefore(r) ==
  /\ pc[r] = "preflight"
  /\ \/ FirstWrong(r, Preflight) = {} /\ Goto(r, "stage") /\ UNCHANGED err
     \/ \E i \in FirstWrong(r, Preflight) : Fail(r, Preflight[i], "discard")
  /\ Unchanged(r) /\ UNCHANGED fs

\* createStage: the directory, its payload, the owner's marker.
MakeStage(r) ==
  /\ pc[r] = "stage"
  /\ \/ stage' = [stage EXCEPT ![r] = "bare"] /\ Goto(r, "mark") /\ UNCHANGED err
     \/ Fail(r, "PATH", "discard") /\ UNCHANGED stage
  /\ Unchanged(r) /\ UNCHANGED <<lock, final, payload>>

MarkStage(r) ==
  /\ pc[r] = "mark"
  /\ \/ /\ stage' = [stage EXCEPT ![r] = "owned"]
        /\ payload' = [payload EXCEPT ![r] = "empty"]
        /\ Goto(r, "container") /\ UNCHANGED err
     \/ \E e \in {"UNSAFE_OUTPUT", "other"} : Fail(r, e, "discard")
        /\ UNCHANGED <<stage, payload>>
  /\ Unchanged(r) /\ UNCHANGED <<lock, final>>

\* One container of renderInContainer ends in time.
Written(r) == IF at[r] \geq 4 THEN [payload EXCEPT ![r] = "partial"] ELSE payload

LastContainer(r) == at[r] = Len(Containers)

ContainerEnds(r) ==
  /\ pc[r] = "container"
  /\ payload' = Written(r)
  /\ IF Containers[at[r]] \in wrong[r]
     THEN Fail(r, Containers[at[r]], "discard") /\ UNCHANGED at
     ELSE IF LastContainer(r)
     THEN Goto(r, "verify") /\ UNCHANGED <<err, at>>
     ELSE at' = [at EXCEPT ![r] = @ + 1] /\ UNCHANGED <<pc, err>>
  /\ UNCHANGED <<lock, final, stage, orphans, wrong, met, told>>

\* It exceeds its bound: the docker client is killed, the container lives on
\* until docker rm -f, whose result is not looked at.
ContainerTimesOut(r) ==
  /\ pc[r] = "container"
  /\ payload' = Written(r)
  /\ orphans' = orphans \cup {r}
  /\ Goto(r, "remove")
  /\ UNCHANGED <<lock, final, stage, at, wrong, err, met, told>>

TimeoutForgiven(r) == Goto(r, "verify") /\ UNCHANGED err    \* mutant
TimeoutReported(r) == Fail(r, Containers[at[r]], "discard")

RemoveContainer(r) ==
  /\ pc[r] = "remove"
  /\ \/ orphans' = orphans \ {r} /\ UNCHANGED met
     \/ Met(r, "FORCE_REMOVE") /\ UNCHANGED orphans
  /\ TimeoutReported(r)
  /\ UNCHANGED <<fs, at, wrong, told>>

\* verifyOutput, and the manifest.
Verify(r) ==
  /\ pc[r] = "verify"
  /\ \/ /\ "CONSISTENCY" \notin wrong[r]
        /\ payload' = [payload EXCEPT ![r] = "verified"]
        /\ Goto(r, "publish") /\ UNCHANGED err
     \/ "CONSISTENCY" \in wrong[r] /\ Fail(r, "CONSISTENCY", "discard") /\ UNCHANGED payload
     \/ "CONSISTENCY" \notin wrong[r] /\ Fail(r, "other", "discard") /\ UNCHANGED payload
  /\ Unchanged(r) /\ UNCHANGED <<lock, final, stage>>

Publish(r) ==
  /\ pc[r] = "publish"
  /\ IF lock # r \/ final.is # "none"
     THEN Fail(r, "UNSAFE_OUTPUT", "discard") /\ UNCHANGED <<final, payload>>
     ELSE IF "PUBLISH" \in wrong[r]
     THEN Fail(r, "PUBLISH", "discard") /\ UNCHANGED <<final, payload>>
     ELSE /\ final' = Output(r, payload[r] = "verified")
          /\ payload' = [payload EXCEPT ![r] = "none"]
          /\ Goto(r, "discard") /\ UNCHANGED err
  /\ Unchanged(r) /\ UNCHANGED <<lock, stage>>

\* ownsStage: marker, nonce and lock identity agree.
Owns(r, s) == stage[s] = "owned" /\ s = r

\* discardStage.
Discard(r) ==
  /\ pc[r] = "discard" /\ (stage[r] = "none" \/ Owns(r, r))
  /\ stage' = [stage EXCEPT ![r] = "none"]
  /\ payload' = [payload EXCEPT ![r] = "none"]
  /\ Goto(r, "release")
  /\ Unchanged(r) /\ UNCHANGED <<lock, final, err>>

\* It is not provably owned (IO CLEANUP), or its removal fails (no code).  After
\* a success the fault is secondary; else the more severe of the two is thrown.
MoreSevereReversed(e, c) == IF c # "other" THEN c ELSE e    \* mutant
MoreSevere(e, c) == IF e = "other" /\ c # "other" THEN c ELSE e

DiscardFailsFirst(r) ==    \* mutant: the lock is not released in a finally
  /\ pc[r] = "discard" /\ stage[r] # "none"
  /\ Goto(r, "end")
  /\ UNCHANGED <<fs, orphans, at, wrong, err, met, told>>
DiscardFails(r) ==
  /\ pc[r] = "discard" /\ stage[r] # "none"
  /\ LET c == IF Owns(r, r) THEN "other" ELSE "CLEANUP"
         e == IF err[r] = "none" THEN "none" ELSE MoreSevere(err[r], c)
     IN /\ Fail(r, e, "release")
        /\ told' = IF e \in {"none", "CLEANUP"}
                   THEN [told EXCEPT ![r] = @ \cup {"CLEANUP"}] ELSE told
  /\ Met(r, "CLEANUP")
  /\ UNCHANGED <<fs, orphans, at, wrong>>

-----------------------------------------------------------------------------
(* clean, and what both end with.                                          *)

RemoveStages(r) ==
  /\ pc[r] = "stages"
  /\ stage' = [s \in Run |-> IF Owns(r, s) THEN "none" ELSE stage[s]]
  /\ payload' = [s \in Run |-> IF Owns(r, s) THEN "none" ELSE payload[s]]
  /\ Goto(r, "release")
  /\ Unchanged(r) /\ UNCHANGED <<lock, final, err>>

\* Unlinked only while it carries this run's nonce.  What fails on the way, in looking at
\* the lock, reading it or unlinking it, is swallowed.
Release(r) ==
  /\ pc[r] = "release"
  /\ \/ lock' = (IF lock = r THEN None ELSE lock) /\ UNCHANGED met
     \/ Met(r, "RELEASE") /\ UNCHANGED lock
  /\ Goto(r, "end")
  /\ UNCHANGED <<final, stage, payload, orphans, at, wrong, err, told>>

Live(r) == pc[r] \notin {"idle", "end", "killed"}

\* The process is killed; a container it waits for may live on.
Kill(r) ==
  /\ Live(r)
  /\ Goto(r, "killed")
  /\ orphans' \in IF pc[r] = "container" THEN {orphans, orphans \cup {r}} ELSE {orphans}
  /\ UNCHANGED <<fs, at, wrong, err, met, told>>

\* A container nobody waits for writes where its mount points, and ends.
OrphanWrites(r) ==
  /\ r \in orphans /\ at[r] \geq 4
  /\ payload' = [payload EXCEPT ![r] = IF @ = "none" THEN @ ELSE "partial"]
  /\ final' = IF final.by = r THEN [final EXCEPT !.whole = FALSE] ELSE final
  /\ UNCHANGED <<lock, stage, orphans, pc, at, wrong, err, met, told>>

OrphanEnds(r) ==
  /\ r \in orphans /\ orphans' = orphans \ {r}
  /\ UNCHANGED <<fs, pc, at, wrong, err, met, told>>

\* The operator, with every command and container stopped, removes the lock and
\* the stages noted, the lock alone if only that is in the way.
Recover ==
  /\ \A r \in Run : ~Live(r)
  /\ orphans = {} /\ lock # None
  /\ lock' = None
  /\ \E gone \in {{}, Run} :
       /\ stage' = [r \in Run |-> IF r \in gone THEN "none" ELSE stage[r]]
       /\ payload' = [r \in Run |-> IF r \in gone THEN "none" ELSE payload[r]]
  /\ UNCHANGED <<final, orphans, pc, at, wrong, err, met, told>>

Step(r) ==
  \/ Start(r) \/ Acquire(r) \/ AcquireBusy(r) \/ InspectFinal(r) \/ RemoveFinal(r)
  \/ CheckBefore(r) \/ MakeStage(r) \/ MarkStage(r) \/ ContainerEnds(r)
  \/ ContainerTimesOut(r) \/ RemoveContainer(r) \/ Verify(r) \/ Publish(r)
  \/ Discard(r) \/ DiscardFails(r) \/ RemoveStages(r) \/ Release(r)

Next ==
  \/ \E r \in Run : Step(r) \/ Kill(r) \/ OrphanWrites(r) \/ OrphanEnds(r)
  \/ Recover

Spec == Init /\ [][Next]_vars

-----------------------------------------------------------------------------
(* Correctness.                                                            *)

\* Two commands are never both between acquire and release.
Holding(r) == Live(r) /\ pc[r] # "acquire"
Exclusive == \A r, s \in Run : Holding(r) /\ Holding(s) => r = s

\* What stands at the output path is a whole, verified bundle, unless a run is
\* removing it, was killed at it or failed to.
PublishedWhole ==
  final.is = "output" /\ ~final.whole =>
    pc[final.by] \in {"removing", "killed"} \/ err[final.by] = "other"

\* A stage goes only at the hands of its own run, or of the operator when no
\* command runs.
OwnStageOnly ==
  [][\A r \in Run : stage[r] # "none" /\ stage'[r] = "none" =>
        pc[r] = "discard" \/ \A s \in Run : ~Live(s)]_vars

\* A lock that stays behind is of a run that was killed, that failed to write its record
\* into it, or whose removal of the lock failed: no other failure, of the stage, the
\* containers or the output, keeps a run from its release.
Released ==
  \A r \in Run : lock = r /\ ~Live(r) =>
    pc[r] = "killed" \/ met[r] \cap {"RECORD", "RELEASE"} # {}

\* Whatever else is wrong with a render or is in its way.
Present(r) ==
  wrong[r] \cup (IF lock \in {None, r} THEN {} ELSE {"LOCK_BUSY"})
           \cup (IF final.is = "unsafe" THEN {"UNSAFE_OUTPUT"} ELSE {})
Reports(r) == err'[r] # err[r] /\ err[r] # "other" /\ err'[r] # "other"

\* The code a render reports is on the first line, in the documented order, of
\* all that is wrong at that moment, however its faults are met.
FirstFault ==
  [][\A r \in Renders : Reports(r) =>
        \A f \in Present(r) : Line(err'[r]) \leq Line(f)]_vars

\* It is the first of them in ERROR_PRECEDENCE.
ExactOrder ==
  [][\A r \in Renders : Reports(r) =>
        \A f \in Present(r) : Rank(err'[r]) \leq Rank(f)]_vars

\* A render that fails leaves no earlier success at the output path.
NoStaleSuccess ==
  [][\A r \in Renders :
        pc[r] # "end" /\ pc'[r] = "end" /\ err'[r] \notin {"none", "LOCK_BUSY", "other"} =>
           final'.is # "output"]_vars

\* Every cleanup fault a run has met is in what it reports, the lock that it leaves too.
CleanupReported == \A r \in Run : pc[r] = "end" => met[r] \subseteq told[r]

\* A command does not succeed beside an abandoned stage.
AbandonedRefused ==
  [][\A r \in Run : pc[r] = "release" /\ pc'[r] = "end" /\ err[r] = "none" =>
        \A s \in Run \ {r} : stage[s] = "none"]_vars
-----------------------------------------------------------------------------
(* The inductive invariant behind Exclusive, Released, PublishedWhole,     *)
(* OwnStageOnly and NoStaleSuccess.                                        *)

\* Who is between acquire and release has the lock; who has it has acquired it.
LockHeld == \A r \in Run : Holding(r) => lock = r
LockTaken == \A r \in Run : lock = r => pc[r] \notin {"idle", "acquire"}

\* A container is only left behind by a render that goes no further.
OrphansOver ==
  \A r \in orphans : pc[r] \in {"remove", "discard", "release", "end", "killed"}

\* A stage begins with MakeStage.
StageLate ==
  \A r \in Run : stage[r] # "none" =>
    pc[r] \in {"mark", "container", "remove", "verify", "publish", "discard",
               "release", "end", "killed"}

\* The output is of a run that is removing it or has published it, none of whose
\* containers is left behind.
OutputBy ==
  \A r \in Run : final.is = "output" /\ final.by = r =>
    /\ r \notin orphans
    /\ pc[r] \in {"removing", "discard", "release", "end", "killed"}

\* What is not whole is being removed, was, or could not be.
OutputTorn ==
  final.is = "output" /\ ~final.whole =>
    /\ final.by # None
    /\ \/ pc[final.by] \in {"removing", "killed"}
       \/ err[final.by] = "other" /\ stage[final.by] = "none"

\* Whoever has failed only cleans up.
Failed ==
  \A r \in Run : err[r] # "none" => pc[r] \in {"discard", "release", "end", "killed"}

OutputVerified == \A r \in Run : pc[r] = "publish" => payload[r] = "verified"

\* A render has removed the earlier output when it goes on, and when it fails.
Removed ==
  \A r \in Renders :
    \/ pc[r] \in {"preflight", "stage", "mark", "container", "remove", "verify", "publish"}
    \/ /\ pc[r] \in {"discard", "release"}
       /\ \/ err[r] \notin {"none", "other"}
          \/ err[r] = "other" /\ stage[r] # "none"
    => final.is # "output"

FaultsOnly == wrong \in [Run -> SUBSET Faults]

RenderInv ==
  /\ TypeOK /\ LockHeld /\ LockTaken /\ Released /\ OrphansOver /\ StageLate
  /\ Failed /\ OutputBy /\ OutputTorn /\ OutputVerified /\ Removed /\ FaultsOnly
=============================================================================
