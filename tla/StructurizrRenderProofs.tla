----------------------- MODULE StructurizrRenderProofs -----------------------
(***************************************************************************)
(* Proofs about StructurizrRender, for any number of renders and cleans.   *)
(* Each step keeps RenderInv, by one lemma per action and, in it, one step *)
(* for each group of conjuncts.                                            *)
(***************************************************************************)
EXTENDS StructurizrRender, FiniteSetTheorems, TLAPS

\* The codes, of the list and of the checks made from it.
LEMMA Codes ==
  Code = {"LOCK_BUSY", "UNSAFE_OUTPUT", "PATH", "PIN", "SOURCE", "DOCKER", "PLATFORM",
          "IMAGE", "BUN_VERSION", "DSL", "JSON", "SVG", "CONSISTENCY", "PUBLISH", "CLEANUP"}
  BY DEF Code, Precedence

\* What a check or a container reports is a code.
LEMMA Checks ==
  /\ \A i \in DOMAIN Preflight : Preflight[i] \in Code
  /\ \A i \in 1..Len(Containers) : Containers[i] \in Code
  /\ Len(Containers) = 5
  BY Codes DEF Preflight, Containers

\* What may be at the output path.
LEMMA Outputs ==
  Absent \in Final /\ \A r \in Run \cup {None}, w \in BOOLEAN : Output(r, w) \in Final
  BY DEF Final, Absent, Output

-----------------------------------------------------------------------------
(* One lemma per action: it keeps RenderInv.                               *)

\* The command line loads the pin.
LEMMA StartKeeps ==
  ASSUME RenderInv, NEW r \in Run, Start(r)
  PROVE  RenderInv'
<1>. USE RenderAssumption DEF RenderInv, TypeOK, Run, fs, Goto, Fail, Unchanged, Met, Troubles, Start
<1>1. TypeOK'
  BY Codes, Checks DEF Label
<1>2. (LockHeld /\ LockTaken /\ Released)'
  <2>1. \A s \in Run : pc'[s] = IF s = r THEN pc'[r] ELSE pc[s]
    BY DEF Label
  <2>2. pc'[r] \in {"end", "acquire"} /\ lock' = lock /\ pc[r] = "idle"
    BY DEF Label
  <2>. QED  BY <2>1, <2>2 DEF LockHeld, LockTaken, Released, Holding, Live
<1>3. (OrphansOver /\ StageLate /\ Failed)'
  BY DEF OrphansOver, StageLate, Failed
<1>4. (OutputBy /\ OutputVerified)'
  BY DEF OutputBy, OrphansOver, OutputVerified, Final
<1>5. OutputTorn'
  BY DEF OutputTorn, OutputBy, OutputVerified, StageLate, Final
<1>6. (Removed /\ FaultsOnly)'
  BY DEF Removed, Failed, StageLate, LockHeld, Holding, Live, FaultsOnly, Final
<1>. QED  BY <1>1, <1>2, <1>3, <1>4, <1>5, <1>6

\* Acquire creates the lock.
LEMMA AcquireKeeps ==
  ASSUME RenderInv, NEW r \in Run, Acquire(r)
  PROVE  RenderInv'
<1>. USE RenderAssumption DEF RenderInv, TypeOK, Run, fs, Goto, Fail, Unchanged, Met, Troubles, Acquire
<1>1. TypeOK'
  BY Codes, Checks DEF Label
<1>2. (LockHeld /\ LockTaken /\ Released)'
  <2>1. ASSUME NEW s \in Run, s # r
        PROVE  lock' # s /\ lock # s /\ pc'[s] = pc[s] /\ met'[s] = met[s]
    BY <2>1
  <2>2. lock' = r /\ (pc'[r] = "final" \/ (pc'[r] = "end" /\ "RECORD" \in met'[r]))
    <3>1. r \in Run /\ met \in [Run -> SUBSET Troubles] /\ pc \in [Run -> Label]
      OBVIOUS
    <3>0. lock' = r
      OBVIOUS
    <3>2. CASE Goto(r, "final")
      <4>1. pc'[r] = "final"
        BY <3>1, <3>2
      <4>. QED  BY ONLY <3>0, <4>1
    <3>3. CASE Fail(r, "other", "end") /\ Met(r, "RECORD")
      <4>1. pc'[r] = "end"
        BY <3>1, <3>3
      <4>2. met'[r] = met[r] \cup {"RECORD"}
        BY <3>1, <3>3
      <4>. QED  BY ONLY <3>0, <4>1, <4>2
    <3>. QED  BY <3>2, <3>3
  <2>. QED  BY <2>1, <2>2 DEF LockHeld, LockTaken, Released, Holding, Live
<1>3. (OrphansOver /\ StageLate /\ Failed)'
  BY DEF OrphansOver, StageLate, Failed
<1>4. (OutputBy /\ OutputVerified)'
  BY DEF OutputBy, OrphansOver, OutputVerified, Final
<1>5. OutputTorn'
  BY DEF OutputTorn, OutputBy, OutputVerified, StageLate, Final
<1>6. (Removed /\ FaultsOnly)'
  BY DEF Removed, Failed, StageLate, LockHeld, Holding, Live, FaultsOnly, Final
<1>. QED  BY <1>1, <1>2, <1>3, <1>4, <1>5, <1>6

\* Acquire finds the lock.
LEMMA AcquireBusyKeeps ==
  ASSUME RenderInv, NEW r \in Run, AcquireBusy(r)
  PROVE  RenderInv'
<1>. USE RenderAssumption DEF RenderInv, TypeOK, Run, fs, Goto, Fail, Unchanged, Met, Troubles,
      AcquireBusy
<1>1. TypeOK'
  BY Codes, Checks DEF Label
<1>2. (LockHeld /\ LockTaken /\ Released)'
  BY DEF LockHeld, LockTaken, Released, Holding, Live
<1>3. (OrphansOver /\ StageLate /\ Failed)'
  BY DEF OrphansOver, StageLate, Failed
<1>4. (OutputBy /\ OutputVerified)'
  BY DEF OutputBy, OrphansOver, OutputVerified, Final
<1>5. OutputTorn'
  BY DEF OutputTorn, OutputBy, OutputVerified, StageLate, Final
<1>6. (Removed /\ FaultsOnly)'
  BY DEF Removed, Failed, StageLate, LockHeld, Holding, Live, FaultsOnly, Final
<1>. QED  BY <1>1, <1>2, <1>3, <1>4, <1>5, <1>6

\* RemoveSafeFinal looks at the output.
LEMMA InspectFinalKeeps ==
  ASSUME RenderInv, NEW r \in Run, InspectFinal(r)
  PROVE  RenderInv'
<1>. USE RenderAssumption DEF RenderInv, TypeOK, Run, fs, Goto, Fail, Unchanged, Met, Troubles,
      InspectFinal, AfterFinal, AfterFailure
<1>1. TypeOK'
  <2>1. Output(r, FALSE) \in Final
    BY Outputs, Zenon
  <2>2. final' \in Final
    BY <2>1
  <2>3. pc' \in [Run -> Label] /\ err' \in [Run -> Code \cup {"none", "other"}]
    BY Codes DEF Label
  <2>. QED  BY <2>2, <2>3
<1>2. (LockHeld /\ LockTaken /\ Released)'
  BY DEF LockHeld, LockTaken, Released, Holding, Live
<1>3. (OrphansOver /\ StageLate /\ Failed)'
  BY DEF OrphansOver, StageLate, Failed
<1>4. (OutputBy /\ OutputVerified)'
  BY DEF OutputBy, OrphansOver, OutputVerified, Final, Output
<1>5. OutputTorn'
  BY DEF OutputTorn, OutputBy, OutputVerified, StageLate, Final, Output
<1>6. (Removed /\ FaultsOnly)'
  BY DEF Removed, Failed, StageLate, LockHeld, Holding, Live, FaultsOnly, Final, Output
<1>. QED  BY <1>1, <1>2, <1>3, <1>4, <1>5, <1>6

\* Removes it, or fails to.
LEMMA RemoveFinalKeeps ==
  ASSUME RenderInv, NEW r \in Run, RemoveFinal(r)
  PROVE  RenderInv'
<1>. USE RenderAssumption DEF RenderInv, TypeOK, Run, fs, Goto, Fail, Unchanged, Met, Troubles,
      RemoveFinal, AfterFinal, AfterFailure
<1>1. TypeOK'
  <2>1. final' \in Final
    BY Outputs
  <2>2. pc' \in [Run -> Label]
    BY DEF Label
  <2>3. err' \in [Run -> Code \cup {"none", "other"}]
    OBVIOUS
  <2>. QED  BY <2>1, <2>2, <2>3
<1>2. (LockHeld /\ LockTaken /\ Released)'
  BY DEF LockHeld, LockTaken, Released, Holding, Live
<1>3. (OrphansOver /\ StageLate /\ Failed)'
  BY DEF OrphansOver, StageLate, Failed
<1>4. (OutputBy /\ OutputVerified)'
  BY DEF OutputBy, OrphansOver, OutputVerified, Final, Absent
<1>5. OutputTorn'
  BY DEF OutputTorn, OutputBy, OutputVerified, StageLate, Final, Absent
<1>6. (Removed /\ FaultsOnly)'
  <2>1. FaultsOnly'
    BY DEF FaultsOnly
  <2>2. CASE final' = Absent
    <3>1. final'.is # "output"
      BY <2>2 DEF Absent
    <3>. QED  BY <2>1, <3>1 DEF Removed
  <2>3. CASE UNCHANGED final /\ err' = [err EXCEPT ![r] = "other"]
    <3>1. stage[r] = "none" /\ err'[r] = "other" /\ pc'[r] \in {"discard", "release"}
      BY <2>3 DEF StageLate, Failed
    <3>2. \A q \in Renders : q # r => pc'[q] = pc[q] /\ err'[q] = err[q]
      BY <2>3
    <3>. QED  BY <2>1, <2>3, <3>1, <3>2 DEF Removed
  <2>. QED  BY <2>2, <2>3
<1>. QED  BY <1>1, <1>2, <1>3, <1>4, <1>5, <1>6

\* Render checks source, versions and docker.
LEMMA CheckBeforeKeeps ==
  ASSUME RenderInv, NEW r \in Run, CheckBefore(r)
  PROVE  RenderInv'
<1>. USE RenderAssumption DEF RenderInv, TypeOK, Run, fs, Goto, Fail, Unchanged, Met, Troubles,
      CheckBefore, FirstWrong
<1>1. TypeOK'
  BY Codes, Checks DEF Label
<1>2. (LockHeld /\ LockTaken /\ Released)'
  BY DEF LockHeld, LockTaken, Released, Holding, Live
<1>3. (OrphansOver /\ StageLate /\ Failed)'
  BY DEF OrphansOver, StageLate, Failed
<1>4. (OutputBy /\ OutputVerified)'
  BY DEF OutputBy, OrphansOver, OutputVerified, Final
<1>5. OutputTorn'
  BY DEF OutputTorn, OutputBy, OutputVerified, StageLate, Final
<1>6. (Removed /\ FaultsOnly)'
  BY DEF Removed, Failed, StageLate, LockHeld, Holding, Live, FaultsOnly, Final
<1>. QED  BY <1>1, <1>2, <1>3, <1>4, <1>5, <1>6

\* CreateStage makes the directory.
LEMMA MakeStageKeeps ==
  ASSUME RenderInv, NEW r \in Run, MakeStage(r)
  PROVE  RenderInv'
<1>. USE RenderAssumption DEF RenderInv, TypeOK, Run, fs, Goto, Fail, Unchanged, Met, Troubles,
      MakeStage
<1>1. TypeOK'
  BY Codes, Checks DEF Label
<1>2. (LockHeld /\ LockTaken /\ Released)'
  BY DEF LockHeld, LockTaken, Released, Holding, Live
<1>3. (OrphansOver /\ StageLate /\ Failed)'
  BY DEF OrphansOver, StageLate, Failed
<1>4. (OutputBy /\ OutputVerified)'
  BY DEF OutputBy, OrphansOver, OutputVerified, Final
<1>5. OutputTorn'
  BY DEF OutputTorn, OutputBy, OutputVerified, StageLate, Final
<1>6. (Removed /\ FaultsOnly)'
  BY DEF Removed, Failed, StageLate, LockHeld, Holding, Live, FaultsOnly, Final
<1>. QED  BY <1>1, <1>2, <1>3, <1>4, <1>5, <1>6

\* And its payload and marker.
LEMMA MarkStageKeeps ==
  ASSUME RenderInv, NEW r \in Run, MarkStage(r)
  PROVE  RenderInv'
<1>. USE RenderAssumption DEF RenderInv, TypeOK, Run, fs, Goto, Fail, Unchanged, Met, Troubles,
      MarkStage
<1>1. TypeOK'
  BY Codes, Checks DEF Label
<1>2. (LockHeld /\ LockTaken /\ Released)'
  BY DEF LockHeld, LockTaken, Released, Holding, Live
<1>3. (OrphansOver /\ StageLate /\ Failed)'
  BY DEF OrphansOver, StageLate, Failed
<1>4. (OutputBy /\ OutputVerified)'
  BY DEF OutputBy, OrphansOver, OutputVerified, Final
<1>5. OutputTorn'
  BY DEF OutputTorn, OutputBy, OutputVerified, StageLate, Final
<1>6. (Removed /\ FaultsOnly)'
  BY DEF Removed, Failed, StageLate, LockHeld, Holding, Live, FaultsOnly, Final
<1>. QED  BY <1>1, <1>2, <1>3, <1>4, <1>5, <1>6

\* A container ends.
LEMMA ContainerEndsKeeps ==
  ASSUME RenderInv, NEW r \in Run, ContainerEnds(r)
  PROVE  RenderInv'
<1>. USE RenderAssumption DEF RenderInv, TypeOK, Run, fs, Goto, Fail, Unchanged, Met, Troubles,
      ContainerEnds, Written, LastContainer
<1>1. TypeOK'
  BY Codes, Checks DEF Label
<1>2. (LockHeld /\ LockTaken /\ Released)'
  BY DEF LockHeld, LockTaken, Released, Holding, Live
<1>3. (OrphansOver /\ StageLate /\ Failed)'
  BY DEF OrphansOver, StageLate, Failed
<1>4. (OutputBy /\ OutputVerified)'
  BY DEF OutputBy, OrphansOver, OutputVerified, Final
<1>5. OutputTorn'
  BY DEF OutputTorn, OutputBy, OutputVerified, StageLate, Final
<1>6. (Removed /\ FaultsOnly)'
  BY DEF Removed, Failed, StageLate, LockHeld, Holding, Live, FaultsOnly, Final
<1>. QED  BY <1>1, <1>2, <1>3, <1>4, <1>5, <1>6

\* Or exceeds its bound.
LEMMA ContainerTimesOutKeeps ==
  ASSUME RenderInv, NEW r \in Run, ContainerTimesOut(r)
  PROVE  RenderInv'
<1>. USE RenderAssumption DEF RenderInv, TypeOK, Run, fs, Goto, Fail, Unchanged, Met, Troubles,
      ContainerTimesOut, Written
<1>1. TypeOK'
  BY Codes, Checks DEF Label
<1>2. (LockHeld /\ LockTaken /\ Released)'
  BY DEF LockHeld, LockTaken, Released, Holding, Live
<1>3. (OrphansOver /\ StageLate /\ Failed)'
  BY DEF OrphansOver, StageLate, Failed
<1>4. (OutputBy /\ OutputVerified)'
  BY DEF OutputBy, OrphansOver, OutputVerified, Final
<1>5. OutputTorn'
  BY DEF OutputTorn, OutputBy, OutputVerified, StageLate, Final
<1>6. (Removed /\ FaultsOnly)'
  BY DEF Removed, Failed, StageLate, LockHeld, Holding, Live, FaultsOnly, Final
<1>. QED  BY <1>1, <1>2, <1>3, <1>4, <1>5, <1>6

\* And is removed, or is not.
LEMMA RemoveContainerKeeps ==
  ASSUME RenderInv, NEW r \in Run, RemoveContainer(r)
  PROVE  RenderInv'
<1>. USE RenderAssumption DEF RenderInv, TypeOK, Run, fs, Goto, Fail, Unchanged, Met, Troubles,
      RemoveContainer, TimeoutReported
<1>1. TypeOK'
  BY Codes, Checks DEF Label
<1>2. (LockHeld /\ LockTaken /\ Released)'
  BY DEF LockHeld, LockTaken, Released, Holding, Live
<1>3. (OrphansOver /\ StageLate /\ Failed)'
  BY DEF OrphansOver, StageLate, Failed
<1>4. (OutputBy /\ OutputVerified)'
  BY DEF OutputBy, OrphansOver, OutputVerified, Final
<1>5. OutputTorn'
  BY DEF OutputTorn, OutputBy, OutputVerified, StageLate, Final
<1>6. (Removed /\ FaultsOnly)'
  BY DEF Removed, Failed, StageLate, LockHeld, Holding, Live, FaultsOnly, Final
<1>. QED  BY <1>1, <1>2, <1>3, <1>4, <1>5, <1>6

\* VerifyOutput, and the manifest.
LEMMA VerifyKeeps ==
  ASSUME RenderInv, NEW r \in Run, Verify(r)
  PROVE  RenderInv'
<1>. USE RenderAssumption DEF RenderInv, TypeOK, Run, fs, Goto, Fail, Unchanged, Met, Troubles, Verify
<1>1. TypeOK'
  BY Codes, Checks DEF Label
<1>2. (LockHeld /\ LockTaken /\ Released)'
  BY DEF LockHeld, LockTaken, Released, Holding, Live
<1>3. (OrphansOver /\ StageLate /\ Failed)'
  BY DEF OrphansOver, StageLate, Failed
<1>4. (OutputBy /\ OutputVerified)'
  BY DEF OutputBy, OrphansOver, OutputVerified, Final
<1>5. OutputTorn'
  BY DEF OutputTorn, OutputBy, OutputVerified, StageLate, Final
<1>6. (Removed /\ FaultsOnly)'
  BY DEF Removed, Failed, StageLate, LockHeld, Holding, Live, FaultsOnly, Final
<1>. QED  BY <1>1, <1>2, <1>3, <1>4, <1>5, <1>6

\* Publish renames the payload.
LEMMA PublishKeeps ==
  ASSUME RenderInv, NEW r \in Run, Publish(r)
  PROVE  RenderInv'
<1>. USE RenderAssumption DEF RenderInv, TypeOK, Run, fs, Goto, Fail, Unchanged, Met, Troubles, Publish
<1>1. TypeOK'
  <2>1. Output(r, payload[r] = "verified") \in Final
    BY Outputs, Zenon
  <2>2. final' \in Final
    BY <2>1
  <2>3. pc' \in [Run -> Label] /\ err' \in [Run -> Code \cup {"none", "other"}]
    BY Codes DEF Label
  <2>4. payload' \in [Run -> {"none", "empty", "partial", "verified"}]
    OBVIOUS
  <2>. QED  BY <2>2, <2>3, <2>4
<1>2. (LockHeld /\ LockTaken /\ Released)'
  BY DEF LockHeld, LockTaken, Released, Holding, Live
<1>3. (OrphansOver /\ StageLate /\ Failed)'
  BY DEF OrphansOver, StageLate, Failed
<1>4. (OutputBy /\ OutputVerified)'
  BY DEF OutputBy, OrphansOver, OutputVerified, Final, Output
<1>5. OutputTorn'
  <2>1. payload[r] = "verified"
    BY DEF OutputVerified
  <2>2. CASE UNCHANGED final
    BY <2>2 DEF OutputTorn, OutputBy, StageLate, Final
  <2>3. CASE final' = Output(r, TRUE)
    BY <2>3 DEF OutputTorn, Output
  <2>. QED  BY <2>1, <2>2, <2>3
<1>6. (Removed /\ FaultsOnly)'
  <2>1. FaultsOnly'
    BY DEF FaultsOnly
  <2>2. CASE UNCHANGED final
    <3>1. r \in Renders => final.is # "output"
      BY DEF Removed
    <3>2. \A s \in Renders : s # r => pc'[s] \notin
            {"preflight", "stage", "mark", "container", "remove", "verify",
             "publish", "discard", "release"}
      BY DEF LockHeld, Holding, Live
    <3>. QED  BY <2>1, <2>2, <3>1, <3>2 DEF Removed
  <2>3. CASE pc' = [pc EXCEPT ![r] = "discard"] /\ UNCHANGED err
    BY <2>1, <2>3 DEF Removed, Failed, LockHeld, Holding, Live
  <2>. QED  BY <2>2, <2>3
<1>. QED  BY <1>1, <1>2, <1>3, <1>4, <1>5, <1>6

\* DiscardStage removes the stage.
LEMMA DiscardKeeps ==
  ASSUME RenderInv, NEW r \in Run, Discard(r)
  PROVE  RenderInv'
<1>. USE RenderAssumption DEF RenderInv, TypeOK, Run, fs, Goto, Fail, Unchanged, Met, Troubles,
      Discard, Owns
<1>1. TypeOK'
  BY Codes, Checks DEF Label
<1>2. (LockHeld /\ LockTaken /\ Released)'
  BY DEF LockHeld, LockTaken, Released, Holding, Live
<1>3. (OrphansOver /\ StageLate /\ Failed)'
  BY DEF OrphansOver, StageLate, Failed
<1>4. (OutputBy /\ OutputVerified)'
  BY DEF OutputBy, OrphansOver, OutputVerified, Final
<1>5. OutputTorn'
  BY DEF OutputTorn, OutputBy, OutputVerified, StageLate, Final
<1>6. (Removed /\ FaultsOnly)'
  BY DEF Removed, Failed, StageLate, LockHeld, Holding, Live, FaultsOnly, Final
<1>. QED  BY <1>1, <1>2, <1>3, <1>4, <1>5, <1>6

\* Or fails.
LEMMA DiscardFailsKeeps ==
  ASSUME RenderInv, NEW r \in Run, DiscardFails(r)
  PROVE  RenderInv'
<1>. USE RenderAssumption DEF RenderInv, TypeOK, Run, fs, Goto, Fail, Unchanged, Met, Troubles,
      DiscardFails, Owns, MoreSevere
<1>1. TypeOK'
  BY Codes, Checks DEF Label
<1>2. (LockHeld /\ LockTaken /\ Released)'
  BY DEF LockHeld, LockTaken, Released, Holding, Live
<1>3. (OrphansOver /\ StageLate /\ Failed)'
  BY DEF OrphansOver, StageLate, Failed
<1>4. (OutputBy /\ OutputVerified)'
  BY DEF OutputBy, OrphansOver, OutputVerified, Final
<1>5. OutputTorn'
  BY DEF OutputTorn, OutputBy, OutputVerified, StageLate, Final
<1>6. (Removed /\ FaultsOnly)'
  BY DEF Removed, Failed, StageLate, LockHeld, Holding, Live, FaultsOnly, Final
<1>. QED  BY <1>1, <1>2, <1>3, <1>4, <1>5, <1>6

\* Clean removes the stages it owns.
LEMMA RemoveStagesKeeps ==
  ASSUME RenderInv, NEW r \in Run, RemoveStages(r)
  PROVE  RenderInv'
<1>. USE RenderAssumption DEF RenderInv, TypeOK, Run, fs, Goto, Fail, Unchanged, Met, Troubles,
      RemoveStages, Owns
<1>1. TypeOK'
  BY Codes, Checks DEF Label
<1>2. (LockHeld /\ LockTaken /\ Released)'
  BY DEF LockHeld, LockTaken, Released, Holding, Live
<1>3. (OrphansOver /\ StageLate /\ Failed)'
  BY DEF OrphansOver, StageLate, Failed
<1>4. (OutputBy /\ OutputVerified)'
  BY DEF OutputBy, OrphansOver, OutputVerified, Final
<1>5. OutputTorn'
  BY DEF OutputTorn, OutputBy, OutputVerified, StageLate, Final
<1>6. (Removed /\ FaultsOnly)'
  <2>1. FaultsOnly'
    BY DEF FaultsOnly
  <2>2. \A s \in Run : stage'[s] # "none" => stage[s] # "none"
    OBVIOUS
  <2>3. err[r] = "none"
    BY DEF Failed
  <2>. QED  BY <2>1, <2>2, <2>3 DEF Removed
<1>. QED  BY <1>1, <1>2, <1>3, <1>4, <1>5, <1>6

\* Release unlinks the lock.
LEMMA ReleaseKeeps ==
  ASSUME RenderInv, NEW r \in Run, Release(r)
  PROVE  RenderInv'
<1>. USE RenderAssumption DEF RenderInv, TypeOK, Run, fs, Goto, Fail, Unchanged, Met, Troubles, Release
<1>1. TypeOK'
  BY Codes, Checks DEF Label
<1>2. (LockHeld /\ LockTaken /\ Released)'
  <2>1. ASSUME NEW s \in Run, s # r
        PROVE  pc'[s] = pc[s] /\ met'[s] = met[s]
    BY <2>1
  <2>2. pc'[r] = "end" /\ ((lock' = None /\ lock = r) \/ (lock' = lock /\ "RELEASE" \in met'[r]))
    <3>1. met \in [Run -> SUBSET Troubles] /\ pc \in [Run -> Label]
      OBVIOUS
    <3>2. pc'[r] = "end" /\ lock = r
      BY <3>1 DEF LockHeld, Holding, Live
    <3>3. CASE Met(r, "RELEASE") /\ UNCHANGED lock
      <4>1. met'[r] = met[r] \cup {"RELEASE"} /\ lock' = lock
        BY <3>1, <3>3
      <4>. QED  BY ONLY <3>2, <4>1
    <3>4. CASE lock' = IF lock = r THEN None ELSE lock
      <4>1. lock' = None
        BY <3>2, <3>4
      <4>. QED  BY ONLY <3>2, <4>1
    <3>. QED  BY <3>3, <3>4
  <2>3. lock' = lock \/ lock' = None
    OBVIOUS
  <2>. QED  BY <2>1, <2>2, <2>3 DEF LockHeld, LockTaken, Released, Holding, Live
<1>3. (OrphansOver /\ StageLate /\ Failed)'
  BY DEF OrphansOver, StageLate, Failed
<1>4. (OutputBy /\ OutputVerified)'
  BY DEF OutputBy, OrphansOver, OutputVerified, Final
<1>5. OutputTorn'
  BY DEF OutputTorn, OutputBy, OutputVerified, StageLate, Final
<1>6. (Removed /\ FaultsOnly)'
  BY DEF Removed, Failed, StageLate, LockHeld, Holding, Live, FaultsOnly, Final
<1>. QED  BY <1>1, <1>2, <1>3, <1>4, <1>5, <1>6

\* A command is killed.
LEMMA KillKeeps ==
  ASSUME RenderInv, NEW r \in Run, Kill(r)
  PROVE  RenderInv'
<1>. USE RenderAssumption DEF RenderInv, TypeOK, Run, fs, Goto, Fail, Unchanged, Met, Troubles, Kill,
      Live
<1>1. TypeOK'
  BY Codes, Checks DEF Label
<1>2. (LockHeld /\ LockTaken /\ Released)'
  BY DEF LockHeld, LockTaken, Released, Holding, Live
<1>3. (OrphansOver /\ StageLate /\ Failed)'
  BY DEF OrphansOver, StageLate, Failed
<1>4. (OutputBy /\ OutputVerified)'
  BY DEF OutputBy, OrphansOver, OutputVerified, Final
<1>5. OutputTorn'
  BY DEF OutputTorn, OutputBy, OutputVerified, StageLate, Final
<1>6. (Removed /\ FaultsOnly)'
  BY DEF Removed, Failed, StageLate, LockHeld, Holding, Live, FaultsOnly, Final
<1>. QED  BY <1>1, <1>2, <1>3, <1>4, <1>5, <1>6

\* A container nobody waits for writes.
LEMMA OrphanWritesKeeps ==
  ASSUME RenderInv, NEW r \in Run, OrphanWrites(r)
  PROVE  RenderInv'
<1>. USE RenderAssumption DEF RenderInv, TypeOK, Run, fs, Goto, Fail, Unchanged, Met, Troubles,
      OrphanWrites
<1>1. TypeOK'
  <2>1. [final EXCEPT !.whole = FALSE] \in Final
    BY DEF Final
  <2>2. final' \in Final
    BY <2>1
  <2>3. payload' \in [Run -> {"none", "empty", "partial", "verified"}]
    OBVIOUS
  <2>. QED  BY <2>2, <2>3
<1>2. (LockHeld /\ LockTaken /\ Released)'
  BY DEF LockHeld, LockTaken, Released, Holding, Live
<1>3. (OrphansOver /\ StageLate /\ Failed)'
  BY DEF OrphansOver, StageLate, Failed
<1>4. (OutputBy /\ OutputVerified)'
  BY DEF OutputBy, OrphansOver, OutputVerified, Final
<1>5. OutputTorn'
  BY DEF OutputTorn, OutputBy, OutputVerified, StageLate, Final
<1>6. (Removed /\ FaultsOnly)'
  BY DEF Removed, Failed, StageLate, LockHeld, Holding, Live, FaultsOnly, Final
<1>. QED  BY <1>1, <1>2, <1>3, <1>4, <1>5, <1>6

\* And ends.
LEMMA OrphanEndsKeeps ==
  ASSUME RenderInv, NEW r \in Run, OrphanEnds(r)
  PROVE  RenderInv'
<1>. USE RenderAssumption DEF RenderInv, TypeOK, Run, fs, Goto, Fail, Unchanged, Met, Troubles,
      OrphanEnds
<1>1. TypeOK'
  BY Codes, Checks DEF Label
<1>2. (LockHeld /\ LockTaken /\ Released)'
  BY DEF LockHeld, LockTaken, Released, Holding, Live
<1>3. (OrphansOver /\ StageLate /\ Failed)'
  BY DEF OrphansOver, StageLate, Failed
<1>4. (OutputBy /\ OutputVerified)'
  BY DEF OutputBy, OrphansOver, OutputVerified, Final
<1>5. OutputTorn'
  BY DEF OutputTorn, OutputBy, OutputVerified, StageLate, Final
<1>6. (Removed /\ FaultsOnly)'
  BY DEF Removed, Failed, StageLate, LockHeld, Holding, Live, FaultsOnly, Final
<1>. QED  BY <1>1, <1>2, <1>3, <1>4, <1>5, <1>6

\* The operator recovers.
LEMMA RecoverKeeps ==
  ASSUME RenderInv, Recover
  PROVE  RenderInv'
<1>. USE RenderAssumption DEF RenderInv, TypeOK, Run, Recover
<1>1. TypeOK'
  OBVIOUS
<1>2. (LockHeld /\ LockTaken /\ Released)'
  BY DEF LockHeld, LockTaken, Released, Holding, Live
<1>3. (OrphansOver /\ StageLate /\ Failed)'
  BY DEF OrphansOver, StageLate, Failed
<1>4. (OutputBy /\ OutputVerified)'
  BY DEF OutputBy, OutputVerified, Live
<1>5. OutputTorn'
  BY DEF OutputTorn, Final
<1>6. (Removed /\ FaultsOnly)'
  BY DEF Removed, FaultsOnly, Live
<1>. QED  BY <1>1, <1>2, <1>3, <1>4, <1>5, <1>6

-----------------------------------------------------------------------------
\* RenderInv holds at first, every step keeps it: it is an invariant.
THEOREM Invariance == Spec => []RenderInv
<1>1. Init => RenderInv
  <2>. SUFFICES ASSUME Init PROVE RenderInv
    OBVIOUS
  <2>. USE RenderAssumption DEF Init, Run
  <2>1. TypeOK
    <3>1. final \in Final
      BY Outputs DEF Final, Absent
    <3>2. wrong \in [Run -> SUBSET Code]
      OBVIOUS
    <3>. QED  BY <3>1, <3>2, Checks DEF TypeOK, Label
  <2>2. LockHeld /\ LockTaken /\ Released /\ OrphansOver /\ StageLate /\ Failed /\ OutputVerified
    BY DEF LockHeld, LockTaken, Released, OrphansOver, StageLate, Failed, OutputVerified, Holding,
         Live
  <2>3. OutputBy /\ OutputTorn /\ Removed /\ FaultsOnly
    BY DEF OutputBy, OutputTorn, Removed, FaultsOnly, Output, Absent
  <2>. QED  BY <2>1, <2>2, <2>3 DEF RenderInv
<1>2. RenderInv /\ [Next]_vars => RenderInv'
  <2>. SUFFICES ASSUME RenderInv, [Next]_vars PROVE RenderInv'
    OBVIOUS
  <2>1. ASSUME NEW r \in Run, Step(r) PROVE RenderInv'
    BY <2>1, StartKeeps, AcquireKeeps, AcquireBusyKeeps, InspectFinalKeeps,
       RemoveFinalKeeps, CheckBeforeKeeps, MakeStageKeeps, MarkStageKeeps,
       ContainerEndsKeeps, ContainerTimesOutKeeps, RemoveContainerKeeps, VerifyKeeps,
       PublishKeeps, DiscardKeeps, DiscardFailsKeeps, RemoveStagesKeeps, ReleaseKeeps
       DEF Step
  <2>2. CASE UNCHANGED vars
    <3>. USE <2>2 DEF vars, fs, RenderInv
    <3>1. (TypeOK /\ LockHeld /\ LockTaken /\ Released /\ OrphansOver /\ StageLate /\ Failed)'
      BY DEF TypeOK, LockHeld, LockTaken, Released, OrphansOver, StageLate, Failed, Holding, Live
    <3>2. (OutputBy /\ OutputTorn /\ OutputVerified /\ Removed /\ FaultsOnly)'
      BY DEF OutputBy, OutputTorn, OutputVerified, Removed, FaultsOnly
    <3>. QED  BY <3>1, <3>2
  <2>. QED
    BY <2>1, <2>2, KillKeeps, OrphanWritesKeeps, OrphanEndsKeeps, RecoverKeeps DEF Next
<1>. QED  BY <1>1, <1>2, PTL DEF Spec

\* Every reachable state is well typed.
THEOREM TypeCorrect == Spec => []TypeOK
<1>1. RenderInv => TypeOK
  BY DEF RenderInv
<1>. QED  BY <1>1, Invariance, PTL

\* Two commands are never both between acquire and release (structurizr-fs.ts),
\* wherever commands are killed and the lock is removed by hand.
THEOREM OneAtATime == Spec => []Exclusive
<1>1. RenderInv => Exclusive
  BY DEF RenderInv, LockHeld, Exclusive
<1>. QED  BY <1>1, Invariance, PTL

\* A lock that stays behind is of a command that was killed, that could not write its record
\* into it or whose unlinking of it failed: every other failure passes through the release.
THEOREM LockReleased == Spec => []Released
<1>1. RenderInv => Released
  BY DEF RenderInv
<1>. QED  BY <1>1, Invariance, PTL

\* What publish put at the output path stays whole and verified, whatever the
\* containers of killed and timed-out renders still write.
THEOREM WholeOutput == Spec => []PublishedWhole
<1>1. RenderInv => PublishedWhole
  BY DEF RenderInv, OutputTorn, PublishedWhole
<1>. QED  BY <1>1, Invariance, PTL

\* A stage is removed by its own run or by the operator: clean removes none.
THEOREM OwnStages == Spec => OwnStageOnly
<1>1. RenderInv /\ [Next]_vars =>
        [\A r \in Run : stage[r] # "none" /\ stage'[r] = "none" =>
           pc[r] = "discard" \/ \A s \in Run : ~Live(s)]_vars
  <2>. SUFFICES ASSUME RenderInv, [Next]_vars,
                       NEW r \in Run, stage[r] # "none", stage'[r] = "none"
                PROVE  pc[r] = "discard" \/ \A s \in Run : ~Live(s)
    OBVIOUS
  <2>. USE DEF RenderInv, TypeOK, fs
  <2>1. CASE Recover
    BY <2>1 DEF Recover
  <2>2. ASSUME NEW q \in Run,
               \/ Start(q) \/ Acquire(q) \/ AcquireBusy(q) \/ InspectFinal(q)
               \/ RemoveFinal(q) \/ CheckBefore(q) \/ MakeStage(q) \/ MarkStage(q)
               \/ ContainerEnds(q) \/ ContainerTimesOut(q) \/ RemoveContainer(q)
               \/ Verify(q) \/ Publish(q) \/ DiscardFails(q) \/ Release(q)
               \/ Kill(q) \/ OrphanWrites(q) \/ OrphanEnds(q)
        PROVE  FALSE
    BY <2>2 DEF Start, Acquire, AcquireBusy, InspectFinal, RemoveFinal, CheckBefore,
         MakeStage, MarkStage, ContainerEnds, ContainerTimesOut, RemoveContainer,
         Verify, Publish, DiscardFails, Release, Kill, OrphanWrites, OrphanEnds
  <2>3. ASSUME NEW q \in Run, Discard(q) PROVE pc[r] = "discard"
    BY <2>3 DEF Discard
  <2>4. ASSUME NEW q \in Run, RemoveStages(q) PROVE FALSE
    BY <2>4 DEF RemoveStages, Owns, StageLate
  <2>5. stage' # stage
    OBVIOUS
  <2>. QED  BY <2>1, <2>2, <2>3, <2>4, <2>5 DEF Next, Step, vars
<1>. QED  BY <1>1, Invariance, PTL DEF Spec, OwnStageOnly

\* A render that fails with a code other than LOCK_BUSY leaves no output at the
\* output path, as long as the pin is not what is wrong: removeSafeFinal comes
\* before every other check of render, but after the command line's loadPin.
THEOREM NoOutputAfterFailure ==
  ASSUME "PIN" \notin Faults PROVE Spec => NoStaleSuccess
<1>1. RenderInv /\ [Next]_vars =>
        [\A r \in Renders :
           pc[r] # "end" /\ pc'[r] = "end" /\ err'[r] \notin {"none", "LOCK_BUSY", "other"}
             => final'.is # "output"]_vars
  <2>. SUFFICES ASSUME RenderInv, [Next]_vars, NEW r \in Renders,
                       pc[r] # "end", pc'[r] = "end",
                       err'[r] \notin {"none", "LOCK_BUSY", "other"}
                PROVE  final'.is # "output"
    OBVIOUS
  <2>. USE DEF RenderInv, TypeOK, fs, Goto, Fail, Unchanged, Run
  <2>1. pc' # pc /\ r \in Run
    OBVIOUS
  <2>2. ASSUME NEW q \in Run, Release(q) PROVE final'.is # "output"
    BY <2>2 DEF Release, Removed
  <2>3. ASSUME NEW q \in Run, Start(q) \/ Acquire(q) \/ AcquireBusy(q) PROVE FALSE
    BY <2>3 DEF Start, Acquire, AcquireBusy, FaultsOnly
  <2>4. ASSUME NEW q \in Run,
               \/ InspectFinal(q) \/ RemoveFinal(q) \/ CheckBefore(q) \/ MakeStage(q)
               \/ MarkStage(q) \/ ContainerEnds(q) \/ ContainerTimesOut(q)
               \/ RemoveContainer(q) \/ Verify(q) \/ Publish(q) \/ Discard(q)
               \/ DiscardFails(q) \/ RemoveStages(q) \/ Kill(q)
        PROVE  FALSE
    BY <2>4 DEF InspectFinal, RemoveFinal, CheckBefore, MakeStage, MarkStage,
         ContainerEnds, ContainerTimesOut, RemoveContainer, TimeoutReported, Verify,
         Publish, Discard, DiscardFails, RemoveStages, Kill, AfterFinal, AfterFailure
  <2>5. ASSUME NEW q \in Run, OrphanWrites(q) \/ OrphanEnds(q) \/ Recover PROVE FALSE
    BY <2>1, <2>5 DEF OrphanWrites, OrphanEnds, Recover
  <2>. QED  BY <2>1, <2>2, <2>3, <2>4, <2>5 DEF Next, Step, vars
<1>. QED  BY <1>1, Invariance, PTL DEF Spec, NoStaleSuccess

-----------------------------------------------------------------------------
(* The order of the codes.                                                 *)

LEMMA Ranks ==
  /\ Rank("LOCK_BUSY") = 1 /\ Rank("UNSAFE_OUTPUT") = 2 /\ Rank("PATH") = 3
  /\ Rank("PIN") = 4 /\ Rank("SOURCE") = 5 /\ Rank("DOCKER") = 6 /\ Rank("PLATFORM") = 7
  /\ Rank("IMAGE") = 8 /\ Rank("BUN_VERSION") = 9 /\ Rank("DSL") = 10 /\ Rank("JSON") = 11
  /\ Rank("SVG") = 12 /\ Rank("CONSISTENCY") = 13 /\ Rank("PUBLISH") = 14
  /\ Rank("CLEANUP") = 15
<1>1. DOMAIN Precedence = 1..15
  BY DEF Precedence
<1>2. ASSUME NEW i \in 1..15 PROVE Rank(Precedence[i]) = i
  <2>1. \A j \in 1..15 : Precedence[j] = Precedence[i] => j = i
    BY DEF Precedence
  <2>. QED  BY <1>1, <2>1 DEF Rank
<1>. QED  BY <1>2 DEF Precedence

\* A code whose line has not more ends before it is on no later line.
LEMMA LineOrder ==
  ASSUME NEW a \in Code, NEW b \in Code, \A e \in LineEnds : e < Rank(a) => e < Rank(b)
  PROVE  Line(a) \leq Line(b)
<1>1. PICK n \in Nat : n = 15 /\ IsFiniteSet(1..n)
  BY FS_Interval
<1>2. LineEnds \in SUBSET (1..n)
  BY <1>1 DEF LineEnds
<1>3. IsFiniteSet(LineEnds)
  BY <1>1, <1>2, FS_Subset
<1>4. IsFiniteSet({e \in LineEnds : e < Rank(b)})
  BY <1>3, FS_Subset
<1>5. {e \in LineEnds : e < Rank(a)} \in SUBSET {e \in LineEnds : e < Rank(b)}
  OBVIOUS
<1>. QED  BY <1>4, <1>5, FS_Subset DEF Line

\* The codes on each line from the second, and those of it and of the lines after it.
Lines == <<{"UNSAFE_OUTPUT", "PATH"}, {"PIN", "SOURCE"},
           {"DOCKER", "PLATFORM", "IMAGE", "BUN_VERSION"}, {"DSL"}, {"JSON", "SVG"},
           {"CONSISTENCY"}, {"PUBLISH", "CLEANUP"}>>
From(i) == UNION {Lines[j] : j \in i..7}

LEMMA LineOf ==
  /\ \A f \in Code : Line("LOCK_BUSY") \leq Line(f)
  /\ \A i \in 1..7 : \A e \in Lines[i], f \in From(i) : Line(e) \leq Line(f)
  /\ Code = {"LOCK_BUSY"} \cup From(1)
<1>1. Code = {"LOCK_BUSY"} \cup From(1)
  BY Codes DEF From, Lines
<1>2. \A f \in Code : Line("LOCK_BUSY") \leq Line(f)
  BY Ranks, LineOrder, Codes DEF LineEnds
<1>3. ASSUME NEW i \in 1..7, NEW e \in Lines[i], NEW f \in From(i)
      PROVE  Line(e) \leq Line(f)
  <2>1. PICK j \in i..7 : f \in Lines[j]
    BY DEF From
  <2>2. e \in Code /\ f \in Code
    BY <2>1, Codes DEF Lines
  <2>3. \A x \in LineEnds : x < Rank(e) => x < Rank(f)
    BY <2>1, Ranks DEF Lines, LineEnds
  <2>. QED  BY <2>2, <2>3, LineOrder
<1>. QED  BY <1>1, <1>2, <1>3

-----------------------------------------------------------------------------
(* What a render has found in order before it goes on.                     *)

\* From the inspection on, nothing unsafe stands at the output path.
SafeOutput ==
  \A r \in Run :
    pc[r] \in {"removing", "preflight", "stage", "mark", "container", "remove", "verify",
               "publish"} => final.is # "unsafe"

\* What a run has checked was not wrong.
Passed ==
  \A r \in Run :
    /\ \A j \in 1..(at[r] - 1) : Containers[j] \notin wrong[r]
    /\ pc[r] \in {"stage", "mark", "container", "remove", "verify", "publish"}
         => \A i \in DOMAIN Preflight : Preflight[i] \notin wrong[r]
    /\ pc[r] \in {"verify", "publish"}
         => \A j \in 1..Len(Containers) : Containers[j] \notin wrong[r]
    /\ pc[r] = "publish" => "CONSISTENCY" \notin wrong[r]

OrderInv == RenderInv /\ SafeOutput /\ Passed

\* Nothing in the model puts something unsafe at the output path, and only the inspection
\* that found nothing unsafe goes on.
LEMMA SafeOutputKept ==
  ASSUME RenderInv, SafeOutput, Next
  PROVE  SafeOutput'
<1>. USE DEF RenderInv, TypeOK, fs, Goto, Fail, Unchanged, Run
<1>1. ASSUME NEW q \in Run, InspectFinal(q) PROVE SafeOutput'
  BY <1>1 DEF InspectFinal, SafeOutput, AfterFinal, AfterFailure, Output
<1>2. ASSUME NEW q \in Run,
             Start(q) \/ Acquire(q) \/ AcquireBusy(q) \/ RemoveFinal(q) \/ CheckBefore(q)
      PROVE  SafeOutput'
  BY <1>2 DEF Start, Acquire, AcquireBusy, RemoveFinal, CheckBefore, SafeOutput,
       AfterFinal, AfterFailure, Absent
<1>3. ASSUME NEW q \in Run,
             \/ MakeStage(q) \/ MarkStage(q) \/ ContainerEnds(q) \/ ContainerTimesOut(q)
             \/ RemoveContainer(q) \/ Verify(q) \/ Publish(q)
      PROVE  SafeOutput'
  BY <1>3 DEF MakeStage, MarkStage, ContainerEnds, ContainerTimesOut, RemoveContainer,
       TimeoutReported, Verify, Publish, SafeOutput, Output
<1>4. ASSUME NEW q \in Run,
             Discard(q) \/ DiscardFails(q) \/ RemoveStages(q) \/ Release(q) \/ Kill(q)
      PROVE  SafeOutput'
  BY <1>4 DEF Discard, DiscardFails, RemoveStages, Release, Kill, SafeOutput
<1>5. ASSUME NEW q \in Run, OrphanWrites(q) \/ OrphanEnds(q) PROVE SafeOutput'
  BY <1>5 DEF OrphanWrites, OrphanEnds, SafeOutput, Final
<1>6. CASE Recover
  BY <1>6 DEF Recover, SafeOutput
<1>. QED  BY <1>1, <1>2, <1>3, <1>4, <1>5, <1>6 DEF Next, Step

\* A check is passed only when nothing it looks at is wrong.
LEMMA PassedKept ==
  ASSUME RenderInv, Passed, Next
  PROVE  Passed'
<1>. USE DEF RenderInv, TypeOK, fs, Goto, Fail, Unchanged, Run
<1>1. ASSUME NEW q \in Run, CheckBefore(q) PROVE Passed'
  <2>1. FirstWrong(q, Preflight) = {} => \A i \in DOMAIN Preflight : Preflight[i] \notin wrong[q]
    <3>. SUFFICES ASSUME FirstWrong(q, Preflight) = {}
                  PROVE  \A i \in 1..4 : Preflight[i] \notin wrong[q]
      BY DEF Preflight
    <3>1. ASSUME NEW i \in 1..4, \A j \in 1..(i - 1) : Preflight[j] \notin wrong[q]
          PROVE  Preflight[i] \notin wrong[q]
      <4>1. i \in DOMAIN Preflight
        BY DEF Preflight
      <4>. QED  BY <3>1, <4>1 DEF FirstWrong
    <3>2. Preflight[1] \notin wrong[q]
      BY <3>1
    <3>3. Preflight[2] \notin wrong[q]
      BY <3>1, <3>2
    <3>4. Preflight[3] \notin wrong[q]
      BY <3>1, <3>2, <3>3
    <3>5. Preflight[4] \notin wrong[q]
      BY <3>1, <3>2, <3>3, <3>4
    <3>. QED  BY <3>2, <3>3, <3>4, <3>5
  <2>. QED  BY <1>1, <2>1 DEF CheckBefore, Passed
<1>2. ASSUME NEW q \in Run, ContainerEnds(q) PROVE Passed'
  <2>1. CASE Containers[at[q]] \in wrong[q]
    BY <1>2, <2>1 DEF ContainerEnds, Passed
  <2>2. CASE Containers[at[q]] \notin wrong[q] /\ LastContainer(q)
    BY <1>2, <2>2, Checks DEF ContainerEnds, LastContainer, Passed
  <2>3. CASE Containers[at[q]] \notin wrong[q] /\ ~LastContainer(q)
    BY <1>2, <2>3, Checks DEF ContainerEnds, LastContainer, Passed
  <2>. QED  BY <2>1, <2>2, <2>3
<1>3. ASSUME NEW q \in Run, Verify(q) PROVE Passed'
  BY <1>3 DEF Verify, Passed
<1>4. ASSUME NEW q \in Run,
             \/ Start(q) \/ Acquire(q) \/ AcquireBusy(q) \/ InspectFinal(q) \/ RemoveFinal(q)
      PROVE  Passed'
  <2>1. /\ UNCHANGED <<at, wrong>>
        /\ \A p \in Run : pc'[p] = pc[p] \/ pc'[p] \in {"end", "acquire", "final", "preflight",
                                              "stages", "discard", "release", "removing"}
    <3>1. CASE Start(q) \/ Acquire(q) \/ AcquireBusy(q)
      BY <3>1 DEF Start, Acquire, AcquireBusy
    <3>2. CASE InspectFinal(q)
      BY <3>2 DEF InspectFinal, AfterFinal, AfterFailure
    <3>3. CASE RemoveFinal(q)
      BY <3>3 DEF RemoveFinal, AfterFinal, AfterFailure
    <3>. QED  BY <1>4, <3>1, <3>2, <3>3
  <2>. QED  BY <2>1 DEF Passed
<1>5. ASSUME NEW q \in Run,
             Discard(q) \/ DiscardFails(q) \/ RemoveStages(q) \/ Release(q) \/ Kill(q)
      PROVE  Passed'
  BY <1>5 DEF Discard, DiscardFails, RemoveStages, Release, Kill, Passed
<1>6. ASSUME NEW q \in Run, OrphanWrites(q) \/ OrphanEnds(q) PROVE Passed'
  BY <1>6 DEF OrphanWrites, OrphanEnds, Passed
<1>7. CASE Recover
  BY <1>7 DEF Recover, Passed
<1>8. ASSUME NEW q \in Run, \/ MakeStage(q) \/ MarkStage(q) \/ ContainerTimesOut(q)
                            \/ RemoveContainer(q) \/ Publish(q)
      PROVE  Passed'
  BY <1>8 DEF MakeStage, MarkStage, ContainerTimesOut, RemoveContainer, TimeoutReported,
       Publish, Passed
<1>. QED  BY <1>1, <1>2, <1>3, <1>4, <1>5, <1>6, <1>7, <1>8 DEF Next, Step

\* What may be wrong with a render that holds the lock, as it is at the checks.
LEMMA PresentLate ==
  ASSUME RenderInv, NEW r \in Renders, Holding(r), "PIN" \notin Faults
  PROVE  /\ Present(r) \subseteq From(1)
         /\ final.is # "unsafe" => Present(r) \subseteq wrong[r]
         /\ wrong[r] \subseteq {"SOURCE"} \cup From(3)
<1>1. lock = r /\ wrong[r] \subseteq Faults
  BY DEF RenderInv, LockHeld, FaultsOnly, Run
<1>2. Faults \subseteq {"SOURCE"} \cup From(3)
  BY Codes, RenderAssumption DEF From, Lines
<1>3. {"SOURCE"} \cup From(3) \subseteq From(1) /\ "UNSAFE_OUTPUT" \in From(1)
  BY DEF From, Lines
<1>. QED  BY <1>1, <1>2, <1>3 DEF Present, Lines

\* The code a render reports is on no later line than any fault that is there.
LEMMA ReportsFirst ==
  ASSUME OrderInv, NEW r \in Renders, Next, Reports(r), "PIN" \notin Faults,
         NEW f \in Present(r)
  PROVE  Line(err'[r]) \leq Line(f)
<1>. USE DEF OrderInv, RenderInv, TypeOK, fs, Goto, Fail, Unchanged, Run
<1>1. ASSUME NEW q \in Run,
             \/ Start(q) \/ Acquire(q) \/ RemoveFinal(q) \/ ContainerTimesOut(q)
             \/ Discard(q) \/ DiscardFails(q) \/ RemoveStages(q) \/ Release(q) \/ Kill(q)
             \/ OrphanWrites(q) \/ OrphanEnds(q) \/ Recover
      PROVE  FALSE
  <2>1. err'[r] # err[r] /\ err[r] # "other" /\ err'[r] # "other"
    BY DEF Reports
  <2>2. ASSUME DiscardFails(q) PROVE FALSE
    BY <2>1, <2>2 DEF DiscardFails, MoreSevere
  <2>. QED
    BY <1>1, <2>1, <2>2, RenderAssumption DEF Start, FaultsOnly, Acquire, RemoveFinal,
       ContainerTimesOut, Discard, RemoveStages, Release, Kill, OrphanWrites, OrphanEnds,
       Recover
<1>2. ASSUME NEW q \in Run, AcquireBusy(q) PROVE Line(err'[r]) \leq Line(f)
  <2>1. err'[r] = "LOCK_BUSY"
    BY <1>2 DEF AcquireBusy, Reports
  <2>2. f \in Code
    BY Codes DEF Present
  <2>. QED  BY <2>1, <2>2, LineOf
<1>3. ASSUME NEW q \in Run, InspectFinal(q) \/ MakeStage(q) \/ MarkStage(q)
      PROVE  Line(err'[r]) \leq Line(f)
  <2>1. err'[r] \in Lines[1] /\ q = r
    BY <1>3 DEF InspectFinal, MakeStage, MarkStage, Reports, Lines
  <2>2. Holding(r)
    BY <1>3, <2>1 DEF InspectFinal, MakeStage, MarkStage, Holding, Live
  <2>3. f \in From(1)
    BY <2>2, PresentLate
  <2>. QED  BY <2>1, <2>3, LineOf
<1>4. ASSUME NEW q \in Run,
             \/ CheckBefore(q) \/ ContainerEnds(q) \/ RemoveContainer(q) \/ Verify(q)
             \/ Publish(q)
      PROVE  Line(err'[r]) \leq Line(f)
  <2>1. q = r
    BY <1>4 DEF CheckBefore, ContainerEnds, RemoveContainer, TimeoutReported, Verify,
         Publish, Reports
  <2>2. Holding(r) /\ final.is # "unsafe"
    BY <1>4, <2>1 DEF CheckBefore, ContainerEnds, RemoveContainer, Verify, Publish,
         Holding, Live, SafeOutput
  <2>3. f \in wrong[r] /\ f \in {"SOURCE"} \cup From(3) /\ f \in From(1)
    BY <2>2, PresentLate
  <2>4. CASE CheckBefore(q)
    <3>1. PICK i \in FirstWrong(r, Preflight) : err'[r] = Preflight[i]
      BY <2>1, <2>4 DEF CheckBefore, Reports
    <3>2. CASE i = 1
      <4>1. err'[r] \in Lines[2] /\ f \in From(2)
        BY <2>3, <3>1, <3>2 DEF Preflight, Lines, From
      <4>. QED  BY <4>1, LineOf
    <3>3. CASE i # 1
      <4>1. f # "SOURCE" /\ err'[r] \in Lines[3]
        BY <2>3, <3>1, <3>3 DEF FirstWrong, Preflight, Lines
      <4>2. f \in From(3)
        BY <2>3, <4>1
      <4>. QED  BY <4>1, <4>2, LineOf
    <3>. QED  BY <3>2, <3>3
  <2>5. ASSUME ~CheckBefore(q)
        PROVE  f \notin {"SOURCE", "BUN_VERSION", "DOCKER", "PLATFORM"}
    BY <1>4, <2>1, <2>3, <2>5 DEF ContainerEnds, RemoveContainer, Verify, Publish, Passed,
       Preflight
  <2>6. CASE ContainerEnds(q) \/ RemoveContainer(q)
    <3>1. err'[r] = Containers[at[r]] /\ at[r] \in 1..5
      BY <2>1, <2>6, Checks DEF ContainerEnds, RemoveContainer, TimeoutReported, Reports
    <3>2. \A j \in 1..(at[r] - 1) : f # Containers[j]
      BY <2>3 DEF Passed
    <3>3. f \in From(3)
      BY <2>3, <2>5, <2>6 DEF CheckBefore, ContainerEnds, RemoveContainer
    <3>4. /\ \A x \in From(3) : x \in Lines[3] \/ x \in From(4)
          /\ \A x \in From(4) : x \in Lines[4] \/ x \in From(5)
      BY DEF From
    <3>5. f \in Lines[3] => f = "IMAGE"
      BY <2>5, <2>6 DEF CheckBefore, ContainerEnds, RemoveContainer, Lines
    <3>6. CASE at[r] \in 1..2
      BY <3>1, <3>3, <3>6, LineOf DEF Containers, Lines
    <3>7. CASE at[r] = 3
      <4>1. f \in From(4) /\ err'[r] \in Lines[4]
        BY <3>1, <3>2, <3>3, <3>4, <3>5, <3>7 DEF Containers, Lines
      <4>. QED  BY <4>1, LineOf
    <3>8. CASE at[r] \in 4..5
      <4>1. f \in From(5) /\ err'[r] \in Lines[5]
        BY <3>1, <3>2, <3>3, <3>4, <3>5, <3>8 DEF Containers, Lines
      <4>. QED  BY <4>1, LineOf
    <3>. QED  BY <3>1, <3>6, <3>7, <3>8
  <2>7. CASE Verify(q) \/ Publish(q)
    <3>1. \A j \in 1..5 : f # Containers[j]
      BY <2>1, <2>3, <2>7, Checks DEF Verify, Publish, Passed
    <3>2. f \in From(6)
      BY <2>3, <2>5, <2>7, <3>1 DEF CheckBefore, Verify, Publish, From, Lines, Containers
    <3>3. CASE Verify(q)
      BY <2>1, <3>2, <3>3, LineOf DEF Verify, Reports, Lines
    <3>4. CASE Publish(q) /\ err'[r] = "PUBLISH"
      BY <2>1, <2>3, <3>2, <3>4, LineOf DEF Publish, Passed, Lines, From
    <3>5. CASE Publish(q) /\ err'[r] = "UNSAFE_OUTPUT"
      BY <2>3, <3>5, LineOf DEF Lines
    <3>. QED  BY <2>1, <2>7, <3>3, <3>4, <3>5 DEF Publish, Reports
  <2>. QED  BY <1>4, <2>4, <2>6, <2>7
<1>. QED  BY <1>1, <1>2, <1>3, <1>4 DEF Next, Step

\* docs/structurizr.md: the code a render reports is on the first documented line of all
\* that is wrong at that moment, as long as the pin is not what is wrong: the command line
\* loads it before the lock.
THEOREM FaultsInOrder ==
  ASSUME "PIN" \notin Faults PROVE Spec => FirstFault
<1>1. Init => SafeOutput /\ Passed
  BY DEF Init, SafeOutput, Passed
<1>2. RenderInv /\ SafeOutput /\ Passed /\ [Next]_vars => (SafeOutput /\ Passed)'
  <2>1. CASE Next
    BY <2>1, SafeOutputKept, PassedKept
  <2>2. CASE UNCHANGED vars
    BY <2>2 DEF vars, fs, SafeOutput, Passed
  <2>. QED  BY <2>1, <2>2
<1>3. RenderInv /\ SafeOutput /\ Passed /\ [Next]_vars =>
        [\A r \in Renders : Reports(r) =>
           \A f \in Present(r) : Line(err'[r]) \leq Line(f)]_vars
  BY ReportsFirst DEF OrderInv
<1>. QED  BY <1>1, <1>2, <1>3, Invariance, PTL DEF Spec, FirstFault
=============================================================================
