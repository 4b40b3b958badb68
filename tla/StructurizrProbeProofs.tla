----------------------- MODULE StructurizrProbeProofs -----------------------
(***************************************************************************)
(* Proofs about StructurizrProbe, for any engines and requests.            *)
(***************************************************************************)
EXTENDS StructurizrProbe, TLAPS

(***************************************************************************)
(* The inductive invariant.                                                *)
(***************************************************************************)
\* Before the first command there is no client; while one is pending there is.
Clients ==
  /\ at = 0 => child = "none" /\ result \in {"none", "lost"}
  /\ at > 0 /\ result = "none" => child # "none"
  /\ child = "gone" => exit # "none"
  /\ Going => result \in {"none", "ok"}
  /\ Going /\ result = "ok" => at < Len(Stages)

\* The timers of makeRunner are set for a pending command only.
Timers == timer # "off" => Pending

\* A command that succeeded has exited with 0, and its container has ended.
Succeeded == result = "ok" => child = "gone" /\ exit = "ok"
Containers ==
  /\ \A k \in containers : k = at /\ at \geq FirstContainer
  /\ child = "gone" /\ exit = "ok" => containers = {}

\* What docker info settled.
Resolved == at > 1 \/ (at = 1 /\ Going /\ result = "ok")
Targets ==
  Resolved =>
    /\ target \in Arch /\ Resolvable(asked, request) /\ target = Native(asked)
    /\ switched \/ (engine = asked /\ on = asked)

\* The containers are those of the stages so far.
Evidence ==
  /\ \A c \in ran : /\ c.stage \in FirstContainer..at /\ c.arch = target
                    /\ switched \/ c.on = asked
  /\ \A k \in FirstContainer..(at - 1) : \E c \in ran : c.stage = k
  /\ at \geq FirstContainer /\ child = "gone" /\ exit = "ok" => \E c \in ran : c.stage = at

ProbeInv ==
  /\ TypeOK
  /\ Clients
  /\ Timers
  /\ Succeeded
  /\ Containers
  /\ Targets
  /\ Evidence
  /\ SilentOnceSettled
  /\ verdict = <<"verified">> => at = Len(Stages) /\ result = "ok"

-----------------------------------------------------------------------------
(* Lemmas.                                                                 *)

\* An error is none of the other verdicts.
Others1 == {<<"none">>, <<"verified">>, <<"interrupted">>}
LEMMA ErrorsApart == Errors \cap Others1 = {}
  BY DEF Errors, Others1

\* stageFailure always gives an error.
LEMMA FailureCodes ==
  ASSUME NEW stage, NEW late \in BOOLEAN
  PROVE  FailureCode(stage, late) \in Errors
  BY DEF FailureCode, Errors

LEMMA NineStages == Len(Stages) = 9
  BY DEF Stages

\* Judge gives an error for a result that is not ok, and for ok one of three verdicts.
LEMMA Judged ==
  ASSUME NEW r \in {"ok", "failed", "late"}, NEW stage, Judge(stage, r)
  PROVE  /\ r # "ok" => verdict' \in Errors
         /\ \/ verdict' \in Errors
            \/ verdict' = <<"verified">> /\ at = 9
            \/ verdict' = <<"none">> /\ at # 9
<1>1. FailureCode(stage, r = "late") \in Errors /\ FailureCode(stage, FALSE) \in Errors
  BY FailureCodes
<1>2. <<"DEPENDENCY", "PLATFORM">> \in Errors
  BY DEF Errors
<1> QED
  BY <1>1, <1>2, NineStages DEF Judge, Passed

\* What docker info settles is a native platform.
LEMMA NativeArch ==
  ASSUME NEW e \in Engines, NEW r \in Requests, Resolvable(e, r)
  PROVE  Native(e) \in Arch /\ r.required \in {None, "flag", Native(e)}
  BY DEF Resolvable, Native, NormalArch, Arch

-----------------------------------------------------------------------------
(* The invariant holds.                                                    *)

LEMMA Inductive == ProbeInv /\ [Next]_vars => ProbeInv'
<1> USE ProbeAssumption, NineStages DEF FirstContainer
<1> SUFFICES ASSUME ProbeInv, [Next]_vars PROVE ProbeInv'
  OBVIOUS
<1> USE DEF ProbeInv
<1>1. CASE Misuse
  <2>1. <<"CONFIG", "INVOCATION">> \in Errors
    BY DEF Errors
  <2>2. TypeOK'
    BY <1>1, <2>1 DEF Misuse, TypeOK, CommandTypeOK, command, world, evidence
  <2> QED
    BY <1>1, <2>1, <2>2, ErrorsApart
       DEF Misuse, Clients, Timers, Succeeded, Containers, Resolved, Targets, Evidence,
           SilentOnceSettled, Going, Pending, command, world, evidence, Others1
<1>2. CASE Begin
  <2>1. at \in 0..8 /\ result \in {"none", "ok"} /\ (at = 0 \/ result = "ok")
    BY <1>2 DEF Begin, Clients, Going, TypeOK
  <2>2. FailureCode(Stages[at + 1], FALSE) \in Errors
    BY FailureCodes
  <2>a. /\ exit' = "none" /\ helper' = "none" /\ unread' = FALSE /\ group' = "ours"
        /\ misfires' = misfires
        /\ \/ child' = "runs" /\ timer' = "set" /\ result' = "none" /\ verdict' = verdict
           \/ child' = "none" /\ timer' = "off" /\ result' = "failed" /\ verdict' \in Errors
    BY <1>2, <2>2 DEF Begin, Spawn, Settle
  <2>b. /\ at' = at + 1 /\ on' = engine
        /\ UNCHANGED <<request, engine, images, switched, meddles, stdout, saw, target>>
        /\ UNCHANGED <<containers, ran, asked>>
    BY <1>2 DEF Begin, world, evidence
  <2>c. verdict = <<"none">>
    BY <1>2 DEF Begin, Going
  <2>3. TypeOK'
    <3>1. CommandTypeOK'
      BY <2>a DEF TypeOK, CommandTypeOK
    <3>2. at' \in 0..Len(Stages) /\ on' \in Engines
      BY <2>1, <2>b DEF TypeOK
    <3> QED
      BY <3>1, <3>2, <2>a, <2>b DEF TypeOK
  <2>4. Clients' /\ Timers' /\ Succeeded' /\ SilentOnceSettled'
    BY <2>1, <2>a, <2>b, <2>c, ErrorsApart
       DEF Clients, Timers, Succeeded, SilentOnceSettled, Pending, Going, Others1
  <2>5. Containers'
    BY <1>2, <2>1 DEF Begin, Spawn, Containers, Succeeded, evidence, Clients, Evidence, TypeOK
  <2>6. Targets'
    BY <2>1, <2>a, <2>b, <2>c DEF Targets, Resolved, Going
  <2>7. Evidence'
    BY <1>2, <2>1 DEF Begin, Spawn, Evidence, Targets, Resolved, Succeeded, world, evidence, TypeOK
  <2>8. verdict' # <<"verified">>
    BY <1>2, <2>2, ErrorsApart DEF Begin, Going, Others1
  <2> QED
    BY <2>3, <2>4, <2>5, <2>6, <2>7, <2>8
<1>3. CASE Settles
  <2>1. /\ result' \in {"ok", "failed", "late"} /\ Judge(Stages[at], result')
        /\ child = "gone" /\ at \in 1..9 /\ timer' = "off"
        /\ result' = "ok" => exit = "ok"
        /\ UNCHANGED <<child, exit, helper, unread, group, misfires>>
    BY <1>3 DEF Settles, Close, Settle, Pending, Holders, Clients, TypeOK, CommandTypeOK
  <2>2. /\ result' # "ok" => verdict' \in Errors
        /\ \/ verdict' \in Errors
           \/ verdict' = <<"verified">> /\ at = 9
           \/ verdict' = <<"none">> /\ at # 9
    BY <2>1, Judged
  <2>3. UNCHANGED <<request, engine, images, meddles, at, on, stdout, saw, containers, ran>>
    BY <1>3 DEF Settles, evidence
  <2>4. Stages[at] = "dockerInfo" <=> at = 1
    BY <2>1 DEF Stages
  <2>5. /\ at = 1 /\ verdict' = <<"none">> =>
             target' = Native(on) /\ asked' = on /\ switched' = (on # engine)
        /\ ~(at = 1 /\ verdict' = <<"none">>) => UNCHANGED <<target, asked, switched>>
    BY <1>3, <2>4 DEF Settles, Resolve
  <2>6. at = 1 /\ verdict' = <<"none">> => Resolvable(on, request)
    <3>1. <<"DEPENDENCY", "PLATFORM">> \in Errors
      BY DEF Errors
    <3>2. <<"none">> \notin Errors
      BY ErrorsApart DEF Others1
    <3> QED
      BY <2>1, <2>2, <2>4, <3>1, <3>2, FailureCodes DEF Judge, WrongPlatform
  <2>7. at = 1 /\ verdict' = <<"none">> => Native(on) \in Arch
    BY <2>6, NativeArch DEF TypeOK
  <2>8. TypeOK'
    BY <2>1, <2>2, <2>3, <2>5, <2>7 DEF TypeOK, CommandTypeOK
  <2>9. Clients' /\ Timers' /\ Succeeded' /\ SilentOnceSettled'
    BY <2>1, <2>2, <2>3, ErrorsApart
       DEF Clients, Timers, Succeeded, SilentOnceSettled, Going, Others1
  <2>10. Containers'
    BY <2>1, <2>3 DEF Containers
  <2>11. Targets'
    <3>1. CASE at = 1
      <4>1. SUFFICES ASSUME Resolved' PROVE Targets'
        BY DEF Targets
      <4>2. verdict' = <<"none">>
        BY <3>1, <2>3, <4>1 DEF Resolved, Going
      <4> QED
        BY <3>1, <4>2, <2>3, <2>5, <2>6, <2>7 DEF Targets, TypeOK
    <3>2. CASE at > 1
      BY <3>2, <2>3, <2>5 DEF Targets, Resolved
    <3> QED
      BY <3>1, <3>2, <2>1
  <2>12. Evidence'
    BY <2>1, <2>3, <2>5 DEF Evidence
  <2>13. verdict' = <<"verified">> => at' = Len(Stages) /\ result' = "ok"
    BY <2>1, <2>2, <2>3, ErrorsApart DEF Others1
  <2> QED
    BY <2>8, <2>9, <2>10, <2>11, <2>12, <2>13
<1>4. CASE Fires
  <2>1. Pending /\ Going /\ timer # "off"
    BY <1>4 DEF Fires, TimerFires, KillFires, Timers
  <2>2. Signalled /\ timer' \in {"term", "kill"} /\ UNCHANGED <<unread, group, result>>
    BY <1>4 DEF Fires, TimerFires, KillFires
  <2>3. /\ helper' \in {helper, "gone"}
        /\ \/ UNCHANGED <<child, exit>>
           \/ child = "runs" /\ child' = "gone" /\ exit' = "failed"
    BY <1>4 DEF Fires, TimerFires, KillFires
  <2>4. UNCHANGED <<request, world, at, on, stdout, saw, target, evidence, verdict, asked>>
    BY <1>4 DEF Fires
  <2>5. misfires' \subseteq misfires \union {"pending"}
    BY <2>1, <2>2 DEF Signalled
  <2> QED
    BY <2>1, <2>2, <2>3, <2>4, <2>5
       DEF TypeOK, CommandTypeOK, Clients, Timers, Succeeded, Containers, Resolved, Targets,
           Evidence, SilentOnceSettled, Pending, Going, world, evidence
<1>5. CASE Interrupt
  <2>1. verdict' = <<"interrupted">> /\ timer' = "off" /\ Going
        /\ result' = IF result = "none" THEN "lost" ELSE result
    BY <1>5 DEF Interrupt, CallerDies
  <2>2. /\ UNCHANGED <<child, exit, helper, unread, group, misfires>>
        /\ UNCHANGED <<request, world, at, on, stdout, saw, target, evidence, asked>>
    BY <1>5 DEF Interrupt, CallerDies
  <2>3. <<"interrupted">> # <<"none">> /\ <<"interrupted">> # <<"verified">>
    OBVIOUS
  <2> QED
    BY <2>1, <2>2, <2>3
       DEF TypeOK, CommandTypeOK, Clients, Timers, Succeeded, Containers, Resolved, Targets,
           Evidence, SilentOnceSettled, Pending, Going, world, evidence
<1>6. CASE ContainerStarts
  <2>1. /\ child = "runs" /\ at \in FirstContainer..9
        /\ UNCHANGED command /\ UNCHANGED stdout /\ Others
        /\ saw' = target /\ images' = [images EXCEPT ![on] = target]
        /\ containers' = containers \union {at}
        /\ ran' = ran \union {[stage |-> at, on |-> on, arch |-> target]}
    BY <1>6 DEF ContainerStarts, Image, TypeOK
  <2>2. target \in Arch /\ (switched \/ on = asked)
    BY <2>1 DEF Targets, Resolved
  <2>3. TypeOK'
    BY <2>1, <2>2 DEF TypeOK, CommandTypeOK, command, Others, Ran
  <2>4. Containers' /\ Evidence'
    BY <2>1, <2>2 DEF Containers, Evidence, Others, command
  <2> QED
    BY <2>1, <2>3, <2>4
       DEF Clients, Timers, Succeeded, Resolved, Targets, SilentOnceSettled, Pending, Going,
           command, Others
<1>7. CASE ContainerEnds
  BY <1>7
     DEF ContainerEnds, Others, command, TypeOK, CommandTypeOK, Clients, Timers, Succeeded,
         Containers, Resolved, Targets, Evidence, SilentOnceSettled, Pending, Going
<1>8. CASE ClientExits
  <2>1. /\ child = "runs" /\ child' = "gone" /\ exit' \in {"ok", "failed"}
        /\ UNCHANGED <<helper, unread, timer, group, result, misfires>>
        /\ UNCHANGED evidence /\ Others
    BY <1>8 DEF ClientExits, ChildExits
  <2>2. exit' = "ok" => Done(Stages[at])
    BY <1>8 DEF ClientExits, ChildExits
  <2>3. /\ stdout' \in {"good", "bad"} /\ saw' \in Arch \union {None}
        /\ images' \in [Engines -> Arch \union {None}]
    BY <1>8 DEF ClientExits, TypeOK
  <2>4. TypeOK'
    BY <2>1, <2>3 DEF TypeOK, CommandTypeOK, evidence, Others
  <2>5. Containers' /\ Evidence'
    BY <2>1, <2>2 DEF Containers, Evidence, Done, Others, evidence, TypeOK
  <2> QED
    BY <2>1, <2>4, <2>5
       DEF Clients, Timers, Succeeded, Resolved, Targets, SilentOnceSettled, Pending, Going, Others
<1>9. CASE ClientRuns
  <2>1. /\ UNCHANGED <<child, exit, timer, result, misfires>>
        /\ helper' \in {helper, "group", "stray", "gone"} /\ unread' \in {unread, TRUE}
        /\ group' \in {group, "foreign"}
    BY <1>9 DEF ClientRuns, Prints, Forks, HelperEnds, NumberReused
  <2>2. UNCHANGED <<images, stdout, saw, evidence>> /\ Others
    BY <1>9 DEF ClientRuns
  <2>3. TypeOK'
    <3>1. CommandTypeOK'
      BY <2>1 DEF TypeOK, CommandTypeOK
    <3> QED
      BY <2>2, <3>1 DEF Others, evidence, TypeOK
  <2>4. Clients' /\ Timers' /\ Succeeded' /\ SilentOnceSettled'
    BY <2>1, <2>2
       DEF Others, evidence, Clients, Timers, Succeeded, SilentOnceSettled, Pending, Going
  <2> QED
    BY <2>1, <2>2, <2>3, <2>4
       DEF Others, evidence, Containers, Resolved, Targets, Evidence, Going
<1>10. CASE Reading
  <2>1. UNCHANGED <<child, exit, helper, timer, group, result, misfires>> /\ unread' = FALSE
    BY <1>10 DEF Reading, Reads
  <2>2. UNCHANGED <<images, stdout, saw, evidence>> /\ Others
    BY <1>10 DEF Reading
  <2>3. TypeOK'
    <3>1. CommandTypeOK'
      BY <2>1 DEF TypeOK, CommandTypeOK
    <3> QED
      BY <2>2, <3>1 DEF Others, evidence, TypeOK
  <2>4. Clients' /\ Timers' /\ Succeeded' /\ SilentOnceSettled'
    BY <2>1, <2>2
       DEF Others, evidence, Clients, Timers, Succeeded, SilentOnceSettled, Pending, Going
  <2> QED
    BY <2>1, <2>2, <2>3, <2>4
       DEF Others, evidence, Containers, Resolved, Targets, Evidence, Going
<1>11. CASE Switch
  BY <1>11
     DEF Switch, Meddle, command, evidence, TypeOK, CommandTypeOK, Clients, Timers, Succeeded,
         Containers, Resolved, Targets, Evidence, SilentOnceSettled, Pending, Going
<1>12. CASE OtherPull
  BY <1>12
     DEF OtherPull, Meddle, command, evidence, TypeOK, CommandTypeOK, Clients, Timers, Succeeded,
         Containers, Resolved, Targets, Evidence, SilentOnceSettled, Pending, Going
<1>13. CASE UNCHANGED vars
  BY <1>13
     DEF vars, command, world, evidence, TypeOK, CommandTypeOK, Clients, Timers, Succeeded,
         Containers, Resolved, Targets, Evidence, SilentOnceSettled, Pending, Going
<1> QED
  BY <1>1, <1>2, <1>3, <1>4, <1>5, <1>6, <1>7, <1>8, <1>9, <1>10, <1>11, <1>12, <1>13 DEF Next

LEMMA Initial == Init => ProbeInv
<1> SUFFICES ASSUME Init PROVE ProbeInv
  OBVIOUS
<1>1. CommandTypeOK
  BY DEF Init, CommandInit, CommandTypeOK
<1>2. TypeOK
  <2>1. images \in [Engines -> Arch \union {None}] /\ 0 \in 0..Len(Stages)
    BY NineStages DEF Init
  <2>2. Meddles \in 0..Meddles
    BY ProbeAssumption
  <2> QED
    BY <1>1, <2>1, <2>2 DEF Init, TypeOK
<1>3. Clients /\ Timers /\ Succeeded /\ Containers /\ SilentOnceSettled
  BY DEF Init, CommandInit, Clients, Timers, Succeeded, Containers, SilentOnceSettled
<1>4. Targets /\ Evidence
  BY DEF Init, CommandInit, Resolved, Targets, Evidence, FirstContainer
<1> QED
  BY <1>2, <1>3, <1>4 DEF Init, ProbeInv

LEMMA Invariant == Spec => []ProbeInv
  BY Initial, Inductive, PTL DEF Spec

-----------------------------------------------------------------------------
(* The theorems.                                                           *)

\* Every reachable state of the probe and of its bounded commands is well typed.
THEOREM TypeCorrect == Spec => []TypeOK
<1>1. ProbeInv => TypeOK
  BY DEF ProbeInv
<1> QED
  BY <1>1, Invariant, PTL

\* structurizr-probe.ts:363-518: no image operation of a verified probe was emulated or
\* for another platform, as long as the context stayed on the engine docker info named.
THEOREM EvidenceIsNative == Spec => []NativeEvidence
<1>1. ProbeInv => NativeEvidence
  <2> SUFFICES ASSUME ProbeInv, verdict = <<"verified">>
               PROVE  /\ {c.stage : c \in ran} = FirstContainer..Len(Stages)
                      /\ \A c \in ran : c.arch = target /\ (switched \/ Native(c.on) = target)
                      /\ request.required \in {None, "flag", target}
    BY DEF NativeEvidence
  <2>1. at = 9 /\ child = "gone" /\ exit = "ok"
    BY NineStages DEF ProbeInv, Succeeded
  <2>2. \A k \in 5..9 : \E c \in ran : c.stage = k
    BY <2>1 DEF ProbeInv, Evidence, FirstContainer
  <2>3. \A c \in ran : c.stage \in 5..9 /\ c.arch = target /\ (switched \/ c.on = asked)
    BY <2>1 DEF ProbeInv, Evidence, FirstContainer
  <2>4. target = Native(asked) /\ Resolvable(asked, request)
    BY <2>1 DEF ProbeInv, Targets, Resolved
  <2> QED
    BY <2>2, <2>3, <2>4, NineStages DEF FirstContainer, Resolvable
<1> QED
  BY <1>1, Invariant, PTL

\* Two containers of one probe never run at a time, so no two exports write at once.
THEOREM ContainersAlternate == Spec => []OneContainer
<1>1. ProbeInv => OneContainer
  BY DEF ProbeInv, Containers, OneContainer
<1> QED
  BY <1>1, Invariant, PTL

\* makeRunner clears both timers when it settles: a later owner of the number is safe.
THEOREM SettledIsSilent == Spec => []SilentOnceSettled
<1>1. ProbeInv => SilentOnceSettled
  BY DEF ProbeInv
<1> QED
  BY <1>1, Invariant, PTL

\* makeRunner settles on close: the output that is parsed is complete.
THEOREM OutputComplete == Spec => OutputWhole
<1>1. Settles => ~unread /\ ~Holders
  BY DEF Settles, Close
<1> QED
  BY <1>1, PTL DEF OutputWhole

\* makeRunner and step keep the promise of CommandPromise.
THEOREM CommandsAsPromised == Spec => KeepsPromise
<1>1. Init => Promise!Init
  BY DEF Init, CommandInit, Promise!Init, TimedOut
<1>2. ProbeInv /\ [Next]_vars => [Promise!Next]_(Promise!vars)
  <2> SUFFICES ASSUME ProbeInv, [Next]_vars
               PROVE  Promise!Next \/ UNCHANGED <<at, TimedOut, result>>
    BY DEF Promise!vars
  <2> USE DEF ProbeInv
  <2>1. CASE Begin
    <3>1. at \in Nat /\ (at = 0 \/ result = "ok")
      BY <2>1 DEF Begin, Clients, Going, TypeOK
    <3>2. /\ at' = at + 1
          /\ \/ timer' = "set" /\ result' = "none"
             \/ timer' = "off" /\ result' = "failed"
      BY <2>1 DEF Begin, Spawn, Settle
    <3> QED
      BY <3>1, <3>2 DEF Promise!Next, Promise!Begin, TimedOut
  <2>2. CASE Settles
    <3>1. /\ result = "none" /\ at \in Nat /\ at > 0 /\ exit \in {"ok", "failed"}
          /\ result' = IF TimedOut THEN "late" ELSE exit
          /\ timer' = "off" /\ at' = at
      BY <2>2 DEF Settles, Close, Settle, Pending, Holders, Clients, TypeOK, CommandTypeOK
    <3> QED
      BY <3>1 DEF Promise!Next, Promise!Settle, TimedOut
  <2>3. CASE Fires
    <3>1. /\ result = "none" /\ at \in Nat /\ at > 0
          /\ timer' \in {"term", "kill"} /\ UNCHANGED <<result, at>>
      BY <2>3 DEF Fires, TimerFires, KillFires, Timers, Pending, Clients, TypeOK
    <3> QED
      BY <3>1 DEF Promise!Next, Promise!Expire, TimedOut
  <2>4. CASE Interrupt
    <3>1. /\ at' = at /\ timer' = "off"
          /\ result' = IF result = "none" THEN "lost" ELSE result
      BY <2>4 DEF Interrupt, CallerDies
    <3>2. result # "none" => timer = "off"
      BY DEF Timers, Pending
    <3> QED
      BY <3>1, <3>2 DEF Promise!Next, Promise!Lose, TimedOut
  <2>5. CASE Misuse \/ Reading \/ ContainerStarts \/ ContainerEnds \/ ClientExits \/ ClientRuns
             \/ Switch \/ OtherPull \/ UNCHANGED vars
    <3>1. UNCHANGED <<at, timer, result>>
      BY <2>5
         DEF Misuse, Reading, Reads, ContainerStarts, ContainerEnds, ClientExits, ChildExits,
             ClientRuns, Prints, Forks, HelperEnds, NumberReused, Switch, OtherPull, Others,
             command, vars
    <3> QED
      BY <3>1 DEF TimedOut
  <2> QED
    BY <2>1, <2>2, <2>3, <2>4, <2>5 DEF Next
<1> QED
  BY <1>1, <1>2, Invariant, PTL DEF Spec, KeepsPromise, Promise!Spec
=============================================================================
