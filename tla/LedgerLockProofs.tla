-------------------------- MODULE LedgerLockProofs --------------------------
(***************************************************************************)
(* Type correctness of LedgerLock, and mutual exclusion for every number   *)
(* of processes, tokens and directories, as long as no process dies with   *)
(* a claim of its own at the lock path (SpecNoDeadClaim).  Without that    *)
(* assumption exclusion does not hold: see the run lock_race.  What holds  *)
(* of every behaviour is LossShows, proved last.                           *)
(***************************************************************************)
EXTENDS LedgerLockInv, TLAPS

LEMMA Nulls == NoTarget \in Target /\ NoObservation \in Observation
BY DEF NoTarget, NoObservation, Target, Observation

LEMMA Labels ==
  /\ {"idle", "mkdir", "lstat", "readdir", "entries", "verifyInit", "install",
          "rmcheck", "rmunlink", "cleanup", "rmdir", "cs", "released", "pause",
          "parseclaim", "rename", "verifyBreak", "parseowner", "quarantine",
          "timeout", "error", "dead"} \subseteq Label
  /\ AfterObserve \subseteq Label
BY DEF Label

LEMMA TypeInit == Init => TypeOK
<1> SUFFICES ASSUME Init PROVE TypeOK
  OBVIOUS
<1> QED
  BY Nulls DEF Init, TypeOK, FilesOK, ProcsOK, Label, Reason, Observing, Initializing

LEMMA LeaveType ==
  ASSUME ProcsOK, NEW p \in Proc, NEW l \in Label, NEW r \in Reason,
         l \in {"idle", "mkdir", "pause", "timeout", "error", "dead"}, Leave(p, l, r)
  PROVE  ProcsOK'
BY Nulls DEF Leave, Goto, ProcsOK, Observing, Initializing

LEMMA ObserveType ==
  ASSUME ProcsOK, NEW p \in Proc, NEW c \in AfterObserve, Observe(p, c),
         own' \in [Proc -> Token \cup {None}],
         \A q \in Proc \ {p} : own'[q] = own[q],
         c \in {"empty", "linkInit"} => own'[p] # None,
         clm' \in [Proc -> Token \cup {None}], obs' \in [Proc -> Target],
         disp' \in [Proc -> Token \cup {None}], err' \in [Proc -> Reason]
  PROVE  ProcsOK'
BY Nulls, Labels DEF Observe, Goto, ProcsOK, Observing, Initializing

LEMMA AbortType ==
  ASSUME ProcsOK, NEW p \in Proc, NEW r \in Reason, Abort(p, r),
         UNCHANGED <<k, own, clm, obs, cur, disp>>
  PROVE  ProcsOK'
BY Labels DEF Abort, Goto, ProcsOK, Observing, Initializing

\* One observation changes, into another observation.
LEMMA CurType ==
  ASSUME ProcsOK, NEW p \in Proc, NEW o \in Observation, NEW l \in Label,
         cur' = [cur EXCEPT ![p] = o], Goto(p, l),
         Observing(p), l \in {"readdir", "entries", k[p]},
         UNCHANGED <<k, own, clm, obs, disp, err>>
  PROVE  ProcsOK'
<1>1. l \in {"readdir", "entries"} \cup AfterObserve
  BY DEF ProcsOK
<1> QED
  BY <1>1 DEF Goto, ProcsOK, Observing, Initializing, AfterObserve

LEMMA RemoveType ==
  ASSUME ProcsOK, NEW p \in Proc, NEW c \in AfterRemove, NEW r \in Reason,
         Remove(p, c), err' = [err EXCEPT ![p] = r],
         UNCHANGED <<own, clm, obs, cur, disp>>
  PROVE  ProcsOK'
BY Labels DEF Remove, Goto, ProcsOK, Observing, Initializing

LEMMA DrawnToken ==
  ASSUME NEW p \in Proc, Unseen(p) # {}
  PROVE  Drawn(p) \in Token /\ Author(Drawn(p)) = p /\ Drawn(p) \notin owners
<1>1. Drawn(p) \in Unseen(p)
  BY DEF Drawn
<1> QED
  BY <1>1 DEF Unseen, Token, Author

LEMMA LinkType ==
  ASSUME TypeOK, NEW p \in Proc, Link(p), NEW l \in Label, Goto(p, l),
         pc[p] \in {"linkInit", "linkBreak"}, l \in {"verifyInit", "verifyBreak"},
         l = "verifyInit" => pc[p] = "linkInit"
  PROVE  TypeOK'
<1>1. Drawn(p) \in Token
  BY DrawnToken DEF Link
<1>2. FilesOK'
  BY <1>1 DEF Link, FilesOK, TypeOK
<1>3. ProcsOK'
  BY <1>1 DEF Link, ProcsOK, TypeOK, Goto, Observing, Initializing
<1> QED BY <1>2, <1>3 DEF TypeOK

LEMMA UnlinkType ==
  ASSUME FilesOK, NEW t, UnlinkOwner(t), UNCHANGED <<lockDir, claim, leaked>>
  PROVE  FilesOK'
BY DEF UnlinkOwner, FilesOK

LEMMA RemoveDoneType ==
  ASSUME ProcsOK, NEW p \in Proc, RemoveDone(p)
  PROVE  ProcsOK'
<1>1. CASE k[p] \in {"unclaimed", "rmdir"}
  BY <1>1, Labels, Nulls
  DEF RemoveDone, Observe, Goto, ProcsOK, Observing, Initializing, AfterObserve
<1>2. CASE k[p] \in {"pause", "error"}
  BY <1>2, Labels, LeaveType DEF RemoveDone, ProcsOK, Reason
<1> QED BY <1>1, <1>2 DEF RemoveDone

LEMMA TypeStep == TypeOK /\ [Next]_vars => TypeOK'
<1> SUFFICES ASSUME TypeOK, [Next]_vars PROVE TypeOK'
  OBVIOUS
<1> USE DEF TypeOK
<1>1. ASSUME NEW p \in Proc, Lstat(p) PROVE TypeOK'
  <2> DEFINE o == [cur[p] EXCEPT !.dir = lockDir,
                                 !.old = IF dirAged THEN {"dir"} ELSE {}]
  <2>1. FilesOK'
    BY <1>1 DEF Lstat, FilesOK, fs
  <2>2. o \in Observation
    BY DEF ProcsOK, FilesOK, Observation
  <2>3. ProcsOK'
    BY <1>1, <2>2, Labels, CurType DEF Lstat, ProcsOK, Observing, Initializing
  <2> QED BY <2>1, <2>3
<1>2. ASSUME NEW p \in Proc, Readdir(p) PROVE TypeOK'
  <2>1. FilesOK' 
    BY <1>2 DEF Readdir, FilesOK, fs
  <2>2. PICK o \in owners \cup {None} :
          cur' = [cur EXCEPT ![p] = [@ EXCEPT !.owner = o, !.claim = claim]]
    BY <1>2 DEF Readdir
  <2>3. [cur[p] EXCEPT !.owner = o, !.claim = claim] \in Observation
    BY DEF ProcsOK, FilesOK, Observation
  <2>4. ProcsOK'
    BY <1>2, <2>2, <2>3, Labels, CurType DEF Readdir, ProcsOK, Observing, Initializing
  <2> QED BY <2>1, <2>4
<1>3. ASSUME NEW p \in Proc, Entries(p) PROVE TypeOK'
  <2> DEFINE c == IF cur[p].claim = None THEN None ELSE claim
             old == {e \in {"owner", "claim"} :
                       (IF e = "owner" THEN cur[p].owner ELSE c) \in aged}
             o == [cur[p] EXCEPT !.claim = c, !.old = cur[p].old \cup old]
  <2>1. FilesOK' 
    BY <1>3 DEF Entries, FilesOK, fs
  <2>2. o \in Observation
    <3>1. c \in Token \cup {None} /\ cur[p] \in Observation
      BY DEF ProcsOK, FilesOK
    <3>2. cur[p].old \cup old \in SUBSET {"dir", "owner", "claim"}
      BY <3>1 DEF Observation
    <3> HIDE DEF c, old
    <3> QED BY <3>1, <3>2 DEF Observation
  <2>3. cur' = [cur EXCEPT ![p] = o]
    BY <1>3 DEF Entries
  <2>4. ProcsOK'
    BY <1>3, <2>2, <2>3, Labels, CurType DEF Entries, ProcsOK, Observing, Initializing
  <2> QED BY <2>1, <2>4
<1>4. ASSUME NEW p \in Proc, ObserveMissing(p) PROVE TypeOK'
  <2>1. FilesOK'
    BY <1>4 DEF ObserveMissing, FilesOK, fs
  <2>2. ProcsOK'
    BY <1>4, Labels, LeaveType, AbortType DEF ObserveMissing, Reason
  <2> QED BY <2>1, <2>2
<1>5. ASSUME NEW p \in Proc, ObserveUnexpected(p) PROVE TypeOK'
  <2>1. FilesOK'
    BY <1>5 DEF ObserveUnexpected, FilesOK, fs
  <2>2. ProcsOK'
    BY <1>5, Labels, LeaveType, AbortType, RemoveType DEF ObserveUnexpected, Reason, AfterRemove
  <2> QED BY <2>1, <2>2
<1>6. ASSUME NEW p \in Proc, RemoveCheck(p) PROVE TypeOK'
  <2>1. FilesOK'
    BY <1>6 DEF RemoveCheck, FilesOK, fs
  <2>2. ProcsOK'
    BY <1>6, Labels DEF RemoveCheck, Goto, ProcsOK, Observing, Initializing
  <2> QED BY <2>1, <2>2
<1>7. ASSUME NEW p \in Proc, RemoveNothing(p) PROVE TypeOK'
  <2>1. FilesOK'
    BY <1>7 DEF RemoveNothing, FilesOK, fs
  <2>2. ProcsOK'
    BY <1>7, RemoveDoneType DEF RemoveNothing
  <2> QED BY <2>1, <2>2
<1>8. ASSUME NEW p \in Proc, RemoveRefused(p) PROVE TypeOK'
  <2>1. FilesOK'
    BY <1>8 DEF RemoveRefused, FilesOK, fs
  <2>2. ProcsOK'
    BY <1>8, Labels, LeaveType, AbortType DEF RemoveRefused, Reason, Goto, ProcsOK, Observing, Initializing
  <2> QED BY <2>1, <2>2
<1>9. ASSUME NEW p \in Proc, RemoveUnlink(p) PROVE TypeOK'
  <2>1. FilesOK'
    BY <1>9 DEF RemoveUnlink, FilesOK, fs
  <2>2. ProcsOK'
    BY <1>9, RemoveDoneType DEF RemoveUnlink
  <2> QED BY <2>1, <2>2
<1>10. ASSUME NEW p \in Proc, Acquire(p) PROVE TypeOK'
  <2>1. FilesOK'
    BY <1>10 DEF Acquire, FilesOK, fs
  <2>2. ProcsOK'
    BY <1>10, Labels, LeaveType DEF Acquire, Reason
  <2> QED BY <2>1, <2>2
<1>11. ASSUME NEW p \in Proc, MkdirWins(p) PROVE TypeOK'
  <2>1. FilesOK'
    BY <1>11 DEF MkdirWins, FilesOK, fs
  <2>2. Drawn(p) \in Token
    BY <1>11, DrawnToken DEF MkdirWins
  <2>3. ProcsOK'
    BY <1>11, <2>2, ObserveType, NoneAssumption DEF MkdirWins, ProcsOK, AfterObserve
  <2> QED BY <2>1, <2>3
<1>12. ASSUME NEW p \in Proc, MkdirExists(p) PROVE TypeOK'
  <2>1. FilesOK'
    BY <1>12 DEF MkdirExists, FilesOK, fs
  <2>2. ProcsOK'
    BY <1>12, ObserveType DEF MkdirExists, ProcsOK, AfterObserve
  <2> QED BY <2>1, <2>2
<1>13. ASSUME NEW p \in Proc, Empty(p) PROVE TypeOK'
  <2>1. FilesOK'
    BY <1>13 DEF Empty, FilesOK, fs
  <2>2. CASE cur[p].owner = None /\ cur[p].claim = None
    <3>1. [obs[p] EXCEPT !.dir = cur[p].dir] \in Target
      BY DEF ProcsOK, Target, Observation
    <3>2. obs' \in [Proc -> Target]
      BY <1>13, <2>2, <3>1 DEF Empty, ProcsOK
    <3>3. own[p] # None
      BY <1>13 DEF Empty, ProcsOK, Initializing
    <3> QED
      BY <1>13, <2>1, <2>2, <3>2, <3>3, ObserveType DEF Empty, ProcsOK, AfterObserve
  <2>3. CASE ~(cur[p].owner = None /\ cur[p].claim = None)
    BY <1>13, <2>1, <2>3, AbortType DEF Empty, Reason
  <2> QED BY <2>2, <2>3
<1>14. ASSUME NEW p \in Proc, LinkInit(p) PROVE TypeOK'
  BY <1>14, Labels, LinkType, AbortType DEF LinkInit, FilesOK, fs, Reason
<1>15. ASSUME NEW p \in Proc, VerifyInit(p) PROVE TypeOK'
  <2>1. FilesOK'
    BY <1>15 DEF VerifyInit, FilesOK, fs
  <2>2. ProcsOK'
    BY <1>15, Labels DEF VerifyInit, Abort, Goto, ProcsOK, Observing, Initializing, Reason
  <2> QED BY <2>1, <2>2
<1>16. ASSUME NEW p \in Proc, Install(p) PROVE TypeOK'
  <2>1. own[p] \in Token
    BY <1>16 DEF Install, ProcsOK, Initializing
  <2>2. FilesOK'
    BY <1>16, <2>1 DEF Install, FilesOK, fs
  <2>3. ProcsOK'
    BY <1>16, ObserveType, AbortType DEF Install, ProcsOK, AfterObserve, Reason
  <2> QED BY <2>2, <2>3
<1>17. ASSUME NEW p \in Proc, Installed(p) PROVE TypeOK'
  <2>1. FilesOK'
    BY <1>17 DEF Installed, FilesOK, fs
  <2>2. CASE Remove(p, "unclaimed") /\ UNCHANGED err
    <3>1. err' = [err EXCEPT ![p] = err[p]] /\ err[p] \in Reason
      BY <2>2 DEF ProcsOK
    <3>2. UNCHANGED <<own, clm, obs, cur, disp>> /\ "unclaimed" \in AfterRemove
      BY <1>17 DEF Installed, AfterRemove
    <3> QED
      BY <2>1, <2>2, <3>1, <3>2, RemoveType
  <2>3. CASE \E r \in Reason : Abort(p, r) /\ UNCHANGED k
    <3>1. PICK r \in Reason : Abort(p, r) /\ UNCHANGED k
      BY <2>3
    <3>2. UNCHANGED <<k, own, clm, obs, cur, disp>>
      BY <1>17, <3>1 DEF Installed
    <3> QED
      BY <2>1, <3>1, <3>2, AbortType
  <2>4. QED
    BY <1>17, <2>1, <2>2, <2>3 DEF Installed, Reason
<1>18. ASSUME NEW p \in Proc, Ready(p) PROVE TypeOK'
  <2>1. FilesOK'
    BY <1>18 DEF Ready, FilesOK, fs
  <2>2. ProcsOK'
    BY <1>18, Labels, Nulls, AbortType DEF Ready, Goto, ProcsOK, Observing, Initializing, Reason
  <2> QED BY <2>1, <2>2
<1>19. ASSUME NEW p \in Proc, Cleanup(p) PROVE TypeOK'
  <2>1. FilesOK'
    BY <1>19, UnlinkType DEF Cleanup
  <2>2. ProcsOK'
    BY <1>19, Labels DEF Cleanup, Remove, Goto, ProcsOK, Observing, Initializing, AfterRemove
  <2> QED BY <2>1, <2>2
<1>20. ASSUME NEW p \in Proc, CleanupRmdir(p) PROVE TypeOK'
  <2>1. FilesOK'
    BY <1>20 DEF CleanupRmdir, FilesOK, RemoveEmptyDir
  <2>2. CASE Observe(p, "stale")
    BY <1>20, <2>1, <2>2, Nulls, ObserveType
    DEF CleanupRmdir, ProcsOK, AfterObserve, Reason, Leave, Goto
  <2>3. CASE ~Observe(p, "stale")
    BY <1>20, <2>1, <2>3, Labels, LeaveType DEF CleanupRmdir, Reason
  <2> QED BY <2>2, <2>3
<1>21. ASSUME NEW p \in Proc, Stale(p) PROVE TypeOK'
  <2> DEFINE seen == [dir |-> cur[p].dir, owner |-> cur[p].owner,
                      claim |-> cur[p].claim, dead |-> None]
  <2>1. FilesOK'
    BY <1>21 DEF Stale, FilesOK, fs
  <2>2. seen \in Target
    BY DEF ProcsOK, Target, Observation
  <2>3. CASE obs' = [obs EXCEPT ![p] = seen] /\ Observe(p, "linkBreak")
             /\ UNCHANGED <<own, clm, disp, err>>
    BY <2>1, <2>2, <2>3, ObserveType DEF ProcsOK, AfterObserve
  <2>4. CASE obs' = [obs EXCEPT ![p] = seen] /\ Goto(p, "parseclaim")
             /\ UNCHANGED <<k, own, clm, cur, disp, err>>
    BY <2>1, <2>2, <2>4, Labels DEF Goto, ProcsOK, Observing, Initializing
  <2>5. CASE Leave(p, "pause", "none")
    BY <2>1, <2>5, Labels, LeaveType DEF Reason
  <2> QED BY <1>21, <2>3, <2>4, <2>5 DEF Stale
<1>22. ASSUME NEW p \in Proc, ParseClaim(p) PROVE TypeOK'
  <2>1. FilesOK'
    BY <1>22 DEF ParseClaim, FilesOK, fs
  <2>2. CASE Leave(p, "error", "vanished") \/ Leave(p, "pause", "none")
    BY <2>1, <2>2, Labels, LeaveType DEF Reason
  <2>3. CASE obs' = [obs EXCEPT ![p].dead = claim] /\ Observe(p, "displace")
             /\ UNCHANGED <<own, clm, disp, err>>
    <3>1. [obs[p] EXCEPT !.dead = claim] \in Target
      BY DEF ProcsOK, FilesOK, Target
    <3>2. obs' \in [Proc -> Target]
      BY <2>3, <3>1 DEF ProcsOK
    <3> QED BY <2>1, <2>3, <3>2, ObserveType DEF ProcsOK, AfterObserve
  <2> QED BY <1>22, <2>2, <2>3 DEF ParseClaim
<1>23. ASSUME NEW p \in Proc, Displace(p) PROVE TypeOK'
  <2>1. FilesOK'
    BY <1>23 DEF Displace, FilesOK, fs
  <2>2. ProcsOK'
    BY <1>23, Labels, LeaveType DEF Displace, Goto, ProcsOK, Observing, Initializing, Reason
  <2> QED BY <2>1, <2>2
<1>24. ASSUME NEW p \in Proc, Rename(p) PROVE TypeOK'
  <2>1. FilesOK'
    BY <1>24 DEF Rename, FilesOK, fs
  <2>2. ProcsOK'
    BY <1>24, Labels, Nulls, LeaveType DEF Rename, Observe, Goto, ProcsOK, FilesOK, Observing, Initializing, AfterObserve, Reason
  <2> QED BY <2>1, <2>2
<1>25. ASSUME NEW p \in Proc, Restore(p) PROVE TypeOK'
  <2>1. FilesOK'
    BY <1>25 DEF Restore, FilesOK, fs, ProcsOK
  <2>2. ProcsOK'
    BY <1>25, Labels, LeaveType DEF Restore, Reason
  <2> QED BY <2>1, <2>2
<1>26. ASSUME NEW p \in Proc, Replace(p) PROVE TypeOK'
  <2>1. FilesOK'
    BY <1>26 DEF Replace, FilesOK, fs
  <2>2. ProcsOK'
    BY <1>26, Labels, Nulls, LeaveType DEF Replace, Observe, Goto, ProcsOK, Observing, Initializing, AfterObserve, Reason
  <2> QED BY <2>1, <2>2
<1>27. ASSUME NEW p \in Proc, LinkBreak(p) PROVE TypeOK'
  BY <1>27, Labels, LinkType, LeaveType DEF LinkBreak, FilesOK, fs, Reason
<1>28. ASSUME NEW p \in Proc, VerifyBreak(p) PROVE TypeOK'
  <2>1. FilesOK'
    BY <1>28 DEF VerifyBreak, FilesOK, fs
  <2>2. ProcsOK'
    BY <1>28, Labels, LeaveType, ObserveType DEF VerifyBreak, ProcsOK, AfterObserve, Reason
  <2> QED BY <2>1, <2>2
<1>29. ASSUME NEW p \in Proc, Revalidate(p) PROVE TypeOK'
  <2>1. FilesOK'
    BY <1>29 DEF Revalidate, FilesOK, fs
  <2>2. ProcsOK'
    BY <1>29, Labels, LeaveType DEF Revalidate, Remove, Goto, ProcsOK, Observing, Initializing, AfterRemove, Reason
  <2> QED BY <2>1, <2>2
<1>30. ASSUME NEW p \in Proc, ParseOwner(p) PROVE TypeOK'
  <2>1. FilesOK'
    BY <1>30 DEF ParseOwner, FilesOK, fs
  <2>2. ProcsOK'
    BY <1>30, Labels, ObserveType DEF ParseOwner, Remove, Goto, ProcsOK, Observing, Initializing, AfterObserve, AfterRemove, Reason
  <2> QED BY <2>1, <2>2
<1>31. ASSUME NEW p \in Proc, Ownerless(p) PROVE TypeOK'
  <2>1. FilesOK'
    BY <1>31 DEF Ownerless, FilesOK, fs
  <2>2. ProcsOK'
    BY <1>31, Labels, LeaveType DEF Ownerless, Remove, Goto, ProcsOK, Observing, Initializing, AfterRemove, Reason
  <2> QED BY <2>1, <2>2
<1>32. ASSUME NEW p \in Proc, Quarantine(p) PROVE TypeOK'
  <2>1. FilesOK'
    BY <1>32 DEF Quarantine, FilesOK, fs
  <2>2. ProcsOK'
    BY <1>32, Labels, LeaveType DEF Quarantine, Remove, Goto, ProcsOK, Observing, Initializing, AfterRemove, Reason
  <2> QED BY <2>1, <2>2
<1>33. ASSUME NEW p \in Proc, Retry(p) PROVE TypeOK'
  <2>1. FilesOK'
    BY <1>33 DEF Retry, FilesOK, fs
  <2>2. ProcsOK'
    BY <1>33, Labels, LeaveType DEF Retry, Reason
  <2> QED BY <2>1, <2>2
<1>34. ASSUME NEW p \in Proc, Timeout(p) PROVE TypeOK'
  <2>1. FilesOK'
    BY <1>34 DEF Timeout, FilesOK, fs
  <2>2. ProcsOK'
    BY <1>34, Labels, LeaveType DEF Timeout, Reason
  <2> QED BY <2>1, <2>2
<1>35. ASSUME NEW p \in Proc, Release(p) PROVE TypeOK'
  <2>1. FilesOK'
    BY <1>35, UnlinkType DEF Release
  <2>2. ProcsOK'
    BY <1>35, Labels, LeaveType DEF Release, Goto, ProcsOK, Observing, Initializing, Reason
  <2> QED BY <2>1, <2>2
<1>36. ASSUME NEW p \in Proc, ReleaseRmdir(p) PROVE TypeOK'
  <2>1. FilesOK'
    BY <1>36 DEF ReleaseRmdir, FilesOK, fs, RemoveEmptyDir
  <2>2. ProcsOK'
    BY <1>36, Labels, LeaveType DEF ReleaseRmdir, Reason
  <2> QED BY <2>1, <2>2
<1>37. ASSUME NEW p \in Proc, Crash(p) PROVE TypeOK'
  <2>1. FilesOK'
    BY <1>37 DEF Crash, FilesOK, fs
  <2>2. ProcsOK'
    BY <1>37, Labels, LeaveType DEF Crash, Reason
  <2> QED BY <2>1, <2>2
<1>38. ASSUME Elapse PROVE TypeOK'
  <2>1. FilesOK'
    BY <1>38 DEF Elapse, FilesOK, ProcsOK
  <2>2. ProcsOK'
    BY <1>38 DEF Elapse, ProcsOK, Observing, Initializing
  <2> QED BY <2>1, <2>2
<1>39. ASSUME UNCHANGED vars PROVE TypeOK'
  BY <1>39 DEF vars, fs, FilesOK, ProcsOK, Observing, Initializing
<1> QED
  BY <1>1, <1>2, <1>3, <1>4, <1>5, <1>6, <1>7, <1>8, <1>9, <1>10, <1>11, <1>12, <1>13, <1>14, <1>15, <1>16, <1>17, <1>18, <1>19, <1>20, <1>21, <1>22, <1>23, <1>24, <1>25, <1>26, <1>27, <1>28, <1>29, <1>30, <1>31, <1>32, <1>33, <1>34, <1>35, <1>36, <1>37, <1>38, <1>39 DEF Next, Step

\* Every variable keeps its type.
THEOREM TypeCorrect == Spec => []TypeOK
<1>1. Init => TypeOK
  BY TypeInit
<1>2. TypeOK /\ [Next]_vars => TypeOK'
  BY TypeStep
<1> QED
  BY <1>1, <1>2, PTL DEF Spec

-----------------------------------------------------------------------------
(* Mutual exclusion.                                                       *)

LEMMA InvInit == Init /\ NoDeadClaim => IInv
<1> SUFFICES ASSUME Init, NoDeadClaim PROVE IInv
  OBVIOUS
<1>1. TypeOK
  BY TypeInit
<1>2. ASSUME NEW p \in Proc PROVE Local(p)
  BY DEF Init, Local, Names, Claims, Claiming, NoDisplacing, Toward, Owns, HasOwner, Breaks,
         Breaking, Sole, Settled, Observing
<1> QED
  BY <1>1, <1>2 DEF Init, IInv, NoLeak, NoDirectory

-----------------------------------------------------------------------------
(* What the invariant says of a process and of its neighbours.             *)

LEMMA Places ==
  ASSUME NEW p
  PROVE  /\ Settled(p) => HasOwner(p)
         /\ HasOwner(p) => pc[p] # "dead"
         /\ Breaking(p) => Claiming(p)
         /\ pc[p] = "readdir" /\ k[p] \in {"revalidate", "ownerless"} => Claiming(p)
         /\ Unsettled(p) => ~Settled(p) /\ (Claiming(p) \/ clm[p] # None)
BY DEF Settled, HasOwner, Breaking, Claiming, Unsettled, Toward, Observing

LEMMA Files ==
  ASSUME IInv
  PROVE  /\ None \notin owners
         /\ \A t \in owners : Author(t) \in Proc
         /\ \A p \in Proc : cur[p].owner # None => Author(cur[p].owner) \in Proc
         /\ \A p \in Proc : own[p] # None => Author(own[p]) = p
         /\ \A p \in Proc : HasOwner(p) => own[p] \in owners
BY NoneAssumption
DEF IInv, TypeOK, FilesOK, ProcsOK, Observation, Token, Author, Local, Names, Owns

\* There is one claim, so one process that has it.
LEMMA OneClaimant ==
  ASSUME IInv, NEW p \in Proc, NEW q \in Proc, clm[p] # None, q # p
  PROVE  clm[q] = None /\ ~Claiming(q) /\ ~Unsettled(q) /\ ~Breaking(q)
<1>1. clm[q] = None
  BY DEF IInv, Local, Names, Claims
<1> QED
  BY <1>1, Places DEF IInv, Local, Claims

LEMMA NoClaimant ==
  ASSUME IInv, NEW q \in Proc, claim = None
  PROVE  clm[q] = None /\ ~Claiming(q) /\ ~Unsettled(q) /\ ~Breaking(q)
BY Places DEF IInv, Local, Claims

LEMMA HasClaim ==
  ASSUME IInv, NEW p \in Proc, Claiming(p)
  PROVE  clm[p] # None /\ claim = clm[p] /\ claim # None /\ lockDir # None
BY DEF IInv, Local, Claims, NoDirectory

\* A settled owner's file is alone when no other process is unsettled.
LEMMA Alone ==
  ASSUME IInv, NEW q \in Proc, Settled(q), \A r \in Proc : ~Unsettled(r)
  PROVE  owners \subseteq {own[q]}
BY Files DEF IInv, Local, Sole

\* Of two processes, one is not settled.
LEMMA OneSettled ==
  ASSUME IInv, NEW p \in Proc, NEW q \in Proc, Settled(p), Settled(q)
  PROVE  p = q
<1> SUFFICES ASSUME p # q PROVE FALSE
  OBVIOUS
<1>1. own[p] \in owners /\ own[q] \in owners /\ Author(own[p]) = p /\ Author(own[q]) = q
  BY Files, Places
<1>2. Unsettled(q)
  BY <1>1 DEF IInv, Local, Sole
<1> QED
  BY <1>2, Places

-----------------------------------------------------------------------------
(* Steps that leave the files alone, and what is left to show of them.     *)

\* The other processes keep what the invariant looks at.
Others(p) ==
  \A q \in Proc \ {p} :
    /\ pc'[q] = pc[q] /\ k'[q] = k[q] /\ own'[q] = own[q]
    /\ clm'[q] = clm[q] /\ cur'[q] = cur[q]

\* Process p stays unsettled as long as a settled process relies on it.
Stays(p) ==
  \A q \in Proc \ {p} :
    Settled(q) /\ Unsettled(p) /\ own[p] \in owners => Unsettled(p)' /\ own'[p] = own[p]

\* The files stay, or an empty directory goes.
FilesStay ==
  /\ UNCHANGED <<owners, claim, leaked>>
  /\ lockDir' = lockDir \/ (owners = {} /\ claim = None)

LEMMA OthersPlaces ==
  ASSUME NEW p, Others(p), NEW q \in Proc \ {p}
  PROVE  /\ Settled(q)' <=> Settled(q)
         /\ Unsettled(q)' <=> Unsettled(q)
         /\ HasOwner(q)' <=> HasOwner(q)
         /\ Claiming(q)' <=> Claiming(q)
         /\ Breaking(q)' <=> Breaking(q)
         /\ NoDisplacing(q)' <=> NoDisplacing(q)
         /\ Names(q)' <=> Names(q)
BY DEF Others, Settled, Unsettled, HasOwner, Claiming, Breaking, NoDisplacing, Names, Toward,
       Observing

LEMMA Quiet ==
  ASSUME IInv, TypeOK', NoDeadClaim', NEW p \in Proc, pc[p] # "dead",
         FilesStay, Others(p), Stays(p), Local(p)'
  PROVE  IInv'
<1>1. NoLeak' /\ NoDirectory'
  BY DEF IInv, NoLeak, NoDirectory, FilesStay
<1>2. ASSUME NEW q \in Proc, q # p PROVE Local(q)'
  <2>1. Names(q)' /\ NoDisplacing(q)'
    BY <1>2, OthersPlaces DEF IInv, Local
  <2>2. Claims(q)' /\ Owns(q)'
    BY <1>2, OthersPlaces DEF IInv, Local, Claims, Owns, Others, FilesStay
  <2>3. Breaks(q)'
    <3>1. Breaking(q) \/ (pc[q] = "readdir" /\ k[q] \in {"revalidate", "ownerless"})
            => lockDir' = lockDir
      BY <1>2, Places, HasClaim DEF FilesStay
    <3>2. cur[q].owner # None /\ Dead(Author(cur[q].owner)) => Dead(Author(cur[q].owner))'
      BY <1>2, Files DEF Dead, Others
    <3>3. Breaks(q)
      BY DEF IInv, Local
    <3> QED
      BY <1>2, <3>1, <3>2, <3>3, OthersPlaces DEF Breaks, Others, FilesStay, Dead
  <2>4. Sole(q)'
    <3> SUFFICES ASSUME Settled(q)', NEW t \in owners \ {own[q]}
                 PROVE  Unsettled(Author(t))' /\ own'[Author(t)] = t
      BY <1>2 DEF Sole, Others, FilesStay
    <3>1. Settled(q) /\ Unsettled(Author(t)) /\ own[Author(t)] = t /\ Author(t) \in Proc
      BY <1>2, Files, OthersPlaces DEF IInv, Local, Sole
    <3>2. CASE Author(t) = p
      BY <1>2, <3>1, <3>2 DEF Stays
    <3>3. CASE Author(t) # p
      BY <3>1, <3>3, OthersPlaces DEF Others
    <3> QED BY <3>2, <3>3
  <2> QED BY <2>1, <2>2, <2>3, <2>4 DEF Local
<1> QED
  BY <1>1, <1>2 DEF IInv

LEMMA LeaveInv ==
  ASSUME IInv, TypeOK', NoDeadClaim', NEW p \in Proc, pc[p] # "dead", FilesStay,
         NEW l \in {"idle", "mkdir", "pause", "timeout", "error", "dead"}, NEW r,
         Leave(p, l, r), ~Unsettled(p)
  PROVE  IInv'
<1>1. Others(p) /\ Stays(p)
  BY DEF Leave, Goto, Others, Stays, IInv, TypeOK, ProcsOK
<1>2. pc'[p] = l /\ own'[p] = None /\ clm'[p] = None
  BY DEF Leave, Goto, IInv, TypeOK, ProcsOK
<1>3. Local(p)'
  BY <1>2 DEF Local, Names, Claims, Claiming, NoDisplacing, Toward, Owns, HasOwner, Breaks,
              Breaking, Sole, Settled, Observing
<1> QED
  BY <1>1, <1>3, Quiet

LEMMA AbortInv ==
  ASSUME IInv, TypeOK', NoDeadClaim', NEW p \in Proc, pc[p] # "dead", FilesStay,
         NEW r, Abort(p, r), UNCHANGED <<k, own, clm, cur>>
  PROVE  IInv'
<1>1. pc'[p] = "cleanup"
  BY DEF Abort, Goto, IInv, TypeOK, ProcsOK
<1>2. Others(p)
  BY DEF Abort, Goto, Others, IInv, TypeOK, ProcsOK
<1>3. Stays(p)
  BY <1>1, HasClaim, Places DEF Stays, Unsettled
<1>4. Local(p)'
  <2>1. Names(p)' /\ (clm[p] # None => claim = clm[p])
    BY DEF IInv, Local, Names, Claims
  <2> QED
    BY <1>1, <2>1 DEF Local, Claims, Claiming, NoDisplacing, Toward, Owns, HasOwner, Breaks,
                      Breaking, Sole, Settled, Observing, FilesStay
<1> QED
  BY <1>2, <1>3, <1>4, Quiet

LEMMA ObserveInv ==
  ASSUME IInv, TypeOK', NoDeadClaim', NEW p \in Proc, pc[p] # "dead", FilesStay,
         NEW c \in AfterObserve \ {"installed", "ready", "displace", "replace", "restore"},
         Observe(p, c), ~Unsettled(p),
         c \in {"revalidate", "ownerless"} => clm'[p] # None,
         \A q \in Proc \ {p} : own'[q] = own[q] /\ clm'[q] = clm[q],
         own'[p] \in {None, own[p]}, clm'[p] \in {None, clm[p]}
  PROVE  IInv'
<1>1. pc'[p] = "lstat" /\ k'[p] = c
  BY DEF Observe, Goto, IInv, TypeOK, ProcsOK
<1>2. Others(p) /\ Stays(p)
  BY DEF Observe, Goto, Others, Stays, IInv, TypeOK, ProcsOK
<1>3. Local(p)'
  <2>1. Names(p)' /\ (clm'[p] # None => claim = clm'[p])
    BY DEF IInv, Local, Names, Claims
  <2> QED
    BY <1>1, <2>1 DEF Local, Claims, Claiming, NoDisplacing, Toward, Owns, HasOwner, Breaks,
                      Breaking, Sole, Settled, Observing, FilesStay
<1> QED
  BY <1>2, <1>3, Quiet

LEMMA RemoveInv ==
  ASSUME IInv, TypeOK', NoDeadClaim', NEW p \in Proc, pc[p] # "dead", FilesStay,
         NEW c \in AfterRemove, Remove(p, c), UNCHANGED <<own, clm, cur>>,
         ~Unsettled(p), clm[p] # None, c = "unclaimed" => Settled(p)
  PROVE  IInv'
<1>1. pc'[p] = "rmcheck" /\ k'[p] = c
  BY DEF Remove, Goto, IInv, TypeOK, ProcsOK
<1>2. Others(p) /\ Stays(p)
  BY DEF Remove, Goto, Others, Stays, IInv, TypeOK, ProcsOK
<1>3. Local(p)'
  <2>1. Names(p)' /\ clm[p] # None /\ claim = clm[p]
    BY DEF IInv, Local, Names, Claims
  <2>2. c = "unclaimed" => own[p] \in owners
    BY Files, Places
  <2>3. Sole(p)'
    <3> SUFFICES ASSUME c = "unclaimed", NEW t \in owners \ {own[p]}
                 PROVE  Unsettled(Author(t))' /\ own[Author(t)] = t
      BY <1>1 DEF Sole, Settled, Toward, Observing, FilesStay
    <3>1. Unsettled(Author(t)) /\ own[Author(t)] = t /\ Author(t) \in Proc
      BY Files DEF IInv, Local, Sole
    <3> QED
      BY <1>2, <3>1, OthersPlaces
  <2> QED
    BY <1>1, <2>1, <2>2, <2>3 DEF Local, Claims, Claiming, NoDisplacing, Toward, Owns, HasOwner,
                                  Breaks, Breaking, Observing, FilesStay
<1> QED
  BY <1>2, <1>3, Quiet

\* A step within the observation or under the claim keeps a settled owner sole.
LEMMA SoleStays ==
  ASSUME IInv, NEW p \in Proc, Others(p), own'[p] = own[p], UNCHANGED owners, Settled(p)
  PROVE  Sole(p)'
<1> SUFFICES ASSUME NEW t \in owners \ {own[p]}
             PROVE  Unsettled(Author(t))' /\ own'[Author(t)] = t
  BY DEF Sole
<1>1. Unsettled(Author(t)) /\ own[Author(t)] = t /\ Author(t) \in Proc /\ Author(t) # p
  BY Files DEF IInv, Local, Sole
<1> QED
  BY <1>1, OthersPlaces DEF Others

-----------------------------------------------------------------------------
(* Observing.                                                              *)

LEMMA LstatInv ==
  ASSUME IInv, TypeOK', NoDeadClaim', NEW p \in Proc, Lstat(p)
  PROVE  IInv'
<1>1. /\ pc[p] = "lstat" /\ pc'[p] = "readdir" /\ cur'[p].dir = lockDir
      /\ UNCHANGED <<fs, k, own, clm>>
  BY DEF Lstat, Goto, IInv, TypeOK, ProcsOK, Observation
<1>2. Others(p) /\ FilesStay
  BY DEF Lstat, Goto, Others, FilesStay, fs, IInv, TypeOK, ProcsOK
<1>3. Stays(p)
  BY <1>1 DEF Stays, Unsettled
<1>4. Sole(p)'
  BY <1>1, <1>2, SoleStays DEF Sole, Settled, Toward, Observing, fs
<1>5. Local(p)'
  BY <1>1, <1>4 DEF IInv, Local, Names, Claims, Claiming, NoDisplacing, Toward, Owns, HasOwner,
                    Breaks, Breaking, Observing, fs
<1> QED
  BY <1>1, <1>2, <1>3, <1>5, Quiet

LEMMA ReaddirInv ==
  ASSUME IInv, TypeOK', NoDeadClaim', NEW p \in Proc, Readdir(p)
  PROVE  IInv'
<1>1. PICK o \in owners \cup {None} :
        owners = {o} \ {None} /\ cur'[p].owner = o /\ cur'[p].dir = cur[p].dir
  BY DEF Readdir, IInv, TypeOK, ProcsOK, Observation
<1>2. /\ pc[p] = "readdir" /\ pc'[p] \in {"entries", k[p]} /\ k[p] \in AfterObserve
      /\ owners # {} => pc'[p] = "entries"
      /\ UNCHANGED <<fs, k, own, clm>>
  BY DEF Readdir, Goto, Observing, IInv, TypeOK, ProcsOK
<1>3. Others(p) /\ FilesStay
  BY DEF Readdir, Goto, Others, FilesStay, fs, IInv, TypeOK, ProcsOK
<1>4. Stays(p)
  <2> SUFFICES ASSUME NEW q \in Proc, q # p, Settled(q), own[p] \in owners PROVE FALSE
    BY DEF Stays
  <2>1. own[q] \in owners /\ own[p] # None /\ own[q] # None
    BY Files, Places
  <2> QED BY <1>1, <2>1, Files
<1>5. HasOwner(p)' <=> HasOwner(p)
  BY <1>2 DEF HasOwner, Observing, AfterObserve
<1>6. Sole(p)'
  <2>1. CASE Settled(p)
    BY <1>2, <1>3, <2>1, SoleStays DEF fs
  <2>2. CASE HasOwner(p)
    BY <1>1, <1>2, <2>2, Files DEF Sole, fs
  <2> QED
    BY <1>5, <2>2, Places DEF Sole, Settled, HasOwner, Toward, Observing
<1>7. Claiming(p)' <=> Claiming(p)
  BY <1>2 DEF Claiming, Toward, Observing, AfterObserve
<1>8. NoDisplacing(p)'
  BY <1>2 DEF IInv, Local, NoDisplacing, Toward, Observing, AfterObserve
<1>9. Breaks(p)'
  BY <1>1, <1>2 DEF IInv, Local, Breaks, Breaking, AfterObserve, fs
<1>10. Local(p)'
  BY <1>2, <1>5, <1>6, <1>7, <1>8, <1>9 DEF IInv, Local, Names, Claims, Owns, fs
<1> QED
  BY <1>2, <1>3, <1>4, <1>10, Quiet

LEMMA EntriesInv ==
  ASSUME IInv, TypeOK', NoDeadClaim', NEW p \in Proc, Entries(p)
  PROVE  IInv'
<1>1. /\ pc[p] = "entries" /\ pc'[p] = k[p] /\ k[p] \in AfterObserve
      /\ cur'[p].owner = cur[p].owner /\ cur'[p].dir = cur[p].dir
      /\ UNCHANGED <<fs, k, own, clm>>
  BY DEF Entries, Goto, Observing, IInv, TypeOK, ProcsOK, Observation
<1>2. Others(p) /\ FilesStay
  BY DEF Entries, Goto, Others, FilesStay, fs, IInv, TypeOK, ProcsOK
<1>3. Stays(p)
  BY <1>1 DEF Stays, Unsettled
<1>4. Sole(p)'
  BY <1>1, <1>2, SoleStays DEF Sole, Settled, Toward, Observing, AfterObserve, fs
<1>5. Local(p)'
  BY <1>1, <1>4 DEF IInv, Local, Names, Claims, Claiming, NoDisplacing, Toward, Owns, HasOwner,
                    Breaks, Breaking, Observing, AfterObserve, fs
<1> QED
  BY <1>1, <1>2, <1>3, <1>5, Quiet

LEMMA ObserveMissingInv ==
  ASSUME IInv, TypeOK', NoDeadClaim', NEW p \in Proc, ObserveMissing(p)
  PROVE  IInv'
<1>1. pc[p] # "dead" /\ FilesStay
  BY DEF ObserveMissing, FilesStay, fs
<1>2. k[p] # "installed" => ~Unsettled(p)
  BY DEF ObserveMissing, Unsettled
<1>3. CASE \E r \in Reason : Abort(p, r) /\ UNCHANGED <<k, own, clm, obs, cur, disp>>
  BY <1>1, <1>3, AbortInv
<1>4. CASE /\ k[p] # "installed"
           /\ \E l \in {"mkdir", "error", "pause"}, r \in Reason : Leave(p, l, r)
  BY <1>1, <1>2, <1>4, LeaveInv
<1> QED
  BY <1>3, <1>4 DEF ObserveMissing, Reason

LEMMA ObserveUnexpectedInv ==
  ASSUME IInv, TypeOK', NoDeadClaim', NEW p \in Proc, ObserveUnexpected(p)
  PROVE  IInv'
<1>1. pc[p] = "readdir" /\ FilesStay
  BY DEF ObserveUnexpected, FilesStay, fs
<1>2. CASE Abort(p, "unexpected") /\ UNCHANGED <<k, own, clm, obs, cur, disp>>
  BY <1>1, <1>2, AbortInv
<1>3. CASE /\ k[p] \in {"revalidate", "ownerless"} /\ Remove(p, "error")
           /\ UNCHANGED <<own, clm, obs, cur, disp>>
  <2>1. ~Unsettled(p) /\ clm[p] # None
    BY <1>1, <1>3, Places, HasClaim DEF Unsettled
  <2> QED
    BY <1>1, <1>3, <2>1, RemoveInv DEF AfterRemove
<1>4. CASE k[p] # "installed" /\ Leave(p, "error", "unexpected")
  BY <1>1, <1>4, LeaveInv DEF Unsettled
<1> QED
  BY <1>2, <1>3, <1>4 DEF ObserveUnexpected

-----------------------------------------------------------------------------
(* Removing a claim.                                                       *)

LEMMA RemoveCheckInv ==
  ASSUME IInv, TypeOK', NoDeadClaim', NEW p \in Proc, RemoveCheck(p)
  PROVE  IInv'
<1>1. pc[p] = "rmcheck" /\ pc'[p] = "rmunlink" /\ UNCHANGED <<fs, k, own, clm, cur>>
  BY DEF RemoveCheck, Goto, IInv, TypeOK, ProcsOK
<1>2. Others(p) /\ FilesStay /\ Stays(p)
  BY <1>1 DEF RemoveCheck, Goto, Others, FilesStay, Stays, Unsettled, fs, IInv, TypeOK, ProcsOK
<1>3. Sole(p)'
  BY <1>1, <1>2, SoleStays DEF Sole, Settled, Toward, Observing, fs
<1>4. Local(p)'
  BY <1>1, <1>3 DEF IInv, Local, Names, Claims, Claiming, NoDisplacing, Toward, Owns, HasOwner,
                    Breaks, Breaking, Observing, fs
<1> QED
  BY <1>1, <1>2, <1>4, Quiet

\* The claim is its own, so it is there and is not another's.
LEMMA RemoveFindsClaim ==
  ASSUME IInv, NEW p \in Proc
  PROVE  ~RemoveNothing(p) /\ ~RemoveRefused(p)
BY HasClaim DEF RemoveNothing, RemoveRefused, Claiming

LEMMA RemoveUnlinkInv ==
  ASSUME IInv, TypeOK', NoDeadClaim', NEW p \in Proc, RemoveUnlink(p)
  PROVE  IInv'
<1>1. /\ pc[p] = "rmunlink" /\ claim' = None /\ UNCHANGED <<lockDir, owners, leaked>>
      /\ RemoveDone(p)
  BY DEF RemoveUnlink
<1>2. clm[p] # None /\ \A q \in Proc : ~Unsettled(q)
  BY <1>1, HasClaim, OneClaimant DEF Claiming, Unsettled
<1>3. Others(p) /\ clm'[p] = None /\ own'[p] \in {None, own[p]}
  BY <1>1 DEF RemoveDone, Observe, Leave, Goto, Others, IInv, TypeOK, ProcsOK
<1>4. ASSUME NEW q \in Proc, q # p PROVE Local(q)'
  <2>1. clm[q] = None /\ ~Claiming(q) /\ ~Breaking(q)
    BY <1>2, <1>4, OneClaimant
  <2>2. Names(q)' /\ NoDisplacing(q)' /\ Claims(q)'
    BY <1>3, <1>4, <2>1, OthersPlaces DEF IInv, Local, Claims, Others
  <2>3. Owns(q)'
    BY <1>1, <1>3, <1>4, OthersPlaces DEF IInv, Local, Owns, Others
  <2>4. Breaks(q)'
    BY <1>3, <1>4, <2>1, Places, OthersPlaces DEF Breaks, Breaking, Others
  <2>5. Sole(q)'
    BY <1>1, <1>2, <1>3, <1>4, Alone, OthersPlaces DEF Sole, Others
  <2> QED BY <2>2, <2>3, <2>4, <2>5 DEF Local
<1>5. Local(p)'
  <2>1. CASE k[p] = "unclaimed"
    <3>1. pc'[p] = "lstat" /\ k'[p] = "ready" /\ own'[p] = own[p]
      BY <1>1, <2>1 DEF RemoveDone, Observe, Goto, IInv, TypeOK, ProcsOK
    <3>2. Settled(p)
      BY <1>1, <2>1 DEF Settled
    <3>3. own[p] \in owners /\ owners \subseteq {own[p]}
      BY <1>2, <3>2, Files, Places, Alone
    <3> QED
      BY <1>1, <1>3, <3>1, <3>3 DEF IInv, Local, Names, Claims, Claiming, NoDisplacing, Toward,
         Owns, Breaks, Breaking, Sole, Observing
  <2>2. CASE k[p] # "unclaimed"
    <3>1. \/ pc'[p] \in {"pause", "error"}
          \/ pc'[p] = "rmdir" /\ own'[p] = own[p]
      BY <1>1, <2>2 DEF RemoveDone, Leave, Goto, IInv, TypeOK, ProcsOK
    <3> QED
      BY <1>3, <3>1 DEF IInv, Local, Names, Claims, Claiming, NoDisplacing, Toward, Owns,
         HasOwner, Breaks, Breaking, Sole, Settled, Observing
  <2> QED BY <2>1, <2>2
<1>6. NoLeak' /\ NoDirectory'
  BY <1>1 DEF IInv, NoLeak, NoDirectory
<1> QED
  BY <1>4, <1>5, <1>6 DEF IInv

-----------------------------------------------------------------------------
(* initializeLock.                                                         *)

LEMMA AcquireInv ==
  ASSUME IInv, TypeOK', NoDeadClaim', NEW p \in Proc, Acquire(p)
  PROVE  IInv'
BY LeaveInv DEF Acquire, FilesStay, fs, Unsettled

LEMMA MkdirWinsInv ==
  ASSUME IInv, TypeOK', NoDeadClaim', NEW p \in Proc, MkdirWins(p)
  PROVE  IInv'
<1>1. /\ owners = {} /\ claim = None /\ lockDir' # None
      /\ UNCHANGED <<owners, claim, leaked, clm>>
  BY NoneAssumption DEF MkdirWins, IInv, NoDirectory
<1>2. Author(own'[p]) = p
  BY DrawnToken DEF MkdirWins, IInv, TypeOK, ProcsOK
<1>3. pc'[p] = "lstat" /\ k'[p] = "empty" /\ Others(p)
  BY DEF MkdirWins, Observe, Goto, Others, IInv, TypeOK, ProcsOK
<1>4. ASSUME NEW q \in Proc, q # p PROVE Local(q)'
  <2>1. clm[q] = None /\ ~Claiming(q) /\ ~Breaking(q)
    BY <1>1, NoClaimant
  <2>2. ~HasOwner(q) /\ ~Settled(q)
    BY <1>1, Files, Places
  <2>3. Names(q)' /\ NoDisplacing(q)' /\ Claims(q)' /\ Owns(q)' /\ Sole(q)'
    BY <1>1, <1>3, <1>4, <2>1, <2>2, OthersPlaces DEF IInv, Local, Claims, Owns, Sole
  <2>4. Breaks(q)'
    BY <1>3, <1>4, <2>1, Places, OthersPlaces DEF Breaks, Breaking, Others
  <2> QED BY <2>3, <2>4 DEF Local
<1>5. Local(p)'
  BY <1>1, <1>2, <1>3, NoClaimant
  DEF IInv, Local, Names, Claims, Claiming, NoDisplacing, Toward, Owns, HasOwner, Breaks,
      Breaking, Sole, Settled, Observing
<1>6. NoLeak' /\ NoDirectory'
  BY <1>1 DEF IInv, NoLeak, NoDirectory
<1> QED
  BY <1>4, <1>5, <1>6 DEF IInv

LEMMA MkdirExistsInv ==
  ASSUME IInv, TypeOK', NoDeadClaim', NEW p \in Proc, MkdirExists(p)
  PROVE  IInv'
BY ObserveInv DEF MkdirExists, FilesStay, fs, Unsettled, AfterObserve

LEMMA EmptyInv ==
  ASSUME IInv, TypeOK', NoDeadClaim', NEW p \in Proc, Empty(p)
  PROVE  IInv'
<1>1. pc[p] = "empty" /\ FilesStay /\ UNCHANGED <<own, clm>>
  BY DEF Empty, FilesStay, fs
<1>2. CASE Observe(p, "linkInit")
  BY <1>1, <1>2, ObserveInv DEF Unsettled, AfterObserve
<1>3. CASE Abort(p, "contended") /\ UNCHANGED <<obs, k, cur>>
  BY <1>1, <1>3, AbortInv
<1> QED
  BY <1>2, <1>3 DEF Empty

\* publishClaim succeeds.
LEMMA LinkInv ==
  ASSUME IInv, TypeOK', NoDeadClaim', NEW p \in Proc, CanLink(p), Link(p),
         pc[p] \in {"linkInit", "linkBreak"},
         NEW l \in {"verifyInit", "verifyBreak"}, Goto(p, l)
  PROVE  IInv'
<1>1. /\ claim = None /\ lockDir # None /\ claim' = Drawn(p) /\ clm'[p] = Drawn(p)
      /\ Drawn(p) \in Token /\ Author(Drawn(p)) = p
      /\ UNCHANGED <<lockDir, owners, leaked, own>>
  BY DrawnToken DEF CanLink, Link, IInv, TypeOK, ProcsOK
<1>2. Others(p) /\ pc'[p] = l
  BY DEF Link, Goto, Others, IInv, TypeOK, ProcsOK
<1>3. \A q \in Proc : ~Unsettled(q)
  BY <1>1, NoClaimant
<1>4. ASSUME NEW q \in Proc, q # p PROVE Local(q)'
  <2>1. clm[q] = None /\ ~Claiming(q) /\ ~Breaking(q)
    BY <1>1, NoClaimant
  <2>2. Names(q)' /\ NoDisplacing(q)' /\ Claims(q)'
    BY <1>2, <1>4, <2>1, OthersPlaces DEF IInv, Local, Claims, Others
  <2>3. Owns(q)'
    BY <1>1, <1>2, <1>4, OthersPlaces DEF IInv, Local, Owns, Others
  <2>4. Breaks(q)'
    BY <1>2, <1>4, <2>1, Places, OthersPlaces DEF Breaks, Breaking, Others
  <2>5. Sole(q)'
    BY <1>1, <1>2, <1>3, <1>4, Alone, OthersPlaces DEF Sole, Others
  <2> QED BY <2>2, <2>3, <2>4, <2>5 DEF Local
<1>5. Local(p)'
  BY <1>1, <1>2, NoneAssumption
  DEF IInv, Local, Names, Claims, Claiming, NoDisplacing, Toward, Owns, HasOwner, Breaks,
      Breaking, Sole, Settled, Observing
<1>6. NoLeak' /\ NoDirectory'
  BY <1>1 DEF IInv, NoLeak, NoDirectory
<1> QED
  BY <1>4, <1>5, <1>6 DEF IInv

LEMMA LinkInitInv ==
  ASSUME IInv, TypeOK', NoDeadClaim', NEW p \in Proc, LinkInit(p)
  PROVE  IInv'
BY LinkInv, AbortInv DEF LinkInit, FilesStay, fs

LEMMA VerifyInitInv ==
  ASSUME IInv, TypeOK', NoDeadClaim', NEW p \in Proc, VerifyInit(p)
  PROVE  IInv'
<1>1. pc[p] = "verifyInit" /\ claim = clm[p]
  BY HasClaim DEF VerifyInit, Claiming
<1>2. pc'[p] = "install" /\ UNCHANGED <<fs, k, own, clm, cur>>
  BY <1>1 DEF VerifyInit, Goto, IInv, TypeOK, ProcsOK
<1>3. Others(p) /\ FilesStay /\ Stays(p)
  BY <1>1, <1>2
  DEF VerifyInit, Goto, Others, FilesStay, Stays, Unsettled, fs, IInv, TypeOK, ProcsOK
<1>4. Local(p)'
  BY <1>1, <1>2
  DEF IInv, Local, Names, Claims, Claiming, NoDisplacing, Toward, Owns, HasOwner, Breaks,
      Breaking, Sole, Settled, Observing, fs
<1> QED
  BY <1>1, <1>3, <1>4, Quiet

LEMMA InstallInv ==
  ASSUME IInv, TypeOK', NoDeadClaim', NEW p \in Proc, Install(p)
  PROVE  IInv'
<1>1. pc[p] = "install" /\ clm[p] # None /\ claim # None /\ lockDir # None
  BY HasClaim DEF Install, Claiming
<1>2. /\ owners' = owners \cup {own[p]} /\ UNCHANGED <<lockDir, claim, leaked, own, clm>>
      /\ pc'[p] = "lstat" /\ k'[p] = "installed"
  BY <1>1 DEF Install, Observe, Goto, IInv, TypeOK, ProcsOK
<1>3. Others(p)
  BY <1>1 DEF Install, Observe, Goto, Others, IInv, TypeOK, ProcsOK
<1>4. own[p] # None /\ Author(own[p]) = p
  BY <1>1, Files DEF IInv, TypeOK, ProcsOK, Initializing
<1>5. \A q \in Proc : ~Unsettled(q)
  BY <1>1, OneClaimant DEF Unsettled
<1>6. ASSUME NEW q \in Proc, q # p PROVE Local(q)'
  <2>1. clm[q] = None /\ ~Claiming(q) /\ ~Breaking(q)
    BY <1>1, <1>6, OneClaimant
  <2>2. Names(q)' /\ NoDisplacing(q)' /\ Claims(q)' /\ Owns(q)'
    BY <1>2, <1>3, <1>6, <2>1, OthersPlaces DEF IInv, Local, Claims, Owns
  <2>3. Breaks(q)'
    BY <1>3, <1>6, <2>1, Places, OthersPlaces DEF Breaks, Breaking, Others
  <2>4. Sole(q)'
    <3> SUFFICES ASSUME Settled(q)', NEW t \in owners' \ {own[q]}
                 PROVE  Unsettled(Author(t))' /\ own[Author(t)] = t
      BY <1>2 DEF Sole
    <3>1. owners \subseteq {own[q]}
      BY <1>3, <1>5, <1>6, OthersPlaces, Alone
    <3> QED
      BY <1>2, <1>4, <3>1 DEF Unsettled
  <2> QED BY <2>2, <2>3, <2>4 DEF Local
<1>7. Local(p)'
  BY <1>1, <1>2
  DEF IInv, Local, Names, Claims, Claiming, NoDisplacing, Toward, Owns, Breaks,
      Breaking, Sole, Settled, Observing
<1>8. NoLeak' /\ NoDirectory'
  BY <1>1, <1>2 DEF IInv, NoLeak, NoDirectory
<1> QED
  BY <1>6, <1>7, <1>8 DEF IInv

LEMMA InstalledInv ==
  ASSUME IInv, TypeOK', NoDeadClaim', NEW p \in Proc, Installed(p)
  PROVE  IInv'
<1>1. pc[p] = "installed" /\ FilesStay /\ UNCHANGED <<own, clm, cur>>
  BY DEF Installed, FilesStay, fs
<1>2. CASE \E r \in Reason : Abort(p, r) /\ UNCHANGED k
  BY <1>1, <1>2, AbortInv
<1>3. CASE Remove(p, "unclaimed")
  BY <1>1, <1>3, HasClaim, RemoveInv DEF Claiming, Toward, Settled, Unsettled, AfterRemove
<1> QED
  BY <1>2, <1>3 DEF Installed, Reason

LEMMA ReadyInv ==
  ASSUME IInv, TypeOK', NoDeadClaim', NEW p \in Proc, Ready(p)
  PROVE  IInv'
<1>1. pc[p] = "ready" /\ FilesStay /\ UNCHANGED <<fs, own, clm>>
  BY DEF Ready, FilesStay, fs
<1>2. CASE Abort(p, "contended") /\ UNCHANGED <<k, obs, cur>>
  BY <1>1, <1>2, AbortInv
<1>3. CASE Goto(p, "cs") /\ cur' = [cur EXCEPT ![p] = NoObservation]
           /\ k' = [k EXCEPT ![p] = "none"]
  <2>1. pc'[p] = "cs" /\ Others(p) /\ Stays(p) /\ Settled(p)
    BY <1>1, <1>3
    DEF Goto, Others, Stays, Unsettled, Settled, Toward, IInv, TypeOK, ProcsOK
  <2>2. Sole(p)'
    BY <1>1, <2>1, SoleStays DEF fs
  <2>3. Local(p)'
    BY <1>1, <2>1, <2>2
    DEF IInv, Local, Names, Claims, Claiming, NoDisplacing, Toward, Owns, HasOwner, Breaks,
        Breaking, Observing, fs
  <2> QED
    BY <1>1, <2>1, <2>3, Quiet
<1> QED
  BY <1>2, <1>3 DEF Ready

\* A live process unlinks its own owner file.
LEMMA UnlinkOthers ==
  ASSUME IInv, NEW p \in Proc, pc[p] # "dead", own[p] \in Token \cup {None},
         UnlinkOwner(own[p]), UNCHANGED <<lockDir, claim, own>>, Others(p), ~Unsettled(p)' ,
         NEW q \in Proc, q # p
  PROVE  Local(q)'
<1>1. owners' = owners \ {own[p]}
  BY DEF UnlinkOwner
<1>2. Names(q)' /\ NoDisplacing(q)' /\ Claims(q)'
  BY OthersPlaces DEF IInv, Local, Claims, Others
<1>3. Owns(q)'
  BY <1>1, Files, OthersPlaces DEF Owns, Others
<1>4. Breaks(q)'
  <2>1. pc[q] = "quarantine" => own[p] \notin owners
    BY Files DEF IInv, Local, Breaks, Dead
  <2>2. cur[q].owner # None /\ Dead(Author(cur[q].owner)) => Dead(Author(cur[q].owner))'
    BY Files DEF Dead, Others
  <2> QED
    BY <1>1, <2>1, <2>2, OthersPlaces DEF IInv, Local, Breaks, Others
<1>5. Sole(q)'
  <2> SUFFICES ASSUME Settled(q), NEW t \in owners, t # own[p], t # own[q]
               PROVE  Unsettled(Author(t))' /\ own[Author(t)] = t
    BY <1>1, OthersPlaces DEF Sole
  <2>1. Unsettled(Author(t)) /\ own[Author(t)] = t /\ Author(t) \in Proc /\ Author(t) # p
    BY Files DEF IInv, Local, Sole
  <2> QED
    BY <2>1, OthersPlaces
<1> QED
  BY <1>2, <1>3, <1>4, <1>5 DEF Local

LEMMA CleanupInv ==
  ASSUME IInv, TypeOK', NoDeadClaim', NEW p \in Proc, Cleanup(p)
  PROVE  IInv'
<1>1. pc[p] = "cleanup" /\ UnlinkOwner(own[p]) /\ UNCHANGED <<lockDir, claim, leaked, own, clm>>
  BY DEF Cleanup
<1>2. /\ Others(p)
      /\ \/ clm[p] # None /\ pc'[p] = "rmcheck" /\ k'[p] = "rmdir"
         \/ clm[p] = None /\ pc'[p] = "rmdir"
  BY DEF Cleanup, Remove, Goto, Others, IInv, TypeOK, ProcsOK
<1>3. ASSUME NEW q \in Proc, q # p PROVE Local(q)'
  BY <1>1, <1>2, <1>3, UnlinkOthers DEF Unsettled, IInv, TypeOK, ProcsOK
<1>4. Local(p)'
  BY <1>1, <1>2
  DEF IInv, Local, Names, Claims, Claiming, NoDisplacing, Toward, Owns, HasOwner, Breaks,
      Breaking, Sole, Settled, Observing
<1>5. NoLeak' /\ NoDirectory'
  BY <1>1 DEF IInv, NoLeak, NoDirectory, UnlinkOwner
<1> QED
  BY <1>3, <1>4, <1>5 DEF IInv

LEMMA CleanupRmdirInv ==
  ASSUME IInv, TypeOK', NoDeadClaim', NEW p \in Proc, CleanupRmdir(p)
  PROVE  IInv'
<1>1. pc[p] = "rmdir" /\ FilesStay
  BY DEF CleanupRmdir, FilesStay, RemoveEmptyDir
<1>2. CASE /\ Observe(p, "stale")
           /\ own' = [own EXCEPT ![p] = None] /\ clm' = [clm EXCEPT ![p] = None]
  <2>1. own'[p] = None /\ clm'[p] = None
        /\ \A q \in Proc \ {p} : own'[q] = own[q] /\ clm'[q] = clm[q]
    BY <1>2 DEF IInv, TypeOK, ProcsOK
  <2> QED
    BY <1>1, <1>2, <2>1, ObserveInv DEF Unsettled, AfterObserve
<1>3. CASE \E l \in {"mkdir", "error"}, r \in Reason : Leave(p, l, r)
  BY <1>1, <1>3, LeaveInv DEF Unsettled
<1> QED
  BY <1>2, <1>3 DEF CleanupRmdir, Reason

-----------------------------------------------------------------------------
(* breakStaleLock.                                                         *)

LEMMA StaleInv ==
  ASSUME IInv, TypeOK', NoDeadClaim', NEW p \in Proc, Stale(p)
  PROVE  IInv'
<1>1. pc[p] = "stale" /\ FilesStay /\ UNCHANGED fs
  BY DEF Stale, FilesStay, fs
<1>2. CASE Observe(p, "linkBreak") /\ UNCHANGED <<own, clm>>
  BY <1>1, <1>2, ObserveInv DEF Unsettled, AfterObserve
<1>3. CASE Goto(p, "parseclaim") /\ UNCHANGED <<k, own, clm, cur>>
  <2>1. pc'[p] = "parseclaim" /\ Others(p) /\ Stays(p)
    BY <1>1, <1>3 DEF Goto, Others, Stays, Unsettled, IInv, TypeOK, ProcsOK
  <2>2. Local(p)'
    BY <1>1, <1>3, <2>1
    DEF IInv, Local, Names, Claims, Claiming, NoDisplacing, Toward, Owns, HasOwner, Breaks,
        Breaking, Sole, Settled, Observing, fs
  <2> QED
    BY <1>1, <2>1, <2>2, Quiet
<1>4. CASE Leave(p, "pause", "none")
  BY <1>1, <1>4, LeaveInv DEF Unsettled
<1> QED
  BY <1>2, <1>3, <1>4 DEF Stale

\* The claim it reads is not that of a dead process, so it gives up.
LEMMA ParseClaimInv ==
  ASSUME IInv, TypeOK', NoDeadClaim', NEW p \in Proc, ParseClaim(p)
  PROVE  IInv'
<1>1. pc[p] = "parseclaim" /\ FilesStay
  BY DEF ParseClaim, FilesStay, fs
<1>2. Leave(p, "error", "vanished") \/ Leave(p, "pause", "none")
  BY DEF ParseClaim, Abandoned, IInv, NoDeadClaim
<1> QED
  BY <1>1, <1>2, LeaveInv DEF Unsettled

LEMMA NobodyDisplaces ==
  ASSUME IInv, NEW p \in Proc
  PROVE  ~Displace(p) /\ ~Rename(p) /\ ~Restore(p) /\ ~Replace(p)
BY DEF IInv, Local, NoDisplacing, Toward, Displace, Rename, Restore, Replace

LEMMA LinkBreakInv ==
  ASSUME IInv, TypeOK', NoDeadClaim', NEW p \in Proc, LinkBreak(p)
  PROVE  IInv'
BY LinkInv, LeaveInv DEF LinkBreak, FilesStay, fs, Unsettled

LEMMA VerifyBreakInv ==
  ASSUME IInv, TypeOK', NoDeadClaim', NEW p \in Proc, VerifyBreak(p)
  PROVE  IInv'
<1>1. pc[p] = "verifyBreak" /\ FilesStay /\ claim = clm[p] /\ clm[p] # None
  BY HasClaim DEF VerifyBreak, Claiming, FilesStay, fs
<1>2. Observe(p, "revalidate") /\ UNCHANGED <<own, clm>>
  BY <1>1 DEF VerifyBreak
<1> QED
  BY <1>1, <1>2, ObserveInv DEF Unsettled, AfterObserve

\* A breaker moves on under its claim with what it has read.
LEMMA BreakOn ==
  ASSUME IInv, TypeOK', NoDeadClaim', NEW p \in Proc, Breaking(p), pc[p] # "entries",
         FilesStay, UNCHANGED <<lockDir, k, own, clm, cur>>,
         NEW l \in {"parseowner", "quarantine"}, Goto(p, l),
         l = "quarantine" => /\ owners = {cur[p].owner} \ {None}
                             /\ cur[p].owner # None => Dead(Author(cur[p].owner))
  PROVE  IInv'
<1>1. /\ pc'[p] = l /\ pc[p] \in {"revalidate", "ownerless", "parseowner", "quarantine"}
      /\ Others(p) /\ Stays(p)
  BY DEF Breaking, Goto, Others, Stays, Unsettled, IInv, TypeOK, ProcsOK
<1>2. Claims(p)'
  BY <1>1, Places, HasClaim DEF Claims, FilesStay
<1>3. Dead(Author(cur[p].owner)) => Dead(Author(cur[p].owner))' \/ cur[p].owner = None
  BY <1>1, Files DEF Dead, Others
<1>4. Breaks(p)'
  BY <1>1, <1>3 DEF IInv, Local, Breaks, Breaking, FilesStay
<1>5. Local(p)'
  BY <1>1, <1>2, <1>4
  DEF IInv, Local, Names, NoDisplacing, Toward, Owns, HasOwner, Sole, Settled, Observing
<1> QED
  BY <1>1, <1>5, Quiet

LEMMA RevalidateInv ==
  ASSUME IInv, TypeOK', NoDeadClaim', NEW p \in Proc, Revalidate(p)
  PROVE  IInv'
<1>1. /\ pc[p] = "revalidate" /\ FilesStay /\ UNCHANGED lockDir /\ Breaking(p)
      /\ clm[p] # None /\ owners \subseteq {cur[p].owner}
  BY HasClaim DEF Revalidate, Claiming, Toward, Breaking, FilesStay, fs, IInv, Local, Breaks
<1>2. CASE Remove(p, "pause") /\ UNCHANGED <<own, clm, obs, cur, disp, err>>
  BY <1>1, <1>2, RemoveInv DEF Unsettled, AfterRemove
<1>3. CASE /\ Goto(p, IF cur[p].owner = None THEN "quarantine" ELSE "parseowner")
           /\ UNCHANGED <<k, own, clm, obs, cur, disp, err>>
  <2>1. cur[p].owner = None => owners = {}
    BY <1>1, Files
  <2> QED
    BY <1>1, <1>3, <2>1, BreakOn
<1>4. CASE Leave(p, "pause", "none") \/ Leave(p, "error", "identity")
  BY <1>1, <1>4, LeaveInv DEF Unsettled
<1> QED
  BY <1>2, <1>3, <1>4 DEF Revalidate

LEMMA ParseOwnerInv ==
  ASSUME IInv, TypeOK', NoDeadClaim', NEW p \in Proc, ParseOwner(p)
  PROVE  IInv'
<1>1. /\ pc[p] = "parseowner" /\ FilesStay /\ UNCHANGED <<lockDir, own, clm>> /\ Breaking(p)
      /\ clm[p] # None /\ owners \subseteq {cur[p].owner}
  BY HasClaim DEF ParseOwner, Claiming, Breaking, FilesStay, fs, IInv, Local, Breaks
<1>2. CASE Observe(p, "ownerless")
  BY <1>1, <1>2, ObserveInv DEF Unsettled, AfterObserve
<1>3. CASE /\ cur[p].owner \in owners /\ Dead(Author(cur[p].owner))
           /\ Goto(p, "quarantine") /\ UNCHANGED <<k, cur>>
  BY <1>1, <1>3, Files, BreakOn
<1>4. CASE Remove(p, "pause") /\ UNCHANGED cur
  BY <1>1, <1>4, RemoveInv DEF Unsettled, AfterRemove
<1> QED
  BY <1>2, <1>3, <1>4 DEF ParseOwner, Abandoned

LEMMA OwnerlessInv ==
  ASSUME IInv, TypeOK', NoDeadClaim', NEW p \in Proc, Ownerless(p)
  PROVE  IInv'
<1>1. /\ pc[p] = "ownerless" /\ FilesStay /\ UNCHANGED lockDir /\ Breaking(p)
      /\ clm[p] # None /\ owners \subseteq {cur[p].owner}
  BY HasClaim DEF Ownerless, Claiming, Toward, Breaking, FilesStay, fs, IInv, Local, Breaks
<1>2. CASE Leave(p, "pause", "none")
  BY <1>1, <1>2, LeaveInv DEF Unsettled
<1>3. CASE /\ cur[p].owner = None /\ Goto(p, "quarantine")
           /\ UNCHANGED <<k, own, clm, cur>>
  BY <1>1, <1>3, Files, BreakOn
<1>4. CASE Remove(p, "pause") /\ UNCHANGED <<own, clm, cur>>
  BY <1>1, <1>4, RemoveInv DEF Unsettled, AfterRemove
<1> QED
  BY <1>2, <1>3, <1>4 DEF Ownerless

\* It carries off what it saw under its claim: no file of a live process.
LEMMA QuarantineInv ==
  ASSUME IInv, TypeOK', NoDeadClaim', NEW p \in Proc, Quarantine(p)
  PROVE  IInv'
<1>1. /\ pc[p] = "quarantine" /\ clm[p] # None /\ claim = clm[p] /\ lockDir # None
      /\ lockDir = cur[p].dir /\ owners = {cur[p].owner} \ {None}
      /\ cur[p].owner # None => Dead(Author(cur[p].owner))
  BY HasClaim DEF Quarantine, AsObserved, Claiming, Breaking, IInv, Local, Breaks
<1>2. lockDir' = None /\ owners' = {} /\ claim' = None /\ UNCHANGED leaked
      /\ Leave(p, "mkdir", "none")
  BY <1>1 DEF Quarantine, AsObserved
<1>3. Others(p) /\ pc'[p] = "mkdir" /\ own'[p] = None /\ clm'[p] = None
  BY <1>2 DEF Leave, Goto, Others, IInv, TypeOK, ProcsOK
<1>4. ASSUME NEW q \in Proc, q # p PROVE Local(q)'
  <2>1. clm[q] = None /\ ~Claiming(q) /\ ~Breaking(q)
    BY <1>1, <1>4, OneClaimant
  <2>2. ~HasOwner(q) /\ ~Settled(q)
    BY <1>1, Files, Places DEF Dead
  <2>3. Names(q)' /\ NoDisplacing(q)' /\ Claims(q)' /\ Owns(q)' /\ Sole(q)'
    BY <1>3, <1>4, <2>1, <2>2, OthersPlaces DEF IInv, Local, Claims, Owns, Sole, Others
  <2>4. Breaks(q)'
    BY <1>3, <1>4, <2>1, Places, OthersPlaces DEF Breaks, Breaking, Others
  <2> QED BY <2>3, <2>4 DEF Local
<1>5. Local(p)'
  BY <1>3
  DEF Local, Names, Claims, Claiming, NoDisplacing, Toward, Owns, HasOwner, Breaks,
      Breaking, Sole, Settled, Observing
<1>6. NoLeak' /\ NoDirectory'
  BY <1>2 DEF IInv, NoLeak, NoDirectory
<1> QED
  BY <1>4, <1>5, <1>6 DEF IInv

LEMMA PauseInv ==
  ASSUME IInv, TypeOK', NoDeadClaim', NEW p \in Proc, Retry(p) \/ Timeout(p)
  PROVE  IInv'
BY LeaveInv DEF Retry, Timeout, FilesStay, fs, Unsettled

-----------------------------------------------------------------------------
(* releaseOwnedLock, and the environment.                                  *)

LEMMA ReleaseInv ==
  ASSUME IInv, TypeOK', NoDeadClaim', NEW p \in Proc, Release(p)
  PROVE  IInv'
<1>1. pc[p] = "cs" /\ own[p] \in owners
  BY Files DEF Release, HasOwner
<1>2. /\ UnlinkOwner(own[p]) /\ pc'[p] = "released"
      /\ UNCHANGED <<lockDir, claim, leaked, k, own, clm, cur>>
  BY <1>1 DEF Release, Goto, IInv, TypeOK, ProcsOK
<1>3. Others(p)
  BY <1>1 DEF Release, Goto, Others, IInv, TypeOK, ProcsOK
<1>4. ASSUME NEW q \in Proc, q # p PROVE Local(q)'
  BY <1>1, <1>2, <1>3, <1>4, UnlinkOthers DEF Unsettled, IInv, TypeOK, ProcsOK
<1>5. Local(p)'
  BY <1>2
  DEF IInv, Local, Names, Claims, Claiming, NoDisplacing, Toward, Owns, HasOwner, Breaks,
      Breaking, Sole, Settled, Observing
<1>6. NoLeak' /\ NoDirectory'
  BY <1>2 DEF IInv, NoLeak, NoDirectory, UnlinkOwner
<1> QED
  BY <1>4, <1>5, <1>6 DEF IInv

LEMMA ReleaseRmdirInv ==
  ASSUME IInv, TypeOK', NoDeadClaim', NEW p \in Proc, ReleaseRmdir(p)
  PROVE  IInv'
BY LeaveInv DEF ReleaseRmdir, FilesStay, RemoveEmptyDir, Unsettled

\* A process that relies on its claim to withdraw cannot die: its claim would
\* outlive it.
LEMMA CrashInv ==
  ASSUME IInv, TypeOK', NoDeadClaim', NEW p \in Proc, Crash(p)
  PROVE  IInv'
<1>1. pc[p] # "dead" /\ FilesStay /\ UNCHANGED claim /\ Leave(p, "dead", "none")
  BY DEF Crash, FilesStay, fs
<1>2. Dead(p)'
  BY <1>1 DEF Leave, Goto, Dead, IInv, TypeOK, ProcsOK
<1>3. clm[p] = None
  BY <1>1, <1>2 DEF IInv, Local, Names, Claims, NoDeadClaim
<1>4. ~Unsettled(p)
  BY <1>3, Places, HasClaim
<1> QED
  BY <1>1, <1>4, LeaveInv

LEMMA ElapseInv ==
  ASSUME IInv, TypeOK', NoDeadClaim', Elapse
  PROVE  IInv'
<1>1. ASSUME NEW q \in Proc PROVE Local(q)'
  BY DEF Elapse, IInv, Local, Names, Claims, Claiming, NoDisplacing, Toward, Owns, HasOwner,
         Breaks, Breaking, Sole, Settled, Unsettled, Observing, Dead
<1> QED
  BY <1>1 DEF Elapse, IInv, NoLeak, NoDirectory

-----------------------------------------------------------------------------
(* The invariant, and what follows from it.                                *)

LEMMA InvStep ==
  ASSUME IInv, [Next /\ NoDeadClaim']_vars
  PROVE  IInv'
<1>1. CASE UNCHANGED vars
  <2>1. ASSUME NEW q \in Proc PROVE Local(q)'
    BY <1>1
    DEF vars, fs, IInv, Local, Names, Claims, Claiming, NoDisplacing, Toward, Owns, HasOwner,
        Breaks, Breaking, Sole, Settled, Unsettled, Observing, Dead
  <2>2. TypeOK'
    BY <1>1, TypeStep DEF IInv
  <2> QED
    BY <1>1, <2>1, <2>2 DEF vars, fs, IInv, NoLeak, NoDirectory, NoDeadClaim, Dead
<1>2. CASE Next /\ NoDeadClaim'
  <2>1. TypeOK'
    BY <1>2, TypeStep DEF IInv
  <2>2. CASE Elapse
    BY <1>2, <2>1, <2>2, ElapseInv
  <2>3. ASSUME NEW p \in Proc, Step(p) PROVE IInv'
    BY <1>2, <2>1, <2>3, LstatInv, ReaddirInv, EntriesInv, ObserveMissingInv,
       ObserveUnexpectedInv, RemoveCheckInv, RemoveFindsClaim, RemoveUnlinkInv,
       MkdirWinsInv, MkdirExistsInv, EmptyInv, LinkInitInv, VerifyInitInv, InstallInv,
       InstalledInv, ReadyInv, CleanupInv, CleanupRmdirInv, StaleInv, ParseClaimInv,
       NobodyDisplaces, LinkBreakInv, VerifyBreakInv, RevalidateInv, ParseOwnerInv,
       OwnerlessInv, QuarantineInv, PauseInv, ReleaseInv, ReleaseRmdirInv
    DEF Step
  <2>4. ASSUME NEW p \in Proc, Acquire(p) \/ Timeout(p) \/ Crash(p) PROVE IInv'
    BY <1>2, <2>1, <2>4, AcquireInv, PauseInv, CrashInv
  <2> QED
    BY <1>2, <2>2, <2>3, <2>4 DEF Next
<1> QED
  BY <1>1, <1>2

LEMMA Invariance == SpecNoDeadClaim => []IInv
<1>1. Init => NoDeadClaim
  BY DEF Init, NoDeadClaim
<1>2. Init => IInv
  BY <1>1, InvInit
<1>3. IInv /\ [Next /\ NoDeadClaim']_vars => IInv'
  BY InvStep
<1> QED
  BY <1>2, <1>3, PTL DEF SpecNoDeadClaim

LEMMA Exclusion == IInv => MutualExclusion
BY OneSettled DEF MutualExclusion, Live, Settled

\* Two live processes are never both between acquireLedgerLock and release,
\* whatever the number of processes and whichever of them die outside a claim.
THEOREM MutexHolds == SpecNoDeadClaim => []MutualExclusion
BY Invariance, Exclusion, PTL

\* No breaker carries off the owner file of a live process.
THEOREM OwnerStays == SpecNoDeadClaim => []OwnerFilePresent
<1>1. IInv => OwnerFilePresent
  BY DEF IInv, Local, Owns, OwnerFilePresent, Live
<1> QED
  BY <1>1, Invariance, PTL

\* A claim handle is the claim on disk: only its process removes it.
THEOREM ClaimStays == SpecNoDeadClaim => []ClaimKept
<1>1. IInv => ClaimKept
  BY DEF IInv, Local, Claims, ClaimKept
<1> QED
  BY <1>1, Invariance, PTL

\* The checks inside a quarantined directory always pass, and it is removed.
THEOREM NothingLeaks == SpecNoDeadClaim => []NoLeak
<1>1. IInv => NoLeak
  BY DEF IInv
<1> QED
  BY <1>1, Invariance, PTL

-----------------------------------------------------------------------------
(* LedgerLock implements LedgerMutex.                                      *)

Holders == {p \in Proc : pc[p] = "cs"}

LEMMA OneMoves ==
  ASSUME TypeOK, Next, pc' # pc
  PROVE  \E p \in Proc : \A q \in Proc \ {p} : pc'[q] = pc[q]
<1>1. PICK p \in Proc : Step(p) \/ Acquire(p) \/ Timeout(p) \/ Crash(p)
  BY DEF Next, Elapse
<1>2. \E l : pc' = [pc EXCEPT ![p] = l]
  <2>1. CASE \/ Lstat(p) \/ Readdir(p) \/ Entries(p) \/ ObserveMissing(p)
             \/ ObserveUnexpected(p)
    BY <2>1 DEF Lstat, Readdir, Entries, ObserveMissing, ObserveUnexpected, Goto, Leave, Abort,
                Remove
  <2>2. CASE \/ RemoveCheck(p) \/ RemoveNothing(p) \/ RemoveRefused(p) \/ RemoveUnlink(p)
    BY <2>2 DEF RemoveCheck, RemoveNothing, RemoveRefused, RemoveUnlink, RemoveDone, Goto, Leave,
                Abort, Observe
  <2>3. CASE \/ Acquire(p) \/ MkdirWins(p) \/ MkdirExists(p) \/ Empty(p) \/ LinkInit(p)
             \/ VerifyInit(p) \/ Install(p)
    BY <2>3 DEF Acquire, MkdirWins, MkdirExists, Empty, LinkInit, VerifyInit, Install, Goto,
                Leave, Abort, Observe
  <2>4. CASE Installed(p) \/ Ready(p) \/ Cleanup(p) \/ CleanupRmdir(p)
    BY <2>4 DEF Installed, Ready, Cleanup, CleanupRmdir, Goto, Leave, Abort, Observe, Remove
  <2>5. CASE \/ Stale(p) \/ ParseClaim(p) \/ Displace(p) \/ Rename(p) \/ Restore(p)
             \/ Replace(p) \/ LinkBreak(p) \/ VerifyBreak(p)
    BY <2>5 DEF Stale, ParseClaim, Displace, Rename, Restore, Replace, LinkBreak, VerifyBreak,
                Goto, Leave, Observe
  <2>6. CASE Revalidate(p) \/ ParseOwner(p) \/ Ownerless(p) \/ Quarantine(p)
    BY <2>6 DEF Revalidate, ParseOwner, Ownerless, Quarantine, AsObserved, Goto, Leave, Observe, Remove
  <2>7. CASE \/ Retry(p) \/ Timeout(p) \/ Release(p) \/ ReleaseRmdir(p) \/ Crash(p)
    BY <2>7 DEF Retry, Timeout, Release, ReleaseRmdir, Crash, Goto, Leave
  <2> QED
    BY <1>1, <2>1, <2>2, <2>3, <2>4, <2>5, <2>6, <2>7 DEF Step
<1> QED
  BY <1>2 DEF TypeOK, ProcsOK

LEMMA AtMostOne ==
  ASSUME MutualExclusion, NEW p \in Proc, pc[p] = "cs"
  PROVE  Holders = {p}
BY DEF MutualExclusion, Live, Dead, Holders

\* The files, the claims and the retries of ledger-lock.ts implement the mutex
\* of LedgerMutex, on which trust.ts relies.
THEOREM ImplementsMutex == SpecNoDeadClaim => Serialized
<1>1. Init => Mutex!Init
  BY DEF Init, Mutex!Init
<1>2. ASSUME IInv, IInv', [Next /\ NoDeadClaim']_vars
      PROVE  [Mutex!Next]_Holders
  <2> SUFFICES ASSUME Next, Holders' # Holders PROVE Mutex!Next
    BY <1>2 DEF vars, Holders
  <2>1. MutualExclusion /\ MutualExclusion'
    <3>1. IInv' => MutualExclusion'
      BY Exclusion, PTL
    <3> QED
      BY <1>2, <3>1, Exclusion
  <2>2. PICK p \in Proc : \A q \in Proc \ {p} : pc'[q] = pc[q]
    BY <1>2, OneMoves DEF IInv, Holders
  <2>3. CASE pc[p] = "cs"
    <3>1. Holders = {p} /\ pc'[p] # "cs"
      BY <2>1, <2>2, <2>3, AtMostOne DEF Holders
    <3>2. Holders' = {}
      BY <2>2, <3>1 DEF Holders
    <3> QED
      BY <3>1, <3>2 DEF Mutex!Next, Mutex!Exit, Holders
  <2>4. CASE pc[p] # "cs"
    <3>1. pc'[p] = "cs"
      BY <2>2, <2>4 DEF Holders
    <3>2. Holders' = {p}
      BY <2>1, <3>1 DEF MutualExclusion, Live, Dead, Holders
    <3>3. Holders = {}
      BY <2>2, <2>4, <3>2 DEF Holders
    <3> QED
      BY <3>2, <3>3 DEF Mutex!Next, Mutex!Enter, Holders
  <2> QED BY <2>3, <2>4
<1> QED
  BY <1>1, <1>2, Invariance, PTL DEF SpecNoDeadClaim, Serialized, Mutex!Spec, Holders

-----------------------------------------------------------------------------
(* Processes that die with a claim in place: what LossInv says, and that   *)
(* every step keeps it until a directory is left in quarantine.            *)

LEMMA LossPlaces ==
  ASSUME NEW p
  PROVE  /\ Settled(p) => HasOwner(p) /\ ~Late(p)
         /\ HasOwner(p) => pc[p] # "dead"
BY DEF Settled, HasOwner, Late, Toward, Observing

LEMMA LossFiles ==
  ASSUME LossInv
  PROVE  /\ None \notin owners
         /\ \A t \in owners : Author(t) \in Proc
         /\ \A p \in Proc : cur[p].owner # None => Author(cur[p].owner) \in Proc
         /\ \A p \in Proc : Observing(p) => k[p] \in AfterObserve
BY NoneAssumption DEF LossInv, TypeOK, FilesOK, ProcsOK, Observation, Token, Author

LEMMA LossInit == Init => LossInv
<1> SUFFICES ASSUME Init PROVE LossInv
  OBVIOUS
<1>1. TypeOK
  BY TypeInit
<1>2. ASSUME NEW p \in Proc PROVE LossLocal(p)
  BY DEF Init, LossLocal, OwnName, Owns, HasOwner, BreaksDead, Settles, Settled, Toward,
         Observing
<1> QED
  BY <1>1, <1>2 DEF Init, LossInv, NoDirectory

\* Files appear only where there is a directory, and it goes when it is empty.
DirectoryKept ==
  \/ lockDir' # None
  \/ lockDir' = lockDir /\ owners' \subseteq owners /\ (claim' = claim \/ claim' = None)
  \/ owners' = {} /\ claim' = None

\* A step that takes away no owner file but p's own and settles nobody.
Harmless(p) ==
  /\ DirectoryKept
  /\ owners' \subseteq owners /\ owners \subseteq owners' \cup {own[p]}
  /\ OwnName(p)'
  /\ HasOwner(p)' => HasOwner(p) /\ own'[p] = own[p] /\ owners' = owners
  /\ Settled(p)' => Settled(p)
  /\ Late(p) /\ own[p] \in owners' => Late(p)' /\ (Dead(p)' \/ own'[p] = own[p])
  /\ BreaksDead(p)'

LEMMA LossOthersPlaces ==
  ASSUME NEW p, Others(p), NEW q \in Proc \ {p}
  PROVE  /\ Settled(q)' <=> Settled(q)
         /\ HasOwner(q)' <=> HasOwner(q)
         /\ Late(q)' <=> Late(q)
         /\ OwnName(q)' <=> OwnName(q)
         /\ Dead(q)' <=> Dead(q)
BY DEF Others, Settled, HasOwner, Late, OwnName, Toward, Observing, Dead

\* What a step of p leaves true of the other processes, when it takes away no
\* file but its own and what it adds or leaves behind comes late.
LEMMA LossNeighbours ==
  ASSUME LossInv, leaked = {}, TypeOK', NEW p \in Proc, pc[p] # "dead", Others(p),
         owners \subseteq owners' \cup {own[p]},
         owners' \subseteq owners \cup {own'[p]},
         OwnName(p)', own'[p] \in owners' \ owners => Late(p)',
         Late(p) /\ own[p] \in owners' =>
            \/ Late(p)' /\ (Dead(p)' \/ own'[p] = own[p])
            \/ \A q \in Proc \ {p} : ~Settled(q),
         NEW q \in Proc, q # p
  PROVE  LossLocal(q)'
<1>1. LossLocal(q) /\ LossLocal(p) /\ pc'[q] = pc[q] /\ own'[q] = own[q] /\ cur'[q] = cur[q]
  BY DEF LossInv, Others
<1>2. OwnName(q)'
  BY <1>1, LossOthersPlaces DEF LossLocal
<1>3. Owns(q)'
  <2>. SUFFICES ASSUME HasOwner(q) PROVE own[q] \in owners'
    BY <1>1, LossOthersPlaces DEF Owns
  <2>1. own[q] \in owners /\ own[q] # None /\ Author(own[q]) = q
    BY <1>1, LossFiles DEF LossLocal, Owns, OwnName
  <2>2. own[q] # own[p]
    BY <1>1, <2>1 DEF LossLocal, OwnName
  <2>. QED  BY <2>1, <2>2
<1>4. BreaksDead(q)'
  <2>. SUFFICES ASSUME pc[q] = "quarantine", cur[q].owner # None
                PROVE  Dead(Author(cur[q].owner))'
    BY <1>1 DEF BreaksDead, Dead
  <2>1. Dead(Author(cur[q].owner)) /\ Author(cur[q].owner) \in Proc
    BY <1>1, LossFiles DEF LossLocal, BreaksDead
  <2>2. Author(cur[q].owner) # p
    BY <2>1 DEF Dead
  <2>. QED  BY <1>1, <2>1, <2>2 DEF Dead, Others
<1>5. Settles(q)'
  <2>. SUFFICES ASSUME Settled(q), NEW t \in owners' \ {own[q]}
                PROVE  Late(Author(t))' /\ (Dead(Author(t))' \/ own'[Author(t)] = t)
    BY <1>1, LossOthersPlaces DEF Settles, Dead
  <2>1. CASE t \in owners
    <3>1. Late(Author(t)) /\ (Dead(Author(t)) \/ own[Author(t)] = t) /\ Author(t) \in Proc
      BY <1>1, <2>1, LossFiles DEF LossLocal, Settles
    <3>2. CASE Author(t) = p
      BY <3>1, <3>2 DEF Dead
    <3>3. CASE Author(t) # p
      BY <3>1, <3>3, LossOthersPlaces DEF Others
    <3>. QED  BY <3>2, <3>3
  <2>2. CASE t \notin owners
    <3>1. t = own'[p] /\ Late(p)'
      BY <2>2
    <3>2. CASE own'[p] = None
      BY <2>2, <3>1, <3>2, NoneAssumption DEF TypeOK, FilesOK
    <3>3. CASE own'[p] # None
      BY <3>1, <3>3 DEF OwnName
    <3>. QED  BY <3>2, <3>3
  <2>. QED  BY <2>1, <2>2
<1>. QED  BY <1>2, <1>3, <1>4, <1>5 DEF LossLocal

LEMMA HarmlessKeeps ==
  ASSUME LossInv, leaked = {}, TypeOK', NEW p \in Proc, pc[p] # "dead", Others(p), Harmless(p)
  PROVE  LossInv'
<1>1. NoDirectory'
  BY DEF Harmless, DirectoryKept, LossInv, NoDirectory
<1>2. LossLocal(p)'
  <2>1. LossLocal(p)
    BY DEF LossInv
  <2>2. Owns(p)'
    BY <2>1 DEF LossLocal, Owns, Harmless
  <2>3. Settles(p)'
    <3>. SUFFICES ASSUME Settled(p)', NEW t \in owners' \ {own'[p]}
                  PROVE  Late(Author(t))' /\ (Dead(Author(t))' \/ own'[Author(t)] = t)
      BY DEF Settles, Dead
    <3>1. Settled(p) /\ own'[p] = own[p] /\ owners' = owners
      BY LossPlaces DEF Harmless, Settled, HasOwner, Toward, Observing
    <3>2. Late(Author(t)) /\ (Dead(Author(t)) \/ own[Author(t)] = t) /\ Author(t) \in Proc
      BY <2>1, <3>1, LossFiles DEF LossLocal, Settles
    <3>3. Author(t) # p
      BY <3>1, <3>2, LossPlaces
    <3>. QED  BY <3>2, <3>3, LossOthersPlaces DEF Others
  <2>. QED  BY <2>2, <2>3 DEF LossLocal, Harmless
<1>3. ASSUME NEW q \in Proc, q # p PROVE LossLocal(q)'
  BY <1>3, LossNeighbours DEF Harmless
<1>. QED  BY <1>1, <1>2, <1>3 DEF LossInv

\* The steps of one process change nothing of the others.
LEMMA StepOthers ==
  ASSUME TypeOK, NEW p \in Proc, Step(p) \/ Acquire(p) \/ Timeout(p) \/ Crash(p)
  PROVE  Others(p) /\ pc[p] # "dead"
<1>. USE DEF TypeOK, ProcsOK, Others, fs
<1>1. CASE \/ Lstat(p) \/ Readdir(p) \/ Entries(p) \/ ObserveMissing(p)
           \/ ObserveUnexpected(p)
  BY <1>1 DEF Lstat, Readdir, Entries, ObserveMissing, ObserveUnexpected, Goto, Leave, Abort,
              Remove
<1>2. CASE \/ RemoveCheck(p) \/ RemoveNothing(p) \/ RemoveRefused(p) \/ RemoveUnlink(p)
  BY <1>2 DEF RemoveCheck, RemoveNothing, RemoveRefused, RemoveUnlink, RemoveDone, Goto, Leave,
              Abort, Observe
<1>3. CASE \/ Acquire(p) \/ MkdirWins(p) \/ MkdirExists(p) \/ Empty(p) \/ LinkInit(p)
           \/ VerifyInit(p) \/ Install(p)
  BY <1>3 DEF Acquire, MkdirWins, MkdirExists, Empty, LinkInit, Link, VerifyInit, Install, Goto,
              Leave, Abort, Observe
<1>4. CASE Installed(p) \/ Ready(p) \/ Cleanup(p) \/ CleanupRmdir(p)
  BY <1>4 DEF Installed, Ready, Cleanup, CleanupRmdir, Goto, Leave, Abort, Observe, Remove
<1>5. CASE \/ Stale(p) \/ ParseClaim(p) \/ Displace(p) \/ Rename(p) \/ Restore(p)
           \/ Replace(p) \/ LinkBreak(p) \/ VerifyBreak(p)
  BY <1>5 DEF Stale, ParseClaim, Displace, Rename, Restore, Replace, LinkBreak, Link,
              VerifyBreak, Goto, Leave, Observe
<1>6. CASE Revalidate(p) \/ ParseOwner(p) \/ Ownerless(p) \/ Quarantine(p)
  BY <1>6 DEF Revalidate, ParseOwner, Ownerless, Quarantine, Goto, Leave, Observe, Remove
<1>7. CASE \/ Retry(p) \/ Timeout(p) \/ Release(p) \/ ReleaseRmdir(p) \/ Crash(p)
  BY <1>7 DEF Retry, Timeout, Release, ReleaseRmdir, Crash, Goto, Leave
<1>. QED  BY <1>1, <1>2, <1>3, <1>4, <1>5, <1>6, <1>7 DEF Step

\* Every way out of a subroutine or of the call.
LEMMA LeavesHarmless ==
  ASSUME TypeOK, NEW p \in Proc, DirectoryKept, UNCHANGED owners, ~Late(p),
         NEW l \in {"idle", "mkdir", "pause", "timeout", "error"}, NEW r, Leave(p, l, r)
  PROVE  Harmless(p)
BY DEF Leave, Goto, Harmless, OwnName, HasOwner, Settled, Toward, Observing, BreaksDead,
       TypeOK, ProcsOK

LEMMA AbortHarmless ==
  ASSUME TypeOK, NEW p \in Proc, OwnName(p), NEW r, Abort(p, r), UNCHANGED <<fs, own>>
  PROVE  Harmless(p)
BY DEF Abort, Goto, Harmless, DirectoryKept, OwnName, HasOwner, Settled, Late, Toward,
       Observing, BreaksDead, TypeOK, ProcsOK, fs

\* An observation that settles nobody, and the places that lead to no owner.
LEMMA ObserveHarmless ==
  ASSUME TypeOK, NEW p \in Proc, OwnName(p)', DirectoryKept, UNCHANGED owners, ~Late(p),
         NEW c \in AfterObserve \ {"installed"}, Observe(p, c),
         c = "ready" => Settled(p) /\ own'[p] = own[p]
  PROVE  Harmless(p)
BY LossPlaces DEF Observe, Goto, Harmless, HasOwner, Settled, Toward, Observing, BreaksDead,
       TypeOK, ProcsOK

LEMMA RemoveHarmless ==
  ASSUME TypeOK, NEW p \in Proc, OwnName(p), UNCHANGED <<fs, own>>, ~Late(p),
         NEW c \in AfterRemove, Remove(p, c), c = "unclaimed" => Settled(p)
  PROVE  Harmless(p)
BY LossPlaces DEF Remove, Goto, Harmless, DirectoryKept, OwnName, HasOwner, Settled, Toward,
       Observing, BreaksDead, TypeOK, ProcsOK, fs, AfterRemove

LEMMA ObservingHarmless ==
  ASSUME LossInv, leaked = {}, NEW p \in Proc,
         \/ Lstat(p) \/ Entries(p) \/ ObserveMissing(p) \/ ObserveUnexpected(p)
         \/ Readdir(p) /\ k[p] # "installed"
  PROVE  Harmless(p)
<1>1. TypeOK /\ OwnName(p) /\ (Observing(p) => k[p] \in AfterObserve)
  BY LossFiles DEF LossInv, LossLocal
<1>2. CASE Lstat(p)
  BY <1>1, <1>2 DEF Lstat, Goto, Harmless, DirectoryKept, OwnName, HasOwner, Settled, Late,
     Toward, Observing, BreaksDead, TypeOK, ProcsOK, fs
<1>3. CASE Entries(p)
  BY <1>1, <1>3 DEF Entries, Goto, Harmless, DirectoryKept, OwnName, HasOwner, Settled, Late,
     Toward, Observing, BreaksDead, TypeOK, ProcsOK, fs, AfterObserve
<1>4. CASE ObserveMissing(p)
  <2>1. DirectoryKept /\ UNCHANGED owners
    BY <1>4 DEF ObserveMissing, fs, DirectoryKept
  <2>. QED
    BY <1>1, <1>4, <2>1, LeavesHarmless, AbortHarmless DEF ObserveMissing, Late
<1>5. CASE ObserveUnexpected(p)
  <2>1. DirectoryKept /\ UNCHANGED owners
    BY <1>5 DEF ObserveUnexpected, fs, DirectoryKept
  <2>. QED
    BY <1>1, <1>5, <2>1, LeavesHarmless, AbortHarmless, RemoveHarmless
    DEF ObserveUnexpected, Late, AfterRemove
<1>6. CASE Readdir(p) /\ k[p] # "installed"
  <2>1. \E l \in {"entries", k[p]} : Goto(p, l)
    BY <1>6 DEF Readdir
  <2>. QED
    BY <1>1, <1>6, <2>1 DEF Readdir, Goto, Harmless, DirectoryKept, OwnName, HasOwner,
       Settled, Late, Toward, Observing, BreaksDead, TypeOK, ProcsOK, fs, AfterObserve
<1>. QED  BY <1>2, <1>3, <1>4, <1>5, <1>6

LEMMA RemovingHarmless ==
  ASSUME LossInv, leaked = {}, NEW p \in Proc,
         \/ RemoveCheck(p) \/ RemoveNothing(p) \/ RemoveRefused(p) \/ RemoveUnlink(p)
  PROVE  Harmless(p)
<1>1. TypeOK /\ OwnName(p)
  BY DEF LossInv, LossLocal
<1>2. CASE RemoveCheck(p)
  BY <1>1, <1>2 DEF RemoveCheck, Goto, Harmless, DirectoryKept, OwnName, HasOwner, Settled,
     Late, Toward, Observing, BreaksDead, TypeOK, ProcsOK, fs
<1>3. CASE RemoveRefused(p)
  <2>1. DirectoryKept /\ UNCHANGED owners /\ ~Late(p)
    BY <1>3 DEF RemoveRefused, fs, DirectoryKept, Late
  <2>2. CASE k[p] = "rmdir" /\ Goto(p, "rmdir") /\ UNCHANGED own
    BY <1>1, <2>1, <2>2 DEF Goto, Harmless, OwnName, HasOwner, Settled, Toward, Observing,
       BreaksDead, TypeOK, ProcsOK
  <2>. QED
    BY <1>1, <1>3, <2>1, <2>2, LeavesHarmless, AbortHarmless DEF RemoveRefused
<1>4. CASE RemoveNothing(p) \/ RemoveUnlink(p)
  <2>1. DirectoryKept /\ UNCHANGED owners /\ ~Late(p) /\ RemoveDone(p)
        /\ pc[p] \in {"rmcheck", "rmunlink"}
    BY <1>4 DEF RemoveNothing, RemoveUnlink, fs, DirectoryKept, Late
  <2>2. CASE k[p] = "unclaimed" /\ Observe(p, "ready") /\ UNCHANGED own
    <3>1. Settled(p) /\ OwnName(p)'
      BY <1>1, <2>1, <2>2 DEF Settled, OwnName
    <3>. QED  BY <1>1, <2>1, <2>2, <3>1, ObserveHarmless DEF AfterObserve
  <2>3. CASE k[p] = "rmdir" /\ Goto(p, "rmdir") /\ UNCHANGED own
    BY <1>1, <2>1, <2>3 DEF Goto, Harmless, OwnName, HasOwner, Settled, Toward, Observing,
       BreaksDead, TypeOK, ProcsOK
  <2>. QED
    BY <1>1, <2>1, <2>2, <2>3, LeavesHarmless DEF RemoveDone
<1>. QED  BY <1>2, <1>3, <1>4

LEMMA InitializingHarmless ==
  ASSUME LossInv, leaked = {}, NEW p \in Proc,
         \/ Acquire(p) \/ MkdirWins(p) \/ MkdirExists(p) \/ Empty(p) \/ LinkInit(p)
         \/ VerifyInit(p)
         \/ Install(p) /\ lockDir = None
  PROVE  Harmless(p)
<1>1. TypeOK /\ OwnName(p) /\ NoDirectory
  BY DEF LossInv, LossLocal
<1>2. CASE Acquire(p)
  BY <1>1, <1>2, LeavesHarmless DEF Acquire, fs, DirectoryKept, Late
<1>3. CASE MkdirWins(p)
  <2>1. own'[p] = Drawn(p) /\ Author(Drawn(p)) = p
    BY <1>1, <1>3 DEF MkdirWins, Drawn, Unseen, Author, TypeOK, ProcsOK
  <2>2. OwnName(p)' /\ DirectoryKept /\ UNCHANGED owners /\ ~Late(p) /\ Observe(p, "empty")
    BY <1>1, <1>3, <2>1, NoneAssumption DEF MkdirWins, OwnName, DirectoryKept, Late, TypeOK, FilesOK
  <2>. QED  BY <1>1, <2>2, ObserveHarmless DEF AfterObserve
<1>4. CASE MkdirExists(p)
  <2>1. OwnName(p)' /\ DirectoryKept /\ UNCHANGED owners /\ ~Late(p) /\ Observe(p, "stale")
    BY <1>1, <1>4 DEF MkdirExists, OwnName, DirectoryKept, Late, fs
  <2>. QED  BY <1>1, <2>1, ObserveHarmless DEF AfterObserve
<1>5. CASE Empty(p)
  <2>1. OwnName(p)' /\ DirectoryKept /\ UNCHANGED <<fs, own>> /\ ~Late(p)
    BY <1>1, <1>5 DEF Empty, OwnName, DirectoryKept, Late, fs
  <2>. QED
    BY <1>1, <1>5, <2>1, ObserveHarmless, AbortHarmless DEF Empty, AfterObserve, fs
<1>6. CASE LinkInit(p)
  <2>1. CASE CanLink(p) /\ Link(p) /\ Goto(p, "verifyInit")
    BY <1>1, <1>6, <2>1 DEF LinkInit, CanLink, Link, Goto, Harmless, DirectoryKept, OwnName,
       HasOwner, Settled, Late, Toward, Observing, BreaksDead, TypeOK, ProcsOK
  <2>. QED  BY <1>1, <1>6, <2>1, AbortHarmless DEF LinkInit
<1>7. CASE VerifyInit(p)
  <2>1. CASE Goto(p, "install")
    BY <1>1, <1>7, <2>1 DEF VerifyInit, Goto, Harmless, DirectoryKept, OwnName, HasOwner,
       Settled, Late, Toward, Observing, BreaksDead, TypeOK, ProcsOK, fs
  <2>2. CASE Abort(p, "contended") \/ Abort(p, "identity")
    BY <1>1, <1>7, <2>2, AbortHarmless DEF VerifyInit
  <2>. QED  BY <1>7, <2>1, <2>2 DEF VerifyInit
<1>8. CASE Install(p) /\ lockDir = None
  BY <1>1, <1>8, AbortHarmless DEF Install, fs
<1>. QED  BY <1>2, <1>3, <1>4, <1>5, <1>6, <1>7, <1>8

LEMMA OwningHarmless ==
  ASSUME LossInv, leaked = {}, NEW p \in Proc,
         Installed(p) \/ Ready(p) \/ Cleanup(p) \/ CleanupRmdir(p) \/ Release(p)
         \/ ReleaseRmdir(p)
  PROVE  Harmless(p)
<1>1. TypeOK /\ OwnName(p) /\ None \notin owners
  BY LossFiles DEF LossInv, LossLocal
<1>2. CASE Installed(p)
  <2>1. Settled(p) /\ ~Late(p) /\ UNCHANGED <<fs, own>>
    BY <1>2 DEF Installed, Settled, Late
  <2>. QED
    BY <1>1, <1>2, <2>1, AbortHarmless, RemoveHarmless DEF Installed, AfterRemove
<1>3. CASE Ready(p)
  <2>1. CASE Goto(p, "cs")
    BY <1>1, <1>3, <2>1 DEF Ready, Goto, Harmless, DirectoryKept, OwnName, HasOwner, Settled,
       Late, Toward, Observing, BreaksDead, TypeOK, ProcsOK, fs
  <2>2. CASE Abort(p, "contended")
    BY <1>1, <1>3, <2>2, AbortHarmless DEF Ready
  <2>. QED  BY <1>3, <2>1, <2>2 DEF Ready
<1>4. CASE Cleanup(p)
  <2>1. pc'[p] \in {"rmcheck", "rmdir"} /\ (pc'[p] = "rmcheck" => k'[p] = "rmdir")
        /\ own'[p] = own[p] /\ owners' = owners \ {own[p]}
        /\ UNCHANGED <<lockDir, claim>>
    BY <1>1, <1>4 DEF Cleanup, UnlinkOwner, Remove, Goto, TypeOK, ProcsOK
  <2>. QED
    BY <1>1, <2>1 DEF Harmless, DirectoryKept, OwnName, HasOwner, Settled, Toward, Observing,
       BreaksDead
<1>5. CASE CleanupRmdir(p)
  <2>1. DirectoryKept /\ UNCHANGED owners /\ ~Late(p)
    BY <1>5 DEF CleanupRmdir, RemoveEmptyDir, DirectoryKept, Late
  <2>2. CASE Observe(p, "stale") /\ own' = [own EXCEPT ![p] = None]
    <3>1. OwnName(p)'
      BY <1>1, <2>2 DEF OwnName, TypeOK, ProcsOK
    <3>. QED  BY <1>1, <2>1, <2>2, <3>1, ObserveHarmless DEF AfterObserve
  <2>. QED  BY <1>1, <1>5, <2>1, <2>2, LeavesHarmless DEF CleanupRmdir
<1>6. CASE Release(p)
  <2>1. pc'[p] \in {"released", "idle"} /\ (own'[p] = own[p] \/ own'[p] = None)
        /\ owners' = owners \ {own[p]} /\ UNCHANGED <<lockDir, claim>> /\ ~Late(p)
    BY <1>1, <1>6 DEF Release, UnlinkOwner, Leave, Goto, TypeOK, ProcsOK, Late
  <2>. QED
    BY <1>1, <2>1 DEF Harmless, DirectoryKept, OwnName, HasOwner, Settled, Toward, Observing,
       BreaksDead
<1>7. CASE ReleaseRmdir(p)
  <2>1. DirectoryKept /\ UNCHANGED owners /\ ~Late(p)
    BY <1>7 DEF ReleaseRmdir, RemoveEmptyDir, DirectoryKept, Late
  <2>. QED  BY <1>1, <1>7, <2>1, LeavesHarmless DEF ReleaseRmdir
<1>. QED  BY <1>2, <1>3, <1>4, <1>5, <1>6, <1>7

LEMMA DisplacingHarmless ==
  ASSUME LossInv, leaked = {}, NEW p \in Proc,
         \/ Stale(p) \/ ParseClaim(p) \/ Displace(p) \/ Rename(p) \/ Restore(p)
         \/ Replace(p) \/ LinkBreak(p) \/ VerifyBreak(p) \/ Retry(p) \/ Timeout(p)
  PROVE  Harmless(p)
<1>1. TypeOK /\ OwnName(p) /\ NoDirectory /\ ~Late(p)
  BY DEF LossInv, LossLocal, Stale, ParseClaim, Displace, Rename, Restore, Replace, LinkBreak,
     VerifyBreak, Retry, Timeout, Late
<1>2. DirectoryKept /\ UNCHANGED owners
  BY <1>1 DEF Stale, ParseClaim, Displace, Rename, Restore, Replace, LinkBreak, VerifyBreak,
     Retry, Timeout, CanLink, Link, DirectoryKept, NoDirectory, TypeOK, FilesOK, fs
<1>3. ASSUME NEW c \in {"linkBreak", "displace", "replace", "restore", "revalidate"},
             Observe(p, c), UNCHANGED own
      PROVE  Harmless(p)
  <2>1. OwnName(p)'
    BY <1>1, <1>3 DEF OwnName
  <2>. QED  BY <1>1, <1>2, <1>3, <2>1, ObserveHarmless DEF AfterObserve
<1>4. ASSUME NEW l \in {"parseclaim", "rename", "verifyBreak"}, Goto(p, l), UNCHANGED own
      PROVE  Harmless(p)
  BY <1>1, <1>2, <1>4 DEF Goto, Harmless, OwnName, HasOwner, Settled, Toward, Observing,
     BreaksDead, TypeOK, ProcsOK
<1>5. CASE Stale(p) \/ ParseClaim(p) \/ Displace(p) \/ Rename(p)
  BY <1>1, <1>2, <1>3, <1>4, <1>5, LeavesHarmless DEF Stale, ParseClaim, Displace, Rename
<1>6. CASE Restore(p) \/ Replace(p) \/ LinkBreak(p) \/ VerifyBreak(p)
  BY <1>1, <1>2, <1>3, <1>4, <1>6, LeavesHarmless
  DEF Restore, Replace, LinkBreak, Link, VerifyBreak
<1>7. CASE Retry(p) \/ Timeout(p)
  BY <1>1, <1>2, <1>7, LeavesHarmless DEF Retry, Timeout
<1>. QED  BY <1>5, <1>6, <1>7

\* A breaker goes on to its rename only when it has seen no owner file, or that
\* of a dead process.
LEMMA BreakingHarmless ==
  ASSUME LossInv, leaked = {}, NEW p \in Proc,
         \/ Revalidate(p) \/ ParseOwner(p) \/ Ownerless(p)
         \/ Quarantine(p) /\ lockDir = None
  PROVE  Harmless(p)
<1>1. TypeOK /\ OwnName(p) /\ ~Late(p)
  BY DEF LossInv, LossLocal, Revalidate, ParseOwner, Ownerless, Quarantine, Late
<1>2. CASE lockDir = None /\ Quarantine(p)
  <2>1. UNCHANGED <<fs, own>> /\ Remove(p, "pause")
    BY <1>2 DEF Quarantine
  <2>. QED  BY <1>1, <2>1, RemoveHarmless DEF AfterRemove, fs
<1>3. ASSUME Revalidate(p) \/ ParseOwner(p) \/ Ownerless(p) PROVE Harmless(p)
  <2>1. UNCHANGED fs /\ DirectoryKept /\ UNCHANGED owners
    BY <1>3 DEF Revalidate, ParseOwner, Ownerless, DirectoryKept, fs
  <2>2. CASE Remove(p, "pause") /\ UNCHANGED own
    BY <1>1, <2>1, <2>2, RemoveHarmless DEF AfterRemove
  <2>3. CASE Leave(p, "pause", "none") \/ Leave(p, "error", "identity")
    BY <1>1, <2>1, <2>3, LeavesHarmless
  <2>4. CASE Observe(p, "ownerless") /\ UNCHANGED own
    <3>1. OwnName(p)'
      BY <1>1, <2>4 DEF OwnName
    <3>. QED  BY <1>1, <2>1, <2>4, <3>1, ObserveHarmless DEF AfterObserve
  <2>5. CASE Goto(p, "parseowner") /\ UNCHANGED <<own, k, cur>>
    BY <1>1, <2>1, <2>5 DEF Goto, Harmless, OwnName, HasOwner, Settled, Toward, Observing,
       BreaksDead, TypeOK, ProcsOK
  <2>6. CASE /\ Goto(p, "quarantine") /\ UNCHANGED <<own, k, cur>>
             /\ cur[p].owner # None => Dead(Author(cur[p].owner))
    <3>1. pc[p] # "dead"
      BY <1>3 DEF Revalidate, ParseOwner, Ownerless
    <3>2. cur[p].owner # None => Dead(Author(cur[p].owner))'
      BY <1>1, <2>6, <3>1, LossFiles DEF Dead, Goto, TypeOK, ProcsOK
    <3>3. BreaksDead(p)'
      BY <2>6, <3>2 DEF BreaksDead, Dead
    <3>. QED
      BY <1>1, <2>1, <2>6, <3>3 DEF Goto, Harmless, OwnName, HasOwner, Settled, Toward,
         Observing, TypeOK, ProcsOK
  <2>. QED
    BY <1>3, <2>2, <2>3, <2>4, <2>5, <2>6 DEF Revalidate, ParseOwner, Ownerless, Abandoned
<1>. QED  BY <1>2, <1>3

\* An owner that finds one file finds its own, for its own is there: whoever
\* settled before it would have had two.
LEMMA ReaddirSettles ==
  ASSUME LossInv, leaked = {}, TypeOK', NEW p \in Proc, Readdir(p), k[p] = "installed"
  PROVE  LossInv'
<1>1. LossLocal(p) /\ TypeOK /\ pc[p] # "dead" /\ Others(p)
  BY StepOthers DEF LossInv, Step, Readdir
<1>2. HasOwner(p) /\ own[p] \in owners
  BY <1>1 DEF Readdir, HasOwner, Observing, LossLocal, Owns
<1>3. PICK o \in owners \cup {None} : owners = {o} \ {None}
  BY DEF Readdir
<1>4. owners = {own[p]}
  BY <1>2, <1>3
<1>5. UNCHANGED <<fs, own, k>> /\ pc'[p] \in {"entries", "installed"}
  BY <1>1 DEF Readdir, Goto, TypeOK, ProcsOK
<1>6. LossLocal(p)'
  BY <1>1, <1>2, <1>4, <1>5 DEF LossLocal, OwnName, Owns, BreaksDead, Settles, fs
<1>7. ASSUME NEW q \in Proc, q # p PROVE LossLocal(q)'
  <2>1. ASSUME NEW r \in Proc \ {p} PROVE ~Settled(r)
    BY <1>4, <2>1, LossPlaces, <1>1, LossFiles DEF LossInv, LossLocal, Owns, OwnName
  <2>. QED
    BY <1>1, <1>5, <1>6, <1>7, <2>1, LossNeighbours DEF LossLocal, fs
<1>8. NoDirectory'
  BY <1>5 DEF LossInv, NoDirectory, fs
<1>. QED  BY <1>6, <1>7, <1>8 DEF LossInv

\* A file that is installed beside another's comes late.
LEMMA InstallLate ==
  ASSUME LossInv, leaked = {}, TypeOK', NEW p \in Proc, Install(p), lockDir # None
  PROVE  LossInv'
<1>1. LossLocal(p) /\ TypeOK /\ pc[p] # "dead" /\ Others(p)
  BY StepOthers DEF LossInv, Step, Install
<1>2. /\ owners' = owners \cup {own[p]} /\ own' = own /\ lockDir' = lockDir
      /\ pc'[p] = "lstat" /\ k'[p] = "installed"
  BY <1>1 DEF Install, Observe, Goto, TypeOK, ProcsOK
<1>3. Late(p)' /\ ~Settled(p)'
  BY <1>2 DEF Late, Settled, Toward, Observing
<1>4. LossLocal(p)'
  BY <1>1, <1>2, <1>3 DEF LossLocal, OwnName, Owns, BreaksDead, Settles
<1>5. ASSUME NEW q \in Proc, q # p PROVE LossLocal(q)'
  BY <1>1, <1>2, <1>3, <1>4, <1>5, LossNeighbours DEF LossLocal
<1>. QED  BY <1>2, <1>4, <1>5 DEF LossInv, NoDirectory

\* A quarantine that passes its checks carries off no file of a live process.
LEMMA QuarantineShows ==
  ASSUME LossInv, leaked = {}, TypeOK', NEW p \in Proc, Quarantine(p), lockDir # None
  PROVE  LossInv'
<1>. SUFFICES ASSUME leaked' = {} PROVE LossInv'
  BY DEF LossInv
<1>1. LossLocal(p) /\ TypeOK /\ pc[p] = "quarantine" /\ Others(p)
  BY StepOthers DEF LossInv, Step, Quarantine
<1>2. AsObserved(p) /\ Leave(p, "mkdir", "none") /\ owners' = {} /\ claim' = None
  BY DEF Quarantine
<1>3. \A t \in owners : Dead(Author(t))
  BY <1>1, <1>2 DEF AsObserved, LossLocal, BreaksDead
<1>4. ASSUME NEW q \in Proc PROVE ~HasOwner(q)
  <2>1. HasOwner(q) => own[q] \in owners /\ Author(own[q]) = q
    BY LossFiles DEF LossInv, LossLocal, Owns, OwnName
  <2>. QED  BY <1>3, <2>1, LossPlaces DEF Dead
<1>5. ASSUME NEW q \in Proc PROVE LossLocal(q)'
  <2>1. CASE q = p
    BY <1>1, <1>2, <2>1 DEF Leave, Goto, LossLocal, OwnName, Owns, HasOwner, BreaksDead,
       Settles, Settled, Toward, Observing, TypeOK, ProcsOK
  <2>2. CASE q # p
    <3>1. LossLocal(q) /\ ~HasOwner(q)' /\ ~Settled(q)' /\ OwnName(q)'
      BY <1>4, <2>2, <1>1, LossPlaces, LossOthersPlaces DEF LossInv, LossLocal
    <3>2. BreaksDead(q)'
      <4>. SUFFICES ASSUME pc[q] = "quarantine", cur[q].owner # None
                    PROVE  Dead(Author(cur[q].owner))'
        BY <1>1, <2>2 DEF BreaksDead, Others, Dead
      <4>1. Dead(Author(cur[q].owner)) /\ Author(cur[q].owner) \in Proc
        BY <3>1, LossFiles DEF LossLocal, BreaksDead
      <4>2. Author(cur[q].owner) # p
        BY <1>1, <4>1 DEF Dead
      <4>. QED  BY <1>1, <2>2, <4>1, <4>2 DEF Dead, Others
    <3>. QED  BY <3>1, <3>2 DEF LossLocal, Owns, Settles
  <2>. QED  BY <2>1, <2>2
<1>. QED  BY <1>2, <1>5 DEF LossInv, NoDirectory

LEMMA CrashHarmless ==
  ASSUME LossInv, leaked = {}, NEW p \in Proc, Crash(p)
  PROVE  Harmless(p)
BY DEF Crash, Leave, Goto, Harmless, DirectoryKept, OwnName, HasOwner, Settled, Late, Dead,
       Toward, Observing, BreaksDead, LossInv, TypeOK, ProcsOK, fs

\* A directory left in quarantine stays there.
LEMMA LeakedStays ==
  ASSUME Next
  PROVE  leaked \subseteq leaked'
<1>. USE DEF fs
<1>1. CASE Elapse
  BY <1>1 DEF Elapse
<1>2. ASSUME NEW p \in Proc,
             \/ Lstat(p) \/ Readdir(p) \/ Entries(p) \/ ObserveMissing(p)
             \/ ObserveUnexpected(p) \/ RemoveCheck(p) \/ RemoveNothing(p)
             \/ RemoveRefused(p) \/ RemoveUnlink(p)
      PROVE  leaked \subseteq leaked'
  BY <1>2 DEF Lstat, Readdir, Entries, ObserveMissing, ObserveUnexpected, RemoveCheck,
     RemoveNothing, RemoveRefused, RemoveUnlink
<1>3. ASSUME NEW p \in Proc,
             \/ Acquire(p) \/ MkdirWins(p) \/ MkdirExists(p) \/ Empty(p) \/ LinkInit(p)
             \/ VerifyInit(p) \/ Install(p) \/ Installed(p) \/ Ready(p) \/ Cleanup(p)
             \/ CleanupRmdir(p) \/ Release(p) \/ ReleaseRmdir(p) \/ Crash(p)
      PROVE  leaked \subseteq leaked'
  BY <1>3 DEF Acquire, MkdirWins, MkdirExists, Empty, LinkInit, Link, VerifyInit, Install,
     Installed, Ready, Cleanup, CleanupRmdir, Release, ReleaseRmdir, Crash
<1>4. ASSUME NEW p \in Proc,
             \/ Stale(p) \/ ParseClaim(p) \/ Displace(p) \/ Rename(p) \/ Restore(p)
             \/ Replace(p) \/ LinkBreak(p) \/ VerifyBreak(p) \/ Revalidate(p)
             \/ ParseOwner(p) \/ Ownerless(p) \/ Quarantine(p) \/ Retry(p) \/ Timeout(p)
      PROVE  leaked \subseteq leaked'
  BY <1>4 DEF Stale, ParseClaim, Displace, Rename, Restore, Replace, LinkBreak, Link,
     VerifyBreak, Revalidate, ParseOwner, Ownerless, Quarantine, Retry, Timeout
<1>. QED  BY <1>1, <1>2, <1>3, <1>4 DEF Next, Step

LEMMA LossStep ==
  ASSUME LossInv, [Next]_vars
  PROVE  LossInv'
<1>1. TypeOK'
  BY TypeStep DEF LossInv
<1>. SUFFICES ASSUME leaked = {} PROVE LossInv'
  <2>1. ASSUME leaked # {}, Next PROVE leaked' # {}
    <3>1. PICK r \in leaked : TRUE
      BY <2>1
    <3>2. leaked \subseteq leaked'
      BY <2>1, LeakedStays
    <3>. QED  BY <3>1, <3>2
  <2>. QED  BY <1>1, <2>1 DEF LossInv, vars, fs
<1>2. CASE UNCHANGED vars \/ Elapse
  <2>1. UNCHANGED <<lockDir, owners, claim, pc, k, own, cur>>
    BY <1>2 DEF vars, fs, Elapse
  <2>2. ASSUME NEW q \in Proc PROVE LossLocal(q)'
    BY <2>1 DEF LossInv, LossLocal, OwnName, Owns, HasOwner, BreaksDead, Settles, Settled, Late,
       Toward, Observing, Dead
  <2>. QED  BY <1>1, <2>1, <2>2 DEF LossInv, NoDirectory
<1>3. ASSUME NEW p \in Proc, Step(p) \/ Acquire(p) \/ Timeout(p) \/ Crash(p)
      PROVE  LossInv'
  <2>1. Others(p) /\ pc[p] # "dead"
    BY <1>3, StepOthers DEF LossInv
  <2>2. CASE Readdir(p) /\ k[p] = "installed"
    BY <1>1, <2>2, ReaddirSettles
  <2>3. CASE Install(p) /\ lockDir # None
    BY <1>1, <2>3, InstallLate
  <2>4. CASE Quarantine(p) /\ lockDir # None
    BY <1>1, <2>4, QuarantineShows
  <2>5. CASE ~(Readdir(p) /\ k[p] = "installed") /\ ~(Install(p) /\ lockDir # None)
             /\ ~(Quarantine(p) /\ lockDir # None)
    <3>. SUFFICES Harmless(p)
      BY <1>1, <2>1, HarmlessKeeps
    <3>1. CASE \/ Lstat(p) \/ Readdir(p) \/ Entries(p) \/ ObserveMissing(p)
               \/ ObserveUnexpected(p) \/ RemoveCheck(p) \/ RemoveNothing(p)
               \/ RemoveRefused(p) \/ RemoveUnlink(p)
      BY <2>5, <3>1, ObservingHarmless, RemovingHarmless
    <3>2. CASE \/ Acquire(p) \/ MkdirWins(p) \/ MkdirExists(p) \/ Empty(p) \/ LinkInit(p)
               \/ VerifyInit(p) \/ Install(p)
      BY <2>5, <3>2, InitializingHarmless
    <3>3. CASE \/ Installed(p) \/ Ready(p) \/ Cleanup(p) \/ CleanupRmdir(p) \/ Release(p)
               \/ ReleaseRmdir(p) \/ Crash(p)
      BY <3>3, OwningHarmless, CrashHarmless
    <3>4. CASE \/ Stale(p) \/ ParseClaim(p) \/ Displace(p) \/ Rename(p) \/ Restore(p)
               \/ Replace(p) \/ LinkBreak(p) \/ VerifyBreak(p) \/ Retry(p) \/ Timeout(p)
      BY <3>4, DisplacingHarmless
    <3>5. CASE Revalidate(p) \/ ParseOwner(p) \/ Ownerless(p) \/ Quarantine(p)
      BY <2>5, <3>5, BreakingHarmless
    <3>. QED  BY <1>3, <3>1, <3>2, <3>3, <3>4, <3>5 DEF Step
  <2>. QED  BY <2>2, <2>3, <2>4, <2>5
<1>. QED  BY <1>2, <1>3 DEF Next

\* However many processes die, and wherever: the lock passes to a second live
\* holder, or a live owner's file goes, only after a breaker has failed over a
\* quarantined directory, which it leaves on disk.
THEOREM LossIsShown == Spec => []LossShows
<1>1. LossInv => LossShows
  <2>. SUFFICES ASSUME LossInv, leaked = {} PROVE MutualExclusion /\ OwnerFilePresent
    BY DEF LossShows
  <2>1. OwnerFilePresent
    BY DEF LossInv, LossLocal, Owns, OwnerFilePresent, Live
  <2>2. ASSUME NEW p \in Live, NEW q \in Live, pc[p] = "cs", pc[q] = "cs" PROVE p = q
    <3>. SUFFICES ASSUME p # q PROVE FALSE
      OBVIOUS
    <3>1. /\ p \in Proc /\ q \in Proc /\ Settled(p) /\ HasOwner(p) /\ HasOwner(q)
      BY <2>2 DEF Live, Settled, HasOwner
    <3>2. own[q] \in owners /\ Author(own[q]) = q /\ Author(own[p]) = p
      BY <3>1, LossFiles DEF LossInv, LossLocal, Owns, OwnName
    <3>3. Late(q)
      BY <3>1, <3>2 DEF LossInv, LossLocal, Settles
    <3>. QED  BY <2>2, <3>3 DEF Late
  <2>. QED  BY <2>1, <2>2 DEF MutualExclusion
<1>. QED  BY <1>1, LossInit, LossStep, PTL DEF Spec
=============================================================================
