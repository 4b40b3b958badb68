------------------------ MODULE VerdictLedgerProofs ------------------------
(***************************************************************************)
(* For any number of tasks, any cap and any number of failed commands, a   *)
(* verdict is recorded once, and a task is parked once, and only by Cap    *)
(* BLOCK verdicts of its own.  The loop that runs the command sends a task *)
(* back a bounded number of times, and stops at the cap as long as no      *)
(* command fails.                                                          *)
(***************************************************************************)
EXTENDS VerdictLedger, FiniteSetTheorems, SequenceTheorems, WellFoundedInduction, TLAPS

\* The first unchecked task exists as long as there is an unchecked one.
LEMMA NextTaskUnchecked ==
  ASSUME Unchecked # {}
  PROVE  NextTask \in Unchecked /\ NextTask \in Task
<1>1. Unchecked \subseteq Nat /\ Unchecked \subseteq Task
  BY VerdictAssumption DEF Unchecked, Task
<1>2. PICK t \in Unchecked : \A u \in Unchecked : <<u, t>> \notin OpToRel(<, Nat)
  BY <1>1, NatLessThanWellFounded, WFMin
<1>3. \A u \in Unchecked : ~(u < t)
  BY <1>1, <1>2 DEF OpToRel
<1>4. \A u \in Unchecked : t \leq u
  BY <1>1, <1>3
<1> QED
  BY <1>1, <1>4 DEF NextTask

\* A section is appended after the others and joins the sections of its kind.
LEMMA AppendSection ==
  ASSUME TypeOK, NEW s \in Section, ledger' = Append(ledger, s)
  PROVE  /\ ledger' \in Seq(Section)
         /\ Len(ledger) \in Nat
         /\ DOMAIN ledger = 1..Len(ledger)
         /\ DOMAIN ledger' = 1..(Len(ledger) + 1)
         /\ ledger'[Len(ledger) + 1] = s
         /\ \A i \in DOMAIN ledger : ledger'[i] = ledger[i]
<1>1. ledger \in Seq(Section)
  BY DEF TypeOK
<1> QED
  BY <1>1, AppendProperties, LenProperties

LEMMA SectionsAppended ==
  ASSUME TypeOK, NEW s \in Section, ledger' = Append(ledger, s), NEW t, NEW kind
  PROVE  /\ s.task = t /\ s.kind = kind =>
              Sections(t, kind)' = Sections(t, kind) \cup {Len(ledger) + 1}
         /\ s.task # t \/ s.kind # kind => Sections(t, kind)' = Sections(t, kind)
BY AppendSection DEF Sections

LEMMA SectionsFinite ==
  ASSUME TypeOK, NEW t, NEW kind
  PROVE  /\ IsFiniteSet(Sections(t, kind))
         /\ Sections(t, kind) \subseteq 1..Len(ledger)
         /\ Len(ledger) \in Nat
<1>1. Len(ledger) \in Nat /\ DOMAIN ledger = 1..Len(ledger)
  BY LenProperties DEF TypeOK
<1>2. IsFiniteSet(1..Len(ledger))
  BY <1>1, FS_Interval
<1>3. Sections(t, kind) \in SUBSET (1..Len(ledger))
  BY <1>1 DEF Sections
<1> QED
  BY <1>1, <1>2, <1>3, FS_Subset

-----------------------------------------------------------------------------
LEMMA InitInv == Init => LedgerInv
<1> SUFFICES ASSUME Init PROVE LedgerInv
  OBVIOUS
<1>1. ledger \in Seq(Section) /\ transcript \in Seq(Verdict) /\ DOMAIN ledger = {}
  BY EmptySeq DEF Init
<1>2. \A t \in Task : Sections(t, "PARKED") = {}
  BY <1>1 DEF Sections
<1> QED
  BY <1>1, <1>2, VerdictAssumption
  DEF Init, LedgerInv, TypeOK, Reviewed, RecordedOnce, ParkedOnce, ParkedEarned, ParkPending
-----------------------------------------------------------------------------
(* What the invariant says, under an append.                               *)

\* A section with a new id keeps the ids unique.
LEMMA OnceAppended ==
  ASSUME TypeOK, RecordedOnce, NEW s \in Section, ledger' = Append(ledger, s),
         s.id = NoId \/ ~Recorded(s.id)
  PROVE  RecordedOnce'
BY AppendSection DEF RecordedOnce, Recorded, NoId

\* A section that parks nothing leaves the parked tasks as they are.
LEMMA UnparkedAppended ==
  ASSUME TypeOK, ParkedOnce, ParkedEarned, NEW s \in Section,
         ledger' = Append(ledger, s), s.kind # "PARKED"
  PROVE  ParkedOnce' /\ ParkedEarned'
<1>1. \A t \in Task : Sections(t, "PARKED")' = Sections(t, "PARKED")
  BY SectionsAppended
<1>2. ASSUME NEW t \in Task, NEW i \in Sections(t, "PARKED")
      PROVE  {j \in Sections(t, "BLOCK")' : j < i} = {j \in Sections(t, "BLOCK") : j < i}
  BY <1>2, SectionsAppended, SectionsFinite
<1> QED
  BY <1>1, <1>2 DEF ParkedOnce, ParkedEarned

\* Parking a task that is not parked and has reached the cap.
LEMMA ParkAppended ==
  ASSUME TypeOK, ParkedOnce, ParkedEarned, NEW s \in Section,
         ledger' = Append(ledger, s), s.kind = "PARKED",
         AtCap(Rounds(s.task)), ~Parked(s.task)
  PROVE  ParkedOnce' /\ ParkedEarned'
<1> DEFINE n == Len(ledger) + 1
<1>1. \A t \in Task : Sections(t, "BLOCK")' = Sections(t, "BLOCK")
  BY SectionsAppended
<1>2. \A t \in Task \ {s.task} : Sections(t, "PARKED")' = Sections(t, "PARKED")
  BY SectionsAppended
<1>3. Sections(s.task, "PARKED")' = {n}
  <2>1. Sections(s.task, "PARKED") = {}
    BY DEF Parked
  <2> QED
    BY <2>1, SectionsAppended
<1>4. {j \in Sections(s.task, "BLOCK") : j < n} = Sections(s.task, "BLOCK")
  BY SectionsFinite
<1>5. ParkedOnce'
  BY <1>2, <1>3 DEF ParkedOnce
<1>6. ParkedEarned'
  <2> SUFFICES ASSUME NEW t \in Task, NEW i \in Sections(t, "PARKED")'
               PROVE  Cardinality({j \in Sections(t, "BLOCK")' : j < i}) \geq Cap
    BY DEF ParkedEarned
  <2>1. CASE t = s.task
    BY <2>1, <1>1, <1>3, <1>4 DEF AtCap, Rounds
  <2>2. CASE t # s.task
    BY <2>2, <1>1, <1>2 DEF ParkedEarned
  <2> QED
    BY <2>1, <2>2
<1> QED
  BY <1>5, <1>6

\* The verdict just appended is the one its id stands for.
LEMMA TaskRecorded ==
  ASSUME TypeOK, NEW s \in Section, ledger' = Append(ledger, s),
         transcript' = transcript, s.id = LatestId, ~Recorded(LatestId)
  PROVE  Recorded(LatestId)' /\ RecordedTask(LatestId)' = s.task
<1> DEFINE n == Len(ledger) + 1
<1>1. LatestId' = LatestId
  BY DEF LatestId
<1>2. n \in DOMAIN ledger' /\ ledger'[n].id = LatestId
  BY AppendSection
<1>3. \A i \in DOMAIN ledger' : ledger'[i].id = LatestId => i = n
  BY AppendSection DEF Recorded
<1>4. (CHOOSE i \in DOMAIN ledger' : ledger'[i].id = LatestId) = n
  BY <1>2, <1>3
<1>5. Recorded(LatestId)'
  BY <1>1, <1>2 DEF Recorded
<1> QED
  BY <1>1, <1>4, <1>5, AppendSection DEF RecordedTask

-----------------------------------------------------------------------------
(* Every step.                                                             *)

LEMMA LedgerKept ==
  ASSUME LedgerInv, ledger' = ledger
  PROVE  RecordedOnce' /\ ParkedOnce' /\ ParkedEarned'
BY DEF LedgerInv, RecordedOnce, ParkedOnce, ParkedEarned, Sections

\* The section of the verdict at hand, whatever was written of it.
LEMMA VerdictSectionOK ==
  ASSUME LedgerInv, loop = "record", NEW kind \in {"PASS", "BLOCK", "TORN"}
  PROVE  /\ VerdictSection(kind) \in Section
         /\ VerdictSection(kind).id = LatestId
         /\ VerdictSection(kind).task = NextTask
         /\ VerdictSection(kind).kind = kind
         /\ NextTask \in Task
<1>1. NextTask \in Task
  BY NextTaskUnchecked DEF LedgerInv, Reviewed
<1>2. LatestId \in Nat
  BY LenProperties DEF LedgerInv, TypeOK, LatestId
<1> QED
  BY <1>1, <1>2 DEF VerdictSection, Section

\* The section that parks its task.
LEMMA ParkedSectionOK ==
  ASSUME LedgerInv, loop = "park"
  PROVE  /\ ParkedSection \in Section
         /\ ParkedSection.id = NoId
         /\ ParkedSection.task = RecordedTask(LatestId)
         /\ ParkedSection.kind = "PARKED"
<1>1. PICK i \in DOMAIN ledger : ledger[i].id = LatestId
  BY DEF LedgerInv, ParkPending, Recorded
<1>2. \A j \in DOMAIN ledger : ledger[j] \in Section
  BY ElementOfSeq, LenProperties DEF LedgerInv, TypeOK
<1>3. RecordedTask(LatestId) \in Task
  BY <1>1, <1>2 DEF RecordedTask, Section
<1> QED
  BY <1>3 DEF ParkedSection, Section, NoId

LEMMA RecordInv ==
  ASSUME LedgerInv, RecordPass \/ RecordBlock
  PROVE  LedgerInv'
<1> DEFINE s == VerdictSection(IF Latest.block THEN "BLOCK" ELSE "PASS")
<1> DEFINE n == Len(ledger) + 1
<1>1. /\ loop = "record" /\ ~Recorded(LatestId) /\ ledger' = Append(ledger, s)
      /\ UNCHANGED <<transcript, checked, resumes, faults>>
      /\ loop' \in {"act", "park"}
      /\ status' \in {status, "appended", "parked"}
  BY DEF RecordPass, RecordBlock, Report
<1>2. /\ s \in Section /\ s.id = LatestId /\ s.task = NextTask
      /\ s.kind \in {"BLOCK", "PASS"}
      /\ Latest.block => s.kind = "BLOCK"
  BY <1>1, VerdictSectionOK
<1> HIDE DEF s
<1>3. TypeOK'
  BY <1>1, <1>2, AppendSection DEF LedgerInv, TypeOK
<1>4. Reviewed'
  BY <1>1 DEF LedgerInv, Reviewed, Latest, LatestId, Unchecked
<1>5. RecordedOnce'
  BY <1>1, <1>2, OnceAppended DEF LedgerInv
<1>6. ParkedOnce' /\ ParkedEarned'
  BY <1>1, <1>2, UnparkedAppended DEF LedgerInv
<1>7. ParkPending'
  <2> SUFFICES ASSUME loop' = "park" PROVE ParkPending'
    BY DEF ParkPending
  <2>1. Latest.block /\ AtCap(Rounds(NextTask) + 1) /\ ~Parked(NextTask)
    BY <1>1 DEF RecordPass, RecordBlock, Report
  <2>2. PICK t : t = NextTask
    OBVIOUS
  <2>3. s.task = t /\ s.kind = "BLOCK"
    BY <1>2, <2>1, <2>2
  <2>4. Recorded(LatestId)' /\ RecordedTask(LatestId)' = t
    BY <1>1, <1>2, <2>3, TaskRecorded DEF LedgerInv
  <2>5. /\ Sections(t, "BLOCK")' = Sections(t, "BLOCK") \cup {n}
        /\ Sections(t, "PARKED")' = Sections(t, "PARKED")
    BY <1>1, <1>2, <2>3, SectionsAppended DEF LedgerInv
  <2>6. IsFiniteSet(Sections(t, "BLOCK")) /\ n \notin Sections(t, "BLOCK")
    BY SectionsFinite DEF LedgerInv
  <2>7. Cardinality(Sections(t, "BLOCK")') = Cardinality(Sections(t, "BLOCK")) + 1
    BY <2>5, <2>6, FS_AddElement
  <2>8. AtCap(Rounds(t))' /\ ~Parked(t)'
    BY <2>1, <2>2, <2>5, <2>7 DEF AtCap, Rounds, Parked
  <2> QED
    BY <2>4, <2>8 DEF ParkPending, AtCap, Rounds, Parked, Sections
<1> QED
  BY <1>3, <1>4, <1>5, <1>6, <1>7 DEF LedgerInv

\* The PARKED section is written, by Park or by a command that then fails.
LEMMA ParkInv ==
  ASSUME LedgerInv, loop = "park", ledger' = Append(ledger, ParkedSection),
         UNCHANGED <<transcript, checked, resumes>>,
         loop' \in {"record", "act"}, status' \in {"parked", "error"},
         faults' \in 0..MaxFaults
  PROVE  LedgerInv'
<1>1. TypeOK'
  BY ParkedSectionOK, AppendSection DEF LedgerInv, TypeOK
<1>2. Reviewed'
  BY DEF LedgerInv, Reviewed, Latest, LatestId, Unchecked
<1>3. RecordedOnce'
  BY ParkedSectionOK, OnceAppended DEF LedgerInv
<1>4. ParkedOnce' /\ ParkedEarned'
  BY ParkedSectionOK, ParkAppended DEF LedgerInv, ParkPending
<1> QED
  BY <1>1, <1>2, <1>3, <1>4 DEF LedgerInv, ParkPending

LEMMA FaultInv ==
  ASSUME LedgerInv, Fault
  PROVE  LedgerInv'
<1>1. faults' \in 0..MaxFaults /\ loop' = "record" /\ status' = "error"
  BY VerdictAssumption DEF Fault, LedgerInv, TypeOK
<1>2. CASE loop \in {"record", "park"} /\ UNCHANGED ledger
  <2>1. TypeOK' /\ Reviewed' /\ ParkPending'
    BY <1>1, <1>2
    DEF Fault, LedgerInv, TypeOK, Reviewed, ParkPending, Latest, LatestId, Unchecked
  <2> QED
    BY <1>2, <2>1, LedgerKept DEF LedgerInv
<1>3. CASE loop = "record" /\ ~Recorded(LatestId)
           /\ ledger' = Append(ledger, VerdictSection("TORN"))
  <2> DEFINE s == VerdictSection("TORN")
  <2>1. s \in Section /\ s.id = LatestId /\ s.kind = "TORN"
    BY <1>3, VerdictSectionOK
  <2> HIDE DEF s
  <2>2. ledger' = Append(ledger, s)
    BY <1>3 DEF s
  <2>3. TypeOK' /\ Reviewed' /\ ParkPending'
    BY <1>1, <1>3, <2>1, <2>2, AppendSection
    DEF Fault, LedgerInv, TypeOK, Reviewed, ParkPending, Latest, LatestId, Unchecked
  <2>4. RecordedOnce' /\ ParkedOnce' /\ ParkedEarned'
    BY <1>3, <2>1, <2>2, OnceAppended, UnparkedAppended DEF LedgerInv
  <2> QED
    BY <2>3, <2>4 DEF LedgerInv
<1>4. CASE loop = "park" /\ ledger' = Append(ledger, ParkedSection)
  BY <1>1, <1>4, ParkInv DEF Fault
<1> QED
  BY <1>2, <1>3, <1>4 DEF Fault

\* The steps of the loop, and a command that finds its verdict recorded.
LEMMA LoopInv ==
  ASSUME LedgerInv, AlreadyRecorded \/ Review \/ Act \/ Rerun \/ Resume
  PROVE  LedgerInv'
<1>1. ledger' = ledger /\ faults' = faults /\ loop' # "park"
  BY DEF AlreadyRecorded, Report, Review, Act, Rerun, Resume
<1>2. ParkPending'
  BY <1>1 DEF ParkPending
<1>3. TypeOK' /\ Reviewed'
  <2>1. CASE AlreadyRecorded \/ Rerun
    BY <2>1 DEF AlreadyRecorded, Rerun, Report, LedgerInv, TypeOK, Reviewed, Latest,
                LatestId, Unchecked
  <2>2. CASE Review
    <3>1. PICK b \in BOOLEAN :
            transcript' = Append(transcript, [task |-> NextTask, block |-> b])
      BY <2>2 DEF Review
    <3>2. NextTask \in Unchecked /\ NextTask \in Task
      BY <2>2, NextTaskUnchecked DEF Review
    <3>3. [task |-> NextTask, block |-> b] \in Verdict
      BY <3>2 DEF Verdict
    <3>4. /\ transcript' \in Seq(Verdict) /\ transcript' # <<>>
          /\ Len(transcript') = Len(transcript) + 1
          /\ transcript'[Len(transcript) + 1] = [task |-> NextTask, block |-> b]
      BY <3>1, <3>3, AppendProperties DEF LedgerInv, TypeOK
    <3>5. TypeOK'
      BY <2>2, <3>4 DEF Review, LedgerInv, TypeOK
    <3>6. Latest'.task = NextTask
      BY <3>4 DEF Latest, LatestId
    <3>7. Reviewed'
      BY <2>2, <3>2, <3>4, <3>6 DEF Review, Reviewed, Unchecked
    <3> QED
      BY <3>5, <3>7
  <2>3. CASE Act
    BY <2>3 DEF Act, LedgerInv, TypeOK, Reviewed, Unchecked
  <2>4. CASE Resume
    BY <2>4, VerdictAssumption DEF Resume, LedgerInv, TypeOK, Reviewed
  <2> QED
    BY <2>1, <2>2, <2>3, <2>4
<1> QED
  BY <1>1, <1>2, <1>3, LedgerKept DEF LedgerInv

LEMMA NextInv == LedgerInv /\ [Next]_vars => LedgerInv'
<1> SUFFICES ASSUME LedgerInv, [Next]_vars PROVE LedgerInv'
  OBVIOUS
<1>1. CASE RecordPass \/ RecordBlock
  BY <1>1, RecordInv
<1>2. CASE Park
  BY <1>2, ParkInv DEF Park, Report, LedgerInv, TypeOK
<1>3. CASE Fault
  BY <1>3, FaultInv
<1>4. CASE AlreadyRecorded \/ Review \/ Act \/ Rerun \/ Resume
  BY <1>4, LoopInv
<1>5. CASE UNCHANGED vars
  <2>1. TypeOK' /\ Reviewed' /\ ParkPending'
    BY <1>5 DEF vars, LedgerInv, TypeOK, Reviewed, ParkPending, Latest, LatestId,
                Unchecked, Recorded, RecordedTask, Rounds, Parked, Sections, AtCap
  <2> QED
    BY <1>5, <2>1, LedgerKept DEF vars, LedgerInv
<1> QED
  BY <1>1, <1>2, <1>3, <1>4, <1>5 DEF Next

LEMMA Invariance == Spec => []LedgerInv
BY InitInv, NextInv, PTL DEF Spec

\* record-verdict.ts: every reachable state is well typed; in particular the
\* command always finds an unchecked task to record a new verdict under.
THEOREM TypeCorrect == Spec => []TypeOK
BY Invariance, PTL DEF LedgerInv

\* record-verdict.ts: a verdict has one section in review-log.md, however often
\* the command is run for it and wherever it fails.
THEOREM VerdictOnce == Spec => []RecordedOnce
BY Invariance, PTL DEF LedgerInv

\* record-verdict.ts: a task has at most one PARKED section.
THEOREM ParkOnce == Spec => []ParkedOnce
BY Invariance, PTL DEF LedgerInv

\* record-verdict.ts: a PARKED section stands after Cap BLOCK sections of its task.
THEOREM ParkEarned == Spec => []ParkedEarned
BY Invariance, PTL DEF LedgerInv

-----------------------------------------------------------------------------
(* The verdict at hand, and the loop.                                      *)

\* What the command finds of the verdict at hand: it is of the first task unticked, and
\* recorded under an id of its own when the command ends well.
AtHand ==
  /\ \A i \in DOMAIN ledger : ledger[i].id \leq LatestId
  /\ loop \in {"record", "park", "act"} => Latest.task = NextTask
  /\ loop \in {"park", "act"} => Recorded(LatestId)
  /\ loop = "act" /\ status = "parked" => Parked(RecordedTask(LatestId))

\* Its section, when no command has failed: as it was given, and at the cap parked.
InLedger(n) ==
  \E i \in DOMAIN ledger :
    /\ ledger[i].id = n /\ ledger[i].task = transcript[n].task
    /\ ledger[i].kind = IF transcript[n].block THEN "BLOCK" ELSE "PASS"
Calm ==
  faults = 0 =>
    /\ loop \in {"record", "park", "act"} /\ Recorded(LatestId) => InLedger(LatestId)
    /\ \A t \in Task : AtCap(Rounds(t)) =>
         Parked(t) \/ (loop = "park" /\ RecordedTask(LatestId) = t)
    /\ CapSignalled

\* A BLOCK that is recorded and may yet be sent back, and one that the next command or the
\* next step of the loop does send back.
Returns(t) == Cardinality(SentBack(t))
Excused == resumes + faults
Blocked(t) ==
  /\ loop \in {"park", "act"} \/ (loop = "record" /\ Recorded(LatestId))
  /\ Latest = [task |-> t, block |-> TRUE]
Released(t) ==
  /\ \/ loop = "act" /\ status # "parked"
     \/ loop = "record" /\ Recorded(LatestId) /\ ~Parked(RecordedTask(LatestId))
  /\ Latest = [task |-> t, block |-> TRUE]
Bounded(t) ==
  /\ Returns(t) \leq Rounds(t) + Excused
  /\ Returns(t) < Cap + Excused
  /\ Blocked(t) => Returns(t) + 1 \leq Rounds(t) + Excused
  /\ Released(t) => Returns(t) + 1 < Cap + Excused

LoopInvariant == LedgerInv /\ AtHand /\ Calm /\ \A t \in Task : Bounded(t)

-----------------------------------------------------------------------------
(* What the loop's invariant reads, under each kind of step.               *)

LEMMA RoundsNat ==
  ASSUME TypeOK, NEW t
  PROVE  Rounds(t) \in Nat
BY SectionsFinite, FS_CardinalityType DEF Rounds

LEMMA ReturnsNat ==
  ASSUME TypeOK, NEW t
  PROVE  /\ LatestId \in Nat /\ DOMAIN transcript = 1..LatestId
         /\ IsFiniteSet(SentBack(t)) /\ Returns(t) \in Nat
<1>1. LatestId \in Nat /\ DOMAIN transcript = 1..LatestId
  BY LenProperties DEF TypeOK, LatestId
<1>2. IsFiniteSet(1..LatestId)
  BY <1>1, FS_Interval
<1>3. SentBack(t) \in SUBSET (1..LatestId)
  BY <1>1 DEF SentBack
<1> QED
  BY <1>1, <1>2, <1>3, FS_Subset, FS_CardinalityType DEF Returns

\* Nothing is written: what the command would read stays as it is.
LEMMA ReadKept ==
  ASSUME ledger' = ledger, transcript' = transcript
  PROVE  /\ \A t : Rounds(t)' = Rounds(t) /\ (Parked(t)' <=> Parked(t))
         /\ LatestId' = LatestId /\ Latest' = Latest
         /\ Recorded(LatestId)' <=> Recorded(LatestId)
         /\ RecordedTask(LatestId)' = RecordedTask(LatestId)
         /\ InLedger(LatestId)' <=> InLedger(LatestId)
BY DEF Rounds, Parked, Sections, LatestId, Latest, Recorded, RecordedTask, InLedger

\* A verdict counts as sent back when the loop leaves it behind.
LEMMA ReturnsKept ==
  ASSUME transcript' = transcript, loop # "dispatch", loop' # "dispatch", NEW t
  PROVE  Returns(t)' = Returns(t)
BY DEF Returns, SentBack, LatestId

LEMMA ReturnsMore ==
  ASSUME TypeOK, transcript' = transcript, loop # "dispatch", loop' = "dispatch", NEW t
  PROVE  /\ Returns(t)' \in Nat
         /\ Returns(t)' \leq Returns(t) + 1
         /\ Latest # [task |-> t, block |-> TRUE] => Returns(t)' = Returns(t)
<1>1. CASE LatestId \in DOMAIN transcript /\ Latest = [task |-> t, block |-> TRUE]
  <2>1. SentBack(t)' = SentBack(t) \cup {LatestId} /\ LatestId \notin SentBack(t)
    BY <1>1 DEF SentBack, LatestId, Latest
  <2>2. Returns(t)' = Returns(t) + 1
    BY <2>1, ReturnsNat, FS_AddElement DEF Returns
  <2> QED
    BY <1>1, <2>2, ReturnsNat
<1>2. CASE ~(LatestId \in DOMAIN transcript /\ Latest = [task |-> t, block |-> TRUE])
  <2>1. SentBack(t)' = SentBack(t)
    BY <1>2 DEF SentBack, LatestId, Latest
  <2> QED
    BY <2>1, ReturnsNat DEF Returns
<1> QED
  BY <1>1, <1>2

\* A section with another id does not change what is recorded of the verdict.
LEMMA OtherAppended ==
  ASSUME TypeOK, NEW s \in Section, ledger' = Append(ledger, s),
         transcript' = transcript, s.id # LatestId, Recorded(LatestId)
  PROVE  /\ Recorded(LatestId)'
         /\ RecordedTask(LatestId)' = RecordedTask(LatestId)
         /\ InLedger(LatestId) => InLedger(LatestId)'
<1>1. LatestId' = LatestId
  BY DEF LatestId
<1>2. /\ DOMAIN ledger \subseteq DOMAIN ledger'
      /\ \A i \in DOMAIN ledger : ledger'[i] = ledger[i]
      /\ \A i \in DOMAIN ledger' : ledger'[i].id = LatestId => i \in DOMAIN ledger
  BY AppendSection
<1>3. (CHOOSE i \in DOMAIN ledger' : ledger'[i].id = LatestId)
        = (CHOOSE i \in DOMAIN ledger : ledger[i].id = LatestId)
  <2>1. \A i : (i \in DOMAIN ledger' /\ ledger'[i].id = LatestId)
                 <=> (i \in DOMAIN ledger /\ ledger[i].id = LatestId)
    BY <1>2
  <2> QED
    BY <2>1
<1>4. RecordedTask(LatestId)' = RecordedTask(LatestId)
  BY <1>1, <1>2, <1>3 DEF RecordedTask, Recorded
<1> QED
  BY <1>1, <1>2, <1>4 DEF Recorded, InLedger

\* A verdict in the ledger as it was given is found under its task.
LEMMA InLedgerTask ==
  ASSUME LedgerInv, transcript # <<>>, InLedger(LatestId)
  PROVE  RecordedTask(LatestId) = Latest.task
<1>1. PICK i \in DOMAIN ledger : ledger[i].id = LatestId /\ ledger[i].task = Latest.task
  BY DEF InLedger, Latest
<1>2. LatestId # NoId
  BY EmptySeq, LenProperties DEF LedgerInv, TypeOK, LatestId, NoId
<1>3. \A j \in DOMAIN ledger : ledger[j].id = LatestId => j = i
  BY <1>1, <1>2 DEF LedgerInv, RecordedOnce
<1> QED
  BY <1>1, <1>3 DEF RecordedTask

-----------------------------------------------------------------------------
(* Every step keeps the loop's invariant.                                  *)

LEMMA LoopInit == Init => LoopInvariant
<1> SUFFICES ASSUME Init PROVE LoopInvariant
  OBVIOUS
<1>1. DOMAIN ledger = {} /\ DOMAIN transcript = {} /\ LedgerInv
  BY InitInv, EmptySeq DEF Init
<1>2. \A t : Sections(t, "BLOCK") = {} /\ SentBack(t) = {}
  BY <1>1 DEF Sections, SentBack
<1>3. \A t : Rounds(t) = 0 /\ Returns(t) = 0
  BY <1>2, FS_EmptySet DEF Rounds, Returns
<1>4. Calm
  BY <1>3, VerdictAssumption DEF Init, Calm, AtCap, CapSignalled
<1> QED
  BY <1>1, <1>3, <1>4, VerdictAssumption
  DEF Init, LoopInvariant, AtHand, Bounded, Blocked, Released, Excused

\* The command finds the verdict recorded: at the cap its task is parked, since
\* it stands in the ledger as it was given.
LEMMA AlreadyRecordedLoop ==
  ASSUME LoopInvariant, AlreadyRecorded
  PROVE  AtHand' /\ Calm' /\ \A t \in Task : Bounded(t)'
<1>1. /\ loop = "record" /\ loop' = "act" /\ Recorded(LatestId)
      /\ ledger' = ledger /\ transcript' = transcript
      /\ checked' = checked /\ resumes' = resumes /\ faults' = faults
      /\ status' = IF Parked(RecordedTask(LatestId)) THEN "parked" ELSE "already-recorded"
  BY DEF AlreadyRecorded, Report
<1>2. AtHand'
  BY <1>1, ReadKept DEF LoopInvariant, AtHand, NextTask, Unchecked
<1>3. Calm'
  <2> SUFFICES ASSUME faults = 0 PROVE Calm'
    BY <1>1 DEF Calm
  <2>1. InLedger(LatestId) /\ \A t \in Task : AtCap(Rounds(t)) => Parked(t)
    BY <1>1 DEF LoopInvariant, Calm
  <2>2. transcript # <<>> /\ Latest.task \in Task
    BY <1>1 DEF LoopInvariant, LedgerInv, Reviewed, Unchecked
  <2>3. RecordedTask(LatestId) = Latest.task
    BY <2>1, <2>2, InLedgerTask DEF LoopInvariant
  <2>4. CapSignalled'
    <3>1. Rounds(Latest.task) \geq Cap => status' = "parked"
      BY <1>1, <2>1, <2>2, <2>3 DEF AtCap
    <3> QED
      BY <1>1, <3>1 DEF CapSignalled, Latest, LatestId, Sections, Rounds
  <2> QED
    BY <1>1, <2>1, <2>4, ReadKept DEF Calm, AtCap
<1>4. ASSUME NEW t \in Task PROVE Bounded(t)'
  <2>1. Returns(t)' = Returns(t) /\ Rounds(t)' = Rounds(t) /\ Excused' = Excused
    BY <1>1, ReadKept, ReturnsKept DEF Excused
  <2>2. (Blocked(t)' => Blocked(t)) /\ (Released(t)' => Released(t))
    BY <1>1, ReadKept DEF Blocked, Released
  <2> QED
    BY <2>1, <2>2 DEF LoopInvariant, Bounded
<1> QED
  BY <1>2, <1>3, <1>4

\* A PASS leaves the rounds as they are.
LEMMA RecordPassLoop ==
  ASSUME LoopInvariant, RecordPass
  PROVE  AtHand' /\ Calm' /\ \A t \in Task : Bounded(t)'
<1> DEFINE s == VerdictSection("PASS")
<1>1. /\ loop = "record" /\ loop' = "act" /\ status' = "appended"
      /\ ~Recorded(LatestId) /\ ~Latest.block
      /\ transcript' = transcript /\ checked' = checked
      /\ resumes' = resumes /\ faults' = faults
  BY DEF RecordPass, Report
<1>2. /\ s \in Section /\ s.id = LatestId /\ s.task = NextTask /\ s.kind = "PASS"
      /\ ledger' = Append(ledger, s) /\ TypeOK
  BY <1>1, VerdictSectionOK DEF RecordPass, LoopInvariant, LedgerInv
<1> HIDE DEF s
<1>3. \A t : Rounds(t)' = Rounds(t) /\ (Parked(t)' <=> Parked(t))
  BY <1>2, SectionsAppended DEF Rounds, Parked
<1>4. LatestId' = LatestId /\ Latest' = Latest /\ NextTask' = NextTask
  BY <1>1 DEF LatestId, Latest, NextTask, Unchecked
<1>5. AtHand'
  <2>1. \A i \in DOMAIN ledger' : ledger'[i].id \leq LatestId
    BY <1>2, AppendSection, ReturnsNat DEF LoopInvariant, AtHand
  <2>2. Recorded(LatestId)'
    BY <1>1, <1>2, TaskRecorded
  <2> QED
    BY <1>1, <1>4, <2>1, <2>2 DEF LoopInvariant, AtHand
<1>6. Calm'
  <2>1. InLedger(LatestId)'
    BY <1>1, <1>2, <1>4, AppendSection DEF LoopInvariant, AtHand, InLedger, Latest
  <2> QED
    BY <1>1, <1>3, <1>4, <2>1 DEF LoopInvariant, Calm, AtCap, CapSignalled
<1>7. ASSUME NEW t \in Task PROVE Bounded(t)'
  <2>1. Returns(t)' = Returns(t) /\ Rounds(t)' = Rounds(t) /\ Excused' = Excused
    BY <1>1, <1>3, ReturnsKept DEF Excused
  <2>2. ~Blocked(t)' /\ ~Released(t)'
    BY <1>1, <1>4 DEF Blocked, Released
  <2> QED
    BY <2>1, <2>2 DEF LoopInvariant, Bounded
<1> QED
  BY <1>5, <1>6, <1>7

\* A BLOCK is a round more; below the cap it may be sent back.
LEMMA RecordBlockLoop ==
  ASSUME LoopInvariant, RecordBlock
  PROVE  AtHand' /\ Calm' /\ \A t \in Task : Bounded(t)'
<1> DEFINE s == VerdictSection("BLOCK")
<1>1. /\ loop = "record" /\ ~Recorded(LatestId) /\ Latest.block
      /\ loop' \in {"act", "park"}
      /\ transcript' = transcript /\ checked' = checked
      /\ resumes' = resumes /\ faults' = faults
  BY DEF RecordBlock, Report
<1>2. /\ s \in Section /\ s.id = LatestId /\ s.task = NextTask /\ s.kind = "BLOCK"
      /\ ledger' = Append(ledger, s) /\ TypeOK /\ NextTask \in Task
  BY <1>1, VerdictSectionOK DEF RecordBlock, LoopInvariant, LedgerInv
<1> HIDE DEF s
<1>3. \A t : Parked(t)' <=> Parked(t)
  BY <1>2, SectionsAppended DEF Parked
<1>4. \A t : t # NextTask => Rounds(t)' = Rounds(t)
  BY <1>2, SectionsAppended DEF Rounds
<1>5. Rounds(NextTask)' = Rounds(NextTask) + 1 /\ Rounds(NextTask) \in Nat
  <2>1. PICK t : t = NextTask
    OBVIOUS
  <2>2. Sections(t, "BLOCK")' = Sections(t, "BLOCK") \cup {Len(ledger) + 1}
    BY <1>2, <2>1, SectionsAppended
  <2>3. IsFiniteSet(Sections(t, "BLOCK")) /\ Len(ledger) + 1 \notin Sections(t, "BLOCK")
    BY <1>2, SectionsFinite
  <2>4. Cardinality(Sections(t, "BLOCK")') = Cardinality(Sections(t, "BLOCK")) + 1
    BY <2>2, <2>3, FS_AddElement
  <2>5. Rounds(t)' = Rounds(t) + 1 /\ Rounds(t) \in Nat
    BY <1>2, <2>4, RoundsNat DEF Rounds
  <2>6. NextTask' = NextTask
    BY <1>1 DEF NextTask, Unchecked
  <2> QED
    BY <2>1, <2>5, <2>6
<1>6. LatestId' = LatestId /\ Latest' = Latest /\ NextTask' = NextTask
  BY <1>1 DEF LatestId, Latest, NextTask, Unchecked
<1>7. Latest.task = NextTask /\ Recorded(LatestId)' /\ RecordedTask(LatestId)' = NextTask
  BY <1>1, <1>2, TaskRecorded DEF LoopInvariant, AtHand
<1>8. \/ loop' = "act" /\ ~AtCap(Rounds(NextTask) + 1) /\ status' = "appended"
      \/ loop' = "act" /\ Parked(NextTask) /\ status' = "parked"
      \/ loop' = "park" /\ AtCap(Rounds(NextTask) + 1)
  BY DEF RecordBlock, Report
<1>9. AtHand'
  <2>1. \A i \in DOMAIN ledger' : ledger'[i].id \leq LatestId
    BY <1>2, AppendSection, ReturnsNat DEF LoopInvariant, AtHand
  <2>2. loop' = "act" /\ status' = "parked" => Parked(RecordedTask(LatestId))'
    BY <1>3, <1>7, <1>8 DEF Parked, Sections
  <2> QED
    BY <1>1, <1>6, <1>7, <2>1, <2>2 DEF AtHand
<1>10. Calm'
  <2> SUFFICES ASSUME faults = 0 PROVE Calm'
    BY <1>1 DEF Calm
  <2>1. InLedger(LatestId)'
    BY <1>1, <1>2, <1>6, <1>7, AppendSection DEF InLedger, Latest
  <2>2. ASSUME NEW t \in Task, AtCap(Rounds(t))'
        PROVE  Parked(t)' \/ (loop' = "park" /\ RecordedTask(LatestId)' = t)
    <3>1. CASE t = NextTask
      BY <1>3, <1>5, <1>6, <1>7, <1>8, <2>2, <3>1 DEF AtCap
    <3>2. CASE t # NextTask
      BY <1>1, <1>3, <1>4, <2>2, <3>2 DEF LoopInvariant, Calm, AtCap
    <3> QED
      BY <3>1, <3>2
  <2>3. CapSignalled'
    <3>1. loop' = "act" /\ Rounds(NextTask)' \geq Cap => status' = "parked"
      BY <1>5, <1>8 DEF AtCap
    <3>2. Rounds(NextTask)' = Cardinality(Sections(Latest.task, "BLOCK"))'
      BY <1>6, <1>7 DEF Rounds
    <3> QED
      BY <3>1, <3>2 DEF CapSignalled
  <2> QED
    BY <2>1, <2>2, <2>3 DEF Calm
<1>11. ASSUME NEW t \in Task PROVE Bounded(t)'
  <2>1. Returns(t)' = Returns(t) /\ Excused' = Excused /\ Excused \in Nat
    BY <1>1, <1>2, ReturnsKept DEF Excused, TypeOK
  <2>2. CASE t # NextTask
    <3>1. ~Blocked(t)' /\ ~Released(t)'
      BY <1>6, <1>7, <2>2 DEF Blocked, Released
    <3> QED
      BY <1>4, <2>1, <2>2, <3>1 DEF LoopInvariant, Bounded
  <2>3. CASE t = NextTask
    <3>1. Rounds(t)' = Rounds(t) + 1 /\ Rounds(t) \in Nat /\ Returns(t) \in Nat
      BY <1>2, <1>5, <1>6, <2>3, ReturnsNat
    <3>2. Returns(t) + 1 \leq Rounds(t)' + Excused /\ Returns(t) < Cap + Excused
      BY <2>1, <3>1 DEF LoopInvariant, Bounded
    <3>3. Released(t)' => Rounds(t)' < Cap
      BY <1>1, <1>8, <2>3, <3>1, VerdictAssumption DEF Released, AtCap
    <3> QED
      BY <2>1, <3>1, <3>2, <3>3, VerdictAssumption DEF Bounded
  <2> QED
    BY <2>2, <2>3
<1> QED
  BY <1>9, <1>10, <1>11

\* The task is parked; a PARKED section is no round and has no id.
LEMMA ParkLoop ==
  ASSUME LoopInvariant, Park
  PROVE  AtHand' /\ Calm' /\ \A t \in Task : Bounded(t)'
<1> DEFINE s == ParkedSection
<1>1. /\ loop = "park" /\ loop' = "act" /\ status' = "parked"
      /\ transcript' = transcript /\ checked' = checked
      /\ resumes' = resumes /\ faults' = faults
  BY DEF Park, Report
<1>2. PICK u : u = RecordedTask(LatestId)
  OBVIOUS
<1>3. /\ s \in Section /\ s.id = NoId /\ s.task = u /\ s.kind = "PARKED"
      /\ ledger' = Append(ledger, s) /\ TypeOK
  BY <1>1, <1>2, ParkedSectionOK DEF Park, LoopInvariant, LedgerInv
<1> HIDE DEF s
<1>4. LatestId # NoId /\ LatestId \in Nat
  BY <1>1, <1>3, EmptySeq, LenProperties
  DEF LoopInvariant, LedgerInv, Reviewed, TypeOK, LatestId, NoId
<1>5. \A t : Rounds(t)' = Rounds(t)
  BY <1>3, SectionsAppended DEF Rounds
<1>6. Parked(u)' /\ \A t : Parked(t) => Parked(t)'
  <2>1. Sections(u, "PARKED")' = Sections(u, "PARKED") \cup {Len(ledger) + 1}
    BY <1>3, SectionsAppended
  <2>2. \A t : t # u => Sections(t, "PARKED")' = Sections(t, "PARKED")
    BY <1>3, SectionsAppended
  <2> QED
    BY <2>1, <2>2 DEF Parked
<1>7. LatestId' = LatestId /\ Latest' = Latest /\ NextTask' = NextTask
  BY <1>1 DEF LatestId, Latest, NextTask, Unchecked
<1>8. /\ Recorded(LatestId) /\ Recorded(LatestId)'
      /\ RecordedTask(LatestId)' = u
      /\ InLedger(LatestId) => InLedger(LatestId)'
  BY <1>1, <1>2, <1>3, <1>4, OtherAppended DEF LoopInvariant, AtHand
<1>9. AtHand'
  <2>1. \A i \in DOMAIN ledger' : ledger'[i].id \leq LatestId
    BY <1>3, <1>4, AppendSection DEF LoopInvariant, AtHand, NoId
  <2>2. Parked(RecordedTask(LatestId))'
    BY <1>6, <1>8 DEF Parked, Sections
  <2> QED
    BY <1>1, <1>7, <1>8, <2>1, <2>2 DEF LoopInvariant, AtHand
<1>10. Calm'
  BY <1>1, <1>2, <1>5, <1>6, <1>7, <1>8 DEF LoopInvariant, Calm, AtCap, CapSignalled
<1>11. ASSUME NEW t \in Task PROVE Bounded(t)'
  <2>1. Returns(t)' = Returns(t) /\ Rounds(t)' = Rounds(t) /\ Excused' = Excused
    BY <1>1, <1>5, ReturnsKept DEF Excused
  <2>2. (Blocked(t)' => Blocked(t)) /\ ~Released(t)'
    BY <1>1, <1>7 DEF Blocked, Released
  <2> QED
    BY <2>1, <2>2 DEF LoopInvariant, Bounded
<1> QED
  BY <1>9, <1>10, <1>11

\* A command that fails may leave its task unparked, and is counted for it.
LEMMA FaultLoop ==
  ASSUME LoopInvariant, Fault
  PROVE  AtHand' /\ Calm' /\ \A t \in Task : Bounded(t)'
<1>1. /\ loop \in {"record", "park"} /\ loop' = "record" /\ status' = "error"
      /\ transcript' = transcript /\ checked' = checked
      /\ resumes' = resumes /\ faults' = faults + 1
      /\ TypeOK /\ faults \in Nat /\ resumes \in Nat
  BY VerdictAssumption DEF Fault, LoopInvariant, LedgerInv, TypeOK
<1>2. LatestId' = LatestId /\ Latest' = Latest /\ NextTask' = NextTask
  BY <1>1 DEF LatestId, Latest, NextTask, Unchecked
<1>3. /\ \A i \in DOMAIN ledger' : ledger'[i].id \leq LatestId
      /\ \A t : Rounds(t)' = Rounds(t)
  <2>1. CASE ledger' = ledger
    BY <2>1 DEF LoopInvariant, AtHand, Rounds, Sections
  <2>2. ASSUME NEW s \in Section, ledger' = Append(ledger, s),
               s.id \leq LatestId, s.kind # "BLOCK"
        PROVE  <1>3!1 /\ <1>3!2
    BY <1>1, <2>2, AppendSection, SectionsAppended DEF LoopInvariant, AtHand, Rounds
  <2>3. CASE loop = "record" /\ ledger' = Append(ledger, VerdictSection("TORN"))
    BY <1>1, <2>2, <2>3, VerdictSectionOK, ReturnsNat DEF LoopInvariant
  <2>4. CASE loop = "park" /\ ledger' = Append(ledger, ParkedSection)
    BY <1>1, <2>2, <2>4, ParkedSectionOK, ReturnsNat DEF LoopInvariant, NoId
  <2> QED
    BY <2>1, <2>3, <2>4 DEF Fault
<1>4. AtHand'
  BY <1>1, <1>2, <1>3 DEF LoopInvariant, AtHand
<1>5. Calm'
  BY <1>1 DEF Calm
<1>6. ASSUME NEW t \in Task PROVE Bounded(t)'
  <2>1. /\ Returns(t)' = Returns(t) /\ Rounds(t)' = Rounds(t)
        /\ Excused' = Excused + 1 /\ Excused \in Nat
        /\ Returns(t) \in Nat /\ Rounds(t) \in Nat
    BY <1>1, <1>3, ReturnsKept, ReturnsNat, RoundsNat DEF Excused
  <2>2. Returns(t) \leq Rounds(t) + Excused /\ Returns(t) < Cap + Excused
    BY DEF LoopInvariant, Bounded
  <2> QED
    BY <2>1, <2>2, VerdictAssumption DEF Bounded
<1> QED
  BY <1>4, <1>5, <1>6

\* A new verdict has an id that no section bears.
LEMMA ReviewLoop ==
  ASSUME LoopInvariant, Review
  PROVE  AtHand' /\ Calm' /\ \A t \in Task : Bounded(t)'
<1>1. /\ loop = "dispatch" /\ loop' = "record" /\ Unchecked # {} /\ TypeOK
      /\ ledger' = ledger /\ checked' = checked /\ status' = status
      /\ resumes' = resumes /\ faults' = faults
  BY DEF Review, LoopInvariant, LedgerInv
<1>2. PICK b \in BOOLEAN :
        transcript' = Append(transcript, [task |-> NextTask, block |-> b])
  BY DEF Review
<1>3. [task |-> NextTask, block |-> b] \in Verdict
  BY <1>1, NextTaskUnchecked DEF Verdict
<1>4. /\ LatestId \in Nat /\ LatestId' = LatestId + 1
      /\ Latest' = [task |-> NextTask, block |-> b]
      /\ DOMAIN transcript = 1..LatestId /\ DOMAIN transcript' = 1..(LatestId + 1)
      /\ \A n \in DOMAIN transcript : transcript'[n] = transcript[n]
  BY <1>1, <1>2, <1>3, AppendProperties, LenProperties DEF TypeOK, LatestId, Latest
<1>5. NextTask' = NextTask
  BY <1>1 DEF NextTask, Unchecked
<1>6. \A i \in DOMAIN ledger : ledger[i].id \in Nat /\ ledger[i].id \leq LatestId
  <2>1. \A i \in DOMAIN ledger : ledger[i] \in Section
    BY <1>1, ElementOfSeq, LenProperties DEF TypeOK
  <2> QED
    BY <2>1 DEF LoopInvariant, AtHand, Section
<1>7. ~Recorded(LatestId)'
  BY <1>1, <1>4, <1>6 DEF Recorded
<1>8. AtHand'
  BY <1>1, <1>4, <1>5, <1>6 DEF AtHand
<1>9. Calm'
  <2>1. \A t : Rounds(t)' = Rounds(t) /\ (Parked(t)' <=> Parked(t))
    BY <1>1 DEF Rounds, Parked, Sections
  <2> QED
    BY <1>1, <1>7, <2>1 DEF LoopInvariant, Calm, AtCap, CapSignalled
<1>10. ASSUME NEW t \in Task PROVE Bounded(t)'
  <2>1. SentBack(t)' = SentBack(t)
    BY <1>1, <1>4 DEF SentBack
  <2>2. Returns(t)' = Returns(t) /\ Rounds(t)' = Rounds(t) /\ Excused' = Excused
    BY <1>1, <2>1 DEF Returns, Rounds, Sections, Excused
  <2>3. ~Blocked(t)' /\ ~Released(t)'
    BY <1>1, <1>7 DEF Blocked, Released
  <2> QED
    BY <2>2, <2>3 DEF LoopInvariant, Bounded
<1> QED
  BY <1>8, <1>9, <1>10

\* The loop leaves the verdict at hand behind: this is where a BLOCK is sent back.
LEMMA ActLoop ==
  ASSUME LoopInvariant, Act
  PROVE  AtHand' /\ Calm' /\ \A t \in Task : Bounded(t)'
<1>1. /\ loop = "act" /\ loop' \in {"stopped", "dispatch"}
      /\ loop' = "dispatch" => ~Latest.block \/ status # "parked"
      /\ ledger' = ledger /\ transcript' = transcript /\ status' = status
      /\ resumes' = resumes /\ faults' = faults /\ TypeOK
  BY DEF Act, LoopInvariant, LedgerInv
<1>2. AtHand'
  BY <1>1, ReadKept DEF LoopInvariant, AtHand
<1>3. Calm'
  BY <1>1, ReadKept DEF LoopInvariant, Calm, AtCap, CapSignalled
<1>4. ASSUME NEW t \in Task PROVE Bounded(t)'
  <2>1. /\ Rounds(t)' = Rounds(t) /\ Excused' = Excused /\ Excused \in Nat
        /\ Rounds(t) \in Nat /\ Returns(t) \in Nat
        /\ ~Blocked(t)' /\ ~Released(t)'
    BY <1>1, ReadKept, RoundsNat, ReturnsNat, VerdictAssumption
    DEF Excused, Blocked, Released, TypeOK
  <2>2. CASE loop' = "dispatch" /\ Latest = [task |-> t, block |-> TRUE]
    <3>1. Blocked(t) /\ Released(t)
      BY <1>1, <2>2 DEF Blocked, Released
    <3>2. Returns(t)' \in Nat /\ Returns(t)' \leq Returns(t) + 1
      BY <1>1, <2>2, ReturnsMore
    <3> QED
      BY <2>1, <3>1, <3>2, VerdictAssumption DEF LoopInvariant, Bounded
  <2>3. CASE ~(loop' = "dispatch" /\ Latest = [task |-> t, block |-> TRUE])
    <3>1. Returns(t)' = Returns(t)
      BY <1>1, <2>3, ReturnsKept, ReturnsMore
    <3> QED
      BY <2>1, <3>1 DEF LoopInvariant, Bounded
  <2> QED
    BY <2>2, <2>3
<1> QED
  BY <1>2, <1>3, <1>4

\* A command that reported nothing parked finds nothing parked when it is run again.
LEMMA RerunLoop ==
  ASSUME LoopInvariant, Rerun
  PROVE  AtHand' /\ Calm' /\ \A t \in Task : Bounded(t)'
<1>1. /\ loop = "act" /\ loop' = "record" /\ UNCHANGED <<ledger, transcript, checked>>
      /\ UNCHANGED <<status, resumes, faults>>
  BY DEF Rerun
<1>2. AtHand' /\ Calm'
  BY <1>1, ReadKept
  DEF LoopInvariant, AtHand, Calm, AtCap, CapSignalled, NextTask, Unchecked
<1>3. ASSUME NEW t \in Task PROVE Bounded(t)'
  <2>1. Returns(t)' = Returns(t) /\ Rounds(t)' = Rounds(t) /\ Excused' = Excused
    BY <1>1, ReadKept, ReturnsKept DEF Excused
  <2>2. (Blocked(t)' => Blocked(t)) /\ (Released(t)' => Released(t))
    BY <1>1, ReadKept DEF LoopInvariant, AtHand, Blocked, Released
  <2> QED
    BY <2>1, <2>2 DEF LoopInvariant, Bounded
<1> QED
  BY <1>2, <1>3

\* The operator sends the parked task back once, and is counted for it.
LEMMA ResumeLoop ==
  ASSUME LoopInvariant, Resume
  PROVE  AtHand' /\ Calm' /\ \A t \in Task : Bounded(t)'
<1>1. /\ loop = "stopped" /\ loop' = "dispatch" /\ resumes' = resumes + 1
      /\ UNCHANGED <<ledger, transcript, checked>> /\ status' = status
      /\ faults' = faults /\ TypeOK /\ resumes \in Nat /\ faults \in Nat
  BY VerdictAssumption DEF Resume, LoopInvariant, LedgerInv, TypeOK
<1>2. AtHand' /\ Calm'
  BY <1>1, ReadKept DEF LoopInvariant, AtHand, Calm, AtCap, CapSignalled
<1>3. ASSUME NEW t \in Task PROVE Bounded(t)'
  <2>1. /\ Returns(t)' \leq Returns(t) + 1 /\ Returns(t)' \in Nat /\ Returns(t) \in Nat
        /\ Rounds(t)' = Rounds(t) /\ Rounds(t) \in Nat
        /\ Excused' = Excused + 1 /\ Excused \in Nat
    BY <1>1, ReadKept, ReturnsMore, ReturnsNat, RoundsNat DEF Excused
  <2>2. ~Blocked(t)' /\ ~Released(t)'
    BY <1>1 DEF Blocked, Released
  <2> QED
    BY <2>1, <2>2, VerdictAssumption DEF LoopInvariant, Bounded
<1> QED
  BY <1>2, <1>3

LEMMA LoopNext == LoopInvariant /\ [Next]_vars => LoopInvariant'
<1> SUFFICES ASSUME LoopInvariant, [Next]_vars PROVE LoopInvariant'
  OBVIOUS
<1>1. LedgerInv'
  BY NextInv DEF LoopInvariant
<1>2. CASE Next
  BY <1>1, <1>2, AlreadyRecordedLoop, RecordPassLoop, RecordBlockLoop, ParkLoop,
     FaultLoop, ReviewLoop, ActLoop, RerunLoop, ResumeLoop
  DEF Next, LoopInvariant, Task
<1>3. CASE UNCHANGED vars
  <2>1. AtHand'
    BY <1>3, ReadKept DEF vars, LoopInvariant, AtHand, NextTask, Unchecked
  <2>2. CapSignalled <=> CapSignalled'
    BY <1>3 DEF vars, CapSignalled, Latest, LatestId, Sections
  <2>3. Calm'
    BY <1>3, <2>2, ReadKept DEF vars, LoopInvariant, Calm, AtCap
  <2>4. ASSUME NEW t \in Task PROVE Bounded(t)'
    <3>1. Returns(t)' = Returns(t) /\ Excused' = Excused
      BY <1>3 DEF vars, Returns, SentBack, LatestId, Excused
    <3>2. (Blocked(t)' => Blocked(t)) /\ (Released(t)' => Released(t))
      BY <1>3, ReadKept DEF vars, Blocked, Released
    <3> QED
      BY <1>3, <3>1, <3>2, ReadKept DEF vars, LoopInvariant, Bounded
  <2> QED
    BY <1>1, <2>1, <2>3, <2>4 DEF LoopInvariant, Task
<1> QED
  BY <1>2, <1>3

LEMMA LoopInvariance == Spec => []LoopInvariant
BY LoopInit, LoopNext, PTL DEF Spec

\* record-verdict.ts and prompts/opsx-loop.md: the loop sends a task back less than
\* Cap times, and once more for each restart by the operator and each failed command.
THEOREM LoopIsBounded == Spec => []LoopBounded
<1>1. LoopInvariant => LoopBounded
  <2> SUFFICES ASSUME LoopInvariant, NEW t \in Task
               PROVE  Cardinality(SentBack(t)) < Cap + resumes + faults
    BY DEF LoopBounded
  <2>1. Returns(t) < Cap + Excused /\ resumes \in Nat /\ faults \in Nat
    BY VerdictAssumption DEF LoopInvariant, Bounded, LedgerInv, TypeOK
  <2> QED
    BY <2>1, VerdictAssumption DEF Returns, Excused
<1> QED
  BY <1>1, LoopInvariance, PTL

\* record-verdict.ts: as long as no command has failed, one that ends well on a BLOCK
\* of a task at the cap reports it parked.
THEOREM CalmIsSignalled == Spec => []CalmSignalled
<1>1. LoopInvariant => CalmSignalled
  BY DEF LoopInvariant, Calm, CalmSignalled
<1> QED
  BY <1>1, LoopInvariance, PTL

\* record-verdict.ts: as long as no command has failed, one that ends well leaves the
\* verdict at hand in the ledger as it was given, under the task that was reviewed.
THEOREM CalmIsVerbatim == Spec => []CalmVerbatim
<1>1. LoopInvariant => CalmVerbatim
  BY DEF LoopInvariant, AtHand, Calm, CalmVerbatim, Verbatim, InLedger, LatestId
<1> QED
  BY <1>1, LoopInvariance, PTL
=============================================================================
