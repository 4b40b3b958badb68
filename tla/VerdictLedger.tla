--------------------------- MODULE VerdictLedger ---------------------------
(***************************************************************************)
(* tools/record-verdict.ts in the loop that runs it.  The reviewer's       *)
(* verdict is in the session transcript; the command appends it to the     *)
(* change's review-log.md under the first unchecked task and, when that    *)
(* task has collected Cap BLOCK verdicts, appends a PARKED entry and exits *)
(* with status 3.  The two appends are two system calls: either may fail,  *)
(* having written nothing or a prefix, and the process may be killed       *)
(* between them.  The loop (an agent that follows prompts/opsx-loop.md)    *)
(* runs one command at a time and is modelled as the environment.          *)
(***************************************************************************)
EXTENDS Naturals, Sequences, FiniteSets

CONSTANTS
  Tasks,       \* the number of tasks in tasks.md
  Cap,         \* OPSX_MAX_BLOCK_ROUNDS
  MaxResumes,  \* bound: how often the operator restarts a stopped loop
  MaxFaults    \* bound: commands that fail or are killed

ASSUME VerdictAssumption ==
  /\ Tasks \in Nat \ {0} /\ Cap \in Nat \ {0}
  /\ MaxResumes \in Nat /\ MaxFaults \in Nat

VARIABLES
  ledger,      \* review-log.md: its sections
  transcript,  \* the verdicts of the session; a verdict's toolCallId is its index
  checked,     \* the tasks ticked in tasks.md
  loop,        \* what the agent does next
  status,      \* what the last command reported
  resumes, faults

vars == <<ledger, transcript, checked, loop, status, resumes, faults>>

Task == 1..Tasks
NoId == 0
Verdict == [task: Task, block: BOOLEAN]
\* "TORN": the heading and the marker were written and not the verdict.
Section == [task: Task, id: Nat, kind: {"PASS", "BLOCK", "TORN", "PARKED"}]

TypeOK ==
  /\ ledger \in Seq(Section)
  /\ transcript \in Seq(Verdict)
  /\ checked \subseteq Task
  /\ loop \in {"dispatch", "record", "park", "act", "stopped"}
  /\ status \in {"none", "appended", "already-recorded", "parked", "error"}
  /\ resumes \in 0..MaxResumes /\ faults \in 0..MaxFaults

Init ==
  /\ ledger = <<>> /\ transcript = <<>> /\ checked = {}
  /\ loop = "dispatch" /\ status = "none"
  /\ resumes = 0 /\ faults = 0

-----------------------------------------------------------------------------
(* What the command reads.                                                 *)

Unchecked == Task \ checked
NextTask == CHOOSE t \in Unchecked : \A u \in Unchecked : t \leq u

LatestId == Len(transcript)
Latest == transcript[LatestId]

Sections(t, kind) == {i \in DOMAIN ledger : ledger[i].task = t /\ ledger[i].kind = kind}

RecordedLast(id) ==    \* mutant: only the last section is searched
  ledger # <<>> /\ ledger[Len(ledger)].id = id
Recorded(id) == \E i \in DOMAIN ledger : ledger[i].id = id
RecordedTask(id) == ledger[CHOOSE i \in DOMAIN ledger : ledger[i].id = id].task

\* blockState.
RoundsOfAll(t) == Cardinality(UNION {Sections(u, "BLOCK") : u \in Task})    \* mutant
Rounds(t) == Cardinality(Sections(t, "BLOCK"))
ParkedLast(t) ==    \* mutant: only the last section is searched
  ledger # <<>> /\ ledger[Len(ledger)] = [task |-> t, id |-> NoId, kind |-> "PARKED"]
Parked(t) == Sections(t, "PARKED") # {}

AtCapExactly(rounds) == rounds = Cap    \* mutant
AtCap(rounds) == rounds \geq Cap

-----------------------------------------------------------------------------
(* The command.                                                            *)

VerdictSection(kind) == [task |-> NextTask, id |-> LatestId, kind |-> kind]
ParkedSection == [task |-> RecordedTask(LatestId), id |-> NoId, kind |-> "PARKED"]

Report(s) == loop' = "act" /\ status' = s

\* Its toolCallId is in the ledger already.
AlreadyRecorded ==
  /\ loop = "record" /\ Recorded(LatestId)
  /\ Report(IF Parked(RecordedTask(LatestId)) THEN "parked" ELSE "already-recorded")
  /\ UNCHANGED <<ledger, transcript, checked, resumes, faults>>

\* The verdict is appended; at the cap the task is parked, once.
RecordPass ==
  /\ loop = "record" /\ ~Recorded(LatestId) /\ ~Latest.block
  /\ ledger' = Append(ledger, VerdictSection("PASS"))
  /\ Report("appended")
  /\ UNCHANGED <<transcript, checked, resumes, faults>>

RecordBlock ==
  /\ loop = "record" /\ ~Recorded(LatestId) /\ Latest.block
  /\ ledger' = Append(ledger, VerdictSection("BLOCK"))
  /\ \/ ~AtCap(Rounds(NextTask) + 1) /\ Report("appended")
     \/ AtCap(Rounds(NextTask) + 1) /\ Parked(NextTask) /\ Report("parked")
     \/ AtCap(Rounds(NextTask) + 1) /\ ~Parked(NextTask)
        /\ loop' = "park" /\ UNCHANGED status
  /\ UNCHANGED <<transcript, checked, resumes, faults>>

Park ==
  /\ loop = "park"
  /\ ledger' = Append(ledger, ParkedSection)
  /\ Report("parked")
  /\ UNCHANGED <<transcript, checked, resumes, faults>>

\* An input cannot be read, an append fails, or the command is killed.  A prefix
\* of the section may have been written, which counts for as much of it as it
\* holds: the marker without a verdict, or the word PARKED without the rest.
Fault ==
  /\ faults < MaxFaults
  /\ \/ loop = "record" /\ UNCHANGED ledger
     \/ loop = "record" /\ ~Recorded(LatestId)
        /\ ledger' = Append(ledger, VerdictSection("TORN"))
     \/ loop = "park" /\ UNCHANGED ledger
     \/ loop = "park" /\ ledger' = Append(ledger, ParkedSection)
  /\ loop' = "record" /\ status' = "error"
  /\ faults' = faults + 1
  /\ UNCHANGED <<transcript, checked, resumes>>

-----------------------------------------------------------------------------
(* The loop.                                                               *)

\* The next unchecked task is implemented and reviewed.
Review ==
  /\ loop = "dispatch" /\ Unchecked # {}
  /\ \E b \in BOOLEAN :
       transcript' = Append(transcript, [task |-> NextTask, block |-> b])
  /\ loop' = "record"
  /\ UNCHANGED <<ledger, checked, status, resumes, faults>>

\* PASS: the developer ticks the task.  BLOCK: stop when the command reported
\* the task parked, else hand the findings back to the developer.
Act ==
  /\ loop = "act"
  /\ checked' = IF Latest.block THEN checked ELSE checked \cup {Latest.task}
  /\ loop' = IF Latest.block /\ status = "parked" THEN "stopped" ELSE "dispatch"
  /\ UNCHANGED <<ledger, transcript, status, resumes, faults>>

\* The command is run again for the same verdict.
Rerun ==
  /\ loop = "act" /\ loop' = "record"
  /\ UNCHANGED <<ledger, transcript, checked, status, resumes, faults>>

\* The operator has looked at the parked task and starts the loop again.
Resume ==
  /\ loop = "stopped" /\ resumes < MaxResumes
  /\ loop' = "dispatch" /\ resumes' = resumes + 1
  /\ UNCHANGED <<ledger, transcript, checked, status, faults>>

Next ==
  \/ AlreadyRecorded \/ RecordPass \/ RecordBlock \/ Park \/ Fault
  \/ Review \/ Act \/ Rerun \/ Resume

Spec == Init /\ [][Next]_vars

-----------------------------------------------------------------------------
(* Correctness.                                                            *)

\* However often the command is run and fails, a verdict has one section.
RecordedOnce ==
  \A i, j \in DOMAIN ledger : ledger[i].id = ledger[j].id /\ ledger[i].id # NoId => i = j

\* A task is parked once, by its own BLOCK verdicts: Cap of them stand before
\* the PARKED section.
ParkedOnce == \A t \in Task : \A i, j \in Sections(t, "PARKED") : i = j
ParkedEarned ==
  \A t \in Task : \A i \in Sections(t, "PARKED") :
    Cardinality({j \in Sections(t, "BLOCK") : j < i}) \geq Cap

\* Between its two appends the command has recorded a verdict that brings its
\* task to the cap, and no PARKED section of the task exists.
ParkPending ==
  loop = "park" =>
    /\ Recorded(LatestId)
    /\ AtCap(Rounds(RecordedTask(LatestId))) /\ ~Parked(RecordedTask(LatestId))
\* The verdict at hand is of a task that is not ticked yet.
Reviewed ==
  loop \in {"record", "park", "act"} => transcript # <<>> /\ Latest.task \in Unchecked
\* The inductive invariant of the proofs.
LedgerInv ==
  TypeOK /\ Reviewed /\ RecordedOnce /\ ParkedOnce /\ ParkedEarned /\ ParkPending

\* The fix loop is bounded: a task is sent back less than Cap times, and once
\* more for each restart by the operator and each failed command.
SentBack(t) ==
  {n \in DOMAIN transcript :
     transcript[n] = [task |-> t, block |-> TRUE]
     /\ (n = LatestId => loop = "dispatch")}
LoopBounded ==
  \A t \in Task : Cardinality(SentBack(t)) < Cap + resumes + faults

\* A command that ends well on a BLOCK of a task that has reached the cap
\* reports it parked: exit status 3 is what stops the loop.
CapSignalled ==
  loop = "act" /\ Latest.block /\ Cardinality(Sections(Latest.task, "BLOCK")) \geq Cap
    => status = "parked"

\* As long as no command has failed, it always does.
CalmSignalled == faults = 0 => CapSignalled

\* A command that ends well leaves the reviewer's last verdict in the ledger,
\* under the task that was reviewed.
Verbatim ==
  loop = "act" =>
    LET n == Len(transcript)
    IN \E i \in DOMAIN ledger :
         /\ ledger[i].id = n /\ ledger[i].task = transcript[n].task
         /\ ledger[i].kind = IF transcript[n].block THEN "BLOCK" ELSE "PASS"

\* As long as no command has failed, it always does.
CalmVerbatim == faults = 0 => Verbatim
=============================================================================
