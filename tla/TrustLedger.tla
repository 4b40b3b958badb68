----------------------------- MODULE TrustLedger -----------------------------
(***************************************************************************)
(* `trust.ts log` run by concurrent sessions over one shared ledger file:  *)
(* logResult reads, changes and replaces the whole file under its ledger   *)
(* lock, which is LedgerMutex here (LedgerLock refines it).  A session may *)
(* be killed at any point, and any file operation may fail.                *)
(***************************************************************************)
EXTENDS Integers

CONSTANTS
  Proc,      \* sessions, each running one command at a time
  Skill,
  Start,     \* the ledgers the file may hold at first
  NoCall,    \* between commands
  MaxResults \* bound: results of one skill counted in a history

VARIABLES
  holder,    \* the session inside withLedgerLock
  ledger,    \* the rows in the file; a skill without a row has 0 runs
  pc,        \* where each session is
  call,      \* the skill and the result it logs
  rows,      \* the rows it is about to write
  demoted,   \* it is to print the demotion alert
  thrown,    \* its callback threw
  renamed,   \* atomicWriteFileSync has replaced the file in this call
  start,     \* history: what the file held at first
  logged     \* history: the calls of logResult that returned, by skill

vars == <<holder, ledger, pc, call, rows, demoted, thrown, renamed, start, logged>>

Lock == INSTANCE LedgerMutex
Tally == INSTANCE TrustTally WITH tally <- ledger

Call == [skill : Skill, result : Tally!Result]
ASSUME LedgerAssumption ==
  Start \subseteq Tally!Ledger /\ NoCall \notin Call /\ MaxResults \in Nat

NoRows == [s \in Skill |-> [runs |-> 0, pass |-> 0]]
Label == {"idle", "lock", "load", "write", "fsync", "release", "report", "failed"}

TypeOK ==
  /\ Lock!TypeOK
  /\ ledger \in Tally!Ledger
  /\ pc \in [Proc -> Label]
  /\ call \in [Proc -> Call \cup {NoCall}]
  /\ \A p \in Proc : pc[p] \notin {"idle", "failed"} => call[p] \in Call
  /\ rows \in [Proc -> Tally!Ledger]
  /\ demoted \in [Proc -> BOOLEAN]
  /\ thrown \in [Proc -> BOOLEAN]
  /\ renamed \in [Proc -> BOOLEAN]
  /\ start \in Tally!Ledger
  /\ logged \in [Skill -> Nat]

Init ==
  /\ Lock!Init /\ Tally!Init
  /\ pc = [p \in Proc |-> "idle"] /\ call = [p \in Proc |-> NoCall]
  /\ rows = [p \in Proc |-> NoRows] /\ demoted = [p \in Proc |-> FALSE]
  /\ thrown = [p \in Proc |-> FALSE] /\ renamed = [p \in Proc |-> FALSE]
  /\ start = ledger /\ logged = [s \in Skill |-> 0]

Goto(p, l) == pc' = [pc EXCEPT ![p] = l]

\* The process of the command exits.
End(p, l) ==
  /\ Goto(p, l)
  /\ call' = [call EXCEPT ![p] = NoCall]
  /\ rows' = [rows EXCEPT ![p] = NoRows]
  /\ demoted' = [demoted EXCEPT ![p] = FALSE]
  /\ thrown' = [thrown EXCEPT ![p] = FALSE]

\* The command is started, again perhaps after a failure.
Log(p, c) ==
  /\ pc[p] \in {"idle", "failed"} /\ ledger[c.skill].runs < start[c.skill].runs + MaxResults
  /\ Goto(p, "lock")
  /\ call' = [call EXCEPT ![p] = c]
  /\ renamed' = [renamed EXCEPT ![p] = FALSE]
  /\ UNCHANGED <<holder, ledger, rows, demoted, thrown, start, logged>>

AcquireUnlocked(p) ==    \* mutant: the lock is not waited for
  /\ pc[p] = "lock" /\ holder' = holder \cup {p}
  /\ Goto(p, "load")
  /\ UNCHANGED <<ledger, call, rows, demoted, thrown, renamed, start, logged>>
Acquire(p) ==
  /\ pc[p] = "lock" /\ Lock!Enter(p)
  /\ Goto(p, "load")
  /\ UNCHANGED <<ledger, call, rows, demoted, thrown, renamed, start, logged>>

AcquireFails(p) ==
  /\ pc[p] = "lock"
  /\ End(p, "failed")
  /\ UNCHANGED <<holder, ledger, renamed, start, logged>>

\* load and applyLog.
Load(p) ==
  /\ pc[p] = "load"
  /\ LET c == call[p]
     IN /\ rows' = [rows EXCEPT ![p] = Tally!Applied(ledger, c.skill, c.result)]
        /\ demoted' = [demoted EXCEPT ![p] = Tally!Demoted(ledger, c.skill, c.result)]
  /\ Goto(p, "write")
  /\ UNCHANGED <<holder, ledger, call, thrown, renamed, start, logged>>

\* atomicWriteFileSync: a complete temp file, renamed over the ledger ...
Replace(p) ==
  /\ pc[p] = "write"
  /\ ledger' = rows[p]
  /\ renamed' = [renamed EXCEPT ![p] = TRUE]
  /\ Goto(p, "fsync")
  /\ UNCHANGED <<holder, call, rows, demoted, thrown, start, logged>>

\* ... and the directory synced.
Sync(p) ==
  /\ pc[p] = "fsync"
  /\ Goto(p, "release")
  /\ UNCHANGED <<holder, ledger, call, rows, demoted, thrown, renamed, start, logged>>

\* Any of its calls may throw, the sync after the rename too.
WriteFailsSilently(p) ==    \* mutant: the error is swallowed
  /\ pc[p] \in {"load", "write", "fsync"}
  /\ Goto(p, "release")
  /\ UNCHANGED <<holder, ledger, call, rows, demoted, thrown, renamed, start, logged>>
WriteFails(p) ==
  /\ pc[p] \in {"load", "write", "fsync"}
  /\ thrown' = [thrown EXCEPT ![p] = TRUE]
  /\ Goto(p, "release")
  /\ UNCHANGED <<holder, ledger, call, rows, demoted, renamed, start, logged>>

\* withLedgerLock releases whether or not the callback threw, then rethrows.
Release(p) ==
  /\ pc[p] = "release" /\ Lock!Exit(p)
  /\ \/ thrown[p] /\ End(p, "failed")
        /\ UNCHANGED logged
     \/ ~thrown[p] /\ Goto(p, "report")
        /\ logged' = [logged EXCEPT ![call[p].skill] = @ + 1]
        /\ UNCHANGED <<call, rows, demoted, thrown>>
  /\ UNCHANGED <<ledger, renamed, start>>

\* The new tally, the alert if demoted, exit 0.
Report(p) ==
  /\ pc[p] = "report"
  /\ renamed' = [renamed EXCEPT ![p] = FALSE]
  /\ End(p, "idle")
  /\ UNCHANGED <<holder, ledger, start, logged>>

\* SIGKILL.  A dead session holds no lock: its owner file can be broken.
Crash(p) ==
  /\ pc[p] \notin {"idle", "failed"}
  /\ holder' = holder \ {p}
  /\ renamed' = [renamed EXCEPT ![p] = FALSE]
  /\ End(p, "idle")
  /\ UNCHANGED <<ledger, start, logged>>

Step(p) ==
  \/ Acquire(p) \/ AcquireFails(p) \/ Load(p) \/ Replace(p) \/ Sync(p)
  \/ WriteFails(p) \/ Release(p) \/ Report(p) \/ Crash(p)

Next == \E p \in Proc : Step(p) \/ \E c \in Call : Log(p, c)

Spec == Init /\ [][Next]_vars

-----------------------------------------------------------------------------
(* Correctness.                                                            *)

\* No update is lost: whenever logResult has returned, its result is counted.
NoLostUpdate == \A s \in Skill : ledger[s].runs \geq start[s].runs + logged[s]

\* However the sessions interleave, die and fail, the file goes through the
\* values of a tally that counts one result at a time.
CountsOneByOne == Tally!Spec

\* The alert a session is going to print is about what its write did to the
\* file: it took the skill from another tier down to watch.
AlertsMatchLedger ==
  [][\A p \in Proc : pc[p] = "write" /\ pc'[p] = "fsync" =>
       LET s == call[p].skill
       IN demoted[p] <=> /\ Tally!Tier(ledger[s]) # "watch"
                         /\ Tally!Tier(ledger'[s]) = "watch"]_vars

\* Autonomy is neither gained nor lost at a stroke: between auto and watch a
\* skill passes through queue.
NoTierJump ==
  [][\A s \in Skill :
       {Tally!Tier(ledger[s]), Tally!Tier(ledger'[s])} # {"auto", "watch"}]_vars

\* A command that reports failure has left the target as it was.
FailurePreservesTarget == \A p \in Proc : pc[p] = "failed" => ~renamed[p]
=============================================================================
