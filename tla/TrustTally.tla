------------------------------ MODULE TrustTally ------------------------------
(***************************************************************************)
(* What memory/trust.tsv stands for, without files, locks or processes: a  *)
(* tally per skill, one result counted at a time, and the tier of autonomy *)
(* each skill has earned (tools/trust.ts).                                 *)
(***************************************************************************)
EXTENDS Integers

CONSTANTS Skill,
          Start    \* the ledgers a history may begin with

Row == [runs : Nat, pass : Nat]
Ledger == [Skill -> Row]
Result == {"pass", "fail"}

VARIABLE tally

\* tierOf.  pass / runs >= 0.95 is 20 pass >= 19 runs, and < 0.9 is
\* 10 pass < 9 runs: division rounds correctly, so the doubles compare alike.
TierFromTen(row) ==    \* mutant: one minimum number of runs for every tier
  IF row.runs < 10 \/ 10 * row.pass < 9 * row.runs THEN "watch"
  ELSE IF 20 * row.pass \geq 19 * row.runs THEN "auto"
  ELSE "queue"
Tier(row) ==
  IF row.runs \geq 20 /\ 20 * row.pass \geq 19 * row.runs THEN "auto"
  ELSE IF row.runs < 10 \/ 10 * row.pass < 9 * row.runs THEN "watch"
  ELSE "queue"

Counted(row, result) ==
  [runs |-> row.runs + 1, pass |-> row.pass + (IF result = "pass" THEN 1 ELSE 0)]

\* applyLog: the rows it leaves, and whether it reports a demotion.
Applied(rows, skill, result) == [rows EXCEPT ![skill] = Counted(@, result)]
DemotedOnFail(rows, skill, result) ==    \* mutant: the tier before is not asked
  LET row == Counted(rows[skill], result)
  IN Tier(row) = "watch" /\ result = "fail" /\ row.runs \geq 10
Demoted(rows, skill, result) ==
  LET row == Counted(rows[skill], result)
  IN Tier(row) = "watch" /\ Tier(rows[skill]) # "watch" /\ row.runs \geq 10

Init == tally \in Start
Log(skill, result) == tally' = Applied(tally, skill, result)
Next == \E skill \in Skill, result \in Result : Log(skill, result)
Spec == Init /\ [][Next]_tally
=============================================================================
