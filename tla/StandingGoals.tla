---------------------------- MODULE StandingGoals ----------------------------
(***************************************************************************)
(* The runs of tools/verify-goals.ts over the goals of one worktree ("just *)
(* goals" and a daily runner), while people edit, retire and delete goals. *)
(* A goal's text is read before its predicate runs, for up to a minute, and*)
(* written back behind it; writing is a truncation and then the bytes.     *)
(***************************************************************************)
EXTENDS Naturals, FiniteSets

CONSTANTS
  Goals, Runs, Predicates,
  Days,     \* bound: the last day
  Changes,  \* bound: edits of goals and of what the predicates are about, runs killed,
            \* predicates that end long after their signal
  None

VARIABLES
  file,     \* the text of each goal, None when there is no such file
  rows,     \* memory/goal-ledger.tsv: <<goal, day, passed>>
  outcome,  \* what each predicate does now: pass, fail, hang until a signal ends it,
            \* or hang and ignore the signal
  today,
  pc, todo, \* each run's place, and the entries it has not looked at
  goal,     \* the entry each run is at
  text,     \* what it read there
  passed,   \* whether the predicate exited 0 in time
  violations,
  date,     \* the day on which it started
  changes,  \* left of Changes
  decided,  \* history: the predicate and retirement people gave each goal, None if deleted
  behind,   \* history: runs whose goal was edited since they read it
  raced,    \* history: goals written by such a run, and not edited since
  torn,     \* history: goals truncated and not written since
  failing,  \* history: <<goal, predicate>> that stood and failed all through a run
  missed    \* history: goals of which a run read something else than was decided

run == <<pc, todo, goal, text, passed, violations, date>>
human == <<decided, behind, raced>>
vars == <<file, rows, outcome, today, run, changes, human, torn, failing, missed>>

Text == [predicate: Predicates \union {None}, retired: BOOLEAN,
         status: {"none", "satisfied", "VIOLATED"}, lastPass: 0..Days]
Decision == [predicate: Predicates \union {None}, retired: BOOLEAN]
Fresh(p) == [predicate |-> p, retired |-> FALSE, status |-> "none", lastPass |-> 0]
Empty == Fresh(None)
DecisionOf(t) == IF t = None THEN None ELSE [predicate |-> t.predicate, retired |-> t.retired]

ASSUME GoalsAssumption ==
  /\ Goals # {} /\ Days \in Nat /\ Changes \in Nat
  /\ None \notin Predicates /\ None \notin Text /\ None \notin Decision

Outcomes == {"pass", "fail", "hang", "stubborn"}
Labels == {"idle", "next", "predicate", "outlived", "truncate", "write", "row",
           "held", "violated", "threw", "killed", "unrecorded"}
Ended == {"held", "violated", "threw", "killed", "unrecorded"}

TypeOK ==
  /\ file \in [Goals -> Text \union {None}]
  /\ rows \subseteq Goals \X (0..Days) \X BOOLEAN
  /\ outcome \in [Predicates -> Outcomes] /\ today \in 0..Days
  /\ pc \in [Runs -> Labels] /\ todo \in [Runs -> SUBSET Goals] /\ goal \in [Runs -> Goals]
  /\ text \in [Runs -> Text] /\ passed \in [Runs -> BOOLEAN]
  /\ violations \in [Runs -> SUBSET Goals] /\ date \in [Runs -> 0..Days]
  /\ changes \in 0..Changes
  /\ decided \in [Goals -> Decision \union {None}] /\ behind \subseteq Runs
  /\ raced \subseteq Goals /\ torn \subseteq Goals
  /\ failing \in [Runs -> SUBSET (Goals \X Predicates)] /\ missed \in [Runs -> SUBSET Goals]

\* isRetired: that goal is left alone.  parsePredicate finds none, or an empty one.
SkippedNever(t) == t.predicate = None    \* mutant: retired goals are verified
Skipped(t) == t.retired \/ t.predicate = None

\* What a run should report: by people's decision the goal stands, and its predicate fails.
Stands(g, p) == decided[g] = [predicate |-> p, retired |-> FALSE]
Failing == {x \in Goals \X Predicates : Stands(x[1], x[2]) /\ outcome[x[2]] \in {"fail", "hang"}}

Init ==
  /\ file \in [Goals -> {Fresh(p) : p \in Predicates}]
  /\ rows = {} /\ outcome \in [Predicates -> Outcomes] /\ today = 0
  /\ pc = [r \in Runs |-> "idle"] /\ todo = [r \in Runs |-> {}]
  /\ goal = [r \in Runs |-> CHOOSE g \in Goals : TRUE]
  /\ text = [r \in Runs |-> Empty]
  /\ passed = [r \in Runs |-> FALSE] /\ violations = [r \in Runs |-> {}]
  /\ date = [r \in Runs |-> 0]
  /\ changes = Changes
  /\ decided = [g \in Goals |-> DecisionOf(file[g])]
  /\ behind = {} /\ raced = {} /\ torn = {}
  /\ failing = [r \in Runs |-> {}] /\ missed = [r \in Runs |-> {}]

-----------------------------------------------------------------------------
(* verifyGoals.                                                            *)

Goto(r, l) == pc' = [pc EXCEPT ![r] = l]
Change == changes > 0 /\ changes' = changes - 1
World == <<outcome, today, changes>>

\* readdir, and the date of the command line.
Start(r) ==
  /\ pc[r] = "idle" /\ Goto(r, "next")
  /\ todo' = [todo EXCEPT ![r] = {g \in Goals : file[g] # None}]
  /\ date' = [date EXCEPT ![r] = today]
  /\ UNCHANGED <<file, rows, World, goal, text, passed, violations, human, torn>>

\* The text of the next entry.  A goal deleted since the listing ends the run.
Read(r) ==
  /\ pc[r] = "next"
  /\ \E g \in todo[r] :
       /\ goal' = [goal EXCEPT ![r] = g] /\ todo' = [todo EXCEPT ![r] = @ \ {g}]
       /\ IF file[g] = None THEN Goto(r, "threw") /\ UNCHANGED text
          ELSE /\ text' = [text EXCEPT ![r] = file[g]]
               /\ Goto(r, IF Skipped(file[g]) THEN "next" ELSE "predicate")
  /\ behind' = behind \ {r}
  /\ UNCHANGED <<file, rows, World, passed, violations, date, decided, raced, torn>>

\* The predicate's exit code, if it has one.
JudgedAnew(r, ok) ==    \* mutant: a goal that was VIOLATED before is not reported again
  /\ Goto(r, "truncate") /\ passed' = [passed EXCEPT ![r] = ok]
  /\ violations' = IF ok \/ text[r].status = "VIOLATED" THEN violations
                   ELSE [violations EXCEPT ![r] = @ \union {goal[r]}]
  /\ UNCHANGED <<file, rows, outcome, today, todo, goal, text, date, human, torn>>
Judged(r, ok) ==
  /\ Goto(r, "truncate") /\ passed' = [passed EXCEPT ![r] = ok]
  /\ violations' = IF ok THEN violations ELSE [violations EXCEPT ![r] = @ \union {goal[r]}]
  /\ UNCHANGED <<file, rows, outcome, today, todo, goal, text, date, human, torn>>

Answers(r) ==
  /\ pc[r] = "predicate" /\ outcome[text[r].predicate] \in {"pass", "fail"}
  /\ Judged(r, outcome[text[r].predicate] = "pass") /\ UNCHANGED changes

\* spawnSync's timeout sends SIGTERM, once, and waits on.
TimesOutNever(r) == FALSE    \* mutant: spawnSync without a timeout
TimesOut(r) ==
  /\ pc[r] = "predicate" /\ UNCHANGED changes
  /\ \/ outcome[text[r].predicate] = "hang" /\ Judged(r, FALSE)
     \/ /\ outcome[text[r].predicate] = "stubborn" /\ Goto(r, "outlived")
        /\ UNCHANGED <<file, rows, outcome, today, todo, goal, text, passed, violations,
                       date, human, torn>>

\* A predicate that the signal did not end may end later, with any exit code, or never.
Outlives(r) == pc[r] = "outlived" /\ Change /\ \E ok \in BOOLEAN : Judged(r, ok)

StampAlways(t, ok, day) ==    \* mutant: last-pass whatever the status
  [t EXCEPT !.retired = FALSE, !.status = IF ok THEN "satisfied" ELSE "VIOLATED", !.lastPass = day]
Stamp(t, ok, day) ==
  [t EXCEPT !.retired = FALSE, !.status = IF ok THEN "satisfied" ELSE "VIOLATED",
            !.lastPass = IF ok THEN day ELSE @]

\* writeFileSync opens with O_TRUNC, which makes a deleted goal again, and writes.
Truncate(r) ==
  /\ pc[r] = "truncate" /\ Goto(r, "write")
  /\ file' = [file EXCEPT ![goal[r]] = Empty] /\ torn' = torn \union {goal[r]}
  /\ UNCHANGED <<rows, World, todo, goal, text, passed, violations, date, human>>

Write(r) ==
  /\ pc[r] = "write" /\ Goto(r, "row")
  /\ IF file[goal[r]] = None THEN UNCHANGED <<file, torn, human>>
     ELSE /\ file' = [file EXCEPT ![goal[r]] = Stamp(text[r], passed[r], date[r])]
          /\ torn' = torn \ {goal[r]}
          /\ raced' = IF r \in behind THEN raced \union {goal[r]} ELSE raced
          /\ behind' = behind \ {r} /\ UNCHANGED decided
  /\ UNCHANGED <<rows, World, todo, goal, text, passed, violations, date>>

AppendRow(r) ==
  /\ pc[r] = "row" /\ Goto(r, "next")
  /\ rows' = rows \union {<<goal[r], date[r], passed[r]>>}
  /\ text' = [text EXCEPT ![r] = Empty]
  /\ UNCHANGED <<file, World, todo, goal, passed, violations, date, human, torn>>

\* The command line's exit code.
Finish(r) ==
  /\ pc[r] = "next" /\ todo[r] = {}
  /\ Goto(r, IF violations[r] = {} THEN "held" ELSE "violated")
  /\ UNCHANGED <<file, rows, World, todo, goal, text, passed, violations, date, human, torn>>

Kill(r) ==
  /\ Change /\ pc[r] \notin {"idle"} \union Ended
  /\ Goto(r, IF pc[r] = "row" THEN "unrecorded" ELSE "killed")
  /\ UNCHANGED <<file, rows, outcome, today, todo, goal, text, passed, violations, date,
                 human, torn>>

-----------------------------------------------------------------------------
(* People, the code that predicates are about, and the clock.              *)

Holding(g) == {r \in Runs : goal[r] = g /\ pc[r] \in {"predicate", "outlived", "truncate", "write"}}

\* A goal written, rewritten, retired or deleted.
Decide(g) ==
  /\ Change
  /\ \E d \in [predicate: Predicates, retired: BOOLEAN] \union {None} :
       /\ decided' = [decided EXCEPT ![g] = d] /\ d # DecisionOf(file[g])
       /\ file' = [file EXCEPT ![g] =
                     IF d = None THEN None
                     ELSE [predicate |-> d.predicate, retired |-> d.retired,
                           status |-> "none",
                           lastPass |-> IF file[g] = None THEN 0 ELSE file[g].lastPass]]
  /\ behind' = behind \union Holding(g) /\ raced' = raced \ {g} /\ torn' = torn \ {g}
  /\ UNCHANGED <<rows, outcome, today, run>>

Regress(p) ==
  /\ Change
  /\ \E o \in Outcomes : o # outcome[p] /\ outcome' = [outcome EXCEPT ![p] = o]
  /\ UNCHANGED <<file, rows, today, run, human, torn>>

Midnight ==
  /\ today < Days /\ today' = today + 1
  /\ UNCHANGED <<file, rows, outcome, run, changes, human, torn>>

Works(r) ==
  \/ Read(r) \/ Answers(r) \/ TimesOut(r) \/ Truncate(r) \/ Write(r) \/ AppendRow(r) \/ Finish(r)

\* History: what failed in all states of a run since its first, and what it read otherwise
\* than people had decided.
Observe ==
  /\ failing' = [r \in Runs |->
                  IF pc'[r] \in {"idle"} \union (Ended \ {"held"}) THEN {}
                  ELSE IF pc[r] = "idle" THEN Failing'
                  ELSE IF pc[r] = "held" THEN failing[r]
                  ELSE failing[r] \intersect Failing']
  /\ missed' = [r \in Runs |->
                  IF pc'[r] \in {"idle"} \union (Ended \ {"held"}) THEN {}
                  ELSE missed[r] \union
                         {g \in todo[r] \ todo'[r] : DecisionOf(file[g]) # decided[g]}]

Next ==
  /\ \/ \E r \in Runs : Start(r) \/ Works(r) \/ Outlives(r) \/ Kill(r)
     \/ \E g \in Goals : Decide(g)
     \/ \E p \in Predicates : Regress(p)
     \/ Midnight
  /\ Observe

Spec == Init /\ [][Next]_vars

\* A run goes on by itself, its timer included; what a signal did not end need not.
Fairness == \A r \in Runs : WF_vars(Works(r) /\ Observe)
FairSpec == Spec /\ Fairness

-----------------------------------------------------------------------------
(* Properties.                                                             *)

\* "So a silent regression becomes loud": when a run exits 0, no goal that stood by people's
\* decision failed all through it, unless the run read something else of that goal than was
\* decided, because other runs had it truncated or overwritten (EditsKept).
Loud == \A r \in Runs : pc[r] = "held" => \A x \in failing[r] : x[1] \in missed[r]

\* Without the exception: not kept.  A run that reads a goal between the truncation and the
\* bytes of another's stamp skips it.
AlwaysLoud == \A r \in Runs : pc[r] = "held" => failing[r] = {}

\* "Retirement is a human decision": what people decided of a goal is what its file says,
\* unless a run wrote it that had read it before the last decision, or is writing it, or
\* was killed there.
EditsKept == \A g \in Goals \ (raced \union torn) : DecisionOf(file[g]) = decided[g]

\* Without the exceptions: neither is kept.  A run brings back what was retired or deleted
\* while its predicate ran; a killed one leaves an empty goal, which is skipped from then on.
RetirementKept == \A g \in Goals \ torn : DecisionOf(file[g]) = decided[g]
GoalsSurvive ==
  (\A r \in Runs : pc[r] \in {"idle"} \union Ended) =>
    \A g \in Goals \ raced : DecisionOf(file[g]) = decided[g]

\* A goal's last-pass is a day on which the ledger has it pass, unless a run is about to
\* append that row or was killed before it.
PassOnRecord ==
  \A g \in Goals : file[g] # None /\ file[g].lastPass > 0 =>
    \/ <<g, file[g].lastPass, TRUE>> \in rows
    \/ \E r \in Runs : pc[r] \in {"row", "unrecorded"} /\ passed[r]
                       /\ goal[r] = g /\ date[r] = file[g].lastPass

\* Every run ends, or waits for ever on a predicate that outlived its SIGTERM.
RunsEnd == \A r \in Runs : pc[r] # "idle" ~> (pc[r] \in Ended \/ [](pc[r] = "outlived"))

\* Without the exception: not kept.
AlwaysEnd == \A r \in Runs : pc[r] # "idle" ~> pc[r] \in Ended
=============================================================================
