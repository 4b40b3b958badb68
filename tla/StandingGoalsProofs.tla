------------------------- MODULE StandingGoalsProofs -------------------------
(***************************************************************************)
(* Proofs about StandingGoals, for any goals, runs, predicates and bounds. *)
(***************************************************************************)
EXTENDS StandingGoals, TLAPS

(***************************************************************************)
(* The inductive invariant.                                                *)
(***************************************************************************)
\* The runs that hold a text they may write back.
Holds(r) == pc[r] \in {"predicate", "outlived", "truncate", "write"}

\* A text that is held is not to be skipped, and says what people decided, unless they did
\* so later, or the file did not say so when it was read.  A truncated goal is empty, and a
\* goal that people have not deleted has a file.
HeldText(r) ==
  Holds(r) =>
    /\ ~Skipped(text[r])
    /\ r \in behind \/ goal[r] \in raced \/ DecisionOf(text[r]) = decided[goal[r]]
Decisions ==
  /\ \A r \in Runs : HeldText(r)
  /\ \A g \in torn : file[g] = Empty
  /\ \A g \in Goals : file[g] = None => decided[g] = None
  /\ EditsKept

\* What stood and failed since the start is still to be read, is being checked, or was read
\* otherwise than decided, as long as the run has found no violation.
Pending(r, x) ==
  \/ x[1] \in todo[r]
  \/ pc[r] = "predicate" /\ goal[r] = x[1] /\ text[r].predicate = x[2]
  \/ x[1] \in missed[r]
LoudSoFar ==
  /\ \A r \in Runs : pc[r] \notin {"idle"} \union Ended =>
       violations[r] # {} \/ \A x \in failing[r] : Pending(r, x)
  /\ Loud

\* The ledger has the pass, or a run that has stamped it has still to append it.
OnRecord(g, d) ==
  \/ <<g, d, TRUE>> \in rows
  \/ \E r \in Runs : pc[r] \in {"row", "unrecorded"} /\ passed[r] /\ goal[r] = g /\ date[r] = d
Recorded ==
  /\ \A g \in Goals : file[g] # None /\ file[g].lastPass > 0 => OnRecord(g, file[g].lastPass)
  /\ \A r \in Runs : Holds(r) /\ text[r].lastPass > 0 => OnRecord(goal[r], text[r].lastPass)

-----------------------------------------------------------------------------
(* Types.                                                                  *)

\* A step of one run or of somebody else.
Step(r) == Start(r) \/ Read(r) \/ Answers(r) \/ TimesOut(r) \/ Outlives(r) \/ Truncate(r)
           \/ Write(r) \/ AppendRow(r) \/ Finish(r) \/ Kill(r)
Others == (\E g \in Goals : Decide(g)) \/ (\E p \in Predicates : Regress(p)) \/ Midnight

\* A stamped text is a text, with the decisions of the one it stamps.
LEMMA Stamps ==
  ASSUME NEW t \in Text, NEW ok \in BOOLEAN, NEW d \in 0..Days
  PROVE  /\ Stamp(t, ok, d) \in Text /\ Stamp(t, ok, d) # None
         /\ ~Skipped(t) => DecisionOf(Stamp(t, ok, d)) = DecisionOf(t)
         /\ Stamp(t, ok, d).lastPass = IF ok THEN d ELSE t.lastPass
<1>1. Stamp(t, ok, d) \in Text
  BY DEF Stamp, Text
<1>2. t # None /\ Stamp(t, ok, d) # None
  BY <1>1, GoalsAssumption
<1>3. Stamp(t, ok, d).predicate = t.predicate /\ Stamp(t, ok, d).retired = FALSE
  BY DEF Stamp, Text
<1>4. ASSUME ~Skipped(t) PROVE t.retired = FALSE
  BY <1>4 DEF Skipped, Text
<1>5. ~Skipped(t) => DecisionOf(Stamp(t, ok, d)) = DecisionOf(t)
  BY <1>2, <1>3, <1>4 DEF DecisionOf
<1>6. Stamp(t, ok, d).lastPass = IF ok THEN d ELSE t.lastPass
  BY DEF Stamp, Text
<1> QED
  BY <1>1, <1>2, <1>5, <1>6

LEMMA Decided ==
  ASSUME NEW t \in Text \union {None}
  PROVE  DecisionOf(t) \in Decision \union {None}
  BY DEF DecisionOf, Text, Decision

LEMMA Texts == Empty \in Text /\ Skipped(Empty) /\ Empty.lastPass = 0 /\ Empty # None
<1>1. Empty \in Text
  BY GoalsAssumption DEF Empty, Fresh, Text
<1> QED
  BY <1>1, GoalsAssumption DEF Empty, Fresh, Skipped

\* What watches the runs keeps its type in every step.
LEMMA ObserveTypes ==
  ASSUME TypeOK, Observe
  PROVE  /\ failing' \in [Runs -> SUBSET (Goals \X Predicates)]
         /\ missed' \in [Runs -> SUBSET Goals]
<1>1. \A r \in Runs :
        failing[r] \subseteq Goals \X Predicates /\ missed[r] \subseteq Goals /\ todo[r] \subseteq Goals
  BY DEF TypeOK
<1>2. Failing' \subseteq Goals \X Predicates
  BY DEF Failing
<1>3. failing' \in [Runs -> SUBSET (Goals \X Predicates)]
  BY <1>1, <1>2 DEF Observe
<1>4. missed' \in [Runs -> SUBSET Goals]
  BY <1>1 DEF Observe
<1> QED
  BY <1>3, <1>4

USE DEF run, human, World

LEMMA RunTypes ==
  ASSUME TypeOK, NEW r \in Runs, Step(r)
  PROVE  /\ file' \in [Goals -> Text \union {None}] /\ rows' \subseteq Goals \X (0..Days) \X BOOLEAN
         /\ outcome' = outcome /\ today' = today /\ decided' = decided
         /\ changes' \in 0..Changes
         /\ pc' \in [Runs -> Labels] /\ todo' \in [Runs -> SUBSET Goals]
         /\ goal' \in [Runs -> Goals] /\ text' \in [Runs -> Text]
         /\ passed' \in [Runs -> BOOLEAN] /\ violations' \in [Runs -> SUBSET Goals]
         /\ date' \in [Runs -> 0..Days]
         /\ behind' \subseteq Runs /\ raced' \subseteq Goals /\ torn' \subseteq Goals
<1> USE GoalsAssumption, Texts DEF TypeOK, Goto, Labels
<1>1. CASE Start(r)
  BY <1>1 DEF Start
<1>2. CASE Read(r)
  BY <1>2 DEF Read
<1>3. CASE Answers(r)
  <2>1. (outcome[text[r].predicate] = "pass") \in BOOLEAN
    OBVIOUS
  <2> QED
    BY <1>3, <2>1 DEF Answers, Judged
<1>4. CASE TimesOut(r) \/ Outlives(r)
  <2>1. CASE TimesOut(r)
    <3>1. CASE Judged(r, FALSE)
      BY <2>1, <3>1 DEF TimesOut, Judged
    <3>2. CASE ~Judged(r, FALSE)
      BY <2>1, <3>2 DEF TimesOut
    <3> QED
      BY <3>1, <3>2
  <2>2. CASE Outlives(r)
    BY <2>2 DEF Outlives, Judged, Change
  <2> QED
    BY <1>4, <2>1, <2>2
<1>5. CASE Truncate(r)
  BY <1>5 DEF Truncate
<1>6. CASE Write(r)
  <2>1. Stamp(text[r], passed[r], date[r]) \in Text
    BY Stamps
  <2> QED
    BY <1>6, <2>1 DEF Write
<1>7. CASE AppendRow(r)
  BY <1>7 DEF AppendRow
<1>8. CASE Finish(r)
  BY <1>8 DEF Finish
<1>9. CASE Kill(r)
  BY <1>9 DEF Kill, Change, Ended
<1> QED
  BY <1>1, <1>2, <1>3, <1>4, <1>5, <1>6, <1>7, <1>8, <1>9 DEF Step

LEMMA OtherTypes ==
  ASSUME TypeOK, Others
  PROVE  /\ file' \in [Goals -> Text \union {None}]
         /\ outcome' \in [Predicates -> Outcomes] /\ today' \in 0..Days
         /\ decided' \in [Goals -> Decision \union {None}] /\ changes' \in 0..Changes
         /\ rows' = rows /\ run' = run
         /\ behind' \subseteq Runs /\ raced' \subseteq Goals /\ torn' \subseteq Goals
<1> USE GoalsAssumption DEF TypeOK
<1>1. CASE \E g \in Goals : Decide(g)
  <2>1. PICK g \in Goals : Decide(g)
    BY <1>1
  <2>2. PICK d \in [predicate: Predicates, retired: BOOLEAN] \union {None} :
          /\ decided' = [decided EXCEPT ![g] = d]
          /\ file' = [file EXCEPT ![g] =
                        IF d = None THEN None
                        ELSE [predicate |-> d.predicate, retired |-> d.retired,
                              status |-> "none",
                              lastPass |-> IF file[g] = None THEN 0 ELSE file[g].lastPass]]
    BY <2>1 DEF Decide
  <2>3. (IF file[g] = None THEN 0 ELSE file[g].lastPass) \in 0..Days
    BY DEF Text
  <2>4. d # None =>
          [predicate |-> d.predicate, retired |-> d.retired, status |-> "none",
           lastPass |-> IF file[g] = None THEN 0 ELSE file[g].lastPass] \in Text
    BY <2>3 DEF Text
  <2>5. d \in Decision \union {None}
    BY DEF Decision
  <2>6. changes' \in 0..Changes
    BY <2>1 DEF Decide, Change
  <2>7. behind' \subseteq Runs /\ raced' \subseteq Goals /\ torn' \subseteq Goals
    BY <2>1 DEF Decide, Holding
  <2>8. UNCHANGED <<rows, outcome, today, run>>
    BY <2>1 DEF Decide
  <2> QED
    BY <2>2, <2>4, <2>5, <2>6, <2>7, <2>8
<1>2. CASE \E p \in Predicates : Regress(p)
  BY <1>2 DEF Regress, Change
<1>3. CASE Midnight
  BY <1>3 DEF Midnight
<1> QED
  BY <1>1, <1>2, <1>3 DEF Others

\* The kinds of step.
LEMMA Steps ==
  ASSUME Next
  PROVE  /\ Observe
         /\ (\E r \in Runs : Step(r)) \/ Others
<1>1. \A r \in Runs : Start(r) \/ Works(r) \/ Outlives(r) \/ Kill(r) => Step(r)
  BY DEF Works, Step
<1> QED
  BY <1>1 DEF Next, Others

LEMMA InitTypes == Init => TypeOK
<1> SUFFICES ASSUME Init PROVE TypeOK
  OBVIOUS
<1>1. \A p \in Predicates : Fresh(p) \in Text
  BY GoalsAssumption DEF Fresh, Text
<1>2. file \in [Goals -> Text \union {None}]
  BY <1>1 DEF Init
<1>3. \A g \in Goals : DecisionOf(file[g]) \in Decision \union {None}
  BY <1>2, Decided
<1>4. (CHOOSE g \in Goals : TRUE) \in Goals
  BY GoalsAssumption
<1> QED
  BY <1>2, <1>3, <1>4, GoalsAssumption, Texts DEF Init, TypeOK, Labels

LEMMA NextTypes == TypeOK /\ [Next]_vars => TypeOK'
<1> SUFFICES ASSUME TypeOK, [Next]_vars PROVE TypeOK'
  OBVIOUS
<1>1. CASE Observe /\ \E r \in Runs : Step(r)
  <2>1. failing' \in [Runs -> SUBSET (Goals \X Predicates)] /\ missed' \in [Runs -> SUBSET Goals]
    BY <1>1, ObserveTypes
  <2> QED
    BY <1>1, <2>1, RunTypes DEF TypeOK
<1>2. CASE Observe /\ Others
  <2>1. failing' \in [Runs -> SUBSET (Goals \X Predicates)] /\ missed' \in [Runs -> SUBSET Goals]
    BY <1>2, ObserveTypes
  <2> QED
    BY <1>2, <2>1, OtherTypes DEF TypeOK
<1>3. CASE UNCHANGED vars
  BY <1>3 DEF TypeOK, vars
<1> QED
  <2>1. CASE Next
    BY <2>1, <1>1, <1>2, Steps
  <2> QED
    BY <2>1, <1>3

-----------------------------------------------------------------------------
(* What people decided.                                                    *)

\* The other runs hold what they held.
LEMMA RunsApart ==
  ASSUME TypeOK, NEW r \in Runs, Step(r), NEW s \in Runs \ {r}
  PROVE  /\ pc'[s] = pc[s] /\ todo'[s] = todo[s] /\ goal'[s] = goal[s] /\ text'[s] = text[s]
         /\ passed'[s] = passed[s] /\ violations'[s] = violations[s] /\ date'[s] = date[s]
         /\ s \in behind => s \in behind'
<1> USE DEF TypeOK, Goto
<1>1. CASE Start(r) \/ Truncate(r) \/ AppendRow(r) \/ Finish(r) \/ Kill(r)
  BY <1>1 DEF Start, Truncate, AppendRow, Finish, Kill
<1>2. CASE Read(r) \/ Write(r)
  BY <1>2 DEF Read, Write
<1>3. CASE Answers(r) \/ TimesOut(r) \/ Outlives(r)
  BY <1>3 DEF Answers, TimesOut, Outlives, Judged
<1> QED
  BY <1>1, <1>2, <1>3 DEF Step

\* Only a write of a run that is behind races, and no step of a run decides.
LEMMA RacedGrows ==
  ASSUME TypeOK, NEW r \in Runs, Step(r)
  PROVE  raced \subseteq raced' /\ decided' = decided
<1>1. CASE Start(r) \/ Truncate(r) \/ AppendRow(r) \/ Finish(r) \/ Kill(r)
  BY <1>1 DEF Start, Truncate, AppendRow, Finish, Kill
<1>2. CASE Read(r) \/ Write(r)
  BY <1>2 DEF Read, Write
<1>3. CASE Answers(r) \/ TimesOut(r) \/ Outlives(r)
  BY <1>3 DEF Answers, TimesOut, Outlives, Judged
<1> QED
  BY <1>1, <1>2, <1>3 DEF Step

LEMMA RunDecisions ==
  ASSUME TypeOK, TypeOK', Decisions, NEW r \in Runs, Step(r)
  PROVE  Decisions'
<1>1. \A s \in Runs \ {r} : HeldText(s)'
  BY RunsApart, RacedGrows DEF Decisions, HeldText, Holds, TypeOK
<1>2. CASE Start(r) \/ AppendRow(r) \/ Finish(r) \/ Kill(r)
  <2>1. ~Holds(r)' /\ UNCHANGED <<file, decided, raced, torn>>
    BY <1>2 DEF Start, AppendRow, Finish, Kill, Goto, Holds, TypeOK
  <2> QED
    BY <1>1, <2>1 DEF Decisions, HeldText, EditsKept
<1>3. CASE Read(r)
  <2>1. UNCHANGED <<file, decided, raced, torn>>
    BY <1>3 DEF Read
  <2>2. PICK g \in todo[r] :
          /\ goal' = [goal EXCEPT ![r] = g]
          /\ IF file[g] = None THEN Goto(r, "threw") /\ UNCHANGED text
             ELSE /\ text' = [text EXCEPT ![r] = file[g]]
                  /\ Goto(r, IF Skipped(file[g]) THEN "next" ELSE "predicate")
    BY <1>3 DEF Read
  <2>3. ASSUME Holds(r)' PROVE ~Skipped(file[g]) /\ text'[r] = file[g] /\ goal'[r] = g
    BY <2>2, <2>3 DEF Holds, Goto, TypeOK
  <2>4. ASSUME Holds(r)' PROVE g \notin torn
    BY <2>3, <2>4, Texts DEF Decisions
  <2>5. g \in Goals
    BY DEF TypeOK
  <2>6. HeldText(r)'
    BY <2>1, <2>3, <2>4, <2>5 DEF HeldText, Decisions, EditsKept
  <2> QED
    BY <1>1, <2>1, <2>6 DEF Decisions, EditsKept
<1>4. CASE Answers(r) \/ TimesOut(r) \/ Outlives(r)
  <2>1. UNCHANGED <<file, decided, raced, torn, behind, text, goal>> /\ Holds(r)
    BY <1>4 DEF Answers, TimesOut, Outlives, Judged, Holds
  <2> QED
    BY <1>1, <2>1 DEF Decisions, HeldText, EditsKept
<1>5. CASE Truncate(r)
  <2>1. /\ file' = [file EXCEPT ![goal[r]] = Empty] /\ torn' = torn \union {goal[r]}
        /\ UNCHANGED <<decided, raced, behind, text, goal>> /\ Holds(r)
    BY <1>5 DEF Truncate, Holds
  <2>2. goal[r] \in Goals /\ Empty # None
    BY Texts DEF TypeOK
  <2>3. \A g \in torn' : file'[g] = Empty
    BY <2>1, <2>2 DEF Decisions, TypeOK
  <2>4. EditsKept'
    BY <2>1, <2>2 DEF Decisions, EditsKept, TypeOK
  <2>5. \A g \in Goals : file'[g] = None => decided'[g] = None
    BY <2>1, <2>2 DEF Decisions, TypeOK
  <2> QED
    BY <1>1, <2>1, <2>3, <2>4, <2>5 DEF Decisions, HeldText
<1>6. CASE Write(r)
  <2>1. ~Holds(r)' /\ UNCHANGED decided /\ Holds(r) /\ goal[r] \in Goals
    BY <1>6 DEF Write, Goto, Holds, TypeOK
  <2>2. CASE file[goal[r]] = None
    <3>1. UNCHANGED <<file, raced, torn>>
      BY <1>6, <2>2 DEF Write
    <3> QED
      BY <1>1, <2>1, <3>1 DEF Decisions, HeldText, EditsKept
  <2>3. CASE file[goal[r]] # None
    <3>1. /\ file' = [file EXCEPT ![goal[r]] = Stamp(text[r], passed[r], date[r])]
          /\ torn' = torn \ {goal[r]}
          /\ raced' = IF r \in behind THEN raced \union {goal[r]} ELSE raced
      BY <1>6, <2>3 DEF Write
    <3>2. ~Skipped(text[r])
      BY <2>1 DEF Decisions, HeldText
    <3>3. file'[goal[r]] = Stamp(text[r], passed[r], date[r])
      BY <2>1, <3>1 DEF TypeOK
    <3>4. DecisionOf(file'[goal[r]]) = DecisionOf(text[r])
      BY <3>2, <3>3, Stamps DEF TypeOK
    <3>5. goal[r] \notin raced' => DecisionOf(file'[goal[r]]) = decided[goal[r]]
      BY <2>1, <3>1, <3>4 DEF Decisions, HeldText
    <3>6. \A g \in Goals \ {goal[r]} : file'[g] = file[g]
      BY <3>1 DEF TypeOK
    <3>7. EditsKept'
      BY <2>1, <3>1, <3>5, <3>6 DEF Decisions, EditsKept
    <3>8. \A g \in torn' : file'[g] = Empty
      BY <3>1, <3>6 DEF Decisions, TypeOK
    <3>9. file'[goal[r]] # None
      BY <3>3, Stamps DEF TypeOK
    <3>10. \A g \in Goals : file'[g] = None => decided'[g] = None
      BY <2>1, <3>6, <3>9 DEF Decisions
    <3> QED
      BY <1>1, <2>1, <3>7, <3>8, <3>10 DEF Decisions, HeldText
  <2> QED
    BY <2>2, <2>3
<1> QED
  BY <1>2, <1>3, <1>4, <1>5, <1>6 DEF Step

LEMMA OtherDecisions ==
  ASSUME TypeOK, TypeOK', Decisions, Others
  PROVE  Decisions'
<1>1. CASE (\E p \in Predicates : Regress(p)) \/ Midnight
  <2>1. UNCHANGED <<file, decided, raced, torn, behind, text, goal, pc>>
    BY <1>1 DEF Regress, Midnight
  <2> QED
    BY <2>1 DEF Decisions, HeldText, Holds, EditsKept
<1>2. CASE \E g \in Goals : Decide(g)
  <2>1. PICK g \in Goals : Decide(g)
    BY <1>2
  <2>2. UNCHANGED <<text, goal, pc>>
    BY <2>1 DEF Decide
  <2>3. PICK d \in [predicate: Predicates, retired: BOOLEAN] \union {None} :
          /\ decided' = [decided EXCEPT ![g] = d]
          /\ file' = [file EXCEPT ![g] =
                        IF d = None THEN None
                        ELSE [predicate |-> d.predicate, retired |-> d.retired,
                              status |-> "none",
                              lastPass |-> IF file[g] = None THEN 0 ELSE file[g].lastPass]]
    BY <2>1 DEF Decide
  <2>4. behind' = behind \union Holding(g) /\ raced' = raced \ {g} /\ torn' = torn \ {g}
    BY <2>1 DEF Decide
  <2>5. \A h \in Goals \ {g} : file'[h] = file[h] /\ decided'[h] = decided[h]
    BY <2>3 DEF TypeOK
  <2>6. decided'[g] = d /\ file'[g] \in Text \union {None}
    BY <2>3 DEF TypeOK
  <2>7. DecisionOf(file'[g]) = d
    <3>1. CASE d = None
      BY <2>3, <3>1 DEF DecisionOf, TypeOK
    <3>2. CASE d # None
      <4>1. file'[g] = [predicate |-> d.predicate, retired |-> d.retired, status |-> "none",
                        lastPass |-> IF file[g] = None THEN 0 ELSE file[g].lastPass]
        BY <2>3, <3>2 DEF TypeOK
      <4>2. (IF file[g] = None THEN 0 ELSE file[g].lastPass) \in 0..Days
        BY GoalsAssumption DEF TypeOK, Text
      <4>3. file'[g] \in Text
        BY <3>2, <4>1, <4>2 DEF Text
      <4>4. file'[g] # None
        BY <4>3, GoalsAssumption
      <4>5. d = [predicate |-> d.predicate, retired |-> d.retired]
        BY <3>2
      <4> QED
        BY <4>1, <4>4, <4>5 DEF DecisionOf
    <3> QED
      BY <3>1, <3>2
  <2>8. EditsKept'
    BY <2>4, <2>5, <2>6, <2>7 DEF Decisions, EditsKept
  <2>9. \A h \in torn' : file'[h] = Empty
    BY <2>4, <2>5 DEF Decisions, TypeOK
  <2>10. \A r \in Runs : HeldText(r)'
    <3> SUFFICES ASSUME NEW r \in Runs, Holds(r)' PROVE HeldText(r)'
      BY DEF HeldText
    <3>1. Holds(r) /\ goal[r] \in Goals
      BY <2>2 DEF Holds, TypeOK
    <3>2. CASE goal[r] = g
      BY <2>2, <2>4, <3>1, <3>2 DEF HeldText, Decisions, Holding, Holds
    <3>3. CASE goal[r] # g
      BY <2>2, <2>4, <2>5, <3>1, <3>3 DEF HeldText, Decisions
    <3> QED
      BY <3>2, <3>3
  <2>11. \A h \in Goals : file'[h] = None => decided'[h] = None
    BY <2>5, <2>6, <2>7 DEF Decisions, DecisionOf
  <2> QED
    BY <2>8, <2>9, <2>10, <2>11 DEF Decisions
<1> QED
  BY <1>1, <1>2 DEF Others

-----------------------------------------------------------------------------
(* Loudness.                                                               *)

\* What still counts as failing, and as missed, at a run that goes on.
LEMMA Watched ==
  ASSUME TypeOK, Observe, NEW s \in Runs
  PROVE  /\ pc[s] \notin {"idle", "held"} => failing'[s] \subseteq failing[s]
         /\ pc[s] = "held" /\ pc'[s] = "held" => failing'[s] = failing[s]
         /\ pc[s] # "held" => failing'[s] \subseteq Failing'
         /\ pc'[s] \notin {"idle"} \union (Ended \ {"held"}) =>
              /\ missed[s] \subseteq missed'[s]
              /\ \A g \in todo[s] \ todo'[s] : DecisionOf(file[g]) # decided[g] => g \in missed'[s]
<1>1. failing'[s] = IF pc'[s] \in {"idle"} \union (Ended \ {"held"}) THEN {}
                    ELSE IF pc[s] = "idle" THEN Failing'
                    ELSE IF pc[s] = "held" THEN failing[s]
                    ELSE failing[s] \intersect Failing'
  BY DEF Observe
<1>2. missed'[s] = IF pc'[s] \in {"idle"} \union (Ended \ {"held"}) THEN {}
                   ELSE missed[s] \union
                          {g \in todo[s] \ todo'[s] : DecisionOf(file[g]) # decided[g]}
  BY DEF Observe
<1> QED
  BY <1>1, <1>2 DEF Ended

\* A run that a step leaves alone has found, and has to look at, what it had.
LEMMA LoudApart ==
  ASSUME TypeOK, LoudSoFar, Observe, NEW s \in Runs,
         UNCHANGED <<pc[s], todo[s], goal[s], text[s], violations[s]>>
  PROVE  /\ pc'[s] \notin {"idle"} \union Ended =>
              violations'[s] # {} \/ \A x \in failing'[s] : Pending(s, x)'
         /\ pc'[s] = "held" => \A x \in failing'[s] : x[1] \in missed'[s]
<1>1. ASSUME pc'[s] \notin {"idle"} \union Ended
      PROVE  violations'[s] # {} \/ \A x \in failing'[s] : Pending(s, x)'
  <2>1. failing'[s] \subseteq failing[s] /\ missed[s] \subseteq missed'[s]
    BY <1>1, Watched DEF Ended
  <2> QED
    BY <1>1, <2>1 DEF LoudSoFar, Pending
<1>2. ASSUME pc'[s] = "held" PROVE \A x \in failing'[s] : x[1] \in missed'[s]
  <2>1. failing'[s] = failing[s] /\ missed[s] \subseteq missed'[s]
    BY <1>2, Watched DEF Ended
  <2> QED
    BY <1>2, <2>1 DEF LoudSoFar, Loud
<1> QED
  BY <1>1, <1>2

LEMMA RunLoud ==
  ASSUME TypeOK, TypeOK', Decisions, LoudSoFar, Observe, NEW r \in Runs, Step(r)
  PROVE  LoudSoFar'
<1>1. ASSUME NEW s \in Runs \ {r}
      PROVE  /\ pc'[s] \notin {"idle"} \union Ended =>
                  violations'[s] # {} \/ \A x \in failing'[s] : Pending(s, x)'
             /\ pc'[s] = "held" => \A x \in failing'[s] : x[1] \in missed'[s]
  BY RunsApart, LoudApart
<1> SUFFICES /\ pc'[r] \notin {"idle"} \union Ended =>
                  violations'[r] # {} \/ \A x \in failing'[r] : Pending(r, x)'
             /\ pc'[r] = "held" => \A x \in failing'[r] : x[1] \in missed'[r]
  BY <1>1 DEF LoudSoFar, Loud
<1>2. pc[r] \notin Ended
  BY DEF Step, Start, Read, Answers, TimesOut, Outlives, Truncate, Write, AppendRow, Finish,
         Kill, Ended
<1>3. failing'[r] \subseteq Failing'
  BY <1>2, Watched DEF Ended
<1>4. pc[r] # "idle" => failing'[r] \subseteq failing[r]
  BY <1>2, Watched DEF Ended
<1>5. ASSUME NEW x \in failing'[r]
      PROVE  /\ x[1] \in Goals /\ x[2] \in Predicates
             /\ decided[x[1]] = [predicate |-> x[2], retired |-> FALSE]
             /\ outcome[x[2]] \in {"fail", "hang"}
  BY <1>3, <1>5, RunTypes DEF Failing, Stands
<1>6. \A x \in failing'[r] : decided[x[1]] # None
  <2>1. ASSUME NEW x \in failing'[r] PROVE decided[x[1]] \in Decision
    <3>1. decided[x[1]] = [predicate |-> x[2], retired |-> FALSE] /\ x[2] \in Predicates
      BY <1>5
    <3> QED
      BY <3>1 DEF Decision
  <2> QED
    BY <2>1, GoalsAssumption
<1>7. pc'[r] \notin {"idle"} \union (Ended \ {"held"}) =>
        /\ missed[r] \subseteq missed'[r]
        /\ \A g \in todo[r] \ todo'[r] : DecisionOf(file[g]) # decided[g] => g \in missed'[r]
  BY Watched
<1>8. CASE Start(r)
  <2>1. \A x \in failing'[r] : x[1] \in todo'[r]
    BY <1>5, <1>6, <1>8 DEF Start, TypeOK, Decisions
  <2>2. pc'[r] = "next"
    BY <1>8 DEF Start, Goto, TypeOK
  <2> QED
    BY <2>1, <2>2 DEF Pending
<1>9. CASE Read(r)
  <2>1. PICK g \in todo[r] :
          /\ goal' = [goal EXCEPT ![r] = g] /\ todo' = [todo EXCEPT ![r] = @ \ {g}]
          /\ IF file[g] = None THEN Goto(r, "threw") /\ UNCHANGED text
             ELSE /\ text' = [text EXCEPT ![r] = file[g]]
                  /\ Goto(r, IF Skipped(file[g]) THEN "next" ELSE "predicate")
    BY <1>9 DEF Read
  <2>2. pc[r] = "next" /\ UNCHANGED violations
    BY <1>9 DEF Read
  <2>3. pc'[r] # "held"
    BY <2>1 DEF Goto, TypeOK
  <2>4. ASSUME pc'[r] \notin {"idle"} \union Ended, violations[r] = {}, NEW x \in failing'[r]
        PROVE  Pending(r, x)'
    <3>1. x \in failing[r]
      BY <1>4, <2>2, <2>4
    <3>2. x[1] \in todo[r] \/ x[1] \in missed[r]
      BY <2>2, <2>4, <3>1 DEF LoudSoFar, Pending, Ended
    <3>3. CASE x[1] \in missed[r]
      BY <1>7, <2>4, <3>3 DEF Pending
    <3>4. CASE x[1] \in todo[r] /\ x[1] # g
      BY <2>1, <3>4 DEF Pending, TypeOK
    <3>5. CASE x[1] = g /\ DecisionOf(file[g]) # decided[g]
      BY <1>7, <2>1, <2>4, <3>5 DEF Pending, TypeOK
    <3>6. CASE x[1] = g /\ DecisionOf(file[g]) = decided[g]
      <4>1. decided[g] = [predicate |-> x[2], retired |-> FALSE] /\ decided[g] # None
        BY <1>5, <1>6, <2>4, <3>6
      <4>2. file[g] # None
        BY <3>6, <4>1 DEF DecisionOf
      <4>3. [predicate |-> file[g].predicate, retired |-> file[g].retired]
              = [predicate |-> x[2], retired |-> FALSE]
        BY <3>6, <4>1, <4>2 DEF DecisionOf
      <4>4. file[g].predicate = x[2] /\ file[g].retired = FALSE
        BY <4>3
      <4>5. ~Skipped(file[g])
        BY <1>5, <2>4, <4>4, GoalsAssumption DEF Skipped
      <4> QED
        BY <2>1, <3>6, <4>2, <4>4, <4>5 DEF Pending, Goto, TypeOK
    <3> QED
      BY <3>2, <3>3, <3>4, <3>5, <3>6
  <2>5. violations'[r] = violations[r]
    BY <2>2
  <2> QED
    BY <2>3, <2>4, <2>5
<1>10. CASE Answers(r) \/ TimesOut(r) \/ Outlives(r)
  <2>1. /\ pc[r] \in {"predicate", "outlived"} /\ pc'[r] \in {"truncate", "outlived"}
        /\ UNCHANGED <<todo, goal, text>>
    BY <1>10 DEF Answers, TimesOut, Outlives, Judged, Goto, TypeOK
  <2>2. \/ violations' = [violations EXCEPT ![r] = @ \union {goal[r]}]
        \/ /\ violations' = violations
           /\ pc[r] = "predicate" => outcome[text[r].predicate] \in {"pass", "stubborn"}
    BY <1>10 DEF Answers, TimesOut, Outlives, Judged
  <2>3. CASE violations' = [violations EXCEPT ![r] = @ \union {goal[r]}]
    <3>1. violations'[r] # {}
      BY <2>3 DEF TypeOK
    <3> QED
      BY <2>1, <3>1
  <2>4. CASE /\ violations' = violations
             /\ pc[r] = "predicate" => outcome[text[r].predicate] \in {"pass", "stubborn"}
    <3>1. ASSUME violations[r] = {}, NEW x \in failing'[r] PROVE Pending(r, x)'
      <4>1. Pending(r, x)
        BY <1>4, <2>1, <3>1 DEF LoudSoFar, Ended
      <4>2. outcome[x[2]] \in {"fail", "hang"}
        BY <1>5, <3>1
      <4>3. missed[r] \subseteq missed'[r]
        BY <1>7, <2>1 DEF Ended
      <4> QED
        BY <2>1, <2>4, <4>1, <4>2, <4>3 DEF Pending
    <3> QED
      BY <2>1, <2>4, <3>1 DEF Ended
  <2> QED
    BY <2>2, <2>3, <2>4
<1>11. CASE Truncate(r) \/ Write(r) \/ AppendRow(r)
  <2>1. /\ UNCHANGED <<todo, goal, violations>>
        /\ pc'[r] \in {"write", "row", "next"} /\ pc[r] \in {"truncate", "write", "row"}
    BY <1>11 DEF Truncate, Write, AppendRow, Goto, TypeOK
  <2>2. missed[r] \subseteq missed'[r]
    BY <1>7, <2>1 DEF Ended
  <2>3. violations'[r] = {} => \A x \in failing'[r] : Pending(r, x)'
    BY <1>4, <2>1, <2>2 DEF LoudSoFar, Pending, Ended
  <2> QED
    BY <2>1, <2>3
<1>12. CASE Kill(r)
  BY <1>12 DEF Kill, Goto, TypeOK, Ended
<1>13. CASE Finish(r)
  <2>1. pc[r] = "next" /\ todo[r] = {} /\ pc'[r] \in Ended
    BY <1>13 DEF Finish, Goto, TypeOK, Ended
  <2>2. pc'[r] = "held" => violations[r] = {}
    BY <1>13 DEF Finish, Goto, TypeOK
  <2>3. ASSUME pc'[r] = "held", NEW x \in failing'[r] PROVE x[1] \in missed'[r]
    <3>1. Pending(r, x)
      BY <1>4, <2>1, <2>2, <2>3 DEF LoudSoFar, Ended
    <3> QED
      BY <1>7, <2>1, <2>3, <3>1 DEF Pending
  <2> QED
    BY <2>1, <2>3
<1> QED
  BY <1>8, <1>9, <1>10, <1>11, <1>12, <1>13 DEF Step

LEMMA OtherLoud ==
  ASSUME TypeOK, LoudSoFar, Observe, Others
  PROVE  LoudSoFar'
<1>1. UNCHANGED <<pc, todo, goal, text, violations>>
  BY DEF Others, Decide, Regress, Midnight
<1>2. \A s \in Runs : UNCHANGED <<pc[s], todo[s], goal[s], text[s], violations[s]>>
  BY <1>1
<1> QED
  BY <1>2, LoudApart DEF LoudSoFar, Loud

-----------------------------------------------------------------------------
(* The ledger.                                                             *)

\* What is on record stays on record.
LEMMA RecordKept ==
  ASSUME TypeOK, NEW r \in Runs, Step(r), NEW g \in Goals, NEW d, OnRecord(g, d)
  PROVE  OnRecord(g, d)'
<1>1. CASE <<g, d, TRUE>> \in rows
  <2>1. rows \subseteq rows'
    BY DEF Step, Start, Read, Answers, TimesOut, Outlives, Judged, Truncate, Write, AppendRow, Finish, Kill
  <2> QED
    BY <1>1, <2>1 DEF OnRecord
<1>2. CASE \E s \in Runs : /\ pc[s] \in {"row", "unrecorded"} /\ passed[s]
                           /\ goal[s] = g /\ date[s] = d
  <2>1. PICK s \in Runs : /\ pc[s] \in {"row", "unrecorded"} /\ passed[s]
                          /\ goal[s] = g /\ date[s] = d
    BY <1>2
  <2>2. CASE s # r
    BY <2>1, <2>2, RunsApart DEF OnRecord
  <2>3. CASE s = r
    <3>1. AppendRow(r) \/ Kill(r)
      BY <2>1, <2>3 DEF Step, Start, Read, Answers, TimesOut, Outlives, Truncate, Write, Finish
    <3>2. CASE AppendRow(r)
      <4>1. passed[r] = TRUE
        BY <2>1, <2>3 DEF TypeOK
      <4> QED
        BY <2>1, <2>3, <3>2, <4>1 DEF AppendRow, OnRecord
    <3>3. CASE Kill(r)
      BY <2>1, <2>3, <3>3 DEF Kill, OnRecord, Goto, TypeOK, Ended
    <3> QED
      BY <3>1, <3>2, <3>3
  <2> QED
    BY <2>2, <2>3
<1> QED
  BY <1>1, <1>2 DEF OnRecord

\* A goal that a step leaves as it is, and a text that is still held.
FileRecorded(g) == file[g] # None /\ file[g].lastPass > 0 => OnRecord(g, file[g].lastPass)
TextRecorded(r) == Holds(r) /\ text[r].lastPass > 0 => OnRecord(goal[r], text[r].lastPass)

LEMMA FileStays ==
  ASSUME TypeOK, Recorded, NEW r \in Runs, Step(r), NEW g \in Goals, file'[g] = file[g]
  PROVE  FileRecorded(g)'
<1> SUFFICES ASSUME file'[g] # None, file'[g].lastPass > 0
             PROVE  OnRecord(g, file[g].lastPass)'
  BY DEF FileRecorded
<1>1. file[g].lastPass \in 0..Days
  BY DEF TypeOK, Text
<1>2. PICK d \in 0..Days : d = file[g].lastPass
  BY <1>1
<1>3. OnRecord(g, file[g].lastPass)
  BY DEF Recorded
<1>4. OnRecord(g, d)
  BY <1>2, <1>3
<1>5. OnRecord(g, d)'
  BY <1>4, RecordKept
<1>6. file'[g].lastPass = d
  BY <1>2
<1> QED
  BY <1>5, <1>6 DEF OnRecord

LEMMA TextStays ==
  ASSUME TypeOK, Recorded, NEW r \in Runs, Step(r), NEW s \in Runs, Holds(s),
         goal'[s] = goal[s], text'[s] = text[s]
  PROVE  TextRecorded(s)'
<1> SUFFICES ASSUME text'[s].lastPass > 0
             PROVE  OnRecord(goal[s], text[s].lastPass)'
  BY DEF TextRecorded
<1>1. goal[s] \in Goals /\ text[s].lastPass \in 0..Days
  BY DEF TypeOK, Text
<1>2. PICK g \in Goals, d \in 0..Days : g = goal[s] /\ d = text[s].lastPass
  BY <1>1
<1>3. OnRecord(goal[s], text[s].lastPass)
  BY DEF Recorded
<1>4. OnRecord(g, d)
  BY <1>2, <1>3
<1>5. OnRecord(g, d)'
  BY <1>4, RecordKept
<1>6. goal'[s] = g /\ text'[s].lastPass = d
  BY <1>2
<1> QED
  BY <1>5, <1>6 DEF OnRecord

LEMMA RunRecorded ==
  ASSUME TypeOK, TypeOK', Recorded, NEW r \in Runs, Step(r)
  PROVE  Recorded'
<1>1. ASSUME NEW s \in Runs \ {r} PROVE TextRecorded(s)'
  <2>1. pc'[s] = pc[s] /\ goal'[s] = goal[s] /\ text'[s] = text[s]
    BY RunsApart
  <2>2. CASE Holds(s)
    BY <2>1, <2>2, TextStays
  <2>3. CASE ~Holds(s)
    BY <2>1, <2>3 DEF Holds, TextRecorded
  <2> QED
    BY <2>2, <2>3
<1>2. CASE Start(r) \/ AppendRow(r) \/ Finish(r) \/ Kill(r)
  <2>1. ~Holds(r)' /\ UNCHANGED file
    BY <1>2 DEF Start, AppendRow, Finish, Kill, Goto, Holds, TypeOK
  <2>2. \A g \in Goals : FileRecorded(g)'
    BY <2>1, FileStays
  <2> QED
    BY <1>1, <2>1, <2>2 DEF Recorded, FileRecorded, TextRecorded
<1>3. CASE Read(r)
  <2>1. PICK g \in todo[r] :
          /\ goal' = [goal EXCEPT ![r] = g]
          /\ IF file[g] = None THEN Goto(r, "threw") /\ UNCHANGED text
             ELSE /\ text' = [text EXCEPT ![r] = file[g]]
                  /\ Goto(r, IF Skipped(file[g]) THEN "next" ELSE "predicate")
    BY <1>3 DEF Read
  <2>2. UNCHANGED file
    BY <1>3 DEF Read
  <2>3. \A h \in Goals : FileRecorded(h)'
    BY <2>2, FileStays
  <2>4. Holds(r)' => text'[r] = file'[g] /\ goal'[r] = g /\ file'[g] # None /\ g \in Goals
    BY <2>1, <2>2 DEF Holds, Goto, TypeOK
  <2>5. TextRecorded(r)'
    <3> SUFFICES ASSUME Holds(r)', text'[r].lastPass > 0
                 PROVE  OnRecord(goal[r], text[r].lastPass)'
      BY DEF TextRecorded
    <3>1. FileRecorded(g)'
      BY <2>3, <2>4
    <3>2. file'[g].lastPass > 0 /\ file'[g] # None
      BY <2>4
    <3>3. OnRecord(g, file[g].lastPass)'
      BY <3>1, <3>2 DEF FileRecorded
    <3> QED
      BY <2>4, <3>3 DEF OnRecord
  <2> QED
    BY <1>1, <2>3, <2>5 DEF Recorded, FileRecorded, TextRecorded
<1>4. CASE Answers(r) \/ TimesOut(r) \/ Outlives(r)
  <2>1. UNCHANGED <<file, goal, text>> /\ Holds(r)
    BY <1>4 DEF Answers, TimesOut, Outlives, Judged, Holds
  <2>2. \A g \in Goals : FileRecorded(g)'
    BY <2>1, FileStays
  <2>3. TextRecorded(r)'
    BY <2>1, TextStays
  <2> QED
    BY <1>1, <2>2, <2>3 DEF Recorded, FileRecorded, TextRecorded
<1>5. CASE Truncate(r)
  <2>1. /\ file' = [file EXCEPT ![goal[r]] = Empty] /\ UNCHANGED <<goal, text>>
        /\ Holds(r) /\ goal[r] \in Goals
    BY <1>5 DEF Truncate, Holds, TypeOK
  <2>2. ASSUME NEW g \in Goals, g # goal[r] PROVE FileRecorded(g)'
    <3>1. file'[g] = file[g]
      BY <2>1, <2>2 DEF TypeOK
    <3> QED
      BY <3>1, FileStays
  <2>3. file'[goal[r]].lastPass = 0
    BY <2>1, Texts DEF TypeOK
  <2>4. \A g \in Goals : FileRecorded(g)'
    BY <2>2, <2>3 DEF FileRecorded
  <2>5. TextRecorded(r)'
    BY <2>1, TextStays
  <2> QED
    BY <1>1, <2>4, <2>5 DEF Recorded, FileRecorded, TextRecorded
<1>6. CASE Write(r)
  <2>1. ~Holds(r)' /\ Holds(r) /\ goal[r] \in Goals /\ pc'[r] = "row"
        /\ UNCHANGED <<goal, text, passed, date>>
    BY <1>6 DEF Write, Goto, Holds, TypeOK
  <2>2. CASE file[goal[r]] = None
    <3>1. UNCHANGED file
      BY <1>6, <2>2 DEF Write
    <3>2. \A g \in Goals : FileRecorded(g)'
      BY <3>1, FileStays
    <3> QED
      BY <1>1, <2>1, <3>2 DEF Recorded, FileRecorded, TextRecorded
  <2>3. CASE file[goal[r]] # None
    <3>1. file' = [file EXCEPT ![goal[r]] = Stamp(text[r], passed[r], date[r])]
      BY <1>6, <2>3 DEF Write
    <3>2. ASSUME NEW g \in Goals, g # goal[r] PROVE FileRecorded(g)'
      <4>1. file'[g] = file[g]
        BY <3>1, <3>2 DEF TypeOK
      <4> QED
        BY <4>1, FileStays
    <3>3. file'[goal[r]].lastPass = IF passed[r] THEN date[r] ELSE text[r].lastPass
      BY <2>1, <3>1, Stamps DEF TypeOK
    <3>4. ASSUME file'[goal[r]].lastPass > 0
          PROVE  OnRecord(goal[r], file[goal[r]].lastPass)'
      <4>1. CASE passed[r]
        <5>1. /\ pc'[r] \in {"row", "unrecorded"} /\ passed'[r]
              /\ goal'[r] = goal[r] /\ date'[r] = file'[goal[r]].lastPass
          BY <2>1, <3>3, <4>1
        <5> QED
          BY <2>1, <5>1 DEF OnRecord
      <4>2. CASE ~passed[r]
        <5>1. file'[goal[r]].lastPass = text'[r].lastPass /\ goal'[r] = goal[r]
          BY <2>1, <3>3, <4>2
        <5>2. text[r].lastPass > 0
          BY <2>1, <3>4, <5>1
        <5>3. PICK g \in Goals, d \in 0..Days : g = goal[r] /\ d = text[r].lastPass
          BY <2>1 DEF TypeOK, Text
        <5>4. OnRecord(goal[r], text[r].lastPass)
          BY <2>1, <5>2 DEF Recorded
        <5>5. OnRecord(g, d)
          BY <5>3, <5>4
        <5>6. OnRecord(g, d)'
          BY <5>5, RecordKept
        <5>7. goal'[r] = g /\ file'[goal[r]].lastPass = d /\ file'[goal'[r]].lastPass = d
          BY <2>1, <5>1, <5>3
        <5> QED
          BY <5>6, <5>7, <2>1 DEF OnRecord
      <4> QED
        BY <4>1, <4>2
    <3>5. goal'[r] = goal[r]
      BY <2>1
    <3>6. \A g \in Goals : FileRecorded(g)'
      BY <3>2, <3>4, <3>5 DEF FileRecorded
    <3> QED
      BY <1>1, <2>1, <3>6 DEF Recorded, FileRecorded, TextRecorded
  <2> QED
    BY <2>2, <2>3
<1> QED
  BY <1>2, <1>3, <1>4, <1>5, <1>6 DEF Step

LEMMA OtherRecorded ==
  ASSUME TypeOK, Recorded, Others
  PROVE  Recorded'
<1>1. UNCHANGED <<rows, pc, goal, text, passed, date>>
  BY DEF Others, Decide, Regress, Midnight
<1>2. \A g \in Goals, d \in 0..Days : OnRecord(g, d) => OnRecord(g, d)'
  BY <1>1 DEF OnRecord
<1>3. \A r \in Runs : TextRecorded(r)'
  BY <1>1 DEF Recorded, TextRecorded, Holds, OnRecord
<1>4. ASSUME NEW g \in Goals, file'[g] # None, file'[g].lastPass > 0
      PROVE  file[g] # None /\ file'[g].lastPass = file[g].lastPass
  <2>1. CASE (\E p \in Predicates : Regress(p)) \/ Midnight
    BY <1>4, <2>1 DEF Regress, Midnight
  <2>2. CASE \E h \in Goals : Decide(h)
    <3>1. PICK h \in Goals : Decide(h)
      BY <2>2
    <3>2. PICK d \in [predicate: Predicates, retired: BOOLEAN] \union {None} :
            file' = [file EXCEPT ![h] =
                       IF d = None THEN None
                       ELSE [predicate |-> d.predicate, retired |-> d.retired,
                             status |-> "none",
                             lastPass |-> IF file[h] = None THEN 0 ELSE file[h].lastPass]]
      BY <3>1 DEF Decide
    <3>3. CASE h # g
      BY <1>4, <3>2, <3>3 DEF TypeOK
    <3>4. CASE h = g
      <4>1. d # None
        BY <1>4, <3>2, <3>4 DEF TypeOK
      <4>2. file'[g].lastPass = IF file[g] = None THEN 0 ELSE file[g].lastPass
        BY <3>2, <3>4, <4>1 DEF TypeOK
      <4> QED
        BY <1>4, <4>2
    <3> QED
      BY <3>3, <3>4
  <2> QED
    BY <2>1, <2>2 DEF Others
<1>5. ASSUME NEW g \in Goals PROVE FileRecorded(g)'
  <2> SUFFICES ASSUME file'[g] # None, file'[g].lastPass > 0
               PROVE  OnRecord(g, file[g].lastPass)'
    BY DEF FileRecorded
  <2>1. file[g] # None /\ file'[g].lastPass = file[g].lastPass
    BY <1>4
  <2>2. OnRecord(g, file[g].lastPass)
    BY <2>1 DEF Recorded
  <2> QED
    BY <1>1, <2>1, <2>2 DEF OnRecord
<1> QED
  BY <1>3, <1>5 DEF Recorded, FileRecorded, TextRecorded

-----------------------------------------------------------------------------
(* The theorems.                                                           *)

GoalsInv == TypeOK /\ Decisions /\ LoudSoFar /\ Recorded

LEMMA InitInv == Init => GoalsInv
<1> SUFFICES ASSUME Init PROVE GoalsInv
  OBVIOUS
<1>1. TypeOK
  BY InitTypes
<1>2. \A r \in Runs : pc[r] = "idle"
  BY DEF Init
<1>3. ASSUME NEW g \in Goals PROVE file[g].lastPass = 0
  BY DEF Init, Fresh
<1>4. EditsKept /\ torn = {}
  BY DEF Init, EditsKept
<1>5. \A g \in Goals : file[g] = None => decided[g] = None
  BY DEF Init, DecisionOf
<1> QED
  BY <1>1, <1>2, <1>3, <1>4, <1>5
     DEF GoalsInv, Decisions, HeldText, Holds, LoudSoFar, Loud, Recorded

LEMMA NextInv == GoalsInv /\ [Next]_vars => GoalsInv'
<1> SUFFICES ASSUME GoalsInv, [Next]_vars PROVE GoalsInv'
  OBVIOUS
<1>1. TypeOK /\ TypeOK'
  BY NextTypes DEF GoalsInv
<1>2. CASE Next
  <2>1. Observe
    BY <1>2, Steps
  <2>2. ASSUME NEW r \in Runs, Step(r) PROVE GoalsInv'
    BY <1>1, <2>1, <2>2, RunDecisions, RunLoud, RunRecorded DEF GoalsInv
  <2>3. CASE Others
    BY <1>1, <2>1, <2>3, OtherDecisions, OtherLoud, OtherRecorded DEF GoalsInv
  <2> QED
    BY <1>2, <2>2, <2>3, Steps
<1>3. CASE UNCHANGED vars
  <2>1. Decisions' /\ LoudSoFar'
    BY <1>3 DEF GoalsInv, vars, Decisions, HeldText, Holds, EditsKept, LoudSoFar, Pending, Loud
  <2>2. Recorded'
    BY <1>3 DEF GoalsInv, vars, Recorded, Holds, OnRecord
  <2> QED
    BY <1>1, <2>1, <2>2 DEF GoalsInv
<1> QED
  BY <1>2, <1>3

\* Every state is well typed.
THEOREM TypeCorrect == Spec => []TypeOK
  BY InitTypes, NextTypes, PTL DEF Spec

\* A run that exits 0 has missed no regression that stood all through it, other than of goals
\* that it read as nobody had decided them.
THEOREM RegressionsAreLoud == Spec => []Loud
<1>1. GoalsInv => Loud
  BY DEF GoalsInv, LoudSoFar
<1> QED
  BY <1>1, InitInv, NextInv, PTL DEF Spec

\* What people decided stays, unless it is overtaken by a run that was checking the goal.
THEOREM DecisionsKept == Spec => []EditsKept
<1>1. GoalsInv => EditsKept
  BY DEF GoalsInv, Decisions
<1> QED
  BY <1>1, InitInv, NextInv, PTL DEF Spec

\* The days in the goals are days in the ledger.
THEOREM PassesRecorded == Spec => []PassOnRecord
<1>1. GoalsInv => PassOnRecord
  BY DEF GoalsInv, Recorded, OnRecord, PassOnRecord
<1> QED
  BY <1>1, InitInv, NextInv, PTL DEF Spec
=============================================================================
