-------------------------- MODULE TrustLedgerProofs --------------------------
(***************************************************************************)
(* What TrustLedger does for any number of sessions, skills and results.   *)
(*                                                                         *)
(* A session inside the lock is its only holder, so nobody replaces the    *)
(* file between its load and its rename: the rows it is about to write are *)
(* the rows in the file with its one result applied.  That is IInv; the    *)
(* properties of the file follow from it.                                  *)
(***************************************************************************)
EXTENDS TrustLedger, TLAPS

Inside == {"load", "write", "fsync", "release"}

Exclusive == \A p \in Proc : pc[p] \in Inside => holder = {p}

Fresh ==
  \A p \in Proc : pc[p] = "write" =>
    LET c == call[p]
    IN /\ rows[p] = Tally!Applied(ledger, c.skill, c.result)
       /\ demoted[p] = Tally!Demoted(ledger, c.skill, c.result)

\* The result of a call that wrote the file and has not returned is counted
\* on top of those that have.
Counted ==
  \A s \in Skill :
    /\ ledger[s].runs \geq start[s].runs + logged[s]
    /\ \A p \in Proc :
         (pc[p] \in {"fsync", "release"} /\ ~thrown[p] /\ call[p].skill = s)
           => ledger[s].runs \geq start[s].runs + logged[s] + 1

Unthrown == \A p \in Proc : pc[p] # "release" => ~thrown[p]

IInv == TypeOK /\ Exclusive /\ Fresh /\ Counted /\ Unthrown

-----------------------------------------------------------------------------
(* The arithmetic of tierOf and applyLog.                                  *)

LEMMA CountedRow ==
  ASSUME NEW row \in Tally!Row, NEW r \in Tally!Result
  PROVE  /\ Tally!Counted(row, r) \in Tally!Row
         /\ Tally!Counted(row, r).runs = row.runs + 1
         /\ Tally!Counted(row, r).pass \in {row.pass, row.pass + 1}
BY DEF Tally!Counted, Tally!Row

LEMMA AppliedLedger ==
  ASSUME NEW l \in Tally!Ledger, NEW s \in Skill, NEW r \in Tally!Result
  PROVE  /\ Tally!Applied(l, s, r) \in Tally!Ledger
         /\ Tally!Applied(l, s, r)[s] = Tally!Counted(l[s], r)
         /\ \A t \in Skill : t # s => Tally!Applied(l, s, r)[t] = l[t]
<1>1. l[s] \in Tally!Row
  BY DEF Tally!Ledger
<1>2. Tally!Counted(l[s], r) \in Tally!Row
  BY <1>1, CountedRow
<1> QED
  BY <1>2 DEF Tally!Applied, Tally!Ledger

\* One result never takes a row from auto to watch or back.
LEMMA TierStep ==
  ASSUME NEW row \in Tally!Row, NEW r \in Tally!Result
  PROVE  {Tally!Tier(row), Tally!Tier(Tally!Counted(row, r))} # {"auto", "watch"}
<1> DEFINE new == Tally!Counted(row, r)
<1>1. /\ row.runs \in Nat /\ row.pass \in Nat /\ new.runs = row.runs + 1
      /\ new.pass \in Nat /\ (new.pass = row.pass \/ new.pass = row.pass + 1)
  BY CountedRow DEF Tally!Row
<1> HIDE DEF new
<1>2. Tally!Tier(row) = "auto" => Tally!Tier(new) # "watch"
  BY <1>1 DEF Tally!Tier
<1>3. Tally!Tier(row) = "watch" => Tally!Tier(new) # "auto"
  BY <1>1 DEF Tally!Tier
<1>4. {Tally!Tier(row), Tally!Tier(new)} # {"auto", "watch"}
  BY <1>2, <1>3
<1> QED BY <1>4 DEF new

\* The third condition of the demotion flag follows from the other two.
LEMMA DemotedRow ==
  ASSUME NEW l \in Tally!Ledger, NEW s \in Skill, NEW r \in Tally!Result
  PROVE  Tally!Demoted(l, s, r) <=>
           /\ Tally!Tier(l[s]) # "watch"
           /\ Tally!Tier(Tally!Applied(l, s, r)[s]) = "watch"
<1>1. l[s] \in Tally!Row
  BY DEF Tally!Ledger
<1>2. l[s].runs \in Nat /\ Tally!Counted(l[s], r).runs = l[s].runs + 1
  BY <1>1, CountedRow DEF Tally!Row
<1>3. Tally!Tier(l[s]) # "watch" => Tally!Counted(l[s], r).runs \geq 10
  BY <1>2 DEF Tally!Tier
<1> QED
  BY <1>3, AppliedLedger DEF Tally!Demoted

-----------------------------------------------------------------------------
(* The invariant.                                                          *)

LEMMA InvInit == Init => IInv
<1> SUFFICES ASSUME Init PROVE IInv
  OBVIOUS
<1>1. ledger \in Tally!Ledger
  BY LedgerAssumption DEF Init, Tally!Init
<1>2. NoRows \in Tally!Ledger
  BY DEF NoRows, Tally!Ledger, Tally!Row
<1>3. TypeOK
  BY <1>1, <1>2 DEF Init, TypeOK, Lock!Init, Lock!TypeOK, Label
<1>4. Counted
  BY <1>1 DEF Init, Counted, Tally!Ledger, Tally!Row
<1> QED
  BY <1>3, <1>4 DEF Init, IInv, Exclusive, Inside, Fresh, Unthrown

LEMMA EndType ==
  ASSUME TypeOK, NEW p \in Proc, NEW l \in {"idle", "failed"}, End(p, l)
  PROVE  /\ pc' \in [Proc -> Label]
         /\ call' \in [Proc -> Call \cup {NoCall}]
         /\ \A q \in Proc : pc'[q] \notin {"idle", "failed"} => call'[q] \in Call
         /\ rows' \in [Proc -> Tally!Ledger]
         /\ demoted' \in [Proc -> BOOLEAN]
         /\ thrown' \in [Proc -> BOOLEAN]
<1>1. NoRows \in Tally!Ledger
  BY DEF NoRows, Tally!Ledger, Tally!Row
<1> QED
  BY <1>1 DEF End, Goto, TypeOK, Label

LEMMA InvStep == IInv /\ [Next]_vars => IInv'
<1> SUFFICES ASSUME IInv, [Next]_vars PROVE IInv'
  OBVIOUS
<1> USE DEF IInv
<1>1. ASSUME NEW p \in Proc, NEW c \in Call, Log(p, c) PROVE IInv'
  <2>1. TypeOK'
    BY <1>1 DEF Log, Goto, TypeOK, Lock!TypeOK, Label
  <2>2. Exclusive' /\ Fresh'
    BY <1>1 DEF Log, Goto, TypeOK, Exclusive, Inside, Fresh
  <2>3. Counted'
    BY <1>1 DEF Log, Goto, TypeOK, Counted
  <2>4. Unthrown'
    <3>1. ~thrown[p]
      BY <1>1 DEF Log, Unthrown
    <3> QED BY <1>1, <3>1 DEF Log, Goto, TypeOK, Unthrown
  <2> QED BY <2>1, <2>2, <2>3, <2>4
<1>2. ASSUME NEW p \in Proc, Acquire(p) PROVE IInv'
  <2>1. TypeOK'
    BY <1>2 DEF Acquire, Lock!Enter, Goto, TypeOK, Lock!TypeOK, Label
  <2>2. Exclusive'
    BY <1>2 DEF Acquire, Lock!Enter, Goto, TypeOK, Exclusive, Inside
  <2>3. Fresh' /\ Counted' /\ Unthrown'
    BY <1>2 DEF Acquire, Goto, TypeOK, Fresh, Counted, Unthrown
  <2> QED BY <2>1, <2>2, <2>3
<1>3. ASSUME NEW p \in Proc, AcquireFails(p) PROVE IInv'
  <2>1. TypeOK'
    BY <1>3, EndType DEF AcquireFails, TypeOK, Lock!TypeOK
  <2>2. Exclusive' /\ Fresh' /\ Counted' /\ Unthrown'
    BY <1>3 DEF AcquireFails, End, Goto, TypeOK, Exclusive, Inside, Fresh, Counted, Unthrown
  <2> QED BY <2>1, <2>2
<1>4. ASSUME NEW p \in Proc, Load(p) PROVE IInv'
  <2>1. call[p] \in Call /\ ledger \in Tally!Ledger
    BY <1>4 DEF Load, TypeOK
  <2>2. Tally!Applied(ledger, call[p].skill, call[p].result) \in Tally!Ledger
    BY <2>1, AppliedLedger DEF Call
  <2>3. Tally!Demoted(ledger, call[p].skill, call[p].result) \in BOOLEAN
    BY DEF Tally!Demoted
  <2>4. TypeOK'
    BY <1>4, <2>2, <2>3 DEF Load, Goto, TypeOK, Lock!TypeOK, Label
  <2>5. Exclusive'
    BY <1>4 DEF Load, Goto, TypeOK, Exclusive, Inside
  <2>6. Fresh'
    <3> SUFFICES ASSUME NEW q \in Proc, pc'[q] = "write"
                 PROVE  /\ rows'[q] = Tally!Applied(ledger', call'[q].skill, call'[q].result)
                        /\ demoted'[q] = Tally!Demoted(ledger', call'[q].skill, call'[q].result)
      BY DEF Fresh
    <3>1. CASE q = p
      BY <1>4, <3>1 DEF Load, TypeOK
    <3>2. CASE q # p
      BY <1>4, <3>2 DEF Load, Goto, TypeOK, Fresh
    <3> QED BY <3>1, <3>2
  <2>7. Counted' /\ Unthrown'
    BY <1>4 DEF Load, Goto, TypeOK, Counted, Unthrown
  <2> QED BY <2>4, <2>5, <2>6, <2>7
<1>5. ASSUME NEW p \in Proc, Replace(p) PROVE IInv'
  <2> DEFINE c == call[p]
  <2>1. c \in Call /\ ledger \in Tally!Ledger /\ c.skill \in Skill
    BY <1>5 DEF Replace, TypeOK, Call
  <2>2. ledger' = Tally!Applied(ledger, c.skill, c.result)
    BY <1>5 DEF Replace, Fresh
  <2>3. TypeOK'
    BY <1>5, <2>1, <2>2, AppliedLedger DEF Replace, Goto, TypeOK, Lock!TypeOK, Label, Call
  <2>4. Exclusive'
    BY <1>5 DEF Replace, Goto, TypeOK, Exclusive, Inside
  <2>5. \A q \in Proc : q # p => pc[q] \notin Inside
    BY <1>5 DEF Replace, Exclusive, Inside
  <2>6. Fresh'
    BY <1>5, <2>5 DEF Replace, Goto, TypeOK, Fresh, Inside
  <2>7. Counted'
    <3> SUFFICES ASSUME NEW s \in Skill
                 PROVE  /\ ledger'[s].runs \geq start'[s].runs + logged'[s]
                        /\ \A q \in Proc :
                             (pc'[q] \in {"fsync", "release"} /\ ~thrown'[q] /\ call'[q].skill = s)
                               => ledger'[s].runs \geq start'[s].runs + logged'[s] + 1
      BY DEF Counted
    <3>1. /\ ledger[s] \in Tally!Row /\ start[s] \in Tally!Row /\ logged[s] \in Nat
          /\ UNCHANGED <<start, logged, thrown, call>>
      BY <1>5 DEF Replace, TypeOK, Tally!Ledger
    <3>2. ledger[s].runs \geq start[s].runs + logged[s]
      BY DEF Counted
    <3>3. ledger'[s].runs = ledger[s].runs + (IF s = c.skill THEN 1 ELSE 0)
      <4>1. c.result \in Tally!Result
        BY <2>1 DEF Call
      <4>2. CASE s = c.skill
        BY <2>1, <2>2, <3>1, <4>1, <4>2, AppliedLedger, CountedRow
      <4>3. CASE s # c.skill
        BY <2>1, <2>2, <3>1, <4>1, <4>3, AppliedLedger DEF Tally!Row
      <4> QED BY <4>2, <4>3
    <3>4. \A q \in Proc : pc'[q] \in {"fsync", "release"} => q = p
      BY <1>5, <2>5 DEF Replace, Goto, TypeOK, Inside
    <3> QED
      BY <3>1, <3>2, <3>3, <3>4 DEF Tally!Row
  <2>8. Unthrown'
    BY <1>5 DEF Replace, Goto, TypeOK, Unthrown
  <2> QED BY <2>3, <2>4, <2>6, <2>7, <2>8
<1>6. ASSUME NEW p \in Proc, Sync(p) PROVE IInv'
  <2>1. TypeOK'
    BY <1>6 DEF Sync, Goto, TypeOK, Lock!TypeOK, Label
  <2>2. Exclusive' /\ Fresh' /\ Counted' /\ Unthrown'
    BY <1>6 DEF Sync, Goto, TypeOK, Exclusive, Inside, Fresh, Counted, Unthrown
  <2> QED BY <2>1, <2>2
<1>7. ASSUME NEW p \in Proc, WriteFails(p) PROVE IInv'
  <2>1. TypeOK'
    BY <1>7 DEF WriteFails, Goto, TypeOK, Lock!TypeOK, Label
  <2>2. Exclusive' /\ Fresh' /\ Unthrown'
    BY <1>7 DEF WriteFails, Goto, TypeOK, Exclusive, Inside, Fresh, Unthrown
  <2>3. Counted'
    BY <1>7 DEF WriteFails, Goto, TypeOK, Counted
  <2> QED BY <2>1, <2>2, <2>3
<1>8. ASSUME NEW p \in Proc, Release(p) PROVE IInv'
  <2>1. CASE thrown[p] /\ End(p, "failed") /\ UNCHANGED logged
    <3>1. TypeOK'
      BY <1>8, <2>1, EndType DEF Release, Lock!Exit, TypeOK, Lock!TypeOK
    <3>2. Exclusive'
      BY <1>8, <2>1 DEF Release, Lock!Exit, End, Goto, TypeOK, Exclusive, Inside
    <3>3. Fresh' /\ Counted' /\ Unthrown'
      BY <1>8, <2>1 DEF Release, End, Goto, TypeOK, Fresh, Counted, Unthrown
    <3> QED BY <3>1, <3>2, <3>3
  <2>2. CASE ~thrown[p] /\ Goto(p, "report")
             /\ logged' = [logged EXCEPT ![call[p].skill] = @ + 1]
             /\ UNCHANGED <<call, rows, demoted, thrown>>
    <3>1. call[p].skill \in Skill /\ pc[p] = "release"
      BY <1>8 DEF Release, TypeOK, Call
    <3>2. TypeOK'
      BY <1>8, <2>2, <3>1 DEF Release, Lock!Exit, Goto, TypeOK, Lock!TypeOK, Label
    <3>3. Exclusive'
      BY <1>8, <2>2 DEF Release, Lock!Exit, Goto, TypeOK, Exclusive, Inside
    <3>4. Fresh' /\ Unthrown'
      BY <1>8, <2>2 DEF Release, Goto, TypeOK, Fresh, Unthrown
    <3>5. \A q \in Proc : pc'[q] \notin {"fsync", "release"}
      BY <1>8, <2>2 DEF Release, Lock!Exit, Goto, TypeOK, Exclusive, Inside
    <3>6. \A s \in Skill : /\ start[s].runs \in Nat /\ logged[s] \in Nat
                           /\ logged'[s] = logged[s] + (IF s = call[p].skill THEN 1 ELSE 0)
      BY <2>2, <3>1 DEF TypeOK, Tally!Ledger, Tally!Row
    <3>7. Counted'
      BY <1>8, <2>2, <3>1, <3>5, <3>6 DEF Release, Counted
    <3> QED BY <3>2, <3>3, <3>4, <3>7
  <2> QED BY <1>8, <2>1, <2>2 DEF Release
<1>9. ASSUME NEW p \in Proc, Report(p) PROVE IInv'
  <2>1. TypeOK'
    BY <1>9, EndType DEF Report, TypeOK, Lock!TypeOK
  <2>2. Exclusive' /\ Fresh' /\ Counted' /\ Unthrown'
    BY <1>9 DEF Report, End, Goto, TypeOK, Exclusive, Inside, Fresh, Counted, Unthrown
  <2> QED BY <2>1, <2>2
<1>10. ASSUME NEW p \in Proc, Crash(p) PROVE IInv'
  <2>1. TypeOK'
    BY <1>10, EndType DEF Crash, TypeOK, Lock!TypeOK
  <2>2. Exclusive'
    BY <1>10 DEF Crash, End, Goto, TypeOK, Exclusive, Inside
  <2>3. Fresh' /\ Counted' /\ Unthrown'
    BY <1>10 DEF Crash, End, Goto, TypeOK, Fresh, Counted, Unthrown
  <2> QED BY <2>1, <2>2, <2>3
<1>11. ASSUME UNCHANGED vars PROVE IInv'
  BY <1>11 DEF vars, TypeOK, Lock!TypeOK, Exclusive, Fresh, Counted, Unthrown
<1> QED
  BY <1>1, <1>2, <1>3, <1>4, <1>5, <1>6, <1>7, <1>8, <1>9, <1>10, <1>11 DEF Next, Step

LEMMA Invariance == Spec => []IInv
BY InvInit, InvStep, PTL DEF Spec

-----------------------------------------------------------------------------
(* What follows.                                                           *)

\* Every variable keeps its type.
THEOREM TypeCorrect == Spec => []TypeOK
BY Invariance, PTL DEF IInv

\* However many sessions log at once, die or fail, every result whose
\* logResult has returned is counted in trust.tsv.
THEOREM NothingLost == Spec => []NoLostUpdate
<1>1. IInv => NoLostUpdate
  BY DEF IInv, Counted, NoLostUpdate
<1> QED
  BY <1>1, Invariance, PTL

\* A step that changes the file counts one result of one skill.
LEMMA OneResult ==
  ASSUME IInv, Next, ledger' # ledger
  PROVE  \E p \in Proc : /\ Replace(p) /\ call[p] \in Call
                        /\ ledger' = Tally!Applied(ledger, call[p].skill, call[p].result)
<1>1. PICK p \in Proc : Replace(p)
  BY DEF Next, Step, Log, Acquire, AcquireFails, Load, Sync, WriteFails, Release, Report, Crash
<1> QED
  BY <1>1 DEF IInv, TypeOK, Fresh, Replace

\* The concurrent program implements the tally of TrustTally: the file goes
\* through values each of which counts one more result than the one before.
THEOREM Implements == Spec => CountsOneByOne
<1>1. Init => Tally!Init
  BY DEF Init
<1>2. IInv /\ [Next]_vars => [Tally!Next]_ledger
  <2> SUFFICES ASSUME IInv, Next, ledger' # ledger PROVE Tally!Next
    BY DEF vars
  <2> QED
    BY OneResult DEF Tally!Next, Tally!Log, Call
<1> QED
  BY <1>1, <1>2, Invariance, PTL DEF Spec, CountsOneByOne, Tally!Spec

\* No single result takes a skill from watch to auto, or from auto to watch.
THEOREM GradualAutonomy == Spec => NoTierJump
<1>1. IInv /\ [Next]_vars =>
        [\A s \in Skill : {Tally!Tier(ledger[s]), Tally!Tier(ledger'[s])} # {"auto", "watch"}]_vars
  <2> SUFFICES ASSUME IInv, Next, NEW s \in Skill
               PROVE  {Tally!Tier(ledger[s]), Tally!Tier(ledger'[s])} # {"auto", "watch"}
    OBVIOUS
  <2>1. ledger \in Tally!Ledger /\ ledger[s] \in Tally!Row
    BY DEF IInv, TypeOK, Tally!Ledger
  <2>2. CASE ledger'[s] = ledger[s]
    BY <2>2
  <2>3. CASE ledger'[s] # ledger[s]
    <3>1. PICK p \in Proc : call[p] \in Call
                           /\ ledger' = Tally!Applied(ledger, call[p].skill, call[p].result)
      BY <2>3, OneResult
    <3>2. s = call[p].skill /\ ledger'[s] = Tally!Counted(ledger[s], call[p].result)
      BY <2>1, <2>3, <3>1, AppliedLedger DEF Call
    <3> QED
      BY <2>1, <3>1, <3>2, TierStep DEF Call
  <2> QED BY <2>2, <2>3
<1> QED
  BY <1>1, Invariance, PTL DEF Spec, NoTierJump

\* The alert that `trust.ts log` is about to print tells what its write has
\* done to the file, whatever other sessions did meanwhile.
THEOREM AlertsTrue == Spec => AlertsMatchLedger
<1> DEFINE A == \A p \in Proc : pc[p] = "write" /\ pc'[p] = "fsync" =>
                 LET s == call[p].skill
                 IN demoted[p] <=> /\ Tally!Tier(ledger[s]) # "watch"
                                   /\ Tally!Tier(ledger'[s]) = "watch"
<1>1. IInv /\ [Next]_vars => [A]_vars
  <2> SUFFICES ASSUME IInv, Next, NEW p \in Proc, pc[p] = "write", pc'[p] = "fsync"
               PROVE  demoted[p] <=> /\ Tally!Tier(ledger[call[p].skill]) # "watch"
                                     /\ Tally!Tier(ledger'[call[p].skill]) = "watch"
    OBVIOUS
  <2>1. Replace(p)
    BY DEF Next, Step, Log, Acquire, AcquireFails, Load, Replace, Sync, WriteFails, Release,
           Report, Crash, End, Goto, IInv, TypeOK
  <2>2. /\ ledger \in Tally!Ledger /\ call[p] \in Call
        /\ ledger' = Tally!Applied(ledger, call[p].skill, call[p].result)
        /\ demoted[p] = Tally!Demoted(ledger, call[p].skill, call[p].result)
    BY <2>1 DEF Replace, IInv, TypeOK, Fresh
  <2> QED
    BY <2>2, DemotedRow DEF Call
<1> QED
  BY <1>1, Invariance, PTL DEF Spec, AlertsMatchLedger
=============================================================================
