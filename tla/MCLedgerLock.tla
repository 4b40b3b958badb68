---------------------------- MODULE MCLedgerLock ----------------------------
(***************************************************************************)
(* Instances of LedgerLock for TLC.                                        *)
(***************************************************************************)
EXTENDS LedgerLockInv, TLC

Symmetry == Permutations(Proc) \cup Permutations(Dir)

\* Calls are short against staleMs: time enough for a record to age passes only
\* when no live process is initialising, holding or breaking the lock.
Prompt == \A p \in Live : own[p] = None /\ clm[p] = None

NextPrompt ==
  \/ \E p \in Proc : Step(p) \/ Acquire(p) \/ Timeout(p) \/ Crash(p)
  \/ Prompt /\ Elapse

SpecPrompt == Init /\ [][NextPrompt /\ NoDeadClaim']_vars

\* A live process keeps running, and calls again; time goes by.
Fairness ==
  /\ \A p \in Proc : WF_vars(Step(p)) /\ WF_vars(Acquire(p))
  /\ WF_vars(Prompt /\ Elapse)
SpecRecovery == Init /\ [][NextPrompt]_vars /\ Fairness

\* Whatever the others left at the lock path when they died, the last live
\* process gets the lock, and gets it again.
Recovery ==
  \A p \in Proc :
    <>[](\A q \in Proc : Dead(q) <=> q # p) => []<>(pc[p] = "cs")

-----------------------------------------------------------------------------
(* A process died in initializeLock after it had renamed its owner file    *)
(* into place and before it removed its claim, longer than staleMs ago.    *)

CONSTANT Gone    \* that process

InitGone ==
  /\ lockDir \in Dir
  /\ owners = {<<Gone, 1>>} /\ claim = <<Gone, 2>>
  /\ aged = {<<Gone, 1>>, <<Gone, 2>>} /\ dirAged = TRUE /\ leaked = {}
  /\ pc = [p \in Proc |-> IF p = Gone THEN "dead" ELSE "idle"]
  /\ k = [p \in Proc |-> "none"]
  /\ own = [p \in Proc |-> None] /\ clm = [p \in Proc |-> None]
  /\ obs = [p \in Proc |-> NoTarget] /\ cur = [p \in Proc |-> NoObservation]
  /\ disp = [p \in Proc |-> None] /\ err = [p \in Proc |-> "none"]

\* The other processes break it, none of them dying or timing out.
SpecGone == InitGone /\ [][\E p \in Proc : Step(p) \/ Acquire(p)]_vars
SymmetryGone == Permutations(Proc \ {Gone}) \cup Permutations(Dir)
=============================================================================
