---------------------------- MODULE LedgerMutex -----------------------------
(***************************************************************************)
(* What withLedgerLock promises its callers, without files: at most one    *)
(* process at a time runs its callback.  A process gives the lock up when  *)
(* it releases it or dies.                                                 *)
(***************************************************************************)
CONSTANT Proc
VARIABLE holder    \* the processes inside the lock: none or one

TypeOK == holder \in {{}} \cup {{p} : p \in Proc}

Init == holder = {}

Enter(p) == holder = {} /\ holder' = {p}
Exit(p) == holder = {p} /\ holder' = {}

Next == \E p \in Proc : Enter(p) \/ Exit(p)
Spec == Init /\ [][Next]_holder
=============================================================================
