------------------------- MODULE MCLedgerLockTurns -------------------------
(***************************************************************************)
(* LedgerLock under few context switches.  What three breakers do to a lock*)
(* a dead process left with its claim is too deep for TLC over all         *)
(* interleavings; nearly all of the depth is steps a process takes without *)
(* another interfering.  Here the breakers take turns: one runs, for as    *)
(* long as it likes, then another, at most MaxTurns times in all.  A turn  *)
(* may begin and end at any system call, and every step is LedgerLock's.   *)
(***************************************************************************)
EXTENDS MCLedgerLock

CONSTANTS Breakers,   \* the processes that take turns: all but Gone
          MaxTurns    \* the bound on the turns
VARIABLES turn,       \* whose turn it is
          turns       \* how many there have been, this one included

InitTurns == InitGone /\ turn \in Breakers /\ turns = 1

NextTurns ==
  \E p \in Breakers :
    /\ p = turn \/ turns < MaxTurns
    /\ turn' = p
    /\ turns' = IF p = turn THEN turns ELSE turns + 1
    /\ Step(p) \/ (pc[p] \in {"idle", "error"} /\ Acquire(p))

SpecTurns == InitTurns /\ [][NextTurns]_<<vars, turn, turns>>
SymmetryTurns == Permutations(Breakers) \cup Permutations(Dir)
=============================================================================
