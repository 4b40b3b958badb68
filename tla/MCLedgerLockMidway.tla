------------------------- MODULE MCLedgerLockMidway -------------------------
(***************************************************************************)
(* LedgerLock from the middle of the race of lock_race, over all its       *)
(* interleavings.  A process has died with its owner and claim in place;   *)
(* Displacer has checked that claim and is about to rename it; Quarantiner *)
(* has meanwhile replaced it with a claim of its own and is about to rename*)
(* the directory; another process is in its call to mkdir.  LedgerLock     *)
(* reaches this state from InitGone in two turns.                          *)
(***************************************************************************)
EXTENDS MCLedgerLock

CONSTANTS Displacer, Quarantiner, FirstDir

Poised == {Displacer, Quarantiner}
DeadOwner == <<Gone, 1>>
DeadClaim == <<Gone, 2>>
NewClaim == <<Quarantiner, 1>>

InitMidway ==
  /\ lockDir = FirstDir
  /\ owners = {DeadOwner} /\ claim = NewClaim
  /\ aged = {DeadOwner} /\ dirAged = FALSE /\ leaked = {}
  /\ pc = [p \in Proc |-> CASE p = Gone -> "dead"
                            [] p = Displacer -> "rename"
                            [] p = Quarantiner -> "quarantine"
                            [] OTHER -> "mkdir"]
  /\ k = [p \in Proc |-> CASE p = Displacer -> "displace"
                           [] p = Quarantiner -> "revalidate"
                           [] OTHER -> "none"]
  /\ own = [p \in Proc |-> None]
  /\ clm = [p \in Proc |-> IF p = Quarantiner THEN NewClaim ELSE None]
  /\ obs = [p \in Proc |->
              IF p \in Poised
              THEN [dir |-> FirstDir, owner |-> DeadOwner, claim |-> DeadClaim,
                    dead |-> DeadClaim]
              ELSE NoTarget]
  /\ cur = [p \in Proc |->
              CASE p = Displacer ->
                     [dir |-> FirstDir, owner |-> DeadOwner, claim |-> DeadClaim,
                      old |-> {"dir", "owner", "claim"}]
                [] p = Quarantiner ->
                     [dir |-> FirstDir, owner |-> DeadOwner, claim |-> NewClaim,
                      old |-> {"owner"}]
                [] OTHER -> NoObservation]
  /\ disp = [p \in Proc |-> None] /\ err = [p \in Proc |-> "none"]

\* Nobody dies or calls again, and no more time passes.
SpecMidway == InitMidway /\ [][\E p \in Proc : Step(p)]_vars
=============================================================================
