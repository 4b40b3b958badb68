--------------------------- MODULE CommandPromise ---------------------------
(***************************************************************************)
(* What a caller of a bounded command may rely on: commands run one after  *)
(* the other, each has one outcome, an overdue one never counts as a       *)
(* success, and nothing follows a command that did not succeed in time.    *)
(***************************************************************************)
EXTENDS Naturals

VARIABLES
  begun,     \* the number of commands begun
  overdue,   \* whether the bound of the current one has passed
  outcome    \* of the current one: none yet, ok, failed, late, or lost with the caller

vars == <<begun, overdue, outcome>>

Init == begun = 0 /\ overdue = FALSE /\ outcome = "none"

\* A command that cannot be started has failed at once.
Begin ==
  /\ begun = 0 \/ outcome = "ok"
  /\ begun' = begun + 1 /\ overdue' = FALSE /\ outcome' \in {"none", "failed"}

Expire ==
  /\ begun > 0 /\ outcome = "none"
  /\ overdue' = TRUE /\ UNCHANGED <<begun, outcome>>

Settle ==
  /\ begun > 0 /\ outcome = "none"
  /\ outcome' \in IF overdue THEN {"late"} ELSE {"ok", "failed"}
  /\ overdue' = FALSE /\ UNCHANGED begun

Lose ==
  /\ outcome = "none"
  /\ outcome' = "lost" /\ overdue' = FALSE /\ UNCHANGED begun

Next == Begin \/ Expire \/ Settle \/ Lose

Spec == Init /\ [][Next]_vars
=============================================================================
