--------------------------- MODULE BoundedCommand ---------------------------
(***************************************************************************)
(* makeRunner of tools/structurizr-probe.ts: a command of the Docker client*)
(* in a process group of its own, under a wall-clock bound.  The promise   *)
(* settles on the close event: the child has exited, nobody holds its pipes*)
(* any more and all the output was read.  A descendant of the child may    *)
(* hold them, in its group or, after setsid, outside.  One descendant      *)
(* stands for all.  Time is not measured: a timer that is set may fire.    *)
(***************************************************************************)
EXTENDS Naturals

VARIABLES
  child,     \* the client: none, runs, gone
  exit,      \* its exit code: none, ok for 0, failed for another or null
  helper,    \* a descendant that holds the pipes: none, group, stray, gone
  unread,    \* whether there is output in the pipes
  timer,     \* off, set; term and kill: which signal was sent last
  group,     \* whose the child's group number is: ours, or a foreign one
  result,    \* of the command: none, ok, failed, late, or lost with the caller
  misfires   \* history: signals to a foreign group, of pending or of settled commands

command == <<child, exit, helper, unread, timer, group, result, misfires>>

CommandTypeOK ==
  /\ child \in {"none", "runs", "gone"} /\ exit \in {"none", "ok", "failed"}
  /\ helper \in {"none", "group", "stray", "gone"} /\ unread \in BOOLEAN
  /\ timer \in {"off", "set", "term", "kill"} /\ group \in {"ours", "foreign"}
  /\ result \in {"none", "ok", "failed", "late", "lost"}
  /\ misfires \subseteq {"pending", "settled"}

CommandInit ==
  /\ child = "none" /\ exit = "none" /\ helper = "none" /\ unread = FALSE
  /\ timer = "off" /\ group = "ours" /\ result = "none" /\ misfires = {}

TimedOut == timer \in {"term", "kill"}
Pending == child # "none" /\ result = "none"
Grouped == child = "runs" \/ helper = "group"
Holders == child = "runs" \/ helper \in {"group", "stray"}

-----------------------------------------------------------------------------
\* settle: both timers are cleared.
SettleArmed(r) ==    \* mutant: the timers stay set
  /\ result' = r
  /\ UNCHANGED timer
Settle(r) ==
  /\ result' = r
  /\ timer' = "off"

\* The next command, or the first.  A client that cannot be started is an error event.
Spawn ==
  /\ exit' = "none" /\ helper' = "none" /\ unread' = FALSE /\ group' = "ours"
  /\ \/ child' = "runs" /\ timer' = "set" /\ result' = "none"
     \/ child' = "none" /\ Settle("failed")
  /\ UNCHANGED misfires

Prints ==
  /\ Holders /\ ~unread
  /\ unread' = TRUE
  /\ UNCHANGED <<child, exit, helper, timer, group, result, misfires>>

\* child.stdout and child.stderr: data.
Reads ==
  /\ unread /\ Pending
  /\ unread' = FALSE
  /\ UNCHANGED <<child, exit, helper, timer, group, result, misfires>>

Forks ==
  /\ child = "runs" /\ helper = "none"
  /\ helper' \in {"group", "stray"}
  /\ UNCHANGED <<child, exit, unread, timer, group, result, misfires>>

\* By itself, or after SIGTERM, which the client may catch.
ChildExits(code) ==
  /\ child = "runs"
  /\ child' = "gone" /\ exit' = code
  /\ UNCHANGED <<helper, unread, timer, group, result, misfires>>

HelperEnds ==
  /\ helper \in {"group", "stray"}
  /\ helper' = "gone"
  /\ UNCHANGED <<child, exit, unread, timer, group, result, misfires>>

\* The number of a group without members is given to another process.
NumberReused ==
  /\ child = "gone" /\ ~Grouped /\ group = "ours"
  /\ group' = "foreign"
  /\ UNCHANGED <<child, exit, helper, unread, timer, result, misfires>>

-----------------------------------------------------------------------------
\* signalGroup: kill(-pid), and when there is no such group child.kill, which does
\* nothing to a child that has exited.
Signalled ==
  misfires' = IF group = "ours" THEN misfires
              ELSE misfires \union {IF Pending THEN "pending" ELSE "settled"}

TimerTerminates ==    \* mutant: no second timer
  /\ timer = "set"
  /\ timer' = "kill" /\ Signalled
  /\ UNCHANGED <<child, exit, helper, unread, group, result>>
TimerFires ==
  /\ timer = "set"
  /\ timer' = "term" /\ Signalled
  /\ UNCHANGED <<child, exit, helper, unread, group, result>>

KillFires ==
  /\ timer = "term"
  /\ timer' = "kill" /\ Signalled
  /\ child' = IF child = "runs" THEN "gone" ELSE child
  /\ exit' = IF child = "runs" THEN "failed" ELSE exit
  /\ helper' = IF helper = "group" THEN "gone" ELSE helper
  /\ UNCHANGED <<unread, group, result>>

\* The result is {code, timedOut}: late stands for a timed out one of any code.
Close ==
  /\ Pending /\ ~Holders /\ ~unread
  /\ Settle(IF TimedOut THEN "late" ELSE exit)
  /\ UNCHANGED <<child, exit, helper, unread, group, misfires>>

\* The caller dies and its timers with it.  The child is detached and lives on.
CallerDies ==
  /\ result' = IF result = "none" THEN "lost" ELSE result
  /\ timer' = "off"
  /\ UNCHANGED <<child, exit, helper, unread, group, misfires>>
=============================================================================
