----------------------------- MODULE LedgerLockInv -----------------------------
(***************************************************************************)
(* The inductive invariants of LedgerLock: IInv, behind mutual exclusion,  *)
(* when no process dies with a claim of its own at the lock path; and      *)
(* LossInv, behind LossShows, when processes die anywhere.                 *)
(*                                                                         *)
(* A claim handle is then the claim: only its holder adds an owner file,   *)
(* only its holder renames the directory, and the directory stays while it *)
(* is there.  So what a breaker saw under its claim can only shrink, down  *)
(* to the file of a dead process.  And a process whose observation showed  *)
(* its own owner file alone stays the only owner: a file that is installed *)
(* beside it is of a process that holds the claim, has not yet looked, and *)
(* is going to find two files and take its own away.                       *)
(***************************************************************************)
EXTENDS LedgerLock

\* Process p has reached one of the places in S or is observing towards it.
Toward(p, S) == pc[p] \in S \/ (Observing(p) /\ k[p] \in S)

\* Where a process has a claim of its own.
Claiming(p) ==
  \/ Toward(p, {"installed", "revalidate", "ownerless"})
  \/ pc[p] \in {"verifyInit", "install", "verifyBreak", "parseowner", "quarantine",
                "rmcheck", "rmunlink"}

\* Where a breaker has read the directory under its claim.
Breaking(p) ==
  \/ pc[p] = "entries" /\ k[p] \in {"revalidate", "ownerless"}
  \/ pc[p] \in {"revalidate", "ownerless", "parseowner", "quarantine"}

\* Where an owner has seen its file alone in the directory, ...
Settled(p) ==
  \/ pc[p] = "entries" /\ k[p] = "installed"
  \/ pc[p] = "installed"
  \/ pc[p] \in {"rmcheck", "rmunlink"} /\ k[p] = "unclaimed"
  \/ Toward(p, {"ready"})
  \/ pc[p] = "cs"

\* ... and where it has not looked yet, or has looked and withdraws.
Unsettled(p) ==
  \/ pc[p] \in {"lstat", "readdir"} /\ k[p] = "installed"
  \/ pc[p] = "cleanup" /\ clm[p] # None

NoDirectory == lockDir = None => owners = {} /\ claim = None

Names(p) ==
  /\ own[p] # None => Author(own[p]) = p
  /\ clm[p] # None => Author(clm[p]) = p

Claims(p) ==
  /\ clm[p] # None => claim = clm[p]
  /\ Claiming(p) => clm[p] # None

\* Without the claim of a dead process nobody starts to displace one.
NoDisplacing(p) == ~Toward(p, {"displace", "replace", "restore"}) /\ pc[p] # "rename"

Owns(p) == HasOwner(p) => own[p] \in owners

Breaks(p) ==
  /\ Breaking(p) => owners \subseteq {cur[p].owner}
  /\ Breaking(p) \/ (pc[p] = "readdir" /\ k[p] \in {"revalidate", "ownerless"})
       => cur[p].dir = lockDir
  /\ pc[p] = "quarantine" =>
       /\ owners = {cur[p].owner} \ {None}
       /\ cur[p].owner # None => Dead(Author(cur[p].owner))

Sole(p) ==
  Settled(p) =>
    \A t \in owners \ {own[p]} : Unsettled(Author(t)) /\ own[Author(t)] = t

Local(p) == Names(p) /\ Claims(p) /\ NoDisplacing(p) /\ Owns(p) /\ Breaks(p) /\ Sole(p)

IInv ==
  /\ TypeOK
  /\ NoDeadClaim
  /\ NoLeak
  /\ NoDirectory
  /\ \A p \in Proc : Local(p)

-----------------------------------------------------------------------------
(* What is left when a process may die with a claim in place.  Claims then *)
(* protect nothing: a handle may be of a claim that somebody renamed away. *)
(* But an owner still settles only where it has found its file alone, and  *)
(* whoever installs one beside it later finds two.  Its file can only be   *)
(* carried off with the directory, and the breaker that does so expects no *)
(* file there, or that of a dead process: it leaves the directory on disk. *)

\* Where a process that installed an owner file beside another's has not yet
\* looked, or withdraws; or it has died and left its file behind.
Late(p) ==
  \/ pc[p] \in {"lstat", "readdir"} /\ k[p] = "installed"
  \/ pc[p] \in {"cleanup", "dead"}

\* A file beside that of a settled owner is of a process that comes late.
Settles(p) ==
  Settled(p) =>
    \A t \in owners \ {own[p]} :
      Late(Author(t)) /\ (Dead(Author(t)) \/ own[Author(t)] = t)

\* A breaker is about to carry off no owner file, or that of a dead process.
BreaksDead(p) ==
  pc[p] = "quarantine" /\ cur[p].owner # None => Dead(Author(cur[p].owner))

OwnName(p) == own[p] # None => Author(own[p]) = p

LossLocal(p) == OwnName(p) /\ Owns(p) /\ BreaksDead(p) /\ Settles(p)

LossInv ==
  /\ TypeOK
  /\ leaked = {} => NoDirectory /\ \A p \in Proc : LossLocal(p)
=============================================================================
