----------------------------- MODULE LedgerLock -----------------------------
(***************************************************************************)
(* The advisory lock of tools/lib/ledger-lock.ts, system call by system    *)
(* call.  The lock is a directory at a fixed path; its owner is a file in  *)
(* it named after the owner's token, and a process that wants to initialise*)
(* it or to break a stale one first links a claim file into it.  Every     *)
(* operation names files by PATH, so each step acts on whatever directory  *)
(* stands at the lock path at that moment: the variables below describe    *)
(* only that directory, and a process remembers directories by inode.      *)
(*                                                                         *)
(* Temp files are private to their writer, and an fsync changes nothing    *)
(* another process can read: both are part of the step next to them.  A    *)
(* quarantined directory has a name of its own that no other process       *)
(* looks at, so what happens inside it is part of the step that renames it.*)
(***************************************************************************)
EXTENDS Naturals, FiniteSets

CONSTANTS
  Proc,   \* the operating-system processes that use the ledger
  Nonce,  \* what distinguishes the UUIDs one process draws
  Dir,    \* the inode numbers a lock directory can have
  None    \* no token, no directory

Token == Proc \X Nonce      \* an owner or claim record: its pid, its UUID
Author(t) == t[1]

ASSUME NoneAssumption == None \notin Dir /\ None \notin Token

VARIABLES
  lockDir,  \* inode of the directory at the lock path, None when absent
  owners,   \* the owner files in it, {} when there is no directory
  claim,    \* its stale-break.claim, None when there is none
  aged,     \* the records older than staleMs
  dirAged,  \* the directory's mtime is older than staleMs
  leaked,   \* quarantined directories a failed breaker left on disk
  pc, k,    \* where each process is; what follows its observation or removal
  own, clm, \* its owner token and its claim handle
  obs, cur, \* the observation it acts on; the one it makes or made last
  disp,     \* the claim it renamed aside
  err       \* the error its call carries

fs == <<lockDir, owners, claim, aged, dirAged, leaked>>
vars == <<fs, pc, k, own, clm, obs, cur, disp, err>>

\* The continuations of observeLock, of removeOwnedClaim, and the rest.
AfterObserve == {"empty", "linkInit", "installed", "ready", "stale", "displace",
                 "replace", "restore", "linkBreak", "revalidate", "ownerless"}
AfterRemove == {"unclaimed", "rmdir", "pause", "error"}
Label == AfterObserve \cup
         {"idle", "mkdir", "lstat", "readdir", "entries", "verifyInit", "install",
          "rmcheck", "rmunlink", "cleanup", "rmdir", "cs", "released", "pause",
          "parseclaim", "rename", "verifyBreak", "parseowner", "quarantine",
          "timeout", "error", "dead"}
Reason == {"none", "contended", "missing", "unexpected", "identity", "vanished"}

Observation == [dir: Dir \cup {None}, owner: Token \cup {None},
                claim: Token \cup {None}, old: SUBSET {"dir", "owner", "claim"}]
Target == [dir: Dir \cup {None}, owner: Token \cup {None},
           claim: Token \cup {None}, dead: Token \cup {None}]
NoObservation == [dir |-> None, owner |-> None, claim |-> None, old |-> {}]
NoTarget == [dir |-> None, owner |-> None, claim |-> None, dead |-> None]

Observing(p) == pc[p] \in {"lstat", "readdir", "entries"}

\* The owner file is not yet in place.
Initializing(p) ==
  \/ pc[p] \in {"empty", "linkInit", "verifyInit", "install"}
  \/ Observing(p) /\ k[p] \in {"empty", "linkInit"}

FilesOK ==
  /\ lockDir \in Dir \cup {None}
  /\ owners \subseteq Token
  /\ claim \in Token \cup {None}
  /\ aged \subseteq Token
  /\ dirAged \in BOOLEAN
  /\ leaked \subseteq Dir

ProcsOK ==
  /\ pc \in [Proc -> Label]
  /\ k \in [Proc -> AfterObserve \cup AfterRemove \cup {"none"}]
  /\ own \in [Proc -> Token \cup {None}]
  /\ clm \in [Proc -> Token \cup {None}]
  /\ obs \in [Proc -> Target]
  /\ cur \in [Proc -> Observation]
  /\ disp \in [Proc -> Token \cup {None}]
  /\ err \in [Proc -> Reason]
  /\ \A p \in Proc : Observing(p) => k[p] \in AfterObserve
  /\ \A p \in Proc : Initializing(p) => own[p] # None

TypeOK == FilesOK /\ ProcsOK

Init ==
  /\ lockDir = None /\ owners = {} /\ claim = None
  /\ aged = {} /\ dirAged = FALSE /\ leaked = {}
  /\ pc = [p \in Proc |-> "idle"] /\ k = [p \in Proc |-> "none"]
  /\ own = [p \in Proc |-> None] /\ clm = [p \in Proc |-> None]
  /\ obs = [p \in Proc |-> NoTarget] /\ cur = [p \in Proc |-> NoObservation]
  /\ disp = [p \in Proc |-> None] /\ err = [p \in Proc |-> "none"]

-----------------------------------------------------------------------------
(* Files.                                                                  *)

Remembered(q) == {own[q], clm[q], disp[q], obs[q].owner, obs[q].claim,
                  obs[q].dead, cur[q].owner, cur[q].claim}

\* randomUUID: a token nobody has seen.  Tokens are only compared, so which
\* unseen one is drawn makes no difference; Nonce bounds how many there are.
Unseen(p) == ({p} \X Nonce) \ (owners \cup {claim} \cup aged
                                \cup UNION {Remembered(q) : q \in Proc})
Drawn(p) == CHOOSE t \in Unseen(p) : TRUE

UnlinkOwner(t) ==
  /\ owners' = owners \ {t}
  /\ aged' = aged \ {t}
  /\ dirAged' = (dirAged /\ t \notin owners)

\* rmdir by path: takes away an empty directory, whoever made it, and fails
\* quietly (ENOENT, ENOTEMPTY) otherwise.
RemoveEmptyDir ==
  lockDir' = IF owners = {} /\ claim = None THEN None ELSE lockDir

(* Control.                                                                *)

Goto(p, l) == pc' = [pc EXCEPT ![p] = l]

\* observeLock begins: lstat of the lock path, continuing at c.
Observe(p, c) ==
  /\ Goto(p, "lstat")
  /\ k' = [k EXCEPT ![p] = c]
  /\ cur' = [cur EXCEPT ![p] = NoObservation]

\* removeOwnedClaim begins, continuing at c.
Remove(p, c) ==
  /\ Goto(p, "rmcheck")
  /\ k' = [k EXCEPT ![p] = c]

\* The call leaves for l with reason r and forgets what it read and held.
Leave(p, l, r) ==
  /\ Goto(p, l)
  /\ k' = [k EXCEPT ![p] = "none"]
  /\ own' = [own EXCEPT ![p] = None]
  /\ clm' = [clm EXCEPT ![p] = None]
  /\ obs' = [obs EXCEPT ![p] = NoTarget]
  /\ cur' = [cur EXCEPT ![p] = NoObservation]
  /\ disp' = [disp EXCEPT ![p] = None]
  /\ err' = [err EXCEPT ![p] = r]

\* initializeLock throws: its catch block runs next.
Abort(p, r) ==
  /\ Goto(p, "cleanup")
  /\ err' = [err EXCEPT ![p] = r]

-----------------------------------------------------------------------------
(* observeLock: lstat, readdir, lstat of each entry.  Anything may happen  *)
(* between them, so the inode may be one directory's and the entries       *)
(* another's, and a listed entry may be gone (ENOENT).                     *)

Lstat(p) ==
  /\ pc[p] = "lstat" /\ lockDir # None
  /\ Goto(p, "readdir")
  /\ cur' = [cur EXCEPT ![p] = [@ EXCEPT
                 !.dir = lockDir, !.old = IF dirAged THEN {"dir"} ELSE {}]]
  /\ UNCHANGED <<fs, k, own, clm, obs, disp, err>>

Readdir(p) ==
  /\ pc[p] = "readdir" /\ lockDir # None /\ Cardinality(owners) \leq 1
  /\ \E o \in owners \cup {None} :
       /\ owners = {o} \ {None}
       /\ cur' = [cur EXCEPT ![p] = [@ EXCEPT !.owner = o, !.claim = claim]]
  /\ Goto(p, IF owners = {} /\ claim = None THEN k[p] ELSE "entries")
  /\ UNCHANGED <<fs, k, own, clm, obs, disp, err>>

EntriesPresent(p) ==
  /\ cur[p].owner # None => cur[p].owner \in owners
  /\ cur[p].claim # None => claim # None

Entries(p) ==
  /\ pc[p] = "entries" /\ EntriesPresent(p)
  /\ LET c == IF cur[p].claim = None THEN None ELSE claim
         old == {e \in {"owner", "claim"} :
                   (IF e = "owner" THEN cur[p].owner ELSE c) \in aged}
     IN cur' = [cur EXCEPT ![p] = [@ EXCEPT !.claim = c,
                                            !.old = cur[p].old \cup old]]
  /\ Goto(p, k[p])
  /\ UNCHANGED <<fs, k, own, clm, obs, disp, err>>

\* ENOENT while observing, and what each caller makes of it.  Three callers of
\* breakStaleLock give up without removing the claim they published.
ObserveMissing(p) ==
  /\ \/ pc[p] \in {"lstat", "readdir"} /\ lockDir = None
     \/ pc[p] = "entries" /\ ~EntriesPresent(p)
  /\ \/ k[p] \in {"empty", "installed", "ready"} /\ Abort(p, "missing")
        /\ UNCHANGED <<k, own, clm, obs, cur, disp>>
     \/ k[p] = "linkInit" /\ Abort(p, "contended")
        /\ UNCHANGED <<k, own, clm, obs, cur, disp>>
     \/ k[p] = "stale" /\ Leave(p, "mkdir", "none")
     \/ k[p] = "stale" /\ Leave(p, "error", "missing")
     \/ k[p] \in {"linkBreak", "displace", "restore", "revalidate", "ownerless"}
        /\ Leave(p, "pause", "none")
     \/ k[p] = "replace" /\ Leave(p, "error", "vanished")
  /\ UNCHANGED fs

\* Two owner files: "unexpected contents".
ObserveUnexpected(p) ==
  /\ pc[p] = "readdir" /\ lockDir # None /\ Cardinality(owners) > 1
  /\ \/ k[p] \in {"empty", "linkInit", "installed", "ready"}
        /\ Abort(p, "unexpected")
        /\ UNCHANGED <<k, own, clm, obs, cur, disp>>
     \/ k[p] \in {"revalidate", "ownerless"} /\ Remove(p, "error")
        /\ err' = [err EXCEPT ![p] = "unexpected"]
        /\ UNCHANGED <<own, clm, obs, cur, disp>>
     \/ k[p] \in {"stale", "linkBreak", "displace", "restore", "replace"}
        /\ Leave(p, "error", "unexpected")
  /\ UNCHANGED fs

-----------------------------------------------------------------------------
(* removeOwnedClaim: read and verify the claim, then unlink it by path.    *)

\* The claim handle is gone once initializeLock or a breaker drops it.
RemoveDone(p) ==
  \/ /\ k[p] = "unclaimed"
     /\ Observe(p, "ready")
     /\ clm' = [clm EXCEPT ![p] = None]
     /\ UNCHANGED <<own, obs, disp, err>>
  \/ /\ k[p] = "rmdir"
     /\ Goto(p, "rmdir")
     /\ clm' = [clm EXCEPT ![p] = None]
     /\ UNCHANGED <<k, own, obs, cur, disp, err>>
  \/ k[p] = "pause" /\ Leave(p, "pause", "none")
  \/ k[p] = "error" /\ Leave(p, "error", err[p])

RemoveCheck(p) ==
  /\ pc[p] = "rmcheck" /\ claim = clm[p]
  /\ Goto(p, "rmunlink")
  /\ UNCHANGED <<fs, k, own, clm, obs, cur, disp, err>>

RemoveNothing(p) ==
  /\ pc[p] = "rmcheck" /\ claim = None
  /\ RemoveDone(p)
  /\ UNCHANGED fs

RemoveRefused(p) ==
  /\ pc[p] = "rmcheck" /\ claim \notin {None, clm[p]}
  /\ \/ k[p] = "unclaimed" /\ Abort(p, "identity")
        /\ UNCHANGED <<k, own, clm, obs, cur, disp>>
     \/ k[p] = "rmdir" /\ Goto(p, "rmdir")
        /\ err' = [err EXCEPT ![p] = "identity"]
        /\ UNCHANGED <<k, own, clm, obs, cur, disp>>
     \/ k[p] \in {"pause", "error"} /\ Leave(p, "error", "identity")
  /\ UNCHANGED fs

RemoveUnlink(p) ==
  /\ pc[p] = "rmunlink"
  /\ claim' = None
  /\ aged' = aged \ {claim}
  /\ dirAged' = (dirAged /\ claim = None)
  /\ RemoveDone(p)
  /\ UNCHANGED <<lockDir, owners, leaked>>

-----------------------------------------------------------------------------
(* initializeLock.                                                         *)

\* acquireLedgerLock is called; a process calls it as often as it likes.
Acquire(p) ==
  /\ pc[p] \in {"idle", "timeout", "error"}
  /\ Leave(p, "mkdir", "none")
  /\ UNCHANGED fs

MkdirWins(p) ==
  /\ pc[p] = "mkdir" /\ lockDir = None
  /\ Unseen(p) # {}
  /\ lockDir' \in Dir \ leaked
  /\ own' = [own EXCEPT ![p] = Drawn(p)]
  /\ dirAged' = FALSE
  /\ Observe(p, "empty")
  /\ UNCHANGED <<owners, claim, aged, leaked, clm, obs, disp, err>>

MkdirAdopts(p) ==    \* mutant: EEXIST taken for success
  /\ pc[p] = "mkdir" /\ lockDir # None
  /\ Observe(p, "empty")
  /\ UNCHANGED <<fs, own, clm, obs, disp, err>>
MkdirExists(p) ==
  /\ pc[p] = "mkdir" /\ lockDir # None
  /\ Observe(p, "stale")
  /\ UNCHANGED <<fs, own, clm, obs, disp, err>>

Empty(p) ==
  /\ pc[p] = "empty"
  /\ IF cur[p].owner = None /\ cur[p].claim = None
     THEN /\ obs' = [obs EXCEPT ![p].dir = cur[p].dir]
          /\ Observe(p, "linkInit")
          /\ UNCHANGED err
     ELSE Abort(p, "contended") /\ UNCHANGED <<obs, k, cur>>
  /\ UNCHANGED <<fs, own, clm, disp>>

\* publishClaim: the directory is still the one observed, and link(2) finds it
\* and no claim in it.
CanLinkOver(p) ==    \* mutant: the claim is renamed, not linked, into place
  /\ cur[p].dir = obs[p].dir
  /\ lockDir # None
CanLink(p) ==
  /\ cur[p].dir = obs[p].dir
  /\ lockDir # None
  /\ claim = None

Link(p) ==
  /\ Unseen(p) # {}
  /\ claim' = Drawn(p)
  /\ clm' = [clm EXCEPT ![p] = Drawn(p)]
  /\ dirAged' = FALSE
  /\ UNCHANGED <<lockDir, owners, aged, leaked, k, own, obs, cur, disp, err>>

LinkInit(p) ==
  /\ pc[p] = "linkInit"
  /\ \/ CanLink(p) /\ Link(p) /\ Goto(p, "verifyInit")
     \/ ~CanLink(p) /\ Abort(p, "contended")
        /\ UNCHANGED <<fs, k, own, clm, obs, cur, disp>>

\* publishClaim reads its claim back before it hands it out.
VerifyInit(p) ==
  /\ pc[p] = "verifyInit"
  /\ IF claim = clm[p]
     THEN Goto(p, "install") /\ UNCHANGED <<clm, err>>
     ELSE /\ Abort(p, IF claim = None THEN "contended" ELSE "identity")
          /\ clm' = [clm EXCEPT ![p] = None]
  /\ UNCHANGED <<fs, k, own, obs, cur, disp>>

\* The owner file is renamed into whatever directory is at the lock path.
Install(p) ==
  /\ pc[p] = "install"
  /\ \/ /\ lockDir # None
        /\ owners' = owners \cup {own[p]}
        /\ dirAged' = FALSE
        /\ Observe(p, "installed")
        /\ UNCHANGED <<lockDir, claim, aged, leaked, err>>
     \/ lockDir = None /\ Abort(p, "missing") /\ UNCHANGED <<fs, k, cur>>
  /\ UNCHANGED <<own, clm, obs, disp>>

\* The owner file seen is its own and there is a claim; both records are read
\* again before the claim is removed.
Installed(p) ==
  /\ pc[p] = "installed"
  /\ IF cur[p].owner # own[p] \/ cur[p].claim = None
     THEN Abort(p, "contended") /\ UNCHANGED k
     ELSE IF own[p] \notin owners \/ claim = None
     THEN Abort(p, "missing") /\ UNCHANGED k
     ELSE IF claim # clm[p]
     THEN Abort(p, "contended") /\ UNCHANGED k
     ELSE Remove(p, "unclaimed") /\ UNCHANGED err
  /\ UNCHANGED <<fs, own, clm, obs, cur, disp>>

Ready(p) ==
  /\ pc[p] = "ready"
  /\ IF cur[p].owner = own[p] /\ cur[p].claim = None
     THEN /\ Goto(p, "cs")
          /\ k' = [k EXCEPT ![p] = "none"]
          /\ obs' = [obs EXCEPT ![p] = NoTarget]
          /\ cur' = [cur EXCEPT ![p] = NoObservation]
          /\ UNCHANGED err
     ELSE Abort(p, "contended") /\ UNCHANGED <<k, obs, cur>>
  /\ UNCHANGED <<fs, own, clm, disp>>

\* cleanupInitialization: its own owner file, its claim if it has one, the
\* directory if that left it empty; then the error decides what acquire does.
Cleanup(p) ==
  /\ pc[p] = "cleanup"
  /\ UnlinkOwner(own[p])
  /\ IF clm[p] # None
     THEN Remove(p, "rmdir")
     ELSE Goto(p, "rmdir") /\ UNCHANGED k
  /\ UNCHANGED <<lockDir, claim, leaked, own, clm, obs, cur, disp, err>>

CleanupRmdir(p) ==
  /\ pc[p] = "rmdir"
  /\ RemoveEmptyDir
  /\ \/ /\ err[p] = "contended"
        /\ Observe(p, "stale")
        /\ own' = [own EXCEPT ![p] = None]
        /\ clm' = [clm EXCEPT ![p] = None]
        /\ obs' = [obs EXCEPT ![p] = NoTarget]
        /\ err' = [err EXCEPT ![p] = "none"]
        /\ UNCHANGED disp
     \/ err[p] = "missing" /\ Leave(p, "mkdir", "none")
     \/ err[p] \in {"missing", "unexpected", "identity"} /\ Leave(p, "error", err[p])
  /\ UNCHANGED <<owners, claim, aged, dirAged, leaked>>

-----------------------------------------------------------------------------
(* breakStaleLock and replaceAbandonedClaim.                               *)

CanBeClaimedIfRecorded(o) ==    \* mutant: a directory without records is not stale
  \/ o.claim # None /\ "claim" \in o.old
  \/ o.owner # None /\ "owner" \in o.old
CanBeClaimed(o) ==
  \/ o.claim # None /\ "claim" \in o.old
  \/ (IF o.owner # None THEN "owner" ELSE "dir") \in o.old

Stale(p) ==
  /\ pc[p] = "stale"
  /\ LET o == cur[p]
         seen == [dir |-> o.dir, owner |-> o.owner, claim |-> o.claim, dead |-> None]
     IN \/ /\ CanBeClaimed(o) /\ o.claim = None
           /\ obs' = [obs EXCEPT ![p] = seen]
           /\ Observe(p, "linkBreak")
           /\ UNCHANGED <<own, clm, disp, err>>
        \/ /\ CanBeClaimed(o) /\ o.claim # None /\ "claim" \in o.old
           /\ obs' = [obs EXCEPT ![p] = seen]
           /\ Goto(p, "parseclaim")
           /\ UNCHANGED <<k, own, clm, cur, disp, err>>
        \/ /\ ~CanBeClaimed(o) \/ (o.claim # None /\ "claim" \notin o.old)
           /\ Leave(p, "pause", "none")
  /\ UNCHANGED fs

\* process.kill(pid, 0) answers ESRCH.
Dead(q) == pc[q] = "dead"

\* What may be broken: a record older than staleMs of a process that is gone.
AbandonedIfAged(t) == t \in aged             \* mutant: the pid is not probed
Abandoned(t) == t \in aged /\ Dead(Author(t))

\* The aged claim is read by path with no handler around the read: if it is
\* gone, the ENOENT leaves acquireLedgerLock.
ParseClaim(p) ==
  /\ pc[p] = "parseclaim"
  /\ IF claim = None
     THEN Leave(p, "error", "vanished")
     ELSE IF Abandoned(claim)
     THEN /\ obs' = [obs EXCEPT ![p].dead = claim]
          /\ Observe(p, "displace")
          /\ UNCHANGED <<own, clm, disp, err>>
     ELSE Leave(p, "pause", "none")
  /\ UNCHANGED fs

Displace(p) ==
  /\ pc[p] = "displace"
  /\ IF /\ cur[p].dir = obs[p].dir
        /\ cur[p].claim # None /\ cur[p].claim = obs[p].claim
        /\ claim = obs[p].dead
     THEN Goto(p, "rename") /\ UNCHANGED <<k, own, clm, obs, cur, disp, err>>
     ELSE Leave(p, "pause", "none")
  /\ UNCHANGED fs

\* rename(2) of the claim path: it takes whatever claim is there now.
Rename(p) ==
  /\ pc[p] = "rename"
  /\ \/ /\ claim # None
        /\ disp' = [disp EXCEPT ![p] = claim]
        /\ claim' = None
        /\ dirAged' = FALSE
        /\ Observe(p, IF claim = obs[p].claim /\ claim = obs[p].dead
                      THEN "replace" ELSE "restore")
        /\ UNCHANGED <<lockDir, owners, aged, leaked, own, clm, obs, err>>
     \/ claim = None /\ Leave(p, "pause", "none") /\ UNCHANGED fs

\* restoreDisplacedClaim, when the renamed claim is not the abandoned one.
Restore(p) ==
  /\ pc[p] = "restore"
  /\ IF CanLink(p) /\ cur[p].claim = None
     THEN claim' = disp[p] /\ dirAged' = FALSE /\ UNCHANGED aged
     ELSE aged' = aged \ {disp[p]} /\ UNCHANGED <<claim, dirAged>>
  /\ Leave(p, "pause", "none")
  /\ UNCHANGED <<lockDir, owners, leaked>>

Replace(p) ==
  /\ pc[p] = "replace"
  /\ IF cur[p].dir = obs[p].dir /\ cur[p].claim = None
     THEN /\ Observe(p, "linkBreak")
          /\ disp' = [disp EXCEPT ![p] = None]
          /\ UNCHANGED <<own, clm, obs, err>>
     ELSE Leave(p, "pause", "none")
  /\ aged' = aged \ {disp[p]}
  /\ UNCHANGED <<lockDir, owners, claim, dirAged, leaked>>

LinkBreak(p) ==
  /\ pc[p] = "linkBreak"
  /\ \/ CanLink(p) /\ Link(p) /\ Goto(p, "verifyBreak")
     \/ ~CanLink(p) /\ Leave(p, "pause", "none") /\ UNCHANGED fs

VerifyBreak(p) ==
  /\ pc[p] = "verifyBreak"
  /\ IF claim = clm[p]
     THEN Observe(p, "revalidate") /\ UNCHANGED <<own, clm, obs, disp, err>>
     ELSE IF claim = None
     THEN Leave(p, "pause", "none")
     ELSE Leave(p, "error", "identity")
  /\ UNCHANGED fs

\* Under its claim, the breaker looks again.
Revalidate(p) ==
  /\ pc[p] = "revalidate"
  /\ \/ /\ cur[p].dir # obs[p].dir \/ cur[p].claim = None
        /\ Remove(p, "pause")
        /\ UNCHANGED <<own, clm, obs, cur, disp, err>>
     \/ /\ cur[p].dir = obs[p].dir /\ cur[p].claim # None
        /\ \/ /\ claim = clm[p]
              /\ Goto(p, IF cur[p].owner = None THEN "quarantine" ELSE "parseowner")
              /\ UNCHANGED <<k, own, clm, obs, cur, disp, err>>
           \/ claim = None /\ Leave(p, "pause", "none")
           \/ claim \notin {None, clm[p]} /\ Leave(p, "error", "identity")
  /\ UNCHANGED fs

\* Only the owner it first saw, aged and of a process that is gone, is broken.
ParseOwner(p) ==
  /\ pc[p] = "parseowner"
  /\ LET o == cur[p].owner
     IN IF o \notin owners
        THEN Observe(p, "ownerless")
        ELSE IF o = obs[p].owner /\ Abandoned(o)
        THEN Goto(p, "quarantine") /\ UNCHANGED <<k, cur>>
        ELSE Remove(p, "pause") /\ UNCHANGED cur
  /\ UNCHANGED <<fs, own, clm, obs, disp, err>>

\* The owner released meanwhile: the directory is ownerless under its claim.
Ownerless(p) ==
  /\ pc[p] = "ownerless"
  /\ \/ cur[p].claim # None /\ claim = None /\ Leave(p, "pause", "none")
     \/ /\ cur[p].claim = None \/ claim # None
        /\ IF /\ cur[p].dir = obs[p].dir
              /\ cur[p].owner = None /\ cur[p].claim # None
              /\ claim = clm[p]
           THEN Goto(p, "quarantine") /\ UNCHANGED k
           ELSE Remove(p, "pause")
        /\ UNCHANGED <<own, clm, obs, cur, disp, err>>
  /\ UNCHANGED fs

\* What the quarantine must hold: the directory, claim and owner last observed.
AsObservedByInode(p) ==    \* mutant: the files are not compared again
  lockDir = cur[p].dir
AsObserved(p) ==
  /\ lockDir = cur[p].dir /\ claim = clm[p]
  /\ owners = {cur[p].owner} \ {None}

\* rename(2) of the lock path, then the checks inside the quarantine.  When
\* they pass the directory is removed; when not, it stays on disk for good.
Quarantine(p) ==
  /\ pc[p] = "quarantine"
  /\ \/ /\ lockDir = None
        /\ Remove(p, "pause")
        /\ UNCHANGED <<fs, own, clm, obs, cur, disp, err>>
     \/ /\ lockDir # None
        /\ lockDir' = None /\ owners' = {} /\ claim' = None
        /\ aged' = aged \ (owners \cup {claim})
        /\ dirAged' = FALSE
        /\ IF AsObserved(p)
           THEN Leave(p, "mkdir", "none") /\ UNCHANGED leaked
           ELSE Leave(p, "error", "identity") /\ leaked' = leaked \cup {lockDir}

\* The deadline: sleep and try again, or LedgerLockTimeoutError.
Retry(p) ==
  /\ pc[p] = "pause" /\ Leave(p, "mkdir", "none") /\ UNCHANGED fs

Timeout(p) ==
  /\ pc[p] = "pause" /\ Leave(p, "timeout", "none") /\ UNCHANGED fs

-----------------------------------------------------------------------------
(* releaseOwnedLock, after the callback of withLedgerLock.                 *)

Release(p) ==
  /\ pc[p] = "cs"
  /\ UnlinkOwner(own[p])
  /\ IF own[p] \in owners
     THEN Goto(p, "released") /\ UNCHANGED <<k, own, clm, obs, cur, disp, err>>
     ELSE Leave(p, "idle", "none")
  /\ UNCHANGED <<lockDir, claim, leaked>>

ReleaseRmdir(p) ==
  /\ pc[p] = "released"
  /\ RemoveEmptyDir
  /\ Leave(p, "idle", "none")
  /\ UNCHANGED <<owners, claim, aged, dirAged, leaked>>

-----------------------------------------------------------------------------
(* The environment: time passes, processes die (or simply exit).           *)

Elapse ==
  /\ lockDir # None
  /\ aged' = (owners \cup {claim} \cup {disp[p] : p \in Proc}) \ {None}
  /\ dirAged' = TRUE
  /\ UNCHANGED <<lockDir, owners, claim, leaked, pc, k, own, clm, obs, cur, disp, err>>

Crash(p) ==
  /\ pc[p] # "dead"
  /\ Leave(p, "dead", "none")
  /\ UNCHANGED fs

Step(p) ==
  \/ Lstat(p) \/ Readdir(p) \/ Entries(p)
  \/ ObserveMissing(p) \/ ObserveUnexpected(p)
  \/ RemoveCheck(p) \/ RemoveNothing(p) \/ RemoveRefused(p) \/ RemoveUnlink(p)
  \/ MkdirWins(p) \/ MkdirExists(p) \/ Empty(p) \/ LinkInit(p) \/ VerifyInit(p)
  \/ Install(p) \/ Installed(p) \/ Ready(p) \/ Cleanup(p) \/ CleanupRmdir(p)
  \/ Stale(p) \/ ParseClaim(p) \/ Displace(p) \/ Rename(p) \/ Restore(p)
  \/ Replace(p) \/ LinkBreak(p) \/ VerifyBreak(p) \/ Revalidate(p)
  \/ ParseOwner(p) \/ Ownerless(p) \/ Quarantine(p) \/ Retry(p)
  \/ Release(p) \/ ReleaseRmdir(p)

Next ==
  \/ \E p \in Proc : Step(p) \/ Acquire(p) \/ Timeout(p) \/ Crash(p)
  \/ Elapse

Spec == Init /\ [][Next]_vars

-----------------------------------------------------------------------------
(* Correctness.                                                            *)

Live == {p \in Proc : ~Dead(p)}

\* The lock serialises its holders: two processes that are alive are never
\* both past acquireLedgerLock and before release.
MutualExclusion ==
  \A p, q \in Live : pc[p] = "cs" /\ pc[q] = "cs" => p = q

\* From the moment initializeLock has renamed its owner file into place until
\* release or cleanup unlinks it, the file of a live process is in the
\* directory at the lock path: no breaker carries it off.
HasOwner(p) ==
  \/ pc[p] \in {"installed", "ready", "cs"}
  \/ Observing(p) /\ k[p] \in {"installed", "ready"}
  \/ pc[p] \in {"rmcheck", "rmunlink"} /\ k[p] = "unclaimed"
OwnerFilePresent == \A p \in Live : HasOwner(p) => own[p] \in owners

\* A process that holds a claim handle holds the claim.
ClaimKept == \A p \in Proc : clm[p] # None => claim = clm[p]

\* The checks inside a quarantine always pass, so no directory is left behind.
NoLeak == leaked = {}

\* When the lock is lost all the same, it shows: two live processes hold it, or
\* a live owner's file is carried off, only after some breaker has found in its
\* quarantine what it did not expect, failed, and left that directory on disk.
LossShows == leaked = {} => MutualExclusion /\ OwnerFilePresent

\* The owner file of a dead process goes only when it is older than staleMs.
BrokenOnlyWhenStale ==
  [][\A t \in owners \ owners' : Dead(Author(t)) => t \in aged]_vars

\* A live process that is back in acquireLedgerLock's loop, or out of it, has
\* left no claim of its own behind: such a claim stops every other writer, for
\* only the claim of a dead process can be replaced.
ClaimRetracted ==
  \A p \in Live : pc[p] \in {"idle", "pause", "timeout", "error"} =>
     claim = None \/ Author(claim) # p

\* acquireLedgerLock never fails because a file that breakers compete for went
\* away under it: contention ends in the lock or in LedgerLockTimeoutError.
NoneVanished == \A p \in Proc : err[p] # "vanished"

\* No process dies between publishing a claim and removing it.
NoDeadClaim == claim # None => ~Dead(Author(claim))
SpecNoDeadClaim == Init /\ [][Next /\ NoDeadClaim']_vars

\* The lock implements the mutex its callers rely on.
Mutex == INSTANCE LedgerMutex WITH holder <- {p \in Proc : pc[p] = "cs"}
Serialized == Mutex!Spec
=============================================================================
