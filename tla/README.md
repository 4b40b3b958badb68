# Formal models of the harness tools

TLA+ models of the parts of this repository that keep state several processes share or
that act over files, containers and branches which others change meanwhile: the ledger
lock and the trust ledger under it (`tools/lib/ledger-lock.ts`, `tools/trust.ts`), the
reviewer verdict ledger (`tools/record-verdict.ts`), the Structurizr pipeline
(`tools/structurizr-{render,fs,docker,source,verify,probe}.ts`), the guard extensions of an
agent's process (`extensions/`) and the standing goals (`tools/verify-goals.ts`). TLC checks
them on small instances; TLAPS proves what matters most for every instance.

## The system

The repository is a development harness: recipes (`justfile.opsx`) run small Bun
programs (`tools/`) by hand or by an agent, and extensions (`extensions/`) run inside the
agent's process. Worktrees of one repository share a `memory/` directory, so several
processes may run the same tool over the same files at the same time; any of them may be
killed at any point. There is no server and no message passing: the components interact
through files, exit codes and one environment variable.

| Component | State it keeps | Operations | What is hard, and what makes it correct |
| --- | --- | --- | --- |
| Ledger lock, `tools/lib/ledger-lock.ts` | a directory `.<file>.lock` with an owner file and a claim file | `acquireLedgerLock`, `release`, `withLedgerLock`, `atomicWriteFileSync` | every call names files by path while others rename and remove them; owners die, slow owners look dead. One live holder; nothing left behind; always recovered |
| Trust ledger, `tools/trust.ts` | `memory/trust.tsv` | `log`, `render`, `tier` | whole-file read-modify-write from several worktrees. No result lost; alerts true; tiers change gradually |
| Verdict ledger, `tools/record-verdict.ts` | `review-log.md` of a change | one command: append a verdict, park the task at the cap | an unlocked read before two appends. Each verdict once; the loop stops at the cap |
| Structurizr rendering, `tools/structurizr-*.ts` | `build/architecture/`: lock, stages, published output; containers | `render`, `clean` | many failure points, leftovers of killed runs, recovery by hand. Publish whole or not at all; no stale success; touch only what is one's own |
| Structurizr probe, `tools/structurizr-probe.ts` | a running Docker command, its process group, pipes and two timers; the target platform | nine bounded commands, five of them containers | commands hang, ignore SIGTERM, leave descendants; the Docker context is switched. Every command ends in its bound with one outcome; the evidence is native |
| Structurizr source and verifier, `tools/structurizr-{source,verify}.ts` | none of their own: the model file and the output they read, some of it twice | `resolveSource`, `verifyOutput`, the recheck | every read is by path and at another time. The manifest names what was checked and what it was rendered from; a view has its own diagram |
| Goal verification, `tools/verify-goals.ts` | `goals/*.md`, `memory/goal-ledger.tsv` | verify all goals | a goal is read, its predicate runs for up to a minute, its text is written back; people edit meanwhile. A regression is loud; decisions of people stay; a pass is on record |
| Blocked-event log, `extensions/lib/tool-events.ts` | `memory/tool-events.jsonl` | append | lock-free append that must never change a guard's decision |
| Repeat-call detector, `extensions/repeat-call-detector` | last call and a count, per process | `tool_call` handler | blocks the n-th identical call in a row and no other |
| Worktree canary and self-test, `extensions/worktree-canary`, `extensions/harness-selftest` | a handshake variable in the environment | `session_start`, `tool_call` handlers | load order and load failures of extensions, inherited variables. The main agent delegates or is stopped; children are neither |
| Scope guards, `extensions/{force-delegate,architect-scope,branch-guard,developer-guard}` | none | decide on one call | the branch a call is decided for may be switched before it runs |
| Worktree and archive recipes, `justfile.opsx` | worktrees, the shared `memory/` link, `openspec/changes` | `worktree`, `worktree-rm`, `archive-change`, `archive-check` | shell steps that may stop half way |
| Learnings, `tools/{select-learnings,audit-learnings,promote-guard}.ts` | `learnings/*.md` | rank, audit, guard a promotion | bounded selection; evidence from transcripts |
| Document and diff checks, `tools/{arch-lint,waf-grounding,diff-gate,claim-scan,check-doc-contracts}.ts` | none | read and report | regular expressions over text |
| Reports, `tools/{session-cost,evolution-timeline,architecture-html,assess-tool-events,model-profile,pi-compat}.ts` | none, or one settings file | read and print | sums and rendering |

`PROJECT.json` lists every component with its sources and status.

## Modules

    LedgerMutex            what withLedgerLock promises
      LedgerLock           the protocol behind it, one action per system call or verdict on one
        LedgerLockInv      the inductive invariants
          LedgerLockProofs
        MCLedgerLock, MCLedgerLockTurns, MCLedgerLockMidway
    TrustTally             the trust ledger without files, locks, processes
      TrustLedger          trust.ts log by concurrent sessions, over LedgerMutex
        TrustLedgerProofs
        MCTrustLedger
    VerdictLedger          record-verdict.ts in the loop that runs it
      VerdictLedgerProofs
    StructurizrRender      render and clean, their lock, stages, containers and output
      StructurizrRenderProofs
      MCStructurizrRender
    StructurizrChecks      what is checked of one model text, workspace and SVG
      StructurizrVerify    resolveSource, the exports, verifyOutput and the recheck
        StructurizrVerifyProofs
        MCStructurizrVerify
    CommandPromise         what a caller of a bounded command relies on
    BoundedCommand         makeRunner: timers, signals, exit and close
      StructurizrProbe     the probe over them, and CommandPromise implemented
        StructurizrProbeProofs
        MCStructurizrProbe
    SessionGuards          what each guard extension decides of one call
      AgentSession         agent processes with the guards loaded, in one checkout
        AgentSessionProofs
        MCAgentSession
    StandingGoals          verify-goals.ts by concurrent runs, and people
      StandingGoalsProofs

A line below a module extends or instantiates it.

### LedgerLock

The file system is described at the lock path only: `lockDir` (the inode of the directory
there), `owners` and `claim` (its owner files and its claim), `aged` and `dirAged` (what
is older than `staleMs`), `leaked` (quarantined directories that stayed on disk). A
record is its token, a pair of the process that wrote it and a nonce, so the shape checks
of `parseOwner` and `parseClaim` have nothing left to reject. A process has a place `pc`
in the code, the continuation `k` of the subroutine it is in (`observeLock` and
`removeOwnedClaim` are called from many places), its owner token and claim handle (`own`,
`clm`), the observation it acts on (`obs`) and the one it is making (`cur`), the claim it
has renamed aside (`disp`) and the error its call carries (`err`).

Every action is one call that other processes can see or be disturbed by, together with
the decision the code takes on its result. In particular `observeLock` is three actions
(`Lstat`, `Readdir`, `Entries`), so it can return the inode of one directory with the
entries of another; a check of a file and the unlink or rename that follows are two. An
`ENOENT` goes where the code sends it at that place: retry, give up, or out of
`acquireLedgerLock`.

Abstractions, all on the data side:

- A process's temp files have names nobody else uses, and an fsync changes nothing others
  can read; both are part of a neighbouring step. So are the checks inside a quarantined
  directory, whose name is private to the breaker.
- `Elapse` makes everything present older than `staleMs` at once; what is written later is
  young again. Which files are old then depends on when they were written, as with mtimes.
- The inode of a removed directory may be reused for a new one (the model does it). Files
  are identified by token, not by inode: reuse of a file's inode is not modelled.
- `ESRCH` means the process is dead; reuse of a pid is not modelled.
- The timeout may strike at any pass through the loop (`Timeout`).
- A process that exits without releasing is a `Crash`; time bounds nothing else.
- `ownerlessWasStale` (line 597) is true wherever it is evaluated, and so is not a guard.

### TrustLedger

`withLedgerLock` is `LedgerMutex!Enter` and `!Exit`; the file is a function from skills to
rows (a skill without a row has 0 runs; text that is no row is dropped by `parseRows` at
the next write). `Tier` compares with integers: division of doubles rounds correctly, so
`pass / runs >= 0.95` and `20 * pass >= 19 * runs` agree. `WriteFails` is any call that
throws, at any point of the callback, the fsync after the rename included. `start` and
`logged` are history.

The callback runs under the mutex that LedgerLock implements under its assumption; the
composition is by that interface. A crash hands the mutex over at once, while the real lock
first waits for `staleMs`; nothing else happens in between, so no behaviour is lost.

### VerdictLedger

`transcript` is what the reviewer's session holds (a verdict is its task and PASS or BLOCK,
its id its place), `checked` the ticked tasks, `ledger` the sections of `review-log.md` in
order, `loop` where the loop of `prompts/opsx-loop.md` is, `status` what the last command
reported. `recordVerdict` is its reads with the first append (`AlreadyRecorded`,
`RecordPass`, `RecordBlock`) and the second append (`Park`); `Fault` is a failure or a kill
at either: before the append, after it, or in the middle of it, when the marker that makes a
re-run idempotent is written and the verdict is not. The agent and the operator
(`Review`, `Act`, `Rerun`, `Resume`) are external: they do what the prompt says, and may run
the command again at any time. `MaxResumes` and `MaxFaults` bound restarts and failures.
Left out: the parsing of transcripts, and concurrent commands, which the prompt excludes
(one command at a time, and two tasks that append to one ledger are not disjoint).

### StructurizrRender

A run is one invocation of the command line; `pc` is where it is. `lock` is the run whose
nonce is in `.structurizr-lock`; `final` the output path: absent, unsafe, or an output with
the run that wrote or is removing it and whether it is whole; `stage` and `payload` a run's
own stage; `orphans` the runs with a container that nobody waits for. `wrong` is chosen when
a run begins and says what its checks will find; `err` is the error it carries, `met` and
`told` the faults of its cleanup and of its lock that it met, and those its message names. One action is one change of
`build/architecture` with the checks before it, in the order of the code (`Start` is the
command line, `Acquire`, `InspectFinal`, `RemoveFinal`, ..., `Publish`, `Discard`, `Release`);
`Kill` may come before any of them, and every call that can fail has a branch for it.
`RemoveContainer` may fail without the render noticing, and `OrphanWrites` is what such a
container then does. `Recover` follows docs/structurizr.md, lines 122-126: with every command
and container stopped, the lock goes, with or without the stages.

Abstractions: the codes that no fault tells apart are one (`SOURCE` for the three source
codes, `DSL`, `JSON`, `SVG` with their time-outs, `CONSISTENCY`); what a container writes is
nothing, part, or a bundle that `verifyOutput` accepts. Left out: argument errors; the
establishment of `build/architecture` (`IO PATH` before the lock); interference of third
parties with that directory, against which the identity checks of
`reverifyAncestors` and `assertSafeTree` guard, so those always pass here (an unsafe output
may be there from the start).

### StructurizrVerify and StructurizrChecks

One render, from `verifyAncestors` to the manifest. `path` says what leads to
`workspace.dsl` (a directory, a link to another place, a file, a link, a FIFO, nothing),
`text` what is in the file here and in the one a linked ancestor leads to, `fd` the open
file, `source` what `resolveSource` returns. `payload` is the output directory, a function
from file names to contents; a content remembers the document, the view and the kind
(diagram or legend) it was rendered for. `checked` is what `verifySvgFile` accepted,
`manifest` what `buildManifest` hashed. Each look at the file system is an action of its own:
ancestors, open, `fstat` with `realpath`, read; each export, whose container reads the mounted
path; `workspace.json`; the listing; every SVG; the second listing; every file again for the
manifest. Between any two of them `Edit`, `Move` and `Touch` change the model, the path and
the output.

StructurizrChecks has what the actions decide on, as definitions: the directive scan over
the tokens of a line (`ScanRefuses`), the workspace (`Parses`), the keys and the lineage of
views, the mapping of files, and the rules of `verifySvgText` over the events of its parser
(`Passive`), where a value is the set of marks the rules look for.

Abstractions: documents and diagrams are the members of two tables; a quoted string closes on
its line; `lstat` of a file and its read are one step, and so are the checks of all ancestors;
the sizes of JSON files are not counted; a renderer's output depends on the document only; the
recheck is one step, and nobody touches `manifest.json` itself. `verifyManifestAgainstDirectory`
and `parseManifest` are called by tests only; `Recheck` is what they find. The lock, the stage
and the rename are in StructurizrRender, where this whole module is the check that passes or
fails. Left out: the argument and the repository root.

### StructurizrProbe, BoundedCommand and CommandPromise

BoundedCommand is `makeRunner`: the client and one descendant that may hold its pipes, in its
process group or, after `setsid`, outside; whether output is unread; the timer, which sends
SIGTERM and sets a second one that sends SIGKILL; and the result, which comes with the `close`
event. `group` is whose the group's number is: a number without members may be given away.
StructurizrProbe runs the nine commands one after the other, resolves the target from the first
and checks what the others print. A command talks to the engine of the current Docker context,
which `Switch` may change between commands, and `OtherPull` replaces the image in an engine's
store. `verdict` is the class and code the command line ends with. CommandPromise is what
`probe` relies on, without processes and timers; `KeepsPromise` is the refinement.

Abstractions: time is not measured, a timer that is set may fire; an engine is its OS,
architecture and whether it emulates; output is good or refused. `--require-native` without a
value is no requirement (structurizr-probe.ts:581), as in the code. A signal to a reused group
number while the command is pending is possible (`misfires`), after it has settled it is not.

### AgentSession and SessionGuards

SessionGuards is a definition per guard: what `force-delegate`, `architect-scope`,
`branch-guard` and `developer-guard` block, over calls whose command lines are sequences of
words, with marks for what their patterns look for. AgentSession has the processes: what each
inherits (`handshake`, `delegated`, `agent`), which extensions loaded, which canaries halted
it, the detector's last call and streak, and what is left of the call it runs. The host asks
the extensions in order and the first that blocks ends the chain (`Blocker`); a call that is
allowed runs command by command, and other sessions and the user may switch the branch
between the decision and any of them. `Begin` loads everything but one set of `Failures`:
`lib/tool-events` takes all that import it along.

A child begins while its parent's `subagent` call runs, which is a tool call like any other, and
a process from the shell while a bash call does. `Decide` is given what branch-guard reads from
`.git/HEAD`: the branch, or nothing, and then a commit passes. What git does with a command
(`LandsOn`, `GitDestination`) is git's own reading of it, which is not the guard's.

Abstractions: reading the branch is one step; extensions are loaded when the process begins; a
process that was halted may survive its `exit`; a pid is not reused; a failed append to the
log is swallowed, as in the code. The host program (pi) is external.

### StandingGoals

A run lists the goals, and for each reads the text, runs the predicate, truncates the file,
writes the stamped text, and appends a row. `file` has the text of a goal: its predicate,
whether it is retired, its status and its last pass. `Decide` is what people do to a goal
(write, change, retire, delete), `Regress` changes what a predicate finds, `Midnight` the date,
`Kill` ends a run anywhere. The time-out sends SIGTERM once: it ends a predicate that hangs, and
one that is `stubborn` keeps the run waiting (`outlived`) until it ends, if it ever does
(`Outlives`). `decided`, `behind`, `raced`, `torn`, `failing` and `missed` are history.

Abstractions: one worktree (a goal file belongs to one, the ledger is appended to); a write is
the truncation and then all its bytes; rows are appended whole; people save a file at once; a
goal has the lines of the template; a predicate that takes too long hangs, or is stubborn.

## Runs

| Run | Instance | Shows |
| --- | --- | --- |
| `lock_two` | 2 processes, 3 nonces, 2 inodes, time passing at any moment | mutual exclusion, a live owner's file stays |
| `lock_three` | 3 processes, `SpecPrompt` | refinement of LedgerMutex, claims kept, nothing leaked |
| `lock_recovery` | 2 processes, fairness | any leftover of a dead process is recovered |
| `lock_midway` | a dead process's owner and claim, 3 breakers from the middle of their race, every interleaving | the lock is never lost silently: a failed breaker and a quarantined directory show it |
| `lock_race` | the same leftovers, 3 breakers, at most 5 turns | a disagreement, below |
| `trust_edges` | 2 sessions, 2 skills, ledgers next to each threshold, 2 results each | nothing lost, counted one by one, alerts true, tiers gradual |
| `verdict_loop` | 2 tasks, cap 2, 2 failed commands, 2 restarts | recorded once, parked once and with cause, the loop bounded; without failures every block at the cap is signalled |
| `render_pair` | 2 renders, 1 clean, two of six faults, one on each documented line from 4 to 9 | one command at a time, output whole or absent, a lock left only by a kill or a failure of the lock itself, first documented fault reported, no stale success |
| `verify` | 12 documents, 3 diagrams, 2 changes of the model, its path or the output | the manifest lists what was checked and what was rendered from the model it names; the source is the canonical file; each view has its own diagram; the recheck is exact |
| `probe_native` | 3 engines, 3 requests, 2 switches or pulls, fairness | bounded commands keep CommandPromise, no late signal, native evidence, the probe ends |
| `session_guards` | 2 processes, 6 calls, 7 extensions, 3 sets that fail to load | the main agent delegates what the guard knows to write, children free, repeats stopped and only they |
| `goals` | 2 runs, 2 goals, 1 predicate, 1 edit, regression or kill, 1 midnight, fairness | regressions loud to a run that reads what was decided, decisions kept, passes on record, every run ends or waits for a predicate that outlived its SIGTERM |

Bounds. `Nonce` bounds how many distinct tokens of one process can be remembered at once,
not how many it draws: a token nobody remembers any more is free again, and tokens are only
compared. A process has at most one owner token and one claim at a time, so three suffice,
four when a dead process's two are kept. Two inodes let a directory be replaced by one with
the same or a different number. `SpecPrompt` lets time pass only when no live process is
initialising, holding or breaking; without it three processes are beyond TLC in minutes.
`lock_race` bounds context switches instead of steps (`MaxTurns`): one breaker
runs for as long as it likes, then another. Five turns, of 96 steps, suffice to break exclusion,
four do not. `lock_midway` starts where two of those turns have led and has no such bound.
A cap of 2 is the least that tells the last BLOCK from the others; two tasks, that a count
of one from a count of all. Two renders and a clean hold the lock in every order, and `MaxWrong` = 2 is the least for which one fault can
hide another. The twelve documents of `verify` are one that passes, the same with
other line ends, and ten that differ from it in one respect, a refusal or a hazard each; two
changes are a swap of a directory and its undoing. With two switches the probe can leave an
engine and come back. Two agent processes are one that a guard's decision is about and one
that switches under it or inherits from it; a limit of 2 and three calls are the least for
which a streak begins, breaks and ends. Two goals let a run be at one while the other is
edited, and one change suffices to race a stamp; the safety properties hold with two changes
as well (6.7 million states, checked by hand). Deadlock is not checked: a system whose
processes have all died or ended, or whose counters have reached their bound, rightly stops.

Fairness. `goals`: a run that has begun takes its next step (`Fairness`, weak): it is a
sequential program whose only wait is for a predicate, and the timer of `spawnSync` fires. It
sends one SIGTERM, and nothing is assumed of a predicate that outlives it (`Outlives` is not
fair), of people or of the clock. `probe_native`: the probe goes on when its
command settles, a timer that is set fires, and output is read when there is some; all are
events of the runtime's loop. Docker clients, their descendants and containers need do nothing.
`lock_recovery`: every process that is alive takes its next step (weak
fairness of `Step`, and of `Acquire`: somebody keeps wanting the lock), and time passes.
Timeouts and crashes are never required. `Prompt` is needed there too: a survivor that
outlives `staleMs` inside every attempt would never be prevented from breaking its own
abandoned leftovers, but no bound on that exists in the code.

## What the runs found

`lock_race`: with a claim left by a dead process and three breakers, two live processes hold
the lock. The rename of the claim and the rename of the directory act on whatever is there.
This needs a process that died between publishing and removing a claim; the proofs show that
it is the only way, `NoDeadClaim` being their only assumption, and that the loss is never silent
(`LossShows`, proved without it).

The other cfgs are kept for use by hand (`tlc -config X.cfg M`). `lock_turns`
(MCLedgerLockTurns) checks `LossShows` from `lock_race`'s start over six turns, and passes; so
do `BrokenOnlyWhenStale` in `lock_two.cfg` (a dead owner's file goes only when it is stale),
`CalmVerbatim` in `verdict_loop.cfg`, which is also proved, and `LogFaithful` in
`session_guards.cfg`. The others
state something the documentation says and the code does not keep, and end in a
counterexample:

- `trust_commit` (MCTrustLedger): the fsync after the rename may fail (ledger-lock.ts:919); the
  command then reports a failure of an update that is in the file, and a retry counts the
  result twice. trust.test.ts:307: "preserves the target".
- `verdict_park` (VerdictLedger): a command that dies between recording the BLOCK that reaches
  the cap and the PARKED entry (record-verdict.ts:232) is never made up for: the re-run reports
  0. record-verdict.ts:7-8: "appends one PARKED entry and exits 3".
- `verdict_torn` (VerdictLedger): an append that fails after the marker makes the re-run
  report a verdict as recorded that is not in the ledger.
- `render_pin` (MCStructurizrRender): the command line loads the pin before the lock
  (structurizr-render.ts:271), so a malformed pin hides a held lock or an unsafe output.
  docs/structurizr.md:104-105: "chosen by this fixed order".
- `render_abandoned`: render and clean succeed beside a stage that a killed render left
  (structurizr-fs.ts:518), where docs/structurizr.md:123-124 has them refuse.
- `render_stale`, `render_cleanup`: a malformed pin leaves the output of an earlier success; a
  cleanup that fails after a failure, a container that was not removed, and a lock that was not
  (structurizr-fs.ts:307) are not reported as secondary.
- `render_order`: `BUN_VERSION` is reported before `DOCKER`, which stands earlier in
  `ERROR_PRECEDENCE`, though on the same line of docs/structurizr.md.
- `lock_vanished`, `lock_leak` (MCLedgerLock): a breaker that loses a race for a dead
  process's claim leaves `acquireLedgerLock` with `ENOENT` instead of trying again; the
  quarantine of another breaker's claim stays on disk.
- `lock_orphan` (MCLedgerLock): a breaker that meets `ENOENT` while it re-observes gives up
  without removing its own claim; while that process lives, nobody can break the lock.
- `probe_switch` (MCStructurizrProbe): with the context switched, or on an engine that
  emulates, evidence is not native; only `docker info` of the first command tells.
- `probe_left`: a command that timed out leaves its container; design.md:312-315 says it is
  force-removed, and `forceRemove` (structurizr-probe.ts:521) has no caller.
- `probe_stray`: a descendant outside the group that keeps a pipe keeps the probe for ever.

The same holds of these definitions, each put as the only `INVARIANT` of the named cfg:

- `ManifestVerified` in `verify.cfg`: a file that changes between its check and
  `buildManifest` is in the manifest unchecked (structurizr-verify.ts:749: "from what was
  actually verified").
- `ManifestOfModel`: a model edited between `resolveSource` and the exports is rendered and
  the manifest names the old one (docs/structurizr.md:81,86).
- `SourceOpened`: between open and `realpath` the path may be exchanged
  (structurizr-source.ts:262: "The opened object's real path").
- `RoundTrip`: a view called `user`, `host`, `date` or another volatile word makes `parseManifest` refuse the
  manifest that was just written (structurizr-verify.ts:796-801).
- `MainReadOnly` in `session_guards.cfg`: the main agent may run `git branch -D` and whatever
  else `git branch`, `remote`, `diff`, `log` and `show` write, which `GIT_READONLY` admits with
  any arguments (force-delegate/index.ts:4: "must not mutate the repo directly"; README.md:179:
  "must delegate every mutation"). `MainDelegates`, which the run checks, is what remains.
- `NeverOnProtected` in `session_guards.cfg`: a commit lands on a protected branch after a switch
  between decision and commit, or when the guard could not read HEAD (branch-guard/index.ts:44;
  README.md:174-177, branch-guard/index.ts:7). The run's calls hold no push; by `LandsOn` a push
  of `HEAD` or `+main` would do as well, which the guard does not take for `main`.
- `RepeatInARow`: calls the detector says were in a row had others between them, which an
  earlier guard blocked (README.md:177-178).
- `AlwaysLoud` in `goals.cfg`: a run that reads a goal between the truncation and the bytes of
  another run's stamp skips it and exits 0 (verify-goals.ts:8-9: "so a silent regression ...
  becomes loud").
- `AlwaysEnd` (`PROPERTY` of `goals.cfg`): a predicate that ignores SIGTERM keeps its run for
  ever; `spawnSync` has a timeout (verify-goals.ts:83) and sends nothing after the first signal.
- `RetirementKept` in `goals.cfg`: a run brings back what was retired or deleted while its
  predicate ran (goals/README.md: "Retirement is a human decision").
- `GoalsSurvive`: a run killed between truncation and write leaves an empty goal, which is
  skipped silently from then on (verify-goals.ts, header).

## Proofs

Eight modules hold proofs. Every invariant and every action property of the passing runs is
a theorem for every value of the constants; what is left to TLC is named at the end. The
`TypeCorrect` theorems are the type invariants of the components. TLC checked each as an
invariant of its run before it was proved (`lock_two` still does), and so it did with every
inductive invariant below and with the theorems that are no property of a run:
`OwnStageOnly` (StructurizrRender), `OneContainer` and `OutputWhole` (StructurizrProbe),
`CalmVerbatim` (VerdictLedger).

`LedgerLockProofs` proves `MutualExclusion`, `OwnerFilePresent`, `ClaimKept`,
`NoLeak` and `Serialized` for `SpecNoDeadClaim`, for any set of processes, nonces and
inodes. The invariant `IInv` (module LedgerLockInv) is needed because none of these is
inductive. Its idea: without a dead claim, nobody displaces a claim, so a claim handle is
the claim (`Claims`); only its holder adds an owner or renames the directory; hence what a
breaker read under its claim can only shrink, down to the file of a dead process
(`Breaks`). A process that has seen its own file alone stays the only settled owner
(`Sole`): a file installed beside it belongs to a process that has not looked yet
(`Unsettled`), which will find two files and withdraw.
The proof has one lemma per action, and frame lemmas for what a step of one process
leaves true of the others.

`LossIsShown` is about every behaviour (`Spec`), where processes die with claims in place and
exclusion may fail: as long as no directory is left in quarantine, it has not. `LossInv` does
without claims, which then protect nothing. An owner settles only where it found its file
alone, and a file beside that of a settled owner belongs to a process that is dead or comes
late and withdraws (`Settles`); a breaker about to carry the directory off expects no owner
file or a dead process's (`BreaksDead`), so a quarantine that takes a live one fails its checks
and stays on disk, for good.

`TrustLedgerProofs` proves every property of `trust_edges` but its bounds: `NothingLost` and
`Implements` from an invariant that ties the rows a session is about to write to the ledger it
holds the lock of.

`VerdictLedgerProofs` proves `RecordedOnce`, `ParkedOnce`, `ParkedEarned`, `LoopBounded`,
`CalmSignalled` and `CalmVerbatim` for any number of tasks, failures and restarts and any cap. `LedgerInv` adds what is true between the two
appends (`ParkPending`: the verdict is recorded, it reaches the cap, nothing is parked yet)
and that a verdict is always of a task still unticked (`Reviewed`), without which a section
could land under another task. `LoopInvariant` adds the account behind the bound: how often a
task was sent back is compared with its BLOCK sections while rounds run, and with the cap once
it is reached. Both are needed (`Bounded`): a BLOCK that is in the ledger but not yet acted on
leaves room for one more (`Blocked`), and one that will be sent back has not been parked, so
the cap is not reached, unless a failure has paid for it (`Released`). `Calm` is what holds
until the first failure: the section stands as it was given, and a task at the cap is parked or
about to be.

`StructurizrRenderProofs` proves, for any number of commands, `Exclusive`, `Released`,
`PublishedWhole`, `OwnStageOnly` and, if the pin is not among the faults, `NoStaleSuccess` and
`FirstFault` (a malformed pin breaks both, see `render_pin` and `render_stale`).
`RenderInv` ties the lock to who is between acquire and release (`LockHeld`), says that
whoever left a container behind goes no further (`OrphansOver`), so that the run whose output
stands at the path has none (`OutputBy`), that only the removal of an output leaves it torn
(`OutputTorn`), and that a render past the removal sees no output until it publishes
(`Removed`). The last needs that a run with an error only cleans up (`Failed`). `FirstFault`
needs in addition what a render that has come so far did not find wrong: past the inspection
the output is safe (`SafeOutput`), and past each check what it looks for is not wrong with the
run (`Passed`). That the checks come in the order of the documented lines is `LineOf`.

`StructurizrVerifyProofs` proves every property of `verify` for any documents, diagrams, bounds
and number of changes: `SourceCanonical`, `ManifestHonest`, `Provenance`, `OwnDiagrams` and
`RecheckExact`. `VerifyInv` follows what was read from the read to the manifest: until the model
was edited, the exports read the document that `resolveSource` read (`Unedited`, `Renders`); a
file that nobody has touched since its check is what was checked (`Verified`); if nobody touched
a file, the manifest lists those that are there, as they are (`Complete`). `DiagramsOwned` rests on the rules for view keys: the
names of the files of distinct keys are distinct, and differ in more than case.

`StructurizrProbeProofs` proves `NativeEvidence`, `OneContainer`, `SilentOnceSettled`,
`OutputWhole` and `KeepsPromise` for any engines, requests and number of switches. `ProbeInv`
says that only the current stage's container may run, and not once its client has exited with
0, that every container stage before it has run one on the engine that `docker info` was about
unless the context was switched, and that the timers are off unless a command is pending. `CommandsAsPromised` is
the refinement, one lemma per action.

`AgentSessionProofs` proves, for any processes, calls, order of extensions and failures to
load, `MainDelegates`, `ChildrenWork`, `NoStuckAgent` and `RepeatEarned`.
`SessionInv` adds that a process whose handshake is its own has force-delegate loaded and that
the pid of a process that has not begun is in no environment (`Handshakes`), who is halted
(`Halts`), that what runs has passed the loaded guards (`Decided`), and that the detector's
streak is at least the identical calls that ran last, fewer than the limit (`Counted`). For
`RepeatEarned` the streak is bounded from above as well: it is a row of that many calls among
those the detector was asked about (`StreakEarned`), which calls that an earlier guard blocked
neither lengthen nor break.

`StandingGoalsProofs` proves `Loud`, `EditsKept` and `PassOnRecord` for any goals, runs,
predicates and changes. `GoalsInv` adds to each what a run holds in its hands: a text it is
about to write says what was decided, unless its goal was edited or raced since it read it
(`Decisions`); what has stood and failed since the run began is still ahead of it, or was read
as nobody had decided it, unless the run has found a violation (`LoudSoFar`); and the last pass of the text it read is on record (`Recorded`).

Only model-checked: liveness (`Recovery`, `Ends`, `RunsEnd`), which under fairness is beyond
the prover; and by hand `BrokenOnlyWhenStale` and `LogFaithful`, not proved yet. Assumptions on
the constants are those of the modules (`NoneAssumption`, `SessionAssumption`, ...): values
differ where the code's do, and bounds are natural numbers.

## Not modelled

- `tools/structurizr-pin.ts`: shapes, digests and versions of one JSON file read once.
- The recipes of `justfile.opsx` (`worktree`, `archive-change`, ...) and `install.sh`: shell over
  git and symbolic links, where the program is what git does.
- Learnings (`select-learnings`, `audit-learnings`, `promote-guard`, `learnings-inject`,
  `opsx-reminder`): ranking and matching of text without state.
- Architecture lint and grounding, diff and claim gates, document contracts: regular
  expressions over a tree of documents read once.
- Session cost, timeline, HTML, model profile, pi compatibility, the report over the
  blocked-event log: one reader that prints.
- `tools/lib/mermaid.min.js`: vendored.

## Plan

Built: the ledger lock, the trust ledger, the verdict ledger, the Structurizr commands, their
source, verifier and probe, the guards of an agent's process, and the standing goals. What is
left, in this order:

1. Proofs: `BrokenOnlyWhenStale` and `LogFaithful`.
2. StructurizrRender's container steps over CommandPromise instead of their own time-outs.
3. An abstract specification of publication (absent, then one whole output) that
   StructurizrRender implements, and one of the fix loop that VerdictLedger implements.
4. The worktree and archive recipes, which may stop half way.
5. Pure algorithms with a reference definition each, over bounded inputs: selection of
   learnings, the promotion guard, session cost.
