---------------------------- MODULE AgentSession ----------------------------
(***************************************************************************)
(* Agent processes with the guard extensions of extensions/ loaded, in one *)
(* checkout.  A process inherits its parent's environment: the handshake   *)
(* of force-delegate, the depth and the agent stack.  A tool call is       *)
(* decided first and executed afterwards, command by command; meanwhile    *)
(* other sessions and the user may switch the branch it was decided for.   *)
(* The subagent tool is a tool call too.                                   *)
(* The host program (pi), git and the user are the environment.  A process *)
(* that dies takes no more steps.                                          *)
(***************************************************************************)
EXTENDS SessionGuards, FiniteSets

CONSTANTS
  Sessions,    \* processes; a pid is not used twice
  Calls,       \* the tool calls an agent may make
  Agents,      \* the agents a child may be
  Branches,    \* the branches of the checkout, and None: no branch can be read
  Marked,      \* those with a .harness-marker
  Chain,       \* the extensions, in the order in which the host asks them
  Failures,    \* the sets of extensions that may fail to load together
  Limit,       \* OPSX_REPEAT_CALL_LIMIT
  MaxCalls     \* bound: calls of all the sessions

NoCall == [tool |-> None, commands |-> <<>>, marks |-> {}, target |-> NoTarget]
Tools == {"bash", "write", "edit", "subagent"}
Call == [tool: Tools, commands: Seq(Seq(STRING)), marks: SUBSET STRING,
         target: [zone: STRING, root: STRING, climbs: BOOLEAN]]

ASSUME SessionAssumption ==
  /\ Calls \subseteq Call /\ \A c \in Calls : c.tool # "bash" => c.commands = <<>>
  /\ None \notin Sessions
  /\ Marked \subseteq Branches
  /\ Chain \in Seq(STRING) /\ \A i \in DOMAIN Chain : Chain[i] # None
  /\ Limit \in Nat /\ Limit \geq 2
  /\ MaxCalls \in Nat

VARIABLES
  branch,     \* what .git/HEAD names
  landed,     \* history: whose commits and pushes landed on which protected branches
  log,        \* memory/tool-events.jsonl: the number of rows per guard and tool
  phase,      \* of a session: none, loaded, idle, turn, running, over
  delegated,  \* whether its PI_SUBAGENT_DEPTH says that it is a delegated child
  agent,      \* the last agent of its PI_SUBAGENT_STACK
  handshake,  \* its __FORCE_DELEGATE_LOADED: a pid or None
  loaded,     \* its extensions
  halted,     \* those of its canaries that halted it
  armed,      \* history: its last session_start was in a marked checkout
  lastCall, streak,     \* the repeat-call detector's variables
  rest,       \* the commands left to run of its call
  calls,      \* its transcript: its calls, each with the guard that blocked it or None
  budget      \* calls left of MaxCalls

environment == <<delegated, agent, handshake>>
detector == <<lastCall, streak>>
vars == <<branch, landed, log, phase, environment, loaded, halted, armed, detector, rest,
          calls, budget>>

Extensions == {Chain[i] : i \in DOMAIN Chain}
Canaries == {"harness-selftest", "worktree-canary"}
Current(s) == calls[s][Len(calls[s])].call

TypeOK ==
  /\ branch \in Branches
  /\ landed \subseteq Sessions \X Protected
  /\ log \in [Extensions \X Tools -> Nat]
  /\ phase \in [Sessions -> {"none", "loaded", "idle", "turn", "running", "over"}]
  /\ delegated \in [Sessions -> BOOLEAN]
  /\ agent \in [Sessions -> Agents \union {None}]
  /\ handshake \in [Sessions -> Sessions \union {None}]
  /\ loaded \in [Sessions -> SUBSET Extensions]
  /\ halted \in [Sessions -> SUBSET Canaries]
  /\ armed \in [Sessions -> BOOLEAN]
  /\ lastCall \in [Sessions -> Calls \union {NoCall}] /\ streak \in [Sessions -> Nat]
  /\ rest \in [Sessions -> Seq(Seq(STRING))]
  /\ calls \in [Sessions -> Seq([call: Calls, by: Extensions \union {None}])]
  /\ budget \in 0..MaxCalls

Init ==
  /\ branch \in Branches /\ landed = {}
  /\ log = [t \in Extensions \X Tools |-> 0]
  /\ phase = [s \in Sessions |-> "none"]
  /\ delegated = [s \in Sessions |-> FALSE] /\ agent = [s \in Sessions |-> None]
  /\ handshake = [s \in Sessions |-> None]
  /\ loaded = [s \in Sessions |-> {}] /\ halted = [s \in Sessions |-> {}]
  /\ armed = [s \in Sessions |-> FALSE]
  /\ lastCall = [s \in Sessions |-> NoCall] /\ streak = [s \in Sessions |-> 0]
  /\ rest = [s \in Sessions |-> <<>>]
  /\ calls = [s \in Sessions |-> <<>>]
  /\ budget = MaxCalls

-----------------------------------------------------------------------------
(* A process begins, loads its extensions and starts its session.          *)

\* PI_SUBAGENT_DEPTH: digits only, a positive number.
Depths == {"unset", "", "0", "1.5", "1", "2"}
IsDelegatedChild(depth) == depth \in {"1", "2"}

\* A failed module takes what imports it along, which Failures says.  Outside a delegated
\* child force-delegate leaves its pid in the environment.
Begin(s, d, a, h) ==
  /\ phase[s] = "none"
  /\ phase' = [phase EXCEPT ![s] = "loaded"]
  /\ delegated' = [delegated EXCEPT ![s] = IsDelegatedChild(d)]
  /\ agent' = [agent EXCEPT ![s] = a]
  /\ \E failed \in Failures :
       /\ loaded' = [loaded EXCEPT ![s] = Extensions \ failed]
       /\ handshake' = [handshake EXCEPT ![s] =
                          IF "force-delegate" \in loaded'[s] /\ ~IsDelegatedChild(d) THEN s ELSE h]
  /\ UNCHANGED <<branch, landed, log, halted, armed, detector, rest, calls, budget>>

\* By the user.
Launch(s) == \E d \in Depths : ~IsDelegatedChild(d) /\ Begin(s, d, None, None)

\* From the shell of another session, without its depth and its stack (SHAKEDOWN.md).
LaunchFrom(s, p) ==
  phase[p] = "running" /\ Current(p).tool = "bash" /\ Begin(s, "unset", None, handshake[p])

\* By the subagent tool, while that call runs.
Delegate(s, p) ==
  /\ phase[p] = "running" /\ Current(p).tool = "subagent"
  /\ \E a \in Agents : Begin(s, "1", a, handshake[p])

AnyHandshake(s) == handshake[s] # None      \* mutant: an inherited handshake will do
ChildrenToo(s) == handshake[s] = s   \* mutant: children are checked as well
Cleared(s) == delegated[s] \/ handshake[s] = s

\* A canary that finds the checkout marked and the process neither a child nor cleared halts
\* it, shuts the session down and exits; a host that survives the exit stays halted.
Halting(s) == IF branch \in Marked /\ ~Cleared(s) THEN loaded[s] \intersect Canaries ELSE {}

SessionStart(s) ==
  /\ phase[s] \in {"loaded", "idle"}
  /\ armed' = [armed EXCEPT ![s] = branch \in Marked]
  /\ halted' = [halted EXCEPT ![s] = Halting(s)]
  /\ \/ phase' = [phase EXCEPT ![s] = "idle"]
     \/ Halting(s) # {} /\ phase' = [phase EXCEPT ![s] = "over"]
  /\ UNCHANGED <<branch, landed, log, environment, loaded, detector, rest, calls, budget>>

\* The user's prompt; a halted session takes none.
Input(s) ==
  /\ phase[s] = "idle" /\ halted[s] = {}
  /\ phase' = [phase EXCEPT ![s] = "turn"]
  /\ UNCHANGED <<branch, landed, log, environment, loaded, halted, armed, detector, rest, calls, budget>>

\* The user switches the branch, in a session's own shell or in any other.
UserSwitches ==
  /\ branch' \in Branches
  /\ UNCHANGED <<landed, log, phase, environment, loaded, halted, armed, detector, rest, calls, budget>>

-----------------------------------------------------------------------------
(* A tool call.                                                            *)

StreakOfAll(s, c) == streak[s] + 1      \* mutant: another call does not reset the count
Streak(s, c) == IF c = lastCall[s] THEN streak[s] + 1 ELSE 1

\* head is what currentBranch returned: the branch, or None when it could not be read.
Blocks(g, s, c, head) ==
  CASE g = "force-delegate" -> ~delegated[s] /\ DelegateBlocks(c)
    [] g = "architect-scope" -> ScopeBlocks(agent[s], c)
    [] g = "branch-guard" -> BranchBlocks(c, head)
    [] g = "developer-guard" -> Destructive(c)
    [] g = "repeat-call-detector" -> Streak(s, c) \geq Limit
    [] g \in Canaries -> g \in halted[s]
    [] OTHER -> FALSE

\* The host asks the extensions in turn; the first that blocks ends it.
Blockers(s, c, head) ==
  {i \in DOMAIN Chain : Chain[i] \in loaded[s] /\ Blocks(Chain[i], s, c, head)}
Blocker(s, c, head) ==
  IF Blockers(s, c, head) = {} THEN None ELSE Chain[First(Blockers(s, c, head))]

\* An extension is asked when none before it blocks.
Asked(g, s, c, head) ==
  /\ g \in loaded[s]
  /\ Blockers(s, c, head) = {} \/ \E i \in 1..First(Blockers(s, c, head)) : Chain[i] = g

\* The detector counts what it is asked about.
CountOn(s, c) ==      \* mutant: the count starts at 0
  /\ lastCall' = [lastCall EXCEPT ![s] = c]
  /\ streak' = [streak EXCEPT ![s] = IF c = lastCall[s] THEN @ + 1 ELSE 0]
Count(s, c) ==
  /\ lastCall' = [lastCall EXCEPT ![s] = c]
  /\ streak' = [streak EXCEPT ![s] = Streak(s, c)]

\* A row for a blocked call; a failed append is swallowed.  The canaries log nothing.
Logged(g, c) ==
  \/ UNCHANGED log
  \/ g \notin Canaries \union {None} /\ log' = [log EXCEPT ![<<g, c.tool>>] = @ + 1]

Decide(s, c, head) ==
  /\ phase[s] = "turn" /\ budget > 0 /\ budget' = budget - 1
  /\ head \in {branch, None}
  /\ IF Asked("repeat-call-detector", s, c, head) THEN Count(s, c) ELSE UNCHANGED detector
  /\ Logged(Blocker(s, c, head), c)
  /\ calls' = [calls EXCEPT ![s] = Append(@, [call |-> c, by |-> Blocker(s, c, head)])]
  /\ IF Blocker(s, c, head) # None THEN UNCHANGED <<phase, rest>>
     ELSE /\ phase' = [phase EXCEPT ![s] = "running"]
          /\ rest' = [rest EXCEPT ![s] = c.commands]
  /\ UNCHANGED <<branch, landed, environment, loaded, halted, armed>>

\* Where git takes a refspec to: a plus only forces, HEAD is the branch checked out.
GitDestination(refspec) ==
  CASE refspec \in {"HEAD:main", "+main"} -> "main"
    [] refspec = "HEAD" -> branch
    [] OTHER -> refspec

\* The protected branches on which a command lands something: a commit, unless it is another
\* checkout's, and a push.
LandsOn(c) ==
  LET g == GitWords(c)
      refspecs == Refspecs(Tail(g))
  IN {b \in Protected :
        /\ g # <<>>
        /\ \/ g[1] = "commit" /\ b = branch /\ "-C" \notin Words(c)
           \/ g[1] = "push" /\ refspecs = {} /\ b = branch
           \/ g[1] = "push" /\ \E r \in refspecs : GitDestination(r) = b}
Switches(c) == Word(c, 1) = "git" /\ Word(c, 2) = "switch" /\ Word(c, 3) \in Branches \ {None}

Execute(s) ==
  /\ phase[s] = "running"
  /\ IF rest[s] = <<>> THEN UNCHANGED <<branch, landed>>
     ELSE /\ branch' = IF Switches(Head(rest[s])) THEN Word(Head(rest[s]), 3) ELSE branch
          /\ landed' = landed \union ({s} \X LandsOn(Head(rest[s])))
  /\ IF Len(rest[s]) > 1
     THEN rest' = [rest EXCEPT ![s] = Tail(@)] /\ UNCHANGED phase
     ELSE phase' = [phase EXCEPT ![s] = "turn"] /\ rest' = [rest EXCEPT ![s] = <<>>]
  /\ UNCHANGED <<log, environment, loaded, halted, armed, detector, calls, budget>>

EndTurn(s) ==
  /\ phase[s] = "turn"
  /\ phase' = [phase EXCEPT ![s] = "idle"]
  /\ UNCHANGED <<branch, landed, log, environment, loaded, halted, armed, detector, rest, calls, budget>>

Next ==
  \/ UserSwitches
  \/ \E s \in Sessions :
       \/ Launch(s) \/ SessionStart(s) \/ Input(s)
       \/ \E c \in Calls, head \in {branch, None} : Decide(s, c, head)
       \/ Execute(s) \/ EndTurn(s)
       \/ \E p \in Sessions : LaunchFrom(s, p) \/ Delegate(s, p)

Spec == Init /\ [][Next]_vars

-----------------------------------------------------------------------------
(* Properties.                                                             *)

\* What a command changes in the repository: its files, its history, its branches and its
\* remotes.  The bookkeeping recipes do not count.
GitWriters == {"commit", "switch", "push", "reset"}
Changes(w) ==
  LET g == GitWords(w) IN
    \/ Word(w, 1) \in {"rm", "sed", "bun"}
    \/ Word(w, 1) = "find" /\ Words(w) \intersect FindMutators # {}
    \/ /\ Word(w, 1) = "git"
       /\ \/ Word(g, 1) \in GitWriters
          \/ Word(g, 1) \in {"diff", "log", "show"} /\ "--output" \in Words(g)
          \/ /\ Word(g, 1) = "branch"
             /\ \E i \in 2..Len(g) : g[i] \in {"-d", "-D", "-f", "-m"} \/ g[i] \notin Dashed
          \/ Word(g, 1) = "remote" /\ Word(g, 2) \in {"add", "remove", "rename", "set-url"}

Mutating(c) ==
  \/ c.tool \in {"write", "edit"}
  \/ /\ c.tool = "bash"
     /\ "redirect" \in c.marks \/ \E k \in DOMAIN c.commands : Changes(c.commands[k])

\* What GIT_READONLY takes for reading whatever its arguments are, and which may write.
Admitted(w) == Word(w, 1) = "git" /\ Word(w, 2) \in {"branch", "remote", "diff", "log", "show"}
MutatingOtherwise(c) ==
  /\ Mutating(c)
  /\ c.tool = "bash" =>
       \/ "redirect" \in c.marks
       \/ \E k \in DOMAIN c.commands : Changes(c.commands[k]) /\ ~Admitted(c.commands[k])

\* Top-level sessions that were started in a marked checkout with a canary loaded.
Watched(s) ==
  phase[s] = "running" /\ ~delegated[s] /\ armed[s] /\ loaded[s] \intersect Canaries # {}

\* Such a session changes the repository by nothing but git branch, remote, diff, log and
\* show, whichever other extensions failed to load and whatever it inherited: either
\* force-delegate is there, or the canary found that it is not.
MainDelegates == \A s \in Sessions : Watched(s) => ~MutatingOtherwise(Current(s))

\* What force-delegate and README.md say, that it changes nothing.  git branch -D breaks it.
MainReadOnly == \A s \in Sessions : Watched(s) => ~Mutating(Current(s))

\* A delegated child is never stopped as if it were the main agent: by a canary, though the
\* handshake it inherits is its parent's, or by force-delegate.
ChildrenWork ==
  \A s \in Sessions :
    delegated[s] =>
      /\ halted[s] = {}
      /\ \A i \in DOMAIN calls[s] : calls[s][i].by \notin Canaries \union {"force-delegate"}

\* What README.md and branch-guard say: nothing of an agent's lands on a protected branch.
\* A switch between the decision and the commit breaks it, a HEAD that cannot be read, and a
\* refspec that git reads otherwise.
NeverOnProtected == \A l \in landed : "branch-guard" \notin loaded[l[1]]

\* An agent cannot repeat itself for ever: of Limit identical calls in a row one is blocked,
\* by the detector or by a guard before it.
NoStuckAgent ==
  \A s \in Sessions : "repeat-call-detector" \in loaded[s] =>
    \A i \in DOMAIN calls[s] :
      i \geq Limit =>
        \E j \in (i - Limit + 1)..i :
          calls[s][j].by # None \/ calls[s][j].call # calls[s][i].call

\* The detector is asked about a call unless a guard before it has blocked it.
Heard(s, i) ==
  \E p \in DOMAIN Chain :
    Chain[p] = "repeat-call-detector" /\ \A q \in 1..(p - 1) : Chain[q] # calls[s][i].by

\* Of the calls first..last it was asked about k or more, and all of those were c.
Row(s, first, last, c, k) ==
  LET heard == {j \in first..last : Heard(s, j)}
  IN Cardinality(heard) \geq k /\ \A j \in heard : calls[s][j].call = c

\* It blocks only what is at least the Limit-th identical call in a row of those it was asked
\* about; calls that a guard before it blocked it has never seen.
RepeatEarned ==
  \A s \in Sessions : \A i \in DOMAIN calls[s] :
    calls[s][i].by = "repeat-call-detector" =>
      \E first \in 1..i : Row(s, first, i, calls[s][i].call, Limit)

\* What its message says: the calls were in a row.  A call that another guard blocked in
\* between breaks it.
RepeatInARow ==
  \A s \in Sessions : \A i \in DOMAIN calls[s] :
    calls[s][i].by = "repeat-call-detector" =>
      \A j \in (i - Limit + 1)..i : j \geq 1 /\ calls[s][j].call = calls[s][i].call

\* The log never says more than the transcripts: a class of rows is at most the blocked calls
\* of that guard and tool in all the sessions, though every session appends to the same file.
LogFaithful ==
  \A g \in Extensions, t \in Tools :
    log[g, t] \leq
      Cardinality(UNION {{<<s, i>> : i \in {i \in DOMAIN calls[s] :
                                              calls[s][i].by = g /\ calls[s][i].call.tool = t}}
                          : s \in Sessions})
=============================================================================
