--------------------------- MODULE SessionGuards ---------------------------
(***************************************************************************)
(* What the guard extensions of an agent process decide about one tool     *)
(* call: force-delegate, architect-scope, branch-guard, developer-guard.   *)
(* A bash call is the commands of its line, each a sequence of words, and  *)
(* the marks the guards look for in the line as a whole; a write names a   *)
(* target.  Every call has all four fields.                                *)
(***************************************************************************)
EXTENDS Naturals, Sequences

None == "none"

\* A target by the part of the tree it lies in, how its path is rooted, and whether
\* the path climbs with "..".
Target(zone, root, climbs) == [zone |-> zone, root |-> root, climbs |-> climbs]
NoTarget == Target(None, "relative", FALSE)

Bash(commands, marks) ==
  [tool |-> "bash", commands |-> commands, marks |-> marks, target |-> NoTarget]
Write(zone, root, climbs) ==
  [tool |-> "write", commands |-> <<>>, marks |-> {}, target |-> Target(zone, root, climbs)]

Word(c, i) == IF i \in DOMAIN c THEN c[i] ELSE None
Words(c) == {c[i] : i \in DOMAIN c}
First(places) == CHOOSE i \in places : \A j \in places : i \leq j
From(c, i) == SubSeq(c, i, Len(c))

\* A quoted word, an inline assignment, and the words that begin with a dash.
Quoted == "'...'"
Assignment == "NAME=value"
ValueOptions == {"--events", "--session", "--min"}
GitValueOptions == {"-C", "--git-dir", "--work-tree", "--namespace", "-c"}
FindMutators == {"-exec", "-execdir", "-ok", "-okdir", "-delete", "-fprint", "-fprintf", "-fls"}
ForceOptions == {"--force", "--force-with-lease", "-f"}
OutOptions == {"--out", "-o"}
Dashed == ValueOptions \union GitValueOptions \union FindMutators \union ForceOptions
           \union OutOptions
           \union {"--include-synthetic", "--base", "--change", "--noEmit", "--hard", "--output",
                   "-d", "-D", "-m", "-i", "-r", "-R", "-rf", "-fr"}

-----------------------------------------------------------------------------
(* force-delegate: what the main agent may run.                            *)

AllowedCommands == {"openspec", "git", "ls", "cat", "rg", "grep", "find", "pwd", "head", "tail",
                    "wc", "echo", "jq", "true"}
OpenspecReadOnly == {"list", "show", "validate", "status", "diff", "view"}
GitReadOnly == {"status", "log", "diff", "show", "branch", "remote", "rev-parse", "ls-files"}
BookkeepingRecipes == {"archive-change", "record-verdict"}
ReaderRecipes == {"tool-events", "learnings-audit", "check-learnings", "learnings-preview", "next"}

\* isAllowedToolEventsArgs: options with their values, a value being whatever follows.
ToolEventsArgs(args) ==
  LET value[i \in DOMAIN args] == i > 1 /\ args[i - 1] \in ValueOptions /\ ~value[i - 1]
      option(i) == ~value[i] /\ args[i] \in ValueOptions
  IN \A i \in DOMAIN args :
       /\ value[i] \/ args[i] \in ValueOptions \union {"--include-synthetic"}
       /\ option(i) => i < Len(args)

\* isAllowedReadOnlyJust.
ReaderRecipe(c) ==
  LET args == From(c, 3) IN
    /\ Word(c, 2) \in ReaderRecipes
    /\ Word(c, 2) = "tool-events" => ToolEventsArgs(args)
    /\ Word(c, 2) = "learnings-preview" => Len(args) \leq 1 /\ Word(args, 1) \notin Dashed
    /\ Word(c, 2) = "next" => Len(args) = 1 /\ args[1] \notin Dashed
    /\ Word(c, 2) \in {"learnings-audit", "check-learnings"} => args = <<>>

MainCommand(c) ==
  CASE c[1] = "just" ->
         /\ Quoted \notin Words(c)
         /\ \/ Word(c, 2) \in BookkeepingRecipes /\ Words(c) \intersect OutOptions = {}
            \/ ReaderRecipe(c)
    [] c[1] = "openspec" -> Word(c, 2) \in OpenspecReadOnly
    [] c[1] = "git" -> Word(c, 2) \in GitReadOnly
    [] c[1] = "find" -> Words(c) \intersect FindMutators = {}
    [] OTHER -> c[1] \in AllowedCommands

\* isAllowedMainBash.
MainBash(call) ==
  /\ call.commands # <<>>
  /\ call.marks \intersect {"redirect", "substitution", "unbalanced", "background"} = {}
  /\ \A k \in DOMAIN call.commands : MainCommand(call.commands[k])

DelegateBlocks(call) ==
  \/ call.tool \in {"write", "edit"}
  \/ call.tool = "bash" /\ ~MainBash(call)

-----------------------------------------------------------------------------
(* architect-scope: what an agent of the stack may write and run.          *)

OpenWriters == {"developer", "tech-writer"}
ScopedZone == [a \in {"architecture-writer", "evolution-narrator"} |->
                 IF a = "architecture-writer" THEN "docs/architecture" ELSE "thesis"]
Verifiers == {"reviewer", "spec-reviewer"}

\* safePath and rootRelativePath.
SafeZone(t) == IF t.climbs THEN None ELSE t.zone
RootZone(t) == IF t.root = "elsewhere" THEN None ELSE SafeZone(t)

ScopeBlocksWrite(agent, t) ==
  CASE agent \in OpenWriters -> FALSE
    [] agent \in DOMAIN ScopedZone -> RootZone(t) # ScopedZone[agent]
    [] OTHER -> SafeZone(t) # "design"

ReadOnlyCommands == {"ls", "cat", "rg", "grep", "find", "head", "tail", "wc", "jq", "echo", "pwd",
                     "git", "openspec", "true", "test"}
ScopedCommands(agent) ==
  CASE agent = "architecture-writer" ->
         {<<"just", "arch-lint">>, <<"just", "architecture-html">>,
          <<"bun", "tools/architecture-html.ts">>}
    [] agent = "reviewer" ->
         {<<"bun", "test">>, <<"just", "verify-gate">>, <<"just", "probe-check">>,
          <<"just", "docs-lint">>, <<"just", "diff-gate">>, <<"just", "claim-scan">>,
          <<"tsc", "--noEmit">>}
    [] agent = "spec-reviewer" -> {<<"just", "probe-check">>, <<"just", "docs-lint">>}
    [] OTHER -> {}
MaxArgs(recipe) ==
  CASE recipe \in {"probe-check", "architecture-html"} -> 1
    [] OTHER -> 0

\* justArgsSafe.
JustArgsSafe(recipe, args) ==
  /\ recipe \in {"diff-gate", "claim-scan"} \/ Len(args) \leq MaxArgs(recipe)
  /\ \A i \in DOMAIN args :
       args[i] # Quoted /\ (args[i] \in Dashed => args[i] \in {"--base", "--change"})

\* scopedBashAllowed.
ScopedBash(agent, call) ==
  /\ call.commands # <<>>
  /\ call.marks \intersect {"redirect", "substitution", "newline"} = {}
  /\ \A k \in DOMAIN call.commands :
       LET c == call.commands[k] IN
         /\ c[1] # Assignment
         /\ \/ c[1] \in ReadOnlyCommands
            \/ /\ <<c[1], Word(c, 2)>> \in ScopedCommands(agent)
               /\ Word(c, 2) = "docs-lint" => call.commands = <<c>> /\ Len(c) = 2
               /\ c[1] = "just" => JustArgsSafe(c[2], From(c, 3))
               /\ Words(c) \intersect OutOptions = {}

ScopeBlocks(agent, call) ==
  \/ /\ call.tool = "bash"
     /\ agent \in DOMAIN ScopedZone \union Verifiers
     /\ ~ScopedBash(agent, call)
  \/ call.tool \in {"write", "edit"} /\ ScopeBlocksWrite(agent, call.target)

-----------------------------------------------------------------------------
(* branch-guard, for the branch that it reads from .git/HEAD, or None when  *)
(* it cannot tell.                                                         *)

Protected == {"main", "master"}

\* The words from git's subcommand on: the first word after git that is neither an option
\* nor the value of one.
GitWords(c) ==
  LET gits == {i \in DOMAIN c : c[i] = "git"}
      subcommands == {i \in DOMAIN c : /\ i > First(gits)
                                       /\ c[i] \notin Dashed /\ c[i - 1] \notin GitValueOptions}
  IN IF gits = {} \/ subcommands = {} THEN <<>> ELSE From(c, First(subcommands))

\* A refspec names what is pushed and where to.
Destination(refspec) == IF refspec = "HEAD:main" THEN "main" ELSE refspec

\* The first word that is no option is the remote, the others are refspecs; without any,
\* the current branch is pushed.
Refspecs(args) ==
  {args[i] : i \in {i \in DOMAIN args :
                      args[i] \notin Dashed /\ \E j \in 1..(i - 1) : args[j] \notin Dashed}}
PushHitsProtected(args, branch) ==
  IF Refspecs(args) = {} THEN branch \in Protected
  ELSE \E r \in Refspecs(args) : Destination(r) \in Protected

BranchBlocks(call, branch) ==
  /\ call.tool = "bash"
  /\ \E k \in DOMAIN call.commands :
       LET g == GitWords(call.commands[k]) IN
         \/ Word(g, 1) = "push" /\ PushHitsProtected(Tail(g), branch)
         \/ Word(g, 1) = "commit" /\ branch \in Protected

-----------------------------------------------------------------------------
(* developer-guard.                                                        *)

\* The words after one of a line; what a newline separates is another line.
Later(call, k, i) ==
  Words(From(call.commands[k], i + 1)) \union
    UNION {Words(call.commands[m]) :
             m \in {m \in DOMAIN call.commands : m > k /\ "newline" \notin call.marks}}

\* Flags of rm with an r and an f in one word.
RecursiveForce == {"-rf", "-fr", "--force"}

\* DESTRUCTIVE, matched anywhere in the line; devices, pipes into a shell and the fork
\* bomb are marks.
Destructive(call) ==
  /\ call.tool = "bash"
  /\ \/ call.marks \intersect {"device", "pipe to shell", "fork bomb"} # {}
     \/ \E k \in DOMAIN call.commands :
          LET c == call.commands[k] IN
            \E i \in DOMAIN c :
              \/ c[i] = "rm" /\ Word(c, i + 1) \in RecursiveForce
              \/ c[i] = "rm" /\ {Word(c, i + 1), Word(c, i + 2)} = {"-r", "-f"}
              \/ c[i] \in {"chmod", "chown"} /\ {"-R", "/"} \subseteq Later(call, k, i)
              \/ /\ c[i] = "git" /\ Word(c, i + 1) = "push"
                 /\ Later(call, k, i + 1) \intersect ForceOptions # {}
              \/ c[i] = "git" /\ Word(c, i + 1) = "reset" /\ Word(c, i + 2) = "--hard"
              \/ c[i] \in {"mkfs", "sudo"}
=============================================================================
