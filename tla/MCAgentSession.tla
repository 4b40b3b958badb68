--------------------------- MODULE MCAgentSession ---------------------------
(***************************************************************************)
(* AgentSession for TLC.                                                   *)
(***************************************************************************)
EXTENDS AgentSession, TLC

Symmetry == Permutations(Sessions)

\* In the order of the directory listing, as the host loads them.
TheChain == <<"architect-scope", "branch-guard", "developer-guard", "force-delegate",
              "harness-selftest", "repeat-call-detector", "worktree-canary">>

Logging == {"architect-scope", "branch-guard", "developer-guard", "force-delegate",
            "repeat-call-detector"}
\* All load; lib/tool-events fails and with it all that import it; two fail by themselves.
TheFailures == {{}, Logging, {"force-delegate", "worktree-canary"}}

Edit == Write("code", "relative", FALSE)
Commit == Bash(<<<<"git", "commit", "-m", Quoted>>>>, {})
SwitchCommit == Bash(<<<<"git", "switch", "main">>, <<"git", "-c", "x", "commit">>>>, {})
Reset == Bash(<<<<"git", "reset", "--hard">>>>, {})
Look == Bash(<<<<"just", "next", "a-change">>>>, {})
DropBranch == Bash(<<<<"git", "branch", "-D", "topic">>>>, {})
Task == [tool |-> "subagent", commands |-> <<>>, marks |-> {}, target |-> NoTarget]
TheCalls == {Edit, Commit, SwitchCommit, DropBranch, Look, Task}
=============================================================================
