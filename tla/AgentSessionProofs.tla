------------------------- MODULE AgentSessionProofs -------------------------
(***************************************************************************)
(* Proofs about AgentSession, for any number of sessions, any calls, any   *)
(* order of the extensions and any of them failing to load.                *)
(***************************************************************************)
EXTENDS AgentSession, FiniteSetTheorems, SequenceTheorems, WellFoundedInduction, TLAPS

-----------------------------------------------------------------------------
(* The invariant.                                                          *)

\* A pid is in the environment only of its own process and those it started.
Handshakes ==
  /\ \A s, p \in Sessions : phase[s] = "none" => handshake[p] # s
  /\ \A s \in Sessions : handshake[s] = s => "force-delegate" \in loaded[s]

\* Who is halted.
Halts ==
  \A s \in Sessions :
    /\ delegated[s] \/ phase[s] \in {"none", "turn", "running"} => halted[s] = {}
    /\ (phase[s] \in {"idle", "turn", "running"} /\ armed[s] /\ ~Cleared(s))
         => halted[s] = loaded[s] \intersect Canaries

\* A process that has not begun has done nothing.
Unborn ==
  \A s \in Sessions : phase[s] = "none" => calls[s] = <<>>

\* What runs has passed the guards that are loaded.
Decided ==
  \A s \in Sessions : phase[s] = "running" =>
    /\ calls[s] # <<>>
    /\ (~delegated[s] /\ "force-delegate" \in loaded[s]) => ~DelegateBlocks(Current(s))

\* The detector has counted the last calls if they were identical and ran.
LastRan(s, k) ==
  \A j \in (Len(calls[s]) - k + 1)..Len(calls[s]) :
    calls[s][j].by = None /\ calls[s][j].call = Current(s)
Counted ==
  \A s \in Sessions : "repeat-call-detector" \in loaded[s] =>
    \A k \in 1..Len(calls[s]) :
      LastRan(s, k) => lastCall[s] = Current(s) /\ streak[s] \geq k /\ k < Limit

SessionInv ==
  /\ TypeOK /\ Handshakes /\ Halts /\ Unborn /\ Decided /\ Counted
  /\ ChildrenWork /\ NoStuckAgent

-----------------------------------------------------------------------------
(* The guards.                                                             *)

\* The first of some places of a sequence.
LEMMA FirstPlace ==
  ASSUME NEW S, NEW q \in Seq(S), NEW places, places \subseteq DOMAIN q, places # {}
  PROVE  First(places) \in places /\ \A i \in places : First(places) \leq i
<1>1. places \subseteq Nat
  BY LenProperties
<1>2. PICK i \in places : \A j \in places : <<j, i>> \notin OpToRel(<, Nat)
  BY <1>1, NatLessThanWellFounded, WFMin
<1>3. \A j \in places : ~(j < i)
  BY <1>1, <1>2 DEF OpToRel
<1>4. \A j \in places : i \leq j
  BY <1>1, <1>3
<1> QED
  BY <1>4 DEF First

\* git's subcommand is the second word when that is one of GIT_READONLY.
LEMMA Subcommand ==
  ASSUME NEW w \in Seq(STRING), Word(w, 1) = "git", Word(w, 2) \in GitReadOnly
  PROVE  Word(GitWords(w), 1) = Word(w, 2)
<1> DEFINE gits == {i \in DOMAIN w : w[i] = "git"}
           subcommands == {i \in DOMAIN w : /\ i > First(gits)
                             /\ w[i] \notin Dashed /\ w[i - 1] \notin GitValueOptions}
<1>1. DOMAIN w = 1..Len(w) /\ Len(w) \in Nat
  BY LenProperties
<1>2. 1 \in DOMAIN w /\ w[1] = "git"
  BY DEF Word, None
<1>3. 2 \in DOMAIN w /\ w[2] = Word(w, 2)
  BY DEF Word, None, GitReadOnly
<1>4. First(gits) = 1
  <2>1. PICK f : f = First(gits)
    OBVIOUS
  <2>2. f \in DOMAIN w /\ f \leq 1
    BY <1>2, <2>1, FirstPlace
  <2>3. f = 1
    BY <1>1, <2>2
  <2> QED
    BY <2>1, <2>3
<1>5. w[2] \notin Dashed /\ w[1] \notin GitValueOptions
  BY <1>2, <1>3 DEF GitReadOnly, Dashed, ValueOptions, GitValueOptions, FindMutators,
                    ForceOptions, OutOptions
<1>6. 2 \in subcommands
  BY <1>3, <1>4, <1>5
<1>7. First(subcommands) = 2
  <2>1. PICK f : f = First(subcommands)
    OBVIOUS
  <2>2. f \in subcommands /\ f \leq 2
    BY <1>6, <2>1, FirstPlace
  <2>3. f = 2
    BY <1>1, <1>4, <2>2
  <2> QED
    BY <2>1, <2>3
<1>8. GitWords(w) = SubSeq(w, 2, Len(w))
  BY <1>2, <1>6, <1>7 DEF GitWords, From
<1>9. Len(GitWords(w)) \geq 1 /\ GitWords(w)[1] = w[2] /\ DOMAIN GitWords(w) = 1..Len(GitWords(w))
  BY <1>1, <1>3, <1>8, SubSeqProperties
<1> QED
  BY <1>3, <1>9 DEF Word

\* What force-delegate lets through changes nothing, but by what it takes for reading.
LEMMA DelegateReadOnly ==
  ASSUME NEW c \in Call, ~DelegateBlocks(c)
  PROVE  ~MutatingOtherwise(c)
<1>1. c.tool \notin {"write", "edit"} /\ (c.tool = "bash" => MainBash(c))
  BY DEF DelegateBlocks
<1>2. c.tool = "bash" => "redirect" \notin c.marks
  BY <1>1 DEF MainBash
<1>3. ASSUME c.tool = "bash", NEW k \in DOMAIN c.commands, Changes(c.commands[k])
      PROVE  Admitted(c.commands[k])
  <2> DEFINE w == c.commands[k]
  <2>1. MainCommand(w)
    BY <1>1, <1>3 DEF MainBash
  <2>2. Word(w, 1) # None => Word(w, 1) = w[1]
    BY DEF Word
  <2>3. Word(w, 1) \notin {"rm", "sed", "bun"}
    BY <2>1, <2>2 DEF MainCommand, AllowedCommands, None
  <2>4. Word(w, 1) = "find" => Words(w) \intersect FindMutators = {}
    BY <2>1, <2>2 DEF MainCommand, None
  <2>5. Word(w, 1) = "git" /\ Word(w, 2) \in GitReadOnly
    <3>1. Word(w, 1) = "git"
      BY <1>3, <2>3, <2>4 DEF Changes
    <3> QED
      BY <2>1, <2>2, <3>1 DEF MainCommand, None
  <2>6. w \in Seq(STRING)
    BY ElementOfSeq, LenProperties DEF Call
  <2>7. Word(GitWords(w), 1) = Word(w, 2)
    BY <2>5, <2>6, Subcommand
  <2>8. Word(GitWords(w), 1) \in GitWriters \union {"diff", "log", "show", "branch", "remote"}
    BY <1>3, <2>3, <2>4 DEF Changes
  <2> QED
    BY <2>5, <2>7, <2>8 DEF Admitted, GitWriters, GitReadOnly
<1> QED
  BY <1>1, <1>2, <1>3 DEF MutatingOtherwise, Mutating

\* Who blocks a call; nobody does only if no loaded extension blocks it.
LEMMA Blocked ==
  ASSUME NEW s \in Sessions, NEW c \in Calls, NEW head, loaded[s] \subseteq Extensions
  PROVE  /\ Blocker(s, c, head) \in Extensions \union {None}
         /\ Blocker(s, c, head) # None => Blocks(Blocker(s, c, head), s, c, head)
         /\ Blocker(s, c, head) = None =>
              Blockers(s, c, head) = {} /\ \A g \in loaded[s] : ~Blocks(g, s, c, head)
<1>1. ~Blocks(None, s, c, head)
  BY DEF Blocks, None, Canaries
<1>2. CASE Blockers(s, c, head) = {}
  <2>1. \A g \in loaded[s] : \E i \in DOMAIN Chain : Chain[i] = g
    BY DEF Extensions
  <2> QED
    BY <1>2, <2>1 DEF Blocker, Blockers
<1>3. CASE Blockers(s, c, head) # {}
  <2>1. First(Blockers(s, c, head)) \in Blockers(s, c, head)
    BY <1>3, FirstPlace, SessionAssumption DEF Blockers
  <2> QED
    BY <1>1, <1>3, <2>1 DEF Blocker, Blockers, Extensions
<1> QED
  BY <1>2, <1>3

-----------------------------------------------------------------------------
(* Each action keeps the invariant.                                        *)

LEMMA InitInv == Init => SessionInv
<1> SUFFICES ASSUME Init PROVE SessionInv
  OBVIOUS
<1>1. TypeOK
  BY SessionAssumption, EmptySeq DEF Init, TypeOK
<1>2. Handshakes /\ Halts /\ Unborn /\ Decided
  BY SessionAssumption DEF Init, Handshakes, Halts, Unborn, Decided
<1>3. \A s \in Sessions : Len(calls[s]) = 0 /\ DOMAIN calls[s] = {}
  BY EmptySeq DEF Init
<1>4. Counted /\ NoStuckAgent /\ ChildrenWork
  BY <1>3 DEF Init, Counted, NoStuckAgent, ChildrenWork
<1> QED
  BY <1>1, <1>2, <1>4 DEF SessionInv

\* What concerns only transcripts and the detector stays when they do.
LEMMA TranscriptsStay ==
  ASSUME SessionInv, UNCHANGED <<calls, detector>>,
         \A s \in Sessions : loaded'[s] = loaded[s] \/ calls[s] = <<>>,
         \A s \in Sessions : \/ delegated'[s] = delegated[s] /\ halted'[s] = halted[s]
                             \/ calls[s] = <<>> /\ halted'[s] = {}
  PROVE  (Counted /\ NoStuckAgent /\ ChildrenWork)'
<1>1. \A s \in Sessions : calls[s] = <<>> => Len(calls[s]) = 0 /\ DOMAIN calls[s] = {}
  BY EmptySeq
<1> USE DEF SessionInv
<1>2. Counted'
  BY <1>1 DEF Counted, LastRan, Current, detector
<1>3. NoStuckAgent'
  BY <1>1 DEF NoStuckAgent
<1>4. ChildrenWork'
  BY <1>1 DEF ChildrenWork
<1> QED
  BY <1>2, <1>3, <1>4

\* A process begins.
LEMMA BeginKeeps ==
  ASSUME SessionInv, NEW s \in Sessions, NEW d \in Depths, NEW a \in Agents \union {None},
         NEW h \in Sessions \union {None}, \A t \in Sessions : phase[t] = "none" => t # h,
         Begin(s, d, a, h)
  PROVE  SessionInv'
<1> USE DEF SessionInv
<1>0. PICK failed \in Failures :
        /\ loaded' = [loaded EXCEPT ![s] = Extensions \ failed]
        /\ handshake' = [handshake EXCEPT ![s] =
                           IF "force-delegate" \in loaded'[s] /\ ~IsDelegatedChild(d) THEN s ELSE h]
  BY DEF Begin
<1>1. TypeOK'
  <2>1. loaded' \in [Sessions -> SUBSET Extensions]
    BY <1>0 DEF TypeOK
  <2>2. handshake' \in [Sessions -> Sessions \union {None}]
    BY <1>0 DEF TypeOK
  <2>3. delegated' \in [Sessions -> BOOLEAN] /\ agent' \in [Sessions -> Agents \union {None}]
    BY DEF TypeOK, Begin, IsDelegatedChild
  <2>4. phase' \in [Sessions -> {"none", "loaded", "idle", "turn", "running", "over"}]
    BY DEF TypeOK, Begin
  <2> QED
    BY <2>1, <2>2, <2>3, <2>4 DEF TypeOK, Begin, detector
<1>2. Handshakes'
  <2>1. \A t \in Sessions : t # s => /\ handshake'[t] = handshake[t]
                                    /\ loaded'[t] = loaded[t] /\ phase'[t] = phase[t]
    BY <1>0 DEF TypeOK, Begin
  <2>2. \/ handshake'[s] = h
        \/ handshake'[s] = s /\ "force-delegate" \in loaded'[s]
    <3>1. handshake'[s] = IF "force-delegate" \in loaded'[s] /\ ~IsDelegatedChild(d) THEN s ELSE h
      BY <1>0 DEF TypeOK
    <3> QED
      BY <3>1
  <2>3. phase[s] = "none" /\ phase'[s] = "loaded"
    BY DEF TypeOK, Begin
  <2>4. \A t, q \in Sessions : phase'[t] = "none" => handshake'[q] # t
    BY <2>1, <2>2, <2>3 DEF Handshakes
  <2>5. \A t \in Sessions : handshake'[t] = t => "force-delegate" \in loaded'[t]
    BY <2>1, <2>2, <2>3 DEF Handshakes
  <2> QED
    BY <2>4, <2>5 DEF Handshakes
<1>3. (Halts /\ Unborn)'
  BY DEF TypeOK, Halts, Unborn, Begin, Cleared
<1>4. Decided'
  BY DEF TypeOK, Decided, Begin, Current
<1>5. (Counted /\ NoStuckAgent /\ ChildrenWork)'
  <2>1. calls[s] = <<>> /\ halted'[s] = {}
    BY DEF Unborn, Halts, Begin
  <2> QED
    BY <2>1, TranscriptsStay DEF TypeOK, Begin, detector
<1> QED
  BY <1>1, <1>2, <1>3, <1>4, <1>5

\* session_start.
LEMMA SessionStartKeeps ==
  ASSUME SessionInv, NEW s \in Sessions, SessionStart(s)
  PROVE  SessionInv'
<1> USE DEF SessionInv
<1>1. TypeOK'
  <2>1. halted' \in [Sessions -> SUBSET Canaries]
    BY DEF TypeOK, SessionStart, Halting
  <2>2. armed' \in [Sessions -> BOOLEAN]
    BY DEF TypeOK, SessionStart
  <2>3. phase' \in [Sessions -> {"none", "loaded", "idle", "turn", "running", "over"}]
    BY DEF TypeOK, SessionStart
  <2> QED
    BY <2>1, <2>2, <2>3 DEF TypeOK, SessionStart, environment, detector
<1>2. (Handshakes /\ Halts /\ Unborn)'
  BY DEF TypeOK, Handshakes, Halts, Unborn, SessionStart, Halting, Cleared, environment
<1>3. Decided'
  BY DEF TypeOK, Decided, SessionStart, Current, environment
<1>4. (Counted /\ NoStuckAgent)'
  BY DEF SessionStart, Counted, NoStuckAgent, LastRan, Current, environment, detector
<1>5. ChildrenWork'
  BY DEF TypeOK, SessionStart, ChildrenWork, Halting, Cleared, environment
<1> QED
  BY <1>1, <1>2, <1>3, <1>4, <1>5

\* A prompt, and the end of a turn.
LEMMA TurnKeeps ==
  ASSUME SessionInv, NEW s \in Sessions, Input(s) \/ EndTurn(s)
  PROVE  SessionInv'
<1> USE DEF SessionInv
<1>1. TypeOK'
  BY DEF TypeOK, Input, EndTurn, environment, detector
<1>2. (Handshakes /\ Halts /\ Unborn)'
  BY DEF TypeOK, Handshakes, Halts, Unborn, Input, EndTurn, Cleared, environment
<1>3. Decided'
  BY DEF TypeOK, Decided, Input, EndTurn, Current, environment
<1>4. (Counted /\ NoStuckAgent /\ ChildrenWork)'
  BY TranscriptsStay DEF Input, EndTurn, environment, detector
<1> QED
  BY <1>1, <1>2, <1>3, <1>4

\* The user switches the branch.
LEMMA UserKeeps ==
  ASSUME SessionInv, UserSwitches
  PROVE  SessionInv'
<1> USE DEF SessionInv
<1>1. TypeOK'
  BY DEF TypeOK, UserSwitches, environment, detector
<1>2. (Handshakes /\ Halts /\ Unborn /\ Decided)'
  BY DEF Handshakes, Halts, Unborn, Decided, UserSwitches, Cleared, Current, environment
<1>3. (Counted /\ NoStuckAgent /\ ChildrenWork)'
  BY TranscriptsStay DEF UserSwitches, environment, detector
<1> QED
  BY <1>1, <1>2, <1>3

\* A command of an approved call runs.
LEMMA ExecuteKeeps ==
  ASSUME SessionInv, NEW s \in Sessions, Execute(s)
  PROVE  SessionInv'
<1> USE DEF SessionInv
<1>1. /\ rest[s] \in Seq(Seq(STRING)) /\ Len(rest[s]) \in Nat
      /\ rest[s] # <<>> => 1 \in DOMAIN rest[s] /\ Head(rest[s]) = rest[s][1]
      /\ Len(rest[s]) > 1 => /\ rest[s] # <<>> /\ Tail(rest[s]) \in Seq(Seq(STRING))
                            /\ \A k \in DOMAIN Tail(rest[s]) :
                                 k + 1 \in DOMAIN rest[s] /\ Tail(rest[s])[k] = rest[s][k + 1]
  BY HeadTailProperties, LenProperties, EmptySeq DEF TypeOK
<1>2. \A c : Switches(c) => Word(c, 3) \in Branches
  BY DEF Switches
<1>3. TypeOK'
  <2>1. branch' \in Branches
    BY <1>2 DEF TypeOK, Execute
  <2>2. landed' \subseteq Sessions \X Protected
    <3>1. LandsOn(Head(rest[s])) \subseteq Protected
      BY DEF LandsOn
    <3> QED
      BY <3>1 DEF TypeOK, Execute
  <2>3. rest' \in [Sessions -> Seq(Seq(STRING))]
    <3>1. CASE Len(rest[s]) > 1
      BY <1>1, <3>1 DEF TypeOK, Execute
    <3>2. CASE ~(Len(rest[s]) > 1)
      <4>1. rest' = [rest EXCEPT ![s] = <<>>]
        BY <3>2 DEF Execute
      <4> QED
        BY <4>1, EmptySeq DEF TypeOK
    <3> QED
      BY <3>1, <3>2
  <2>4. phase' \in [Sessions -> {"none", "loaded", "idle", "turn", "running", "over"}]
    BY DEF TypeOK, Execute
  <2> QED
    BY <2>1, <2>2, <2>3, <2>4 DEF TypeOK, Execute, environment, detector
<1>4. (Handshakes /\ Halts /\ Unborn)'
  <2>1. UNCHANGED <<delegated, agent, handshake, loaded, halted, armed, calls>>
    BY DEF Execute, environment
  <2>2. \A t \in Sessions : \/ phase'[t] = phase[t]
                            \/ t = s /\ phase[t] = "running" /\ phase'[t] = "turn"
    <3>1. phase[s] = "running" /\ (phase' = phase \/ phase' = [phase EXCEPT ![s] = "turn"])
      BY DEF Execute
    <3>2. phase \in [Sessions -> {"none", "loaded", "idle", "turn", "running", "over"}]
      BY DEF TypeOK
    <3>3. CASE phase' = phase
      BY <3>3
    <3>4. CASE phase' = [phase EXCEPT ![s] = "turn"]
      BY <3>1, <3>2, <3>4
    <3> QED
      BY <3>1, <3>3, <3>4
  <2> QED
    BY <2>1, <2>2 DEF Handshakes, Halts, Unborn, Cleared, Execute, TypeOK
<1>5. Decided'
  <2>1. \A t \in Sessions : phase'[t] = "running" => phase[t] = "running"
    BY DEF TypeOK, Execute
  <2> QED
    BY <2>1 DEF Decided, Execute, Current, environment
<1>6. (Counted /\ NoStuckAgent /\ ChildrenWork)'
  BY TranscriptsStay DEF Execute, environment, detector
<1> QED
  BY <1>3, <1>4, <1>5, <1>6

\* A call is added to the transcript of its session.
LEMMA CallAppended ==
  ASSUME TypeOK, NEW s \in Sessions, NEW c \in Calls, NEW head, Decide(s, c, head)
  PROVE  LET n == Len(calls[s]) + 1 by == Blocker(s, c, head) IN
           /\ calls[s] \in Seq([call: Calls, by: Extensions \union {None}])
           /\ n \in Nat /\ n \geq 1
           /\ Len(calls'[s]) = n /\ calls'[s][n] = [call |-> c, by |-> by]
           /\ \A i \in 1..(n - 1) : calls'[s][i] = calls[s][i]
           /\ \A t \in Sessions : t # s => calls'[t] = calls[t]
           /\ \A t \in Sessions : DOMAIN calls'[t] = 1..Len(calls'[t]) /\ DOMAIN calls[t] = 1..Len(calls[t])
<1> DEFINE n == Len(calls[s]) + 1
           by == Blocker(s, c, head)
<1>1. [call |-> c, by |-> by] \in [call: Calls, by: Extensions \union {None}]
  BY Blocked DEF TypeOK
<1>2. calls' = [calls EXCEPT ![s] = Append(calls[s], [call |-> c, by |-> by])]
  BY DEF Decide
<1>3. \A t \in Sessions : calls[t] \in Seq([call: Calls, by: Extensions \union {None}])
  BY DEF TypeOK
<1>4. \A t \in Sessions : calls'[t] \in Seq([call: Calls, by: Extensions \union {None}])
  BY <1>1, <1>2, <1>3, AppendProperties DEF TypeOK
<1>5. /\ calls'[s] = Append(calls[s], [call |-> c, by |-> by])
      /\ \A t \in Sessions : t # s => calls'[t] = calls[t]
  BY <1>2 DEF TypeOK
<1>6. /\ Len(calls'[s]) = n /\ n \in Nat /\ n \geq 1
      /\ calls'[s][n] = [call |-> c, by |-> by]
      /\ \A i \in 1..(n - 1) : calls'[s][i] = calls[s][i]
  BY <1>1, <1>3, <1>5, AppendProperties, LenProperties
<1>7. \A t \in Sessions : DOMAIN calls'[t] = 1..Len(calls'[t]) /\ DOMAIN calls[t] = 1..Len(calls[t])
  BY <1>3, <1>4, LenProperties
<1> QED
  BY <1>3, <1>5, <1>6, <1>7

\* A call is decided: what the transcript and the detector say of it.
LEMMA DecideCounts ==
  ASSUME SessionInv, NEW s \in Sessions, NEW c \in Calls, NEW head, Decide(s, c, head)
  PROVE  (Counted /\ NoStuckAgent)'
<1> DEFINE n == Len(calls[s]) + 1
           by == Blocker(s, c, head)
<1> USE DEF SessionInv
<1>1. /\ calls[s] \in Seq([call: Calls, by: Extensions \union {None}])
      /\ n \in Nat /\ n \geq 1
      /\ Len(calls'[s]) = n /\ calls'[s][n] = [call |-> c, by |-> by]
      /\ \A i \in 1..(n - 1) : calls'[s][i] = calls[s][i]
      /\ \A t \in Sessions : t # s => calls'[t] = calls[t]
      /\ \A t \in Sessions : DOMAIN calls'[t] = 1..Len(calls'[t]) /\ DOMAIN calls[t] = 1..Len(calls[t])
  BY CallAppended
<1>2. ASSUME "repeat-call-detector" \in loaded[s], by = None
      PROVE  /\ lastCall'[s] = c /\ streak'[s] = Streak(s, c)
             /\ Streak(s, c) < Limit /\ Streak(s, c) \in Nat /\ Streak(s, c) \geq 1
  <2>1. Blockers(s, c, head) = {} /\ ~Blocks("repeat-call-detector", s, c, head)
    BY <1>2, Blocked DEF TypeOK
  <2>2. Asked("repeat-call-detector", s, c, head)
    BY <1>2, <2>1 DEF Asked
  <2>3. lastCall'[s] = c /\ streak'[s] = Streak(s, c)
    BY <2>2 DEF Decide, Count, TypeOK
  <2>4. Streak(s, c) \in Nat /\ Streak(s, c) \geq 1
    BY DEF Streak, TypeOK
  <2>5. ~(Streak(s, c) \geq Limit)
    BY <2>1 DEF Blocks, Canaries
  <2> QED
    BY <2>3, <2>4, <2>5, SessionAssumption
<1>3. ASSUME "repeat-call-detector" \in loaded[s], NEW k \in 1..n,
             \A j \in (n - k + 1)..n : calls'[s][j].by = None /\ calls'[s][j].call = c
      PROVE  lastCall'[s] = c /\ streak'[s] \geq k /\ k < Limit
  <2>1. by = None
    <3>1. n \in (n - k + 1)..n
      BY <1>1
    <3>2. calls'[s][n].by = None
      BY ONLY <1>3, <3>1
    <3>3. calls'[s][n] = [call |-> c, by |-> by]
      BY ONLY <1>1
    <3> QED
      BY ONLY <3>2, <3>3
  <2>2. CASE k = 1
    BY <1>2, <1>3, <2>1, <2>2, SessionAssumption
  <2>3. CASE k # 1
    <3>1. k - 1 \in 1..(n - 1) /\ n - 1 \in (n - k + 1)..n /\ n - 1 \in 1..(n - 1)
      BY <1>1, <2>3
    <3>2. Current(s) = c
      BY <1>1, <1>3, <3>1 DEF Current
    <3>3. LastRan(s, k - 1)
      <4>1. ASSUME NEW j \in (Len(calls[s]) - (k - 1) + 1)..Len(calls[s])
            PROVE  j \in (n - k + 1)..n /\ j \in 1..(n - 1)
        BY <1>1, <3>1
      <4> QED
        BY <1>1, <1>3, <3>2, <4>1 DEF LastRan
    <3>4. lastCall[s] = c /\ streak[s] \geq k - 1
      BY <1>3, <3>1, <3>2, <3>3 DEF Counted
    <3>5. Streak(s, c) = streak[s] + 1 /\ streak[s] \in Nat
      BY <3>4 DEF Streak, TypeOK
    <3> QED
      BY <1>2, <1>3, <2>1, <3>4, <3>5, SessionAssumption
  <2> QED
    BY <2>2, <2>3
<1>4. Counted'
  <2> SUFFICES ASSUME NEW t \in Sessions, "repeat-call-detector" \in loaded[t],
                      NEW k \in 1..Len(calls'[t]), LastRan(t, k)'
               PROVE  lastCall'[t] = Current(t)' /\ streak'[t] \geq k /\ k < Limit
    BY DEF Counted, Decide
  <2>1. CASE t = s
    <3>1. Current(t)' = c
      BY <1>1, <2>1 DEF Current
    <3>2. \A j \in (n - k + 1)..n : calls'[s][j].by = None /\ calls'[s][j].call = c
      BY <1>1, <2>1, <3>1 DEF LastRan
    <3> QED
      BY <1>1, <1>3, <2>1, <3>1, <3>2
  <2>2. CASE t # s
    <3>1. lastCall'[t] = lastCall[t] /\ streak'[t] = streak[t] /\ calls'[t] = calls[t]
      BY <1>1, <2>2 DEF Decide, Count, TypeOK, detector
    <3>2. Current(t)' = Current(t) /\ LastRan(t, k) /\ k \in 1..Len(calls[t])
      BY <3>1 DEF LastRan, Current
    <3>3. lastCall[t] = Current(t) /\ streak[t] \geq k /\ k < Limit
      BY <3>2, Zenon DEF Counted
    <3> QED
      BY <3>1, <3>2, <3>3
  <2> QED
    BY <2>1, <2>2
<1>5. NoStuckAgent'
  <2> SUFFICES ASSUME NEW t \in Sessions, "repeat-call-detector" \in loaded[t],
                      NEW i \in 1..Len(calls'[t]), i \geq Limit
               PROVE  \E j \in (i - Limit + 1)..i :
                        calls'[t][j].by # None \/ calls'[t][j].call # calls'[t][i].call
    BY <1>1 DEF NoStuckAgent, Decide
  <2>1. CASE t # s
    BY <1>1, <2>1 DEF NoStuckAgent
  <2>2. CASE t = s /\ i < n
    <3>1. i \in 1..(n - 1)
      BY <1>1, <2>2
    <3>2. PICK j \in (i - Limit + 1)..i : calls[s][j].by # None \/ calls[s][j].call # calls[s][i].call
      BY <1>1, <2>2, <3>1 DEF NoStuckAgent
    <3>3. j \in 1..(n - 1)
      BY <3>1, <3>2, SessionAssumption
    <3> QED
      BY <1>1, <2>2, <3>1, <3>2, <3>3
  <2>3. CASE t = s /\ i = n
    <3>1. Limit \in 1..n /\ ~(Limit < Limit)
      BY <2>3, SessionAssumption
    <3>2. calls'[t][i].call = c
      BY <1>1, <2>3
    <3>3. CASE by # None
      <4>1. n \in (n - Limit + 1)..n /\ calls'[t][n].by # None
        BY <1>1, <2>3, <3>1, <3>3
      <4> QED
        BY <2>3, <4>1
    <3>4. CASE "repeat-call-detector" \in loaded[s] /\ by = None
      BY <1>3, <2>3, <3>1, <3>2, <3>4
    <3> QED
      BY <2>3, <3>3, <3>4
  <2> QED
    BY <1>1, <2>1, <2>2, <2>3
<1> QED
  BY <1>4, <1>5

\* A call is decided.
LEMMA DecideKeeps ==
  ASSUME SessionInv, NEW s \in Sessions, NEW c \in Calls, NEW head, Decide(s, c, head)
  PROVE  SessionInv'
<1> DEFINE by == Blocker(s, c, head)
<1> USE DEF SessionInv
<1>1. /\ c \in Call /\ c.tool \in Tools /\ c.commands \in Seq(Seq(STRING))
      /\ by \in Extensions \union {None} /\ (c.tool # "bash" => c.commands = <<>>)
  BY SessionAssumption, Blocked DEF TypeOK, Call
<1>2. /\ phase[s] = "turn" /\ UNCHANGED <<branch, landed, delegated, agent, handshake, loaded, halted, armed>>
      /\ calls' = [calls EXCEPT ![s] = Append(calls[s], [call |-> c, by |-> by])]
  BY DEF Decide, environment
<1>3. \/ by # None /\ UNCHANGED <<phase, rest>>
      \/ /\ by = None /\ phase' = [phase EXCEPT ![s] = "running"]
         /\ rest' = [rest EXCEPT ![s] = c.commands]
  BY DEF Decide
<1>4. TypeOK'
  <2>1. calls' \in [Sessions -> Seq([call: Calls, by: Extensions \union {None}])]
    <3>1. [call |-> c, by |-> by] \in [call: Calls, by: Extensions \union {None}]
      BY <1>1
    <3>2. calls[s] \in Seq([call: Calls, by: Extensions \union {None}])
      BY DEF TypeOK
    <3>3. Append(calls[s], [call |-> c, by |-> by]) \in Seq([call: Calls, by: Extensions \union {None}])
      BY <3>1, <3>2, AppendProperties
    <3> QED
      BY <1>2, <3>3 DEF TypeOK
  <2>2. /\ phase' \in [Sessions -> {"none", "loaded", "idle", "turn", "running", "over"}]
        /\ rest' \in [Sessions -> Seq(Seq(STRING))]
    BY <1>1, <1>3 DEF TypeOK
  <2>3. log' \in [Extensions \X Tools -> Nat]
    <3>1. CASE log' = log
      BY <3>1 DEF TypeOK
    <3>2. CASE by \notin Canaries \union {None} /\ log' = [log EXCEPT ![<<by, c.tool>>] = @ + 1]
      <4>1. <<by, c.tool>> \in Extensions \X Tools
        BY <1>1, <3>2
      <4>2. log[<<by, c.tool>>] + 1 \in Nat
        BY <4>1 DEF TypeOK
      <4> QED
        BY <3>2, <4>1, <4>2 DEF TypeOK
    <3> QED
      BY <3>1, <3>2 DEF Decide, Logged
  <2>4. lastCall' \in [Sessions -> Calls \union {NoCall}] /\ streak' \in [Sessions -> Nat]
    <3>1. Streak(s, c) \in Nat
      BY DEF Streak, TypeOK
    <3>2. CASE Count(s, c)
      BY <3>1, <3>2 DEF Count, TypeOK
    <3>3. CASE UNCHANGED detector
      BY <3>3 DEF detector, TypeOK
    <3> QED
      BY <3>2, <3>3 DEF Decide
  <2>5. budget' \in 0..MaxCalls
    BY SessionAssumption DEF TypeOK, Decide
  <2> QED
    BY <1>2, <2>1, <2>2, <2>3, <2>4, <2>5 DEF TypeOK
<1>5. \A t \in Sessions : \/ phase'[t] = phase[t]
                          \/ t = s /\ phase'[t] = "running" /\ phase[t] = "turn"
  <2>1. phase \in [Sessions -> {"none", "loaded", "idle", "turn", "running", "over"}]
    BY DEF TypeOK
  <2>2. phase' = phase \/ phase' = [phase EXCEPT ![s] = "running"]
    BY <1>3
  <2>3. CASE phase' = phase
    BY <2>3
  <2>4. CASE phase' = [phase EXCEPT ![s] = "running"]
    BY <1>2, <2>1, <2>4
  <2> QED
    BY <2>2, <2>3, <2>4
<1>6. (Handshakes /\ Halts)'
  BY <1>2, <1>5 DEF Handshakes, Halts, Cleared
<1>7. Unborn'
  BY <1>2, <1>5 DEF Unborn, TypeOK
<1>8. Decided'
  <2> SUFFICES ASSUME NEW t \in Sessions, phase'[t] = "running"
               PROVE  /\ calls'[t] # <<>>
                      /\ (~delegated[t] /\ "force-delegate" \in loaded[t])
                           => ~DelegateBlocks(Current(t)')
    BY <1>2 DEF Decided
  <2>1. CASE t # s
    BY <1>2, <1>3, <2>1 DEF Decided, Current, TypeOK
  <2>2. CASE t = s
    <3>1. by = None
      BY <1>2, <1>3, <2>2 DEF TypeOK
    <3>2. \A g \in loaded[s] : ~Blocks(g, s, c, head)
      BY <3>1, Blocked DEF TypeOK
    <3>3. calls'[t] # <<>> /\ Current(t)' = c
      <4>1. calls[s] \in Seq([call: Calls, by: Extensions \union {None}])
        BY DEF TypeOK
      <4>2. calls'[s] = Append(calls[s], [call |-> c, by |-> by])
        BY <1>2 DEF TypeOK
      <4>3. [call |-> c, by |-> by] \in [call: Calls, by: Extensions \union {None}]
        BY <1>1
      <4> QED
        BY <2>2, <4>1, <4>2, <4>3, AppendProperties, LenProperties DEF Current
    <3>4. (~delegated[t] /\ "force-delegate" \in loaded[t]) => ~DelegateBlocks(c)
      BY <2>2, <3>2 DEF Blocks, Canaries
    <3> QED
      BY <3>1, <3>3, <3>4
  <2> QED
    BY <2>1, <2>2
<1>9. ChildrenWork'
  <2> SUFFICES ASSUME NEW t \in Sessions, delegated[t], NEW i \in DOMAIN calls'[t]
               PROVE  calls'[t][i].by \notin Canaries \union {"force-delegate"}
    BY <1>2 DEF ChildrenWork
  <2>1. CASE t # s
    BY <1>2, <2>1 DEF ChildrenWork, TypeOK
  <2>2. CASE t = s
    <3>1. by \notin Canaries \union {"force-delegate"}
      <4>1. halted[s] = {}
        BY <2>2 DEF Halts
      <4> QED
        BY <2>2, <4>1, Blocked DEF Blocks, Canaries, None, TypeOK
    <3>2. calls[s] \in Seq([call: Calls, by: Extensions \union {None}])
      BY DEF TypeOK
    <3>3. calls'[s] = Append(calls[s], [call |-> c, by |-> by])
      BY <1>2 DEF TypeOK
    <3>4. [call |-> c, by |-> by] \in [call: Calls, by: Extensions \union {None}]
      BY <1>1
    <3>6. /\ DOMAIN calls'[s] = 1..(Len(calls[s]) + 1) /\ DOMAIN calls[s] = 1..Len(calls[s])
          /\ Len(calls[s]) \in Nat
          /\ calls'[s][Len(calls[s]) + 1] = [call |-> c, by |-> by]
          /\ \A j \in 1..Len(calls[s]) : calls'[s][j] = calls[s][j]
      BY <3>2, <3>3, <3>4, AppendProperties, LenProperties
    <3>5. \/ calls'[s][i].by = by
          \/ i \in DOMAIN calls[s] /\ calls'[s][i] = calls[s][i]
      BY <2>2, <3>6
    <3> QED
      BY <2>2, <3>1, <3>5 DEF ChildrenWork
  <2> QED
    BY <2>1, <2>2
<1> QED
  BY <1>4, <1>6, <1>7, <1>8, <1>9, DecideCounts

-----------------------------------------------------------------------------
(* The theorems.                                                           *)

LEMMA StepKeeps == SessionInv /\ [Next]_vars => SessionInv'
<1> SUFFICES ASSUME SessionInv, [Next]_vars PROVE SessionInv'
  OBVIOUS
<1>0. \A p \in Sessions : /\ handshake[p] \in Sessions \union {None}
                         /\ \A t \in Sessions : phase[t] = "none" => t # handshake[p] /\ t # None
  BY SessionAssumption DEF SessionInv, Handshakes, TypeOK
<1>1. CASE UserSwitches
  BY <1>1, UserKeeps
<1>2. ASSUME NEW s \in Sessions, Launch(s)
      PROVE  SessionInv'
  BY <1>2, BeginKeeps, SessionAssumption DEF Launch
<1>3. ASSUME NEW s \in Sessions, NEW p \in Sessions, LaunchFrom(s, p)
      PROVE  SessionInv'
  <2>1. "unset" \in Depths /\ Begin(s, "unset", None, handshake[p])
    BY <1>3 DEF LaunchFrom, Depths
  <2> QED
    BY <1>0, <2>1, BeginKeeps
<1>4. ASSUME NEW s \in Sessions, NEW p \in Sessions, Delegate(s, p)
      PROVE  SessionInv'
  <2>1. PICK a \in Agents : Begin(s, "1", a, handshake[p])
    BY <1>4 DEF Delegate
  <2>2. "1" \in Depths
    BY DEF Depths
  <2> QED
    BY <1>0, <2>1, <2>2, BeginKeeps
<1>5. ASSUME NEW s \in Sessions, SessionStart(s) \/ Input(s) \/ EndTurn(s) \/ Execute(s)
      PROVE  SessionInv'
  BY <1>5, SessionStartKeeps, TurnKeeps, ExecuteKeeps
<1>6. ASSUME NEW s \in Sessions, NEW c \in Calls, NEW head, Decide(s, c, head)
      PROVE  SessionInv'
  BY <1>6, DecideKeeps
<1>7. CASE UNCHANGED vars
  <2>1. UNCHANGED <<branch, landed, log, phase, delegated, agent, handshake, loaded, halted, armed>>
    BY <1>7 DEF vars, environment
  <2>2. UNCHANGED <<lastCall, streak, rest, calls, budget>>
    BY <1>7 DEF vars, detector
  <2>3. TypeOK' /\ (Handshakes /\ Halts /\ Unborn)'
    BY <2>1, <2>2 DEF SessionInv, TypeOK, Handshakes, Halts, Unborn, Cleared
  <2>4. Decided'
    BY <2>1, <2>2 DEF SessionInv, Decided, Current
  <2>5. (Counted /\ NoStuckAgent /\ ChildrenWork)'
    BY <2>1, <2>2, TranscriptsStay DEF detector
  <2> QED
    BY <2>3, <2>4, <2>5 DEF SessionInv
<1> QED
  BY <1>1, <1>2, <1>3, <1>4, <1>5, <1>6, <1>7 DEF Next

\* Every reachable state satisfies the invariant.
THEOREM Invariance == Spec => []SessionInv
<1>1. Init => SessionInv
  BY InitInv
<1>2. SessionInv /\ [Next]_vars => SessionInv'
  BY StepKeeps
<1> QED
  BY <1>1, <1>2, PTL DEF Spec

\* The processes, their environments and their transcripts are well typed.
THEOREM TypeCorrect == Spec => []TypeOK
<1>1. SessionInv => TypeOK
  BY DEF SessionInv
<1> QED
  BY <1>1, Invariance, PTL

\* A top-level session of a marked checkout changes the repository by nothing but the git
\* subcommands that GIT_READONLY admits: force-delegate decides its calls, or a canary has
\* halted it, because no other process leaves its pid in the environment.
THEOREM TopLevelDelegates == Spec => []MainDelegates
<1>1. SessionInv => MainDelegates
  <2> SUFFICES ASSUME SessionInv, NEW s \in Sessions, phase[s] = "running", ~delegated[s],
                      armed[s], loaded[s] \intersect Canaries # {}
               PROVE  ~MutatingOtherwise(Current(s))
    BY DEF MainDelegates, Watched
  <2>1. Cleared(s)
    BY DEF SessionInv, Halts
  <2>2. ~DelegateBlocks(Current(s))
    BY <2>1 DEF Cleared, SessionInv, Handshakes, Decided
  <2>3. Current(s) \in Call
    <3>1. calls[s] \in Seq([call: Calls, by: Extensions \union {None}]) /\ calls[s] # <<>>
      BY DEF SessionInv, TypeOK, Decided
    <3>2. Len(calls[s]) \in 1..Len(calls[s])
      BY <3>1, EmptySeq, LenProperties
    <3> QED
      <4>1. calls[s][Len(calls[s])] \in [call: Calls, by: Extensions \union {None}]
        BY <3>1, <3>2, ElementOfSeq
      <4> QED
        BY <4>1, SessionAssumption DEF Current
  <2> QED
    BY <2>2, <2>3, DelegateReadOnly
<1> QED
  BY <1>1, Invariance, PTL

\* The guards of the main agent never stop a delegated child.
THEOREM ChildrenFree == Spec => []ChildrenWork
<1>1. SessionInv => ChildrenWork
  BY DEF SessionInv
<1> QED
  BY <1>1, Invariance, PTL

\* No agent repeats a call Limit times unhindered.
THEOREM StuckAgentStopped == Spec => []NoStuckAgent
<1>1. SessionInv => NoStuckAgent
  BY DEF SessionInv
<1> QED
  BY <1>1, Invariance, PTL

-----------------------------------------------------------------------------
(* The detector blocks only with cause.                                    *)

\* The streak is earned by a row of calls that the detector was asked about.
StreakEarned ==
  \A s \in Sessions : "repeat-call-detector" \in loaded[s] /\ streak[s] > 0 =>
    \E first \in 1..Len(calls[s]) : Row(s, first, Len(calls[s]), lastCall[s], streak[s])
Uncounted == \A s \in Sessions : phase[s] = "none" => streak[s] = 0

StreakInv == SessionInv /\ StreakEarned /\ Uncounted /\ RepeatEarned

\* Whether the detector was asked about a call shows in the transcript.
LEMMA AskedHeard ==
  ASSUME NEW s \in Sessions, NEW c \in Calls, NEW head, loaded[s] \subseteq Extensions,
         "repeat-call-detector" \in loaded[s]
  PROVE  Asked("repeat-call-detector", s, c, head) <=>
           \E p \in DOMAIN Chain :
             /\ Chain[p] = "repeat-call-detector"
             /\ \A q \in 1..(p - 1) : Chain[q] # Blocker(s, c, head)
<1> DEFINE g == "repeat-call-detector"
           heard == \E p \in DOMAIN Chain :
                      Chain[p] = g /\ \A q \in 1..(p - 1) : Chain[q] # Blocker(s, c, head)
<1>1. /\ DOMAIN Chain = 1..Len(Chain) /\ Len(Chain) \in Nat
      /\ \E p \in DOMAIN Chain : Chain[p] = g
      /\ \A i \in DOMAIN Chain : Chain[i] # None
  BY SessionAssumption, LenProperties DEF Extensions
<1>2. CASE Blockers(s, c, head) = {}
  <2>1. Blocker(s, c, head) = None
    BY <1>2 DEF Blocker
  <2>2. \A p \in DOMAIN Chain : \A q \in 1..(p - 1) : q \in DOMAIN Chain
    BY <1>1
  <2>3. heard
    BY <1>1, <2>1, <2>2
  <2> QED
    BY <1>2, <2>3 DEF Asked
<1>3. CASE Blockers(s, c, head) # {}
  <2> DEFINE f == First(Blockers(s, c, head))
  <2>1. f \in Blockers(s, c, head) /\ \A i \in Blockers(s, c, head) : f \leq i
    BY <1>1, <1>3, FirstPlace, SessionAssumption DEF Blockers
  <2>2. Blocker(s, c, head) = Chain[f] /\ f \in DOMAIN Chain
    BY <1>3, <2>1 DEF Blocker, Blockers
  <2> HIDE DEF f
  <2>3. ASSUME NEW q \in DOMAIN Chain, q < f PROVE Chain[q] # Chain[f]
    <3>1. q \notin Blockers(s, c, head)
      BY <1>1, <2>1, <2>2, <2>3
    <3> QED
      BY <2>1, <3>1 DEF Blockers
  <2>4. ASSUME NEW i \in 1..f, Chain[i] = g PROVE heard
    <3>1. i \in DOMAIN Chain /\ \A q \in 1..(i - 1) : q \in DOMAIN Chain /\ q < f
      BY <1>1, <2>2, <2>4
    <3> QED
      BY <2>2, <2>3, <2>4, <3>1
  <2>5. ASSUME NEW p \in DOMAIN Chain, Chain[p] = g,
               \A q \in 1..(p - 1) : Chain[q] # Blocker(s, c, head)
        PROVE  p \in 1..f
    BY <1>1, <2>2, <2>5
  <2>6. Asked(g, s, c, head) <=> \E i \in 1..f : Chain[i] = g
    BY <1>3 DEF Asked, f
  <2> QED
    BY <2>4, <2>5, <2>6
<1> QED
  BY <1>2, <1>3

\* One more call in the row, when the detector was asked about it and when not.
LEMMA RowExtended ==
  ASSUME NEW s \in Sessions, NEW n \in Nat \ {0}, NEW first \in 1..n,
         NEW c, NEW k \in Nat,
         Row(s, first, n - 1, c, k),
         \A i \in 1..(n - 1) : calls'[s][i] = calls[s][i]
  PROVE  /\ Heard(s, n)' /\ calls'[s][n].call = c => Row(s, first, n, c, k + 1)'
         /\ ~Heard(s, n)' => Row(s, first, n, c, k)'
<1> DEFINE old == {j \in first..(n - 1) : Heard(s, j)}
           new == {j \in first..n : Heard(s, j)'}
<1>1. \A j \in first..(n - 1) : j \in 1..(n - 1)
  OBVIOUS
<1>2. \A j \in first..(n - 1) : /\ Heard(s, j)' <=> Heard(s, j)
                               /\ calls'[s][j] = calls[s][j]
  BY <1>1 DEF Heard
<1>3. first..n = (first..(n - 1)) \cup {n} /\ n \notin first..(n - 1)
  OBVIOUS
<1>4. IsFiniteSet(old) /\ Cardinality(old) \in Nat
  <2>1. IsFiniteSet(first..(n - 1))
    BY FS_Interval
  <2> QED
    BY <2>1, FS_Subset, FS_CardinalityType
<1>5. Cardinality(old) \geq k /\ \A j \in old : calls[s][j].call = c
  BY DEF Row
<1>6. ASSUME Heard(s, n)', calls'[s][n].call = c PROVE Row(s, first, n, c, k + 1)'
  <2>1. new = old \cup {n} /\ n \notin old
    BY <1>2, <1>3, <1>6
  <2>2. Cardinality(new) = Cardinality(old) + 1
    BY <1>4, <2>1, FS_AddElement
  <2>3. \A j \in new : calls'[s][j].call = c
    BY <1>2, <1>5, <1>6, <2>1
  <2>4. Cardinality(new) \geq k + 1
    BY <1>4, <1>5, <2>2
  <2> QED
    BY <2>3, <2>4 DEF Row
<1>7. ASSUME ~Heard(s, n)' PROVE Row(s, first, n, c, k)'
  <2>1. new = old
    BY <1>2, <1>3, <1>7
  <2>2. \A j \in new : calls'[s][j].call = c
    BY <1>2, <1>5, <2>1
  <2> QED
    BY <1>5, <2>1, <2>2 DEF Row
<1> QED
  BY <1>6, <1>7

\* What a call has in its row stays when the transcript grows.
LEMMA RowStays ==
  ASSUME NEW s \in Sessions, NEW first \in Nat, NEW i \in Nat, NEW c, NEW k,
         \A j \in first..i : calls'[s][j] = calls[s][j]
  PROVE  Row(s, first, i, c, k)' <=> Row(s, first, i, c, k)
<1>1. \A j \in first..i : Heard(s, j)' <=> Heard(s, j)
  BY DEF Heard
<1>2. {j \in first..i : Heard(s, j)'} = {j \in first..i : Heard(s, j)}
  BY <1>1
<1> QED
  BY <1>2 DEF Row

\* A call is decided: the row of the last call the detector was asked about.  (n, x, m and k
\* stand for what was before the step.)
LEMMA DecideRow ==
  ASSUME StreakInv, NEW s \in Sessions, NEW c \in Calls, NEW head, Decide(s, c, head),
         "repeat-call-detector" \in loaded[s],
         NEW n, n = Len(calls[s]) + 1, NEW x, x = lastCall[s],
         NEW m, m = streak[s], NEW k, k = Streak(s, c)
  PROVE  /\ Asked("repeat-call-detector", s, c, head) =>
              /\ lastCall'[s] = c /\ streak'[s] = k
              /\ \E first \in 1..n : Row(s, first, n, c, k)'
         /\ ~Asked("repeat-call-detector", s, c, head) =>
              /\ lastCall'[s] = x /\ streak'[s] = m
              /\ m > 0 => \E first \in 1..n : Row(s, first, n, x, m)'
<1>1. /\ n \in Nat \ {0} /\ n - 1 = Len(calls[s])
      /\ calls'[s][n] = [call |-> c, by |-> Blocker(s, c, head)]
      /\ \A i \in 1..(n - 1) : calls'[s][i] = calls[s][i]
  BY CallAppended DEF StreakInv, SessionInv
<1>2. m \in Nat /\ loaded[s] \subseteq Extensions
  BY DEF StreakInv, SessionInv, TypeOK
<1>3. Heard(s, n)' <=> Asked("repeat-call-detector", s, c, head)
  <2>1. calls'[s][n].by = Blocker(s, c, head)
    BY <1>1
  <2>2. Heard(s, n)' <=> \E p \in DOMAIN Chain :
          /\ Chain[p] = "repeat-call-detector"
          /\ \A q \in 1..(p - 1) : Chain[q] # Blocker(s, c, head)
    BY <2>1 DEF Heard
  <2> QED
    BY <1>2, <2>2, AskedHeard
<1>4. m > 0 => \E first \in 1..(n - 1) : Row(s, first, n - 1, x, m)
  BY <1>1 DEF StreakInv, StreakEarned
<1>5. ASSUME Asked("repeat-call-detector", s, c, head)
      PROVE  /\ lastCall'[s] = c /\ streak'[s] = k
             /\ \E first \in 1..n : Row(s, first, n, c, k)'
  <2>1. lastCall'[s] = c /\ streak'[s] = k
    BY <1>5 DEF Decide, Count, StreakInv, SessionInv, TypeOK
  <2>2. CASE c = x /\ m > 0
    <3>1. PICK first \in 1..(n - 1) : Row(s, first, n - 1, c, m)
      BY <1>4, <2>2
    <3>2. first \in 1..n /\ calls'[s][n].call = c
      BY <1>1, <3>1
    <3>3. Row(s, first, n, c, m + 1)'
      BY <1>1, <1>2, <1>3, <1>5, <3>1, <3>2, RowExtended
    <3>4. k = m + 1
      BY <2>2 DEF Streak
    <3> QED
      BY <2>1, <3>2, <3>3, <3>4
  <2>3. CASE ~(c = x /\ m > 0)
    <3>1. Row(s, n, n - 1, c, 0)
      <4>1. {j \in n..(n - 1) : Heard(s, j)} = {}
        BY <1>1
      <4>2. Cardinality({j \in n..(n - 1) : Heard(s, j)}) = 0
        BY <4>1, FS_EmptySet
      <4> QED
        BY <4>1, <4>2 DEF Row
    <3>2. n \in 1..n /\ calls'[s][n].call = c
      BY <1>1
    <3>3. Row(s, n, n, c, 0 + 1)'
      BY <1>1, <1>3, <1>5, <3>1, <3>2, RowExtended
    <3>4. k = 0 + 1
      BY <1>2, <2>3 DEF Streak
    <3> QED
      BY <2>1, <3>2, <3>3, <3>4
  <2> QED
    BY <2>2, <2>3
<1>6. ASSUME ~Asked("repeat-call-detector", s, c, head)
      PROVE  /\ lastCall'[s] = x /\ streak'[s] = m
             /\ m > 0 => \E first \in 1..n : Row(s, first, n, x, m)'
  <2>1. lastCall'[s] = x /\ streak'[s] = m
    BY <1>6 DEF Decide, detector
  <2>2. ASSUME m > 0 PROVE \E first \in 1..n : Row(s, first, n, x, m)'
    <3>1. PICK first \in 1..(n - 1) : Row(s, first, n - 1, x, m)
      BY <1>4, <2>2
    <3>2. first \in 1..n
      BY <1>1, <3>1
    <3>3. Row(s, first, n, x, m)'
      BY <1>1, <1>2, <1>3, <1>6, <3>1, <3>2, RowExtended
    <3> QED
      BY <3>2, <3>3
  <2> QED
    BY <2>1, <2>2
<1> QED
  BY <1>5, <1>6

\* It has blocked only with cause, and its streak is earned.
LEMMA DecideKeepsStreak ==
  ASSUME StreakInv, NEW s \in Sessions, NEW c \in Calls, NEW head, Decide(s, c, head)
  PROVE  (StreakEarned /\ Uncounted /\ RepeatEarned)'
<1> DEFINE g == "repeat-call-detector"
<1>1. PICK n, x, m, k : n = Len(calls[s]) + 1 /\ x = lastCall[s] /\ m = streak[s]
                        /\ k = Streak(s, c)
  OBVIOUS
<1>2. /\ n \in Nat \ {0} /\ Len(calls'[s]) = n /\ DOMAIN calls'[s] = 1..n
      /\ DOMAIN calls[s] = 1..(n - 1)
      /\ calls'[s][n] = [call |-> c, by |-> Blocker(s, c, head)]
      /\ \A i \in 1..(n - 1) : calls'[s][i] = calls[s][i]
      /\ \A t \in Sessions : t # s => calls'[t] = calls[t]
      /\ \A t \in Sessions : DOMAIN calls[t] = 1..Len(calls[t]) /\ Len(calls[t]) \in Nat
  <2>1. \A t \in Sessions : Len(calls[t]) \in Nat
    BY LenProperties DEF StreakInv, SessionInv, TypeOK
  <2> QED
    BY <1>1, <2>1, CallAppended DEF StreakInv, SessionInv
<1>3. /\ loaded' = loaded /\ phase[s] = "turn" /\ streak[s] \in Nat
      /\ \A t \in Sessions : phase'[t] = "none" => phase[t] = "none" /\ t # s
      /\ \A t \in Sessions : t # s => streak'[t] = streak[t] /\ lastCall'[t] = lastCall[t]
  BY DEF Decide, Count, detector, StreakInv, SessionInv, TypeOK
<1>4. loaded[s] \subseteq Extensions
  BY DEF StreakInv, SessionInv, TypeOK
<1>5. StreakEarned'
  <2> SUFFICES ASSUME NEW t \in Sessions, g \in loaded[t], streak'[t] > 0
               PROVE  \E first \in 1..Len(calls'[t]) :
                        Row(t, first, Len(calls[t]), lastCall[t], streak[t])'
    BY <1>3 DEF StreakEarned
  <2>1. CASE t = s
    <3>1. PICK y, r : y = lastCall'[s] /\ r = streak'[s]
      OBVIOUS
    <3>2. PICK first \in 1..n : Row(s, first, n, y, r)'
      <4>1. CASE Asked(g, s, c, head)
        BY <1>1, <2>1, <3>1, <4>1, DecideRow
      <4>2. CASE ~Asked(g, s, c, head)
        BY <1>1, <2>1, <3>1, <4>2, DecideRow
      <4> QED
        BY <4>1, <4>2
    <3> QED
      BY <1>2, <2>1, <3>1, <3>2 DEF Row
  <2>2. CASE t # s
    <3>1. streak[t] > 0 /\ calls'[t] = calls[t]
      BY <1>2, <1>3, <2>2
    <3>2. PICK first \in 1..Len(calls[t]) :
            Row(t, first, Len(calls[t]), lastCall[t], streak[t])
      BY <3>1 DEF StreakInv, StreakEarned
    <3>3. Row(t, first, Len(calls[t]), lastCall[t], streak[t])'
      BY <1>3, <2>2, <3>1, <3>2 DEF Row, Heard
    <3> QED
      BY <3>1, <3>3
  <2> QED
    BY <2>1, <2>2
<1>6. Uncounted'
  BY <1>3 DEF StreakInv, Uncounted
<1>7. RepeatEarned'
  <2> SUFFICES ASSUME NEW t \in Sessions, NEW i \in DOMAIN calls'[t], calls'[t][i].by = g
               PROVE  \E first \in 1..i : Row(t, first, i, calls[t][i].call, Limit)'
    BY DEF RepeatEarned
  <2>1. CASE ~(t = s /\ i = n)
    <3>1. i \in Nat /\ i \in DOMAIN calls[t] /\ \A j \in 1..i : calls'[t][j] = calls[t][j]
      BY <1>2, <2>1
    <3>2. i \in 1..i
      BY <1>2, <3>1
    <3>3. PICK y : y = calls[t][i].call
      OBVIOUS
    <3>4. PICK first \in 1..i : Row(t, first, i, y, Limit)
      BY <3>1, <3>2, <3>3 DEF StreakInv, RepeatEarned
    <3>5. Row(t, first, i, y, Limit)'
      BY <3>1, <3>4, RowStays
    <3> QED
      BY <3>1, <3>2, <3>3, <3>5 DEF Row
  <2>2. CASE t = s /\ i = n
    <3>1. Blocker(s, c, head) = g /\ calls'[s][n].call = c
      BY <1>2, <2>2
    <3>2. g # None
      BY DEF None
    <3>3. Blocks(g, s, c, head)
      BY <1>4, <3>1, <3>2, Blocked
    <3>4. k \geq Limit
      BY <1>1, <3>3 DEF Blocks, Canaries
    <3>5. g \in loaded[s] /\ Asked(g, s, c, head)
      <4>1. First(Blockers(s, c, head)) \in Blockers(s, c, head) /\ Blockers(s, c, head) # {}
        BY <3>1, <3>2, FirstPlace, SessionAssumption DEF Blocker, Blockers
      <4>2. Chain[First(Blockers(s, c, head))] = g
        BY <3>1, <4>1 DEF Blocker
      <4>3. First(Blockers(s, c, head)) \in 1..First(Blockers(s, c, head))
        BY <4>1, SessionAssumption, LenProperties DEF Blockers
      <4> QED
        BY <4>1, <4>2, <4>3 DEF Asked, Blockers
    <3>6. PICK first \in 1..n : Row(s, first, n, c, k)'
      BY <1>1, <3>5, DecideRow
    <3>7. k \in Nat
      BY <1>1, <1>3 DEF Streak
    <3>8. Row(s, first, n, c, Limit)'
      <4>1. {j \in first..n : Heard(s, j)'} \in SUBSET (first..n) /\ IsFiniteSet(first..n)
        BY <1>2, <3>6, FS_Interval
      <4>2. Cardinality({j \in first..n : Heard(s, j)'}) \in Nat
        BY <4>1, FS_Subset, FS_CardinalityType
      <4> QED
        BY <3>4, <3>6, <3>7, <4>2, SessionAssumption DEF Row
    <3> QED
      BY <2>2, <3>1, <3>8 DEF Row
  <2> QED
    BY <2>1, <2>2
<1> QED
  BY <1>5, <1>6, <1>7

\* Every other step leaves the transcripts, and what the detector has counted.
LEMMA OthersKeepStreak ==
  ASSUME StreakInv, UNCHANGED <<calls, detector>>,
         \A s \in Sessions : loaded'[s] = loaded[s] \/ phase[s] = "none",
         \A s \in Sessions : phase'[s] = "none" => phase[s] = "none"
  PROVE  (StreakEarned /\ Uncounted /\ RepeatEarned)'
<1>1. UNCHANGED <<calls, lastCall, streak>>
  BY DEF detector
<1>2. \A s \in Sessions : streak[s] > 0 => loaded'[s] = loaded[s]
  BY DEF StreakInv, Uncounted
<1>3. StreakEarned'
  <2> SUFFICES ASSUME NEW s \in Sessions, "repeat-call-detector" \in loaded'[s], streak[s] > 0
               PROVE  \E first \in 1..Len(calls[s]) :
                        Row(s, first, Len(calls[s]), lastCall[s], streak[s])'
    BY <1>1 DEF StreakEarned
  <2>1. PICK first \in 1..Len(calls[s]) :
          Row(s, first, Len(calls[s]), lastCall[s], streak[s])
    BY <1>2 DEF StreakInv, StreakEarned
  <2>2. Row(s, first, Len(calls[s]), lastCall[s], streak[s])'
    BY <1>1, <2>1 DEF Row, Heard
  <2> QED
    BY <2>2
<1>4. Uncounted'
  BY <1>1 DEF StreakInv, Uncounted
<1>5. RepeatEarned'
  BY <1>1 DEF StreakInv, RepeatEarned, Row, Heard
<1> QED
  BY <1>3, <1>4, <1>5

LEMMA StreakStep ==
  ASSUME StreakInv, [Next]_vars
  PROVE  StreakInv'
<1>1. SessionInv' /\ TypeOK
  BY StepKeeps DEF StreakInv, SessionInv
<1>2. ASSUME NEW s \in Sessions, NEW c \in Calls, NEW head, Decide(s, c, head) PROVE StreakInv'
  BY <1>1, <1>2, DecideKeepsStreak DEF StreakInv
<1>3. ASSUME NEW s \in Sessions, NEW d \in Depths, NEW a, NEW h, Begin(s, d, a, h)
      PROVE  StreakInv'
  <2>1. \A t \in Sessions : loaded'[t] = loaded[t] \/ phase[t] = "none"
    BY <1>1, <1>3 DEF Begin, TypeOK
  <2>2. \A t \in Sessions : phase'[t] = "none" => phase[t] = "none"
    BY <1>1, <1>3 DEF Begin, TypeOK
  <2>3. UNCHANGED <<calls, detector>>
    BY <1>3 DEF Begin
  <2> QED
    BY <1>1, <2>1, <2>2, <2>3, OthersKeepStreak DEF StreakInv
<1>4. ASSUME NEW s \in Sessions, SessionStart(s) \/ Input(s) \/ EndTurn(s) \/ Execute(s)
      PROVE  StreakInv'
  <2>1. UNCHANGED <<calls, detector, loaded>>
    BY <1>4 DEF SessionStart, Input, EndTurn, Execute
  <2>2. \A t \in Sessions : phase'[t] = "none" => phase[t] = "none"
    BY <1>1, <1>4 DEF SessionStart, Input, EndTurn, Execute, TypeOK
  <2> QED
    BY <1>1, <2>1, <2>2, OthersKeepStreak DEF StreakInv
<1>5. CASE UserSwitches \/ UNCHANGED vars
  <2>1. UNCHANGED <<calls, detector, loaded, phase>>
    BY <1>5 DEF UserSwitches, vars
  <2> QED
    BY <1>1, <2>1, OthersKeepStreak DEF StreakInv
<1>6. "unset" \in Depths /\ "1" \in Depths
  BY DEF Depths
<1> QED
  BY <1>2, <1>3, <1>4, <1>5, <1>6 DEF Next, Launch, LaunchFrom, Delegate

\* repeat-call-detector: what it blocks is at least the Limit-th identical call in a row of
\* those it was asked about.
THEOREM RepeatWithCause == Spec => []RepeatEarned
<1>1. Init => StreakInv
  <2> SUFFICES ASSUME Init PROVE StreakInv
    OBVIOUS
  <2>1. \A s \in Sessions : DOMAIN calls[s] = {} /\ streak[s] = 0
    BY EmptySeq DEF Init
  <2> QED
    BY <2>1, InitInv DEF StreakInv, StreakEarned, Uncounted, RepeatEarned
<1>2. StreakInv /\ [Next]_vars => StreakInv'
  BY StreakStep
<1>3. StreakInv => RepeatEarned
  BY DEF StreakInv
<1> QED
  BY <1>1, <1>2, <1>3, PTL DEF Spec
=============================================================================
