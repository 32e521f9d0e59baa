------------------------------- MODULE ReplayRuns -------------------------------
(***************************************************************************)
(* Recording an agent's model calls into a fixture and replaying them: the *)
(* proxy (replay/proxy.py), its manager (replay/manager.py) and the agent  *)
(* loop that talks to it (agent_loops/litellm_terminal_loop.py).           *)
(*                                                                         *)
(* A driver makes one pass after the other.  In each it starts a proxy on  *)
(* one port, lets agents solve the same task through it, and stops it.     *)
(* The key of a trial is a hash of the task, so the agents share it; a     *)
(* request is identified by the assistant messages in the conversation.    *)
(***************************************************************************)
EXTENDS Integers, Sequences, FiniteSets, SequencesExt

CONSTANTS
    Agents,       \* agents that solve the task at the same time
    PassPlans,    \* sequences of passes: a mode, "record" or "replay", how many
                  \* of the agents run, and what the model answers
    MaxTurns,     \* the turns an agent may take
    MaxFaults     \* bound on kills and upstream failures

\* A command, an action without one, an action whose arguments are no object,
\* the end of the task, text without an action, nothing.
ReplyKinds == {"run", "nocmd", "broken", "submit", "prose", "empty"}

ASSUME ReplayAssumption ==
    /\ IsFiniteSet(Agents)
    /\ PassPlans \subseteq Seq([mode : {"record", "replay"}, agents : Nat,
                               replies : SUBSET ReplyKinds])
    /\ MaxTurns \in Nat \ {0} /\ MaxFaults \in Nat

VARIABLES
    plan,         \* the passes still to make, the current first
    strict,       \* a miss is refused rather than answered with nothing
    jsonl,        \* the fixture file: entries, and "torn" or "bad" lines
    port,         \* "free", or whose process holds it: "own", "dead" (own, but
                  \* gone), "left" by an earlier pass, "foreign" (left and in use)
    proxy,        \* what that process has: its mode and its index
    agent,        \* what each agent has done in this pass
    take,         \* history: the one recording of the task
    faults

replayVars == <<plan, strict, jsonl, port, proxy, agent, take, faults>>

Fresh == [pc |-> "idle", turns |-> 0, conv |-> 0, heard |-> <<>>, fails |-> 0,
          native |-> TRUE, commands |-> 0, spans |-> 0, submitted |-> FALSE,
          error |-> "none"]
NoProxy == [mode |-> "none", index |-> <<>>]

Entry(turn, reply) == [turn |-> turn, reply |-> reply]
BadLine(kind) == Entry(-1, kind)

\* Where the file has an entry, and where one of this turn.
Entries(lines) == {i \in DOMAIN lines : lines[i].reply \notin {"torn", "bad"}}
EntriesOf(lines, t) == {i \in Entries(lines) : lines[i].turn = t}

Bug_FirstWins(lines) ==
    [t \in {lines[i].turn : i \in Entries(lines)} |->
        lines[CHOOSE i \in EntriesOf(lines, t) : \A j \in EntriesOf(lines, t) : i <= j].reply]

\* _load_fixture: the last entry of a turn wins, bad lines are skipped.
load_fixture(lines) ==
    [t \in {lines[i].turn : i \in Entries(lines)} |->
        lines[CHOOSE i \in EntriesOf(lines, t) : \A j \in EntriesOf(lines, t) : j <= i].reply]

\* A line written after a torn one continues it, and neither can be read.
AppendLine(lines, line) ==
    IF lines # <<>> /\ Last(lines).reply = "torn"
    THEN Append(Front(lines), BadLine(IF line.reply = "torn" THEN "torn" ELSE "bad"))
    ELSE Append(lines, line)

Mode == IF plan = <<>> THEN "none" ELSE Head(plan).mode

ReplayConfigs == [plan : PassPlans, strict : BOOLEAN]
ReplayFrom(config) ==
    /\ plan = config.plan /\ strict = config.strict
    /\ jsonl = <<>> /\ port = "free" /\ proxy = NoProxy
    /\ agent = [a \in Agents |-> Fresh]
    /\ take = [count |-> 0]
    /\ faults = 0

ReplayInit == \E config \in ReplayConfigs : ReplayFrom(config)

-------------------------------------------------------------------------------
(* The manager. *)

\* start: a free port; the process loads the fixture and answers /healthz.
StartProxy ==
    /\ plan # <<>> /\ port = "free"
    /\ port' = "own"
    /\ proxy' = [mode |-> Mode, index |-> load_fixture(jsonl)]
    /\ UNCHANGED <<plan, strict, jsonl, agent, take, faults>>

\* start on a port that another process holds: the new process cannot bind, but
\* whether it is seen to exit, or the other answers /healthz first, is a race.
StartOnTakenPort ==
    /\ plan # <<>> /\ port = "left"
    /\ \/ port' = "foreign" /\ UNCHANGED plan
       \/ plan' = Tail(plan) /\ UNCHANGED port
    /\ UNCHANGED <<strict, jsonl, proxy, agent, take, faults>>

\* The recording that this pass has added, if it is the only one.
Taken ==
    LET ran == {a \in Agents : agent[a].pc # "idle"}
        a == CHOOSE a \in ran : TRUE
    IN  IF proxy.mode # "record" \/ ran = {} THEN take
        ELSE IF take.count > 0 \/ Cardinality(ran) > 1 THEN [count |-> 2]
        ELSE [count |-> 1, heard |-> agent[a].heard, submitted |-> agent[a].submitted,
              whole |-> /\ agent[a].pc = "ended"
                        /\ Len(agent[a].heard) = agent[a].turns
                        /\ "empty" \notin Range(agent[a].heard)]

EndPass ==
    /\ plan' = Tail(plan)
    /\ take' = Taken
    /\ agent' = [a \in Agents |-> Fresh]

\* __exit__ and stop: SIGTERM, then SIGKILL, to the process that start made.
StopProxy ==
    /\ port \in {"own", "foreign", "dead"}
    /\ \A a \in Agents : agent[a].pc \in {"idle", "ended"}
    /\ port' = IF port = "foreign" THEN "left" ELSE "free"
    /\ proxy' = IF port = "foreign" THEN proxy ELSE NoProxy
    /\ EndPass
    /\ UNCHANGED <<strict, jsonl, faults>>

\* The driver is killed: nobody runs __exit__, and the proxy keeps its port.
KillDriver ==
    /\ port \in {"own", "foreign"} /\ faults < MaxFaults
    /\ port' = "left"
    /\ faults' = faults + 1
    /\ EndPass
    /\ UNCHANGED <<strict, jsonl, proxy>>

\* The proxy is killed, perhaps in the middle of writing an entry.
KillProxy ==
    /\ port = "own" /\ faults < MaxFaults
    /\ port' = "dead"
    /\ \/ jsonl' = jsonl
       \/ proxy.mode = "record" /\ jsonl' = AppendLine(jsonl, BadLine("torn"))
    /\ faults' = faults + 1
    /\ UNCHANGED <<plan, strict, proxy, agent, take>>

-------------------------------------------------------------------------------
(* The agent loop.  A turn opens a span, sends the conversation and closes the *)
(* span whatever comes back; it ends there or with a command.                  *)

Bug_OneTurnMore(s) == IF s.turns > MaxTurns THEN "ended" ELSE "turn"

Continue(s) == IF s.turns = MaxTurns THEN "ended" ELSE "turn"

Bug_NotFatal(s) == [s EXCEPT !.pc = Continue(s), !.error = "miss"]

\* The turn has ended with a fixture miss, which no retry can heal.
Abort(s) == [s EXCEPT !.pc = "ended", !.error = "miss"]

\* The turn has ended without an action: after two of them in a row the loop
\* stops offering native tools.
NoAction(s) ==
    LET switch == s.native /\ s.fails + 1 >= 2
    IN  [s EXCEPT !.fails = IF switch THEN 0 ELSE @ + 1,
                  !.native = @ /\ ~switch, !.pc = Continue(s)]

Acted(s) == [s EXCEPT !.commands = @ + 1, !.fails = 0, !.pc = Continue(s)]

Bug_EmptyCounts(s, reply) ==
    [s EXCEPT !.heard = Append(@, reply), !.spans = @ - 1,
              !.conv = IF reply = "prose" THEN @ ELSE @ + 1,
              !.turns = IF reply \in {"run", "broken"} THEN @ ELSE @ + 1]

\* The span is closed and the reply joins the conversation, unless it is empty.
\* A turn with a command ends later; one that raises is not counted.
Hear(s, reply) ==
    [s EXCEPT !.heard = Append(@, reply), !.spans = @ - 1,
              !.conv = IF reply = "empty" THEN @ ELSE @ + 1,
              !.turns = IF reply \in {"run", "broken"} THEN @ ELSE @ + 1]

\* The rest of _run_turn, and of the turn in solve.
Digest(s, reply) ==
    LET t == Hear(s, reply)
    IN  CASE reply = "run" -> [t EXCEPT !.pc = "command", !.spans = @ + 1]
          [] reply = "broken" -> [t EXCEPT !.pc = "ended", !.error = "fatal"]
          [] reply = "submit" -> [Acted(t) EXCEPT !.pc = "ended", !.submitted = TRUE]
          [] reply = "nocmd" -> Acted(t)
          [] OTHER -> NoAction(t)

\* The turn ends without a reply; its span is closed all the same.
Unanswered(s) == [s EXCEPT !.turns = @ + 1, !.spans = @ - 1]

Sets(a, s) == agent' = [agent EXCEPT ![a] = s]

BeginTrial(a) ==
    /\ port \in {"own", "foreign", "dead"}
    /\ agent[a].pc = "idle"
    /\ Cardinality({b \in Agents : agent[b].pc # "idle"}) < Head(plan).agents
    /\ Sets(a, [agent[a] EXCEPT !.pc = "turn"])
    /\ UNCHANGED <<plan, strict, jsonl, port, proxy, take, faults>>

Request(a) ==
    /\ agent[a].pc = "turn"
    /\ Sets(a, [agent[a] EXCEPT !.pc = "waiting", !.spans = @ + 1])
    /\ UNCHANGED <<plan, strict, jsonl, port, proxy, take, faults>>

Bug_OnlyNewTurns(turn, reply) ==
    /\ jsonl' = IF turn \in DOMAIN proxy.index THEN jsonl
                ELSE AppendLine(jsonl, Entry(turn, reply))
    /\ proxy' = [proxy EXCEPT !.index =
                    [t \in DOMAIN @ \cup {turn} |-> IF t = turn THEN reply ELSE @[t]]]

\* Under the lock of _handle_record: the entry is appended and indexed.
Keep(turn, reply) ==
    /\ jsonl' = AppendLine(jsonl, Entry(turn, reply))
    /\ proxy' = [proxy EXCEPT !.index =
                    [t \in DOMAIN @ \cup {turn} |-> IF t = turn THEN reply ELSE @[t]]]

AnswerRecord(a) ==
    /\ agent[a].pc = "waiting" /\ port \in {"own", "foreign"}
    /\ proxy.mode = "record"
    /\ \E reply \in Head(plan).replies :
           Keep(agent[a].conv, reply) /\ Sets(a, Digest(agent[a], reply))
    /\ UNCHANGED <<plan, strict, port, take, faults>>

Bug_RecordsMisses(turn, a) ==
    /\ turn \notin DOMAIN proxy.index
    /\ IF strict THEN Sets(a, Abort(Unanswered(agent[a]))) /\ UNCHANGED <<jsonl, proxy>>
       ELSE Keep(turn, "empty") /\ Sets(a, Digest(agent[a], "empty"))

\* No entry for the turn: refused, or answered with nothing.
Miss(turn, a) ==
    /\ turn \notin DOMAIN proxy.index
    /\ IF strict THEN Sets(a, Abort(Unanswered(agent[a])))
                 ELSE Sets(a, Digest(agent[a], "empty"))
    /\ UNCHANGED <<jsonl, proxy>>

\* _handle_replay
AnswerReplay(a) ==
    /\ agent[a].pc = "waiting" /\ port \in {"own", "foreign"}
    /\ proxy.mode = "replay"
    /\ LET turn == agent[a].conv
       IN  \/ Miss(turn, a)
           \/ /\ turn \in DOMAIN proxy.index
              /\ Sets(a, Digest(agent[a], proxy.index[turn]))
              /\ UNCHANGED <<jsonl, proxy>>
    /\ UNCHANGED <<plan, strict, port, take, faults>>

Bug_RetriesForever(a) ==
    /\ agent[a].pc = "waiting"
    /\ \/ port = "dead" /\ UNCHANGED faults
       \/ port # "dead" /\ proxy.mode = "record" /\ faults < MaxFaults /\ faults' = faults + 1
    /\ Sets(a, [agent[a] EXCEPT !.pc = "turn", !.spans = @ - 1])
    /\ UNCHANGED <<plan, strict, jsonl, port, proxy, take>>

\* The connection or the upstream fails: the turn ends without an action.
AnswerFailure(a) ==
    /\ agent[a].pc = "waiting"
    /\ \/ port = "dead" /\ UNCHANGED faults
       \/ port # "dead" /\ proxy.mode = "record" /\ faults < MaxFaults /\ faults' = faults + 1
    /\ Sets(a, NoAction(Unanswered(agent[a])))
    /\ UNCHANGED <<plan, strict, jsonl, port, proxy, take>>

Bug_SpanLeft(a) ==
    /\ agent[a].pc = "command"
    /\ \E ran \in BOOLEAN :
           Sets(a, Acted([agent[a] EXCEPT !.turns = @ + 1, !.spans = IF ran THEN @ - 1 ELSE @]))
    /\ UNCHANGED <<plan, strict, jsonl, port, proxy, take, faults>>

\* The command runs in the environment or cannot, and is never run on the host:
\* the span closes and an observation joins the conversation.
Execute(a) ==
    /\ agent[a].pc = "command"
    /\ Sets(a, Acted(Unanswered(agent[a])))
    /\ UNCHANGED <<plan, strict, jsonl, port, proxy, take, faults>>

AgentStep(a) == \/ Request(a) \/ AnswerRecord(a) \/ AnswerReplay(a)
                \/ AnswerFailure(a) \/ Execute(a)

ReplayNext ==
    \/ StartProxy \/ StartOnTakenPort \/ StopProxy \/ KillDriver \/ KillProxy
    \/ \E a \in Agents : BeginTrial(a) \/ AgentStep(a)

\* A turn that can be taken is taken: every call of the loop has a timeout.
ReplayFairness == \A a \in Agents : WF_replayVars(AgentStep(a))
ReplaySpec == ReplayInit /\ [][ReplayNext]_replayVars /\ ReplayFairness

-------------------------------------------------------------------------------
(* Properties. *)

ReplayTypeOK ==
    /\ port \in {"free", "own", "dead", "left", "foreign"}
    /\ proxy.mode \in {"none", "record", "replay"}
    /\ \A a \in Agents :
           /\ agent[a].pc \in {"idle", "turn", "waiting", "command", "ended"}
           /\ agent[a].turns \in 0 .. MaxTurns /\ agent[a].conv \in 0 .. MaxTurns
           /\ agent[a].heard \in Seq(ReplyKinds)

\* A span of the loop is open exactly while the model or the environment works:
\* no failure, miss or exception leaves one behind.
SpansClosed ==
    \A a \in Agents :
        agent[a].spans = IF agent[a].pc \in {"waiting", "command"} THEN 1 ELSE 0

\* The turn at which the k-th reply was heard: the assistant messages before it.
TurnOf(heard, k) == Cardinality({j \in 1 .. k - 1 : heard[j] # "empty"})

\* The reply of the last readable line of a turn.
LastLine(turn, reply) ==
    \E i \in DOMAIN jsonl :
        /\ jsonl[i] = Entry(turn, reply)
        /\ \A j \in i + 1 .. Len(jsonl) : jsonl[j].turn # turn

LineLost == \E i \in DOMAIN jsonl : jsonl[i].reply = "bad"

\* What an agent hears in a replay pass, from the proxy of that pass, is the last
\* recording of the very turn it asks for, and when misses are refused, that only.
AnswersAreRecorded ==
    port \in {"own", "dead"} /\ proxy.mode = "replay" =>
        \A a \in Agents : \A k \in DOMAIN agent[a].heard :
            LET heard == agent[a].heard
                turn == TurnOf(heard, k)
            IN  \/ LastLine(turn, heard[k])
                \/ /\ ~strict /\ heard[k] = "empty"
                   /\ \A i \in DOMAIN jsonl : jsonl[i].turn # turn

\* A fixture that holds one recording, which ended by itself and in which no call
\* failed and no reply was empty, makes every agent repeat it: the same replies,
\* the same end, no miss; unless a line was lost to a torn one.
SameTrajectory ==
    take.count = 1 /\ take.whole /\ ~LineLost
    /\ port = "own" /\ proxy.mode = "replay" =>
        \A a \in Agents :
            /\ IsPrefix(agent[a].heard, take.heard)
            /\ agent[a].error # "miss"
            /\ agent[a].pc = "ended" => /\ agent[a].heard = take.heard
                                        /\ agent[a].submitted = take.submitted

\* Whatever a recording proxy remembers can be loaded from the file again, unless
\* it was written after the torn line of a proxy that was killed.
RecordedIsKept ==
    port = "own" /\ proxy.mode = "record" =>
        \A t \in DOMAIN proxy.index :
            LastLine(t, proxy.index[t]) \/ LineLost

\* When misses are refused, one ends the trial: an agent never takes more than one
\* turn past what is recorded.  (A recorded empty reply is heard until MaxTurns.)
MissCostsOneTurn ==
    strict /\ port = "own" /\ proxy.mode = "replay" /\ "empty" \notin Range(proxy.index) =>
        \A a \in Agents : agent[a].turns <= Cardinality(DOMAIN proxy.index) + 1

\* A replay pass leaves the fixture as it is, except through a recording proxy
\* that a killed driver left on the port.
ReplayOnlyReads ==
    [][Mode = "replay" /\ jsonl' # jsonl => port = "foreign" /\ proxy.mode = "record"]_replayVars

\* Every trial that is begun ends: the trials of a pass share its end, so that it
\* is enough that, again and again, none is under way.
TrialsEnd == []<>(\A a \in Agents : agent[a].pc # "turn")
===============================================================================
