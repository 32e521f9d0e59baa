----------------------------- MODULE TrialProofs -------------------------------
(***************************************************************************)
(* Proofs about the trials of TrialRuns: the agents that answer from a     *)
(* recording, and the tasks of terminal-bench.  Each has an inductive      *)
(* invariant of its own, for they share no variable.                       *)
(***************************************************************************)
EXTENDS TrialRuns, FiniteSetTheorems, SequenceTheorems, WellFoundedInduction, TLAPS

-------------------------------------------------------------------------------
(* Recording and replay.                                                    *)

EntryLine == [turn : Nat, reply : ReplyKinds]
FixtureLine == EntryLine \cup {BadLine("torn"), BadLine("bad")}
PassKind == [mode : {"record", "replay"}, agents : Nat, replies : SUBSET ReplyKinds]
TrialState == [pc : {"idle", "turn", "waiting", "command", "ended"}, turns : 0 .. MaxTurns,
               conv : Nat, heard : Seq(ReplyKinds), fails : Nat, native : BOOLEAN,
               commands : Nat, spans : {0, 1}, submitted : BOOLEAN,
               error : {"none", "miss", "fatal"}]
TakeState == [count : {0, 2}] \cup [count : {1}, heard : Seq(ReplyKinds),
                                    submitted : BOOLEAN, whole : BOOLEAN]

ReplayShapeInv ==
    /\ plan \in Seq(PassKind) /\ strict \in BOOLEAN
    /\ jsonl \in Seq(FixtureLine)
    /\ port \in {"free", "own", "dead", "left", "foreign"}
    /\ proxy.mode \in {"none", "record", "replay"}
    /\ DOMAIN proxy.index \subseteq Nat
    /\ \A t \in DOMAIN proxy.index : proxy.index[t] \in ReplyKinds
    /\ proxy = [mode |-> proxy.mode, index |-> proxy.index]
    /\ agent \in [Agents -> TrialState]
    /\ take \in TakeState
    /\ faults \in Nat

\* A turn whose reply has been heard and that is not counted.
Uncounted(s) == IF s.pc = "command" \/ s.error = "fatal" THEN 1 ELSE 0
HeardLast(s, reply) == s.heard # <<>> /\ s.heard[Len(s.heard)] = reply

\* The loop of an agent by itself.
LoopOK(s) ==
    /\ s.pc = "idle" => s = Fresh
    /\ s.spans = IF s.pc \in {"waiting", "command"} THEN 1 ELSE 0
    /\ s.pc \in {"turn", "waiting", "command"} =>
           s.turns < MaxTurns /\ ~s.submitted /\ s.error = "none"
    /\ s.pc = "command" => HeardLast(s, "run")
    /\ s.pc = "ended" => s.turns = MaxTurns \/ s.submitted \/ s.error # "none"
    /\ s.submitted <=> HeardLast(s, "submit")
    /\ s.error = "fatal" <=> HeardLast(s, "broken")
    /\ s.error = "fatal" => s.turns < MaxTurns
    /\ s.error = "miss" => Len(s.heard) < s.turns
    /\ \A k \in 1 .. Len(s.heard) - 1 : s.heard[k] \notin {"submit", "broken"}
    /\ s.conv = TurnOf(s.heard, Len(s.heard) + 1) /\ s.conv <= Len(s.heard)
    /\ Len(s.heard) <= s.turns + Uncounted(s)

AllIdle == \A a \in Agents : agent[a].pc = "idle"

\* Who holds the port, and with what.
PortInv ==
    /\ port \in {"free", "left"} => AllIdle
    /\ port \notin {"free", "left"} => plan # <<>>
    /\ port = "free" <=> proxy.mode = "none"
    /\ port \in {"own", "dead"} => proxy.mode = Mode

\* What a proxy remembers is in the file.
IndexInv ==
    /\ proxy.mode = "record" =>
           \A t \in DOMAIN proxy.index : LastLine(t, proxy.index[t]) \/ LineLost
    /\ proxy.mode = "replay" => proxy.index = load_fixture(jsonl)

\* What is heard in a replay pass.
Answered(s) ==
    /\ \A k \in DOMAIN s.heard :
           LET t == TurnOf(s.heard, k)
           IN  IF t \in DOMAIN proxy.index THEN s.heard[k] = proxy.index[t]
               ELSE ~strict /\ s.heard[k] = "empty"
    /\ port = "own" =>
           Len(s.heard) = s.turns + Uncounted(s) - (IF s.error = "miss" THEN 1 ELSE 0)
AnsweredInv == proxy.mode = "replay" => \A a \in Agents : Answered(agent[a])

\* The last line of a turn, a lost line, a recording of these replies.
LastIn(lines, t, r) ==
    \E i \in DOMAIN lines : /\ lines[i] = Entry(t, r)
                            /\ \A j \in i + 1 .. Len(lines) : lines[j].turn # t
LostIn(lines) == \E i \in DOMAIN lines : lines[i].reply = "bad"
RecordsIn(lines, heard) ==
    /\ \A k \in DOMAIN heard : LastIn(lines, k - 1, heard[k])
    /\ \A i \in DOMAIN lines : lines[i].turn < Len(heard)
Records(heard) == RecordsIn(jsonl, heard)
NoEmpty(heard) == \A k \in DOMAIN heard : heard[k] # "empty"
\* No pass is recording.
Quiet == proxy.mode = "record" => AllIdle
Alone(a) == agent[a].pc # "idle" /\ \A b \in Agents \ {a} : agent[b].pc = "idle"

\* One recording is the file, also while it is made.
TakeInv ==
    /\ take.count = 0 /\ Quiet => \A i \in DOMAIN jsonl : jsonl[i].turn = -1
    /\ take.count = 0 /\ ~Quiet =>
           \A a \in Agents : Alone(a) /\ NoEmpty(agent[a].heard) =>
               LineLost \/ Records(agent[a].heard)
    /\ take.count = 1 /\ take.whole =>
           /\ NoEmpty(take.heard) /\ take.heard # <<>> /\ Len(take.heard) <= MaxTurns
           /\ \A k \in 1 .. Len(take.heard) - 1 : take.heard[k] \notin {"submit", "broken"}
           /\ take.submitted <=> take.heard[Len(take.heard)] = "submit"
           /\ Len(take.heard) = MaxTurns \/ take.heard[Len(take.heard)] \in {"submit", "broken"}
           /\ Quiet => LineLost \/ Records(take.heard)

\* A replay of it so far.
RepeatInv ==
    take.count = 1 /\ take.whole /\ ~LineLost /\ port = "own" /\ proxy.mode = "replay" =>
        \A a \in Agents :
            /\ agent[a].error # "miss" /\ Len(agent[a].heard) <= Len(take.heard)
            /\ \A k \in DOMAIN agent[a].heard : agent[a].heard[k] = take.heard[k]

ReplayInv ==
    /\ ReplayShapeInv /\ (\A a \in Agents : LoopOK(agent[a]))
    /\ PortInv /\ IndexInv /\ AnsweredInv /\ TakeInv /\ RepeatInv

-------------------------------------------------------------------------------
(* Turns, and the loop of one agent.                                       *)

LEMMA TurnOfIs ==
    ASSUME NEW h \in Seq(ReplyKinds), NEW k \in 1 .. Len(h) + 1
    PROVE  /\ TurnOf(h, k) \in Nat /\ TurnOf(h, k) <= k - 1
           /\ NoEmpty(h) => TurnOf(h, k) = k - 1
<1> DEFINE S == {j \in 1 .. k - 1 : h[j] # "empty"}
<1>1. IsFiniteSet(1 .. k - 1) /\ Cardinality(1 .. k - 1) = k - 1
  <2>1. Len(h) \in Nat /\ k \in Nat /\ 1 <= k
    OBVIOUS
  <2>2. 1 \in Int /\ k - 1 \in Int
    BY <2>1
  <2>3. IsFiniteSet(1 .. k - 1) /\ Cardinality(1 .. k - 1) = IF 1 > k - 1 THEN 0 ELSE k - 1 - 1 + 1
    BY <2>2, FS_Interval
  <2>4. QED
    BY <2>1, <2>3
<1>2. IsFiniteSet(S) /\ Cardinality(S) <= k - 1 /\ Cardinality(S) \in Nat
  BY <1>1, FS_Subset, FS_CardinalityType
<1>3. NoEmpty(h) => S = 1 .. k - 1
  BY DEF NoEmpty
<1>4. QED
  BY <1>1, <1>2, <1>3 DEF TurnOf

LEMMA TurnOfGrows ==
    ASSUME NEW h \in Seq(ReplyKinds), NEW r \in ReplyKinds
    PROVE  /\ \A k \in 1 .. Len(h) + 1 : TurnOf(Append(h, r), k) = TurnOf(h, k)
           /\ TurnOf(Append(h, r), Len(h) + 2) =
                  TurnOf(h, Len(h) + 1) + (IF r = "empty" THEN 0 ELSE 1)
<1> DEFINE g == Append(h, r)
<1>1. \A j \in 1 .. Len(h) : g[j] = h[j]
  OBVIOUS
<1>2. ASSUME NEW k \in 1 .. Len(h) + 1
      PROVE  {j \in 1 .. k - 1 : g[j] # "empty"} = {j \in 1 .. k - 1 : h[j] # "empty"}
  BY <1>1
<1>3. g[Len(h) + 1] = r
  OBVIOUS
<1> DEFINE S == {j \in 1 .. Len(h) : h[j] # "empty"}
           T == {j \in 1 .. Len(h) + 1 : g[j] # "empty"}
<1> HIDE DEF g
<1>4. T = IF r = "empty" THEN S ELSE S \cup {Len(h) + 1}
  BY <1>1, <1>3
<1>5. IsFiniteSet(S) /\ Len(h) + 1 \notin S /\ Cardinality(S) \in Nat
  <2>1. IsFiniteSet(1 .. Len(h))
    BY FS_Interval
  <2>2. IsFiniteSet(S)
    BY <2>1, FS_Subset
  <2>3. Cardinality(S) \in Nat
    BY <2>2, FS_CardinalityType
  <2>4. QED
    BY <2>2, <2>3
<1>6. Cardinality(T) = Cardinality(S) + (IF r = "empty" THEN 0 ELSE 1)
  <2> HIDE DEF S, T
  <2>1. CASE r = "empty"
    BY <1>4, <1>5, <2>1
  <2>2. CASE r # "empty"
    <3>1. Cardinality(S \cup {Len(h) + 1}) = Cardinality(S) + 1
      BY <1>5, FS_AddElement
    <3>2. QED
      BY <1>4, <2>2, <3>1
  <2>3. QED
    BY <2>1, <2>2
<1>7. \A k \in 1 .. Len(h) + 1 : TurnOf(g, k) = TurnOf(h, k)
  BY <1>2 DEF TurnOf
<1>8. TurnOf(g, Len(h) + 2) = Cardinality(T) /\ TurnOf(h, Len(h) + 1) = Cardinality(S)
  BY DEF TurnOf
<1>9. QED
  BY <1>6, <1>7, <1>8 DEF g

LEMMA FreshOK == Fresh \in TrialState /\ LoopOK(Fresh)
<1>1. Fresh \in TrialState
  BY ReplayAssumption DEF Fresh, TrialState
<1>2. TurnOf(<<>>, 1) = 0
  <2>1. {j \in 1 .. 1 - 1 : <<>>[j] # "empty"} = {}
    OBVIOUS
  <2>2. QED
    BY <2>1, FS_EmptySet DEF TurnOf
<1>3. LoopOK(Fresh)
  BY <1>2 DEF Fresh, LoopOK, HeardLast, Uncounted
<1>4. QED
  BY <1>1, <1>3

\* The fields that a step sets keep their types.
LEMMA TurnsSet ==
    ASSUME NEW s \in TrialState, NEW n \in 0 .. MaxTurns
    PROVE  [s EXCEPT !.turns = n, !.spans = 0] \in TrialState
BY DEF TrialState

LEMMA StepSet ==
    ASSUME NEW s \in TrialState,
           NEW pc \in {"idle", "turn", "waiting", "command", "ended"}
    PROVE  [s EXCEPT !.pc = pc, !.spans = 1] \in TrialState
BY DEF TrialState

LEMMA HeardSet ==
    ASSUME NEW s \in TrialState, NEW h \in Seq(ReplyKinds), NEW c \in Nat,
           NEW n \in 0 .. MaxTurns
    PROVE  [s EXCEPT !.heard = h, !.spans = 0, !.conv = c, !.turns = n] \in TrialState
BY DEF TrialState

LEMMA SubmitSet ==
    ASSUME NEW s \in TrialState, NEW n \in Nat
    PROVE  [s EXCEPT !.commands = n, !.fails = 0, !.pc = "ended", !.submitted = TRUE]
               \in TrialState
BY DEF TrialState

\* A turn that ended without a reply, after a request or a command.
LEMMA UnansweredIs ==
    ASSUME NEW s \in TrialState, LoopOK(s), s.pc \in {"waiting", "command"}
    PROVE  LET t == Unanswered(s)
           IN  /\ t \in TrialState /\ t.turns = s.turns + 1 /\ t.spans = 0
               /\ t.heard = s.heard /\ t.conv = s.conv /\ ~t.submitted /\ t.error = "none"
               /\ t.pc = s.pc
<1>1. s.turns < MaxTurns /\ s.spans = 1 /\ ~s.submitted /\ s.error = "none"
  BY DEF LoopOK
<1>2. s.turns + 1 \in 0 .. MaxTurns
  BY <1>1, ReplayAssumption DEF TrialState
<1>3. Unanswered(s) = [s EXCEPT !.turns = s.turns + 1, !.spans = 0]
  BY <1>1 DEF Unanswered, TrialState
<1>4. [s EXCEPT !.turns = s.turns + 1, !.spans = 0] \in TrialState
  BY <1>2, TurnsSet
<1>5. /\ Unanswered(s).turns = s.turns + 1 /\ Unanswered(s).spans = 0
      /\ Unanswered(s).heard = s.heard /\ Unanswered(s).conv = s.conv
      /\ Unanswered(s).submitted = s.submitted /\ Unanswered(s).error = s.error
      /\ Unanswered(s).pc = s.pc
  BY <1>3 DEF TrialState
<1>6. QED
  BY <1>1, <1>3, <1>4, <1>5

\* The two ways on from there.
LEMMA GoOnIs ==
    ASSUME NEW t \in TrialState, t.turns \in 1 .. MaxTurns, t.error = "none", t.spans = 0,
           t.conv = TurnOf(t.heard, Len(t.heard) + 1), t.conv <= Len(t.heard),
           Len(t.heard) <= t.turns, t.submitted <=> HeardLast(t, "submit"),
           ~HeardLast(t, "broken"),
           \A k \in 1 .. Len(t.heard) - 1 : t.heard[k] \notin {"submit", "broken"},
           NEW u \in {NoAction(t), Acted(t)}, ~t.submitted
    PROVE  /\ u \in TrialState /\ LoopOK(u) /\ u.pc \in {"turn", "ended"}
           /\ u.heard = t.heard /\ u.conv = t.conv /\ u.turns = t.turns /\ u.error = "none"
<1>1. Continue(t) \in {"turn", "ended"} /\ (Continue(t) = "ended" <=> t.turns = MaxTurns)
  BY DEF Continue
<1>2. /\ u \in TrialState /\ u.pc = Continue(t) /\ u.heard = t.heard /\ u.conv = t.conv
      /\ u.turns = t.turns /\ u.error = t.error /\ u.submitted = t.submitted
      /\ u.spans = t.spans
  <2>1. CASE u = NoAction(t)
    <3> DEFINE switch == t.native /\ t.fails + 1 >= 2
               fails == IF switch THEN 0 ELSE t.fails + 1
               native == t.native /\ ~switch
    <3>1. fails \in Nat /\ native \in BOOLEAN
      BY DEF TrialState
    <3>2. u = [t EXCEPT !.fails = fails, !.native = native, !.pc = Continue(t)]
      BY <2>1 DEF NoAction
    <3> HIDE DEF fails, native
    <3>3. QED
      BY <1>1, <3>1, <3>2 DEF TrialState
  <2>2. CASE u = Acted(t)
    <3>1. t.commands + 1 \in Nat
      BY DEF TrialState
    <3>2. u = [t EXCEPT !.commands = t.commands + 1, !.fails = 0, !.pc = Continue(t)]
      BY <2>2 DEF Acted
    <3>3. QED
      BY <1>1, <3>1, <3>2 DEF TrialState
  <2>3. QED
    BY <2>1, <2>2
<1>3. LoopOK(u)
  BY <1>1, <1>2, ReplayAssumption DEF LoopOK, HeardLast, Uncounted, TrialState
<1>4. QED
  BY <1>1, <1>2, <1>3

\* What a reply makes of an agent that waits for one.
LEMMA DigestIs ==
    ASSUME NEW s \in TrialState, LoopOK(s), s.pc = "waiting", NEW reply \in ReplyKinds
    PROVE  LET u == Digest(s, reply)
           IN  /\ u \in TrialState /\ LoopOK(u) /\ u.pc # "idle"
               /\ u.heard = Append(s.heard, reply)
               /\ u.error # "miss" /\ u.turns + Uncounted(u) = s.turns + 1
<1> DEFINE h == Append(s.heard, reply)
           t == Hear(s, reply)
<1>1. /\ s.turns < MaxTurns /\ s.spans = 1 /\ ~s.submitted /\ s.error = "none"
      /\ s.heard \in Seq(ReplyKinds) /\ Len(s.heard) <= s.turns
      /\ s.conv = TurnOf(s.heard, Len(s.heard) + 1) /\ s.conv <= Len(s.heard)
      /\ \A k \in 1 .. Len(s.heard) - 1 : s.heard[k] \notin {"submit", "broken"}
      /\ ~HeardLast(s, "submit") /\ ~HeardLast(s, "broken")
      /\ s.turns \in Nat /\ s.turns + 1 \in 1 .. MaxTurns /\ s.conv \in Nat
  BY ReplayAssumption DEF LoopOK, Uncounted, TrialState
<1>2. /\ h \in Seq(ReplyKinds) /\ Len(h) = Len(s.heard) + 1 /\ h[Len(h)] = reply /\ h # <<>>
      /\ \A k \in 1 .. Len(h) - 1 : h[k] = s.heard[k]
  <2>1. s.heard \in Seq(ReplyKinds) /\ Len(s.heard) \in Nat
    BY <1>1
  <2>2. h \in Seq(ReplyKinds)
    BY <2>1
  <2>3. /\ Len(h) = Len(s.heard) + 1 /\ h[Len(s.heard) + 1] = reply
        /\ \A k \in 1 .. Len(s.heard) : h[k] = s.heard[k]
    BY <2>1
  <2> HIDE DEF h
  <2>4. h # <<>>
    BY <2>1, <2>3
  <2>5. QED
    BY <2>1, <2>2, <2>3, <2>4
<1>3. \A k \in 1 .. Len(h) - 1 : h[k] \notin {"submit", "broken"}
  <2>1. \A k \in 1 .. Len(s.heard) : s.heard[k] \notin {"submit", "broken"}
    BY <1>1 DEF HeardLast
  <2>2. QED
    BY <1>1, <1>2, <2>1
<1>4. TurnOf(h, Len(h) + 1) = s.conv + (IF reply = "empty" THEN 0 ELSE 1)
  BY <1>1, <1>2, TurnOfGrows
<1> HIDE DEF h
<1>5. /\ t \in TrialState /\ t.heard = h /\ t.spans = 0 /\ t.pc = "waiting"
      /\ t.conv = TurnOf(h, Len(h) + 1) /\ t.conv <= Len(h)
      /\ t.turns = (IF reply \in {"run", "broken"} THEN s.turns ELSE s.turns + 1)
      /\ ~t.submitted /\ t.error = "none" /\ t.fails = s.fails /\ t.native = s.native
      /\ t.commands = s.commands
  <2>1. t = [s EXCEPT !.heard = h, !.spans = s.spans - 1,
                      !.conv = IF reply = "empty" THEN s.conv ELSE s.conv + 1,
                      !.turns = IF reply \in {"run", "broken"} THEN s.turns ELSE s.turns + 1]
    BY DEF Hear, h
  <2> DEFINE c == IF reply = "empty" THEN s.conv ELSE s.conv + 1
             n == IF reply \in {"run", "broken"} THEN s.turns ELSE s.turns + 1
  <2>2. c \in Nat /\ n \in 0 .. MaxTurns /\ s.spans - 1 = 0 /\ c <= Len(h)
        /\ c = TurnOf(h, Len(h) + 1)
    <3>1. c \in Nat /\ c <= Len(h) /\ c = TurnOf(h, Len(h) + 1)
      BY <1>1, <1>2, <1>4
    <3>2. n \in 0 .. MaxTurns /\ s.spans - 1 = 0
      BY <1>1, ReplayAssumption
    <3>3. QED
      BY <3>1, <3>2
  <2>3. t = [s EXCEPT !.heard = h, !.spans = 0, !.conv = c, !.turns = n]
    BY <2>1, <2>2
  <2>4. n = (IF reply \in {"run", "broken"} THEN s.turns ELSE s.turns + 1)
    OBVIOUS
  <2> HIDE DEF c, n, t
  <2>5. t \in TrialState /\ t.heard = h /\ t.spans = 0 /\ t.conv = c /\ t.turns = n
    <3>1. h \in Seq(ReplyKinds) /\ c \in Nat /\ n \in 0 .. MaxTurns
      BY <1>2, <2>2
    <3>2. [s EXCEPT !.heard = h, !.spans = 0, !.conv = c, !.turns = n] \in TrialState
      BY <3>1, HeardSet
    <3>3. t.heard = h /\ t.spans = 0 /\ t.conv = c /\ t.turns = n
      BY <2>3 DEF TrialState
    <3>4. QED
      BY <2>3, <3>2, <3>3
  <2>6. t.pc = s.pc /\ t.submitted = s.submitted /\ t.error = s.error /\ t.fails = s.fails
        /\ t.native = s.native /\ t.commands = s.commands
    BY <2>3 DEF TrialState
  <2>7. QED
    BY <1>1, <2>2, <2>4, <2>5, <2>6
<1> HIDE DEF t
<1>6. CASE reply = "run"
  <2> DEFINE u == [t EXCEPT !.pc = "command", !.spans = @ + 1]
  <2>1. Digest(s, reply) = u
    BY <1>6 DEF Digest, t
  <2>2. /\ u \in TrialState /\ u.pc = "command" /\ u.spans = 1 /\ u.heard = h
        /\ u.conv = t.conv /\ u.turns = s.turns /\ ~u.submitted /\ u.error = "none"
    <3>1. u = [t EXCEPT !.pc = "command", !.spans = 1]
      BY <1>5
    <3>2. t \in TrialState
      BY <1>5
    <3>3. u \in TrialState
      BY <3>1, <3>2, StepSet
    <3>4. /\ u.pc = "command" /\ u.spans = 1 /\ u.heard = t.heard /\ u.conv = t.conv
          /\ u.turns = t.turns /\ u.submitted = t.submitted /\ u.error = t.error
      BY <3>1, <3>2 DEF TrialState
    <3>5. QED
      BY <1>5, <1>6, <3>3, <3>4
  <2> HIDE DEF u
  <2>3. LoopOK(u) /\ u.turns + Uncounted(u) = s.turns + 1
    BY <1>1, <1>2, <1>3, <1>5, <1>6, <2>2 DEF LoopOK, HeardLast, Uncounted
  <2>4. QED
    BY <2>1, <2>2, <2>3 DEF h
<1>7. CASE reply = "broken"
  <2> DEFINE u == [t EXCEPT !.pc = "ended", !.error = "fatal"]
  <2>1. Digest(s, reply) = u
    BY <1>7 DEF Digest, t
  <2>2. /\ u \in TrialState /\ u.pc = "ended" /\ u.spans = 0 /\ u.heard = h
        /\ u.conv = t.conv /\ u.turns = s.turns /\ ~u.submitted /\ u.error = "fatal"
    BY <1>5, <1>7 DEF TrialState
  <2> HIDE DEF u
  <2>3. LoopOK(u) /\ u.turns + Uncounted(u) = s.turns + 1
    BY <1>1, <1>2, <1>3, <1>5, <1>7, <2>2 DEF LoopOK, HeardLast, Uncounted
  <2>4. QED
    BY <2>1, <2>2, <2>3 DEF h
<1>8. CASE reply = "submit"
  <2> DEFINE u == [Acted(t) EXCEPT !.pc = "ended", !.submitted = TRUE]
  <2>1. Digest(s, reply) = u
    BY <1>8 DEF Digest, t
  <2>2. /\ u \in TrialState /\ u.pc = "ended" /\ u.spans = 0 /\ u.heard = h
        /\ u.conv = t.conv /\ u.turns = s.turns + 1 /\ u.submitted /\ u.error = "none"
    <3>1. t.commands + 1 \in Nat
      BY <1>5 DEF TrialState
    <3>2. u = [t EXCEPT !.commands = t.commands + 1, !.fails = 0, !.pc = "ended",
                        !.submitted = TRUE]
      BY <1>5 DEF Acted, TrialState
    <3>3. t \in TrialState
      BY <1>5
    <3>4. u \in TrialState
      BY <3>1, <3>2, <3>3, SubmitSet
    <3>5. /\ u.pc = "ended" /\ u.spans = t.spans /\ u.heard = t.heard /\ u.conv = t.conv
          /\ u.turns = t.turns /\ u.submitted /\ u.error = t.error
      BY <3>2, <3>3 DEF TrialState
    <3>6. QED
      BY <1>5, <1>8, <3>4, <3>5
  <2> HIDE DEF u
  <2>3. LoopOK(u) /\ u.turns + Uncounted(u) = s.turns + 1
    BY <1>1, <1>2, <1>3, <1>5, <1>8, <2>2 DEF LoopOK, HeardLast, Uncounted
  <2>4. QED
    BY <2>1, <2>2, <2>3 DEF h
<1>9. CASE reply \notin {"run", "broken", "submit"}
  <2>1. PICK u \in {NoAction(t), Acted(t)} : Digest(s, reply) = u
    BY <1>9 DEF Digest, t
  <2>2. /\ t.turns \in 1 .. MaxTurns /\ Len(t.heard) <= t.turns
        /\ ~HeardLast(t, "submit") /\ ~HeardLast(t, "broken")
    BY <1>1, <1>2, <1>5, <1>9 DEF HeardLast
  <2>3. /\ u \in TrialState /\ LoopOK(u) /\ u.pc \in {"turn", "ended"}
        /\ u.heard = t.heard /\ u.conv = t.conv /\ u.turns = t.turns /\ u.error = "none"
    BY <1>3, <1>5, <2>2, GoOnIs
  <2>4. u.turns + Uncounted(u) = s.turns + 1
    BY <1>1, <1>5, <1>9, <2>3 DEF Uncounted
  <2>5. QED
    BY <1>5, <2>1, <2>3, <2>4 DEF h
<1>10. QED
  BY <1>6, <1>7, <1>8, <1>9

-------------------------------------------------------------------------------
(* The lines of the file.                                                  *)

LEMMA LastIsLast == \A t, r : LastLine(t, r) <=> LastIn(jsonl, t, r)
BY DEF LastLine, LastIn

LEMMA LastIsOne ==
    ASSUME NEW lines \in Seq(FixtureLine), NEW t, NEW r, NEW q,
           LastIn(lines, t, r), LastIn(lines, t, q)
    PROVE  r = q
<1>1. PICK i \in DOMAIN lines : /\ lines[i] = Entry(t, r)
                                /\ \A j \in i + 1 .. Len(lines) : lines[j].turn # t
  BY DEF LastIn
<1>2. PICK n \in DOMAIN lines : /\ lines[n] = Entry(t, q)
                                /\ \A j \in n + 1 .. Len(lines) : lines[j].turn # t
  BY DEF LastIn
<1>3. lines[i].turn = t /\ lines[n].turn = t /\ lines[i].reply = r /\ lines[n].reply = q
  BY <1>1, <1>2 DEF Entry
<1>4. i \in 1 .. Len(lines) /\ n \in 1 .. Len(lines) /\ Len(lines) \in Nat
  OBVIOUS
<1>5. ~(i < n) /\ ~(n < i)
  BY <1>1, <1>2, <1>3, <1>4
<1>6. QED
  BY <1>3, <1>4, <1>5

\* A set of places has a greatest one.
LEMMA GreatestPlace ==
    ASSUME NEW n \in Nat, NEW S \in SUBSET (1 .. n), S # {}
    PROVE  \E i \in S : \A j \in S : j <= i
<1> DEFINE T == {n - i : i \in S}
<1>1. T \subseteq Nat /\ T # {}
  <2>1. \A i \in S : i \in Nat /\ i <= n
    OBVIOUS
  <2>2. \A i \in S : n - i \in Nat
    BY <2>1
  <2>3. PICK i \in S : TRUE
    OBVIOUS
  <2>4. n - i \in T
    OBVIOUS
  <2>5. QED
    BY <2>2, <2>4
<1>2. PICK m \in T : \A k \in T : ~(<<k, m>> \in OpToRel(<, Nat))
  BY <1>1, NatLessThanWellFounded, WFMin
<1>3. \A k \in T : m <= k
  <2> HIDE DEF T
  <2>1. ASSUME NEW k \in T
        PROVE  m <= k
    <3>1. k \in Nat /\ m \in Nat
      BY <1>1
    <3>2. ~(k < m)
      BY <1>2, <3>1 DEF OpToRel
    <3>3. QED
      BY <3>1, <3>2
  <2>2. QED
    BY <2>1
<1>4. PICK i \in S : m = n - i
  OBVIOUS
<1>5. \A j \in S : j <= i
  <2> TAKE j \in S
  <2>1. m <= n - j
    BY <1>3
  <2>2. QED
    BY <1>4, <2>1
<1>6. QED
  BY <1>5

LEMMA LoadIs ==
    ASSUME NEW lines \in Seq(FixtureLine)
    PROVE  /\ DOMAIN load_fixture(lines) = {lines[i].turn : i \in Entries(lines)}
           /\ DOMAIN load_fixture(lines) \subseteq Nat
           /\ \A t \in DOMAIN load_fixture(lines) :
                  /\ load_fixture(lines)[t] \in ReplyKinds
                  /\ LastIn(lines, t, load_fixture(lines)[t])
           /\ \A i \in DOMAIN lines :
                  lines[i].turn = -1 \/ lines[i].turn \in DOMAIN load_fixture(lines)
<1> DEFINE f == load_fixture(lines)
<1>1. DOMAIN f = {lines[i].turn : i \in Entries(lines)}
  BY DEF load_fixture
<1>2. \A i \in DOMAIN lines : lines[i] \in FixtureLine
  OBVIOUS
<1>3. \A i \in DOMAIN lines :
          IF i \in Entries(lines) THEN lines[i] \in EntryLine ELSE lines[i].turn = -1
  BY <1>2 DEF Entries, FixtureLine, EntryLine, ReplyKinds, BadLine, Entry
<1>4. ASSUME NEW t \in DOMAIN f
      PROVE  f[t] \in ReplyKinds /\ LastIn(lines, t, f[t])
  <2> DEFINE S == EntriesOf(lines, t)
             i == CHOOSE k \in S : \A j \in S : j <= k
  <2>1. S \in SUBSET (1 .. Len(lines)) /\ S # {} /\ Len(lines) \in Nat
    BY <1>1, <1>4 DEF EntriesOf, Entries
  <2>2. \E k \in S : \A j \in S : j <= k
    BY <2>1, GreatestPlace
  <2>3. i \in S /\ \A j \in S : j <= i
    BY <2>2
  <2>4. f[t] = lines[i].reply
    BY <1>1, <1>4 DEF load_fixture
  <2> HIDE DEF i
  <2>5. i \in DOMAIN lines /\ i \in Entries(lines) /\ lines[i].turn = t
    BY <2>3 DEF EntriesOf, Entries
  <2>6. lines[i] \in EntryLine
    BY <1>3, <2>5
  <2>7. lines[i] = Entry(t, f[t]) /\ f[t] \in ReplyKinds /\ t \in Nat
    BY <2>4, <2>5, <2>6 DEF EntryLine, Entry
  <2>8. ASSUME NEW j \in i + 1 .. Len(lines)
        PROVE  lines[j].turn # t
    <3>1. j \in DOMAIN lines /\ ~(j <= i)
      BY <2>1, <2>5
    <3>2. j \notin S
      BY <2>3, <3>1
    <3>3. CASE j \in Entries(lines)
      BY <3>2, <3>3 DEF EntriesOf
    <3>4. CASE j \notin Entries(lines)
      BY <1>3, <2>7, <3>1, <3>4
    <3>5. QED
      BY <3>3, <3>4
  <2>9. QED
    BY <2>5, <2>7, <2>8 DEF LastIn
<1>5. DOMAIN f \subseteq Nat
  BY <1>1, <1>3 DEF EntryLine, Entries
<1>6. \A i \in DOMAIN lines : lines[i].turn = -1 \/ lines[i].turn \in DOMAIN f
  BY <1>1, <1>3
<1>7. QED
  BY <1>1, <1>4, <1>5, <1>6

LEMMA AppendKeepsLast ==
    ASSUME NEW lines \in Seq(FixtureLine), NEW line \in FixtureLine, NEW t, NEW r
    PROVE  /\ LastIn(lines, t, r) /\ line.turn # t => LastIn(Append(lines, line), t, r)
           /\ line = Entry(t, r) => LastIn(Append(lines, line), t, r)
<1> DEFINE out == Append(lines, line)
<1>1. /\ Len(out) = Len(lines) + 1 /\ out[Len(lines) + 1] = line /\ Len(lines) \in Nat
      /\ DOMAIN out = 1 .. Len(lines) + 1 /\ DOMAIN lines = 1 .. Len(lines)
      /\ \A i \in DOMAIN lines : out[i] = lines[i]
  OBVIOUS
<1> HIDE DEF out
<1>2. ASSUME LastIn(lines, t, r), line.turn # t
      PROVE  LastIn(out, t, r)
  <2>1. PICK i \in DOMAIN lines : /\ lines[i] = Entry(t, r)
                                  /\ \A j \in i + 1 .. Len(lines) : lines[j].turn # t
    BY <1>2 DEF LastIn
  <2>2. \A j \in i + 1 .. Len(out) : out[j].turn # t
    BY <1>1, <1>2, <2>1
  <2>3. QED
    BY <1>1, <2>1, <2>2 DEF LastIn
<1>3. ASSUME line = Entry(t, r)
      PROVE  LastIn(out, t, r)
  <2>1. \A j \in Len(lines) + 1 + 1 .. Len(out) : out[j].turn # t
    BY <1>1
  <2>2. Len(lines) + 1 \in DOMAIN out
    BY <1>1
  <2>3. QED
    BY <1>1, <1>3, <2>1, <2>2 DEF LastIn
<1>4. QED
  BY <1>2, <1>3 DEF out

LEMMA AppendLineIs ==
    ASSUME NEW lines \in Seq(FixtureLine), NEW line \in EntryLine \cup {BadLine("torn")}
    PROVE  LET out == AppendLine(lines, line)
           IN  /\ out \in Seq(FixtureLine)
               /\ LostIn(lines) => LostIn(out)
               /\ line \in EntryLine => out = Append(lines, line) \/ LostIn(out)
               /\ line = BadLine("torn") => out = Append(lines, line) \/ out = lines
<1> DEFINE out == AppendLine(lines, line)
<1>1. line \in FixtureLine
  BY DEF FixtureLine
<1>2. CASE ~(lines # <<>> /\ Last(lines).reply = "torn")
  <2>1. out = Append(lines, line)
    BY <1>2 DEF AppendLine
  <2>2. /\ DOMAIN lines \subseteq DOMAIN Append(lines, line)
        /\ \A i \in DOMAIN lines : Append(lines, line)[i] = lines[i]
    OBVIOUS
  <2>3. LostIn(lines) => LostIn(Append(lines, line))
    BY <2>2 DEF LostIn
  <2>4. QED
    BY <1>1, <2>1, <2>3
<1>3. CASE lines # <<>> /\ Last(lines).reply = "torn"
  <2> DEFINE kind == IF line.reply = "torn" THEN "torn" ELSE "bad"
             n == Len(lines)
  <2>1. out = Append(Front(lines), BadLine(kind))
    BY <1>3 DEF AppendLine
  <2>2. /\ Front(lines) \in Seq(FixtureLine) /\ Len(Front(lines)) = n - 1
        /\ \A i \in 1 .. n - 1 : Front(lines)[i] = lines[i]
        /\ n \in Nat /\ n > 0 /\ Last(lines) = lines[n]
    <3>1. n \in Nat /\ n > 0
      BY <1>3
    <3>2. Front(lines) = SubSeq(lines, 1, n - 1) /\ Last(lines) = lines[n]
      BY DEF Front, Last
    <3>3. 1 \in Int /\ n - 1 \in Int /\ \A i \in 1 .. n - 1 : lines[i] \in FixtureLine
      BY <3>1
    <3> DEFINE short == SubSeq(lines, 1, n - 1)
    <3>4. /\ short \in Seq(FixtureLine) /\ Len(short) = IF 1 <= n - 1 THEN n - 1 - 1 + 1 ELSE 0
          /\ \A i \in 1 .. n - 1 - 1 + 1 : short[i] = lines[1 + i - 1]
      BY <3>3, SubSeqProperties
    <3> HIDE DEF short
    <3> HIDE DEF n
    <3>5. (IF 1 <= n - 1 THEN n - 1 - 1 + 1 ELSE 0) = n - 1
      BY <3>1
    <3>6. short \in Seq(FixtureLine) /\ Len(short) = n - 1
      BY <3>4, <3>5
    <3>7. \A i \in 1 .. n - 1 : short[i] = lines[i]
      BY <3>1, <3>4
    <3>8. QED
      BY <3>1, <3>2, <3>6, <3>7 DEF short, n
  <2>3. lines[n] = BadLine("torn")
    <3>1. lines[n] \in FixtureLine
      BY <2>2
    <3>2. QED
      BY <1>3, <2>2, <3>1 DEF FixtureLine, EntryLine, ReplyKinds, BadLine, Entry
  <2>4. BadLine(kind) \in FixtureLine
    BY DEF FixtureLine
  <2>5. /\ out \in Seq(FixtureLine) /\ Len(out) = n /\ out[n] = BadLine(kind)
        /\ \A i \in 1 .. n - 1 : out[i] = lines[i]
    BY <2>1, <2>2, <2>4
  <2> HIDE DEF out, kind
  <2>6. LostIn(lines) => LostIn(out)
    <3>1. ASSUME NEW i \in DOMAIN lines, lines[i].reply = "bad"
          PROVE  LostIn(out)
      <4>1. i # n
        BY <2>3, <3>1 DEF BadLine, Entry
      <4>2. i \in 1 .. n - 1 /\ i \in DOMAIN out
        BY <2>2, <2>5, <4>1
      <4>3. QED
        BY <2>5, <3>1, <4>2 DEF LostIn
    <3>2. QED
      BY <3>1 DEF LostIn
  <2>7. ASSUME line \in EntryLine
        PROVE  LostIn(out)
    <3>1. kind = "bad"
      BY <2>7 DEF kind, EntryLine, ReplyKinds
    <3>2. n \in DOMAIN out /\ out[n].reply = "bad"
      BY <2>2, <2>5, <3>1 DEF BadLine, Entry
    <3>3. QED
      BY <3>2 DEF LostIn
  <2>8. ASSUME line = BadLine("torn")
        PROVE  out = lines
    <3>1. kind = "torn"
      BY <2>8 DEF kind, BadLine, Entry
    <3>2. \A i \in 1 .. n : out[i] = lines[i]
      BY <2>2, <2>3, <2>5, <3>1
    <3>3. QED
      BY <2>2, <2>5, <3>2
  <2>9. QED
    BY <2>5, <2>6, <2>7, <2>8 DEF out
<1>4. QED
  BY <1>2, <1>3

-------------------------------------------------------------------------------
(* Steps of the agents.                                                    *)

Sound == take.count = 1 /\ take.whole /\ ~LineLost /\ port = "own" /\ proxy.mode = "replay"

\* What an agent repeats so far.
Repeats(s) ==
    /\ s.error # "miss" /\ Len(s.heard) <= Len(take.heard)
    /\ \A k \in DOMAIN s.heard : s.heard[k] = take.heard[k]

LEMMA AgentIs ==
    ASSUME ReplayInv, NEW a \in Agents
    PROVE  /\ agent[a] \in TrialState /\ LoopOK(agent[a])
           /\ agent[a].pc # "idle" =>
                  port \in {"own", "dead", "foreign"} /\ proxy.mode \in {"record", "replay"}
           /\ agent[a].pc = "idle" => agent[a] = Fresh
           /\ proxy.mode = "replay" => Answered(agent[a])
           /\ Sound => Repeats(agent[a])
<1>1. agent[a] \in TrialState /\ LoopOK(agent[a])
  BY DEF ReplayInv, ReplayShapeInv
<1>2. agent[a].pc # "idle" =>
          port \in {"own", "dead", "foreign"} /\ proxy.mode \in {"record", "replay"}
  BY DEF ReplayInv, ReplayShapeInv, PortInv, AllIdle
<1>3. QED
  BY <1>1, <1>2 DEF ReplayInv, AnsweredInv, RepeatInv, LoopOK, Sound, Repeats

\* A step of one agent while the proxy and the file stay as they are.
LEMMA TrialKeeps ==
    ASSUME ReplayInv, NEW a \in Agents, NEW u \in TrialState, LoopOK(u), u.pc # "idle",
           port \in {"own", "dead", "foreign"},
           agent' = [agent EXCEPT ![a] = u], faults' \in Nat,
           UNCHANGED <<plan, strict, jsonl, port, proxy, take>>,
           proxy.mode = "record" => u.heard = agent[a].heard,
           proxy.mode = "replay" => Answered(u),
           Sound => Repeats(u)
    PROVE  ReplayInv'
<1>1. /\ agent' \in [Agents -> TrialState] /\ agent'[a] = u
      /\ \A b \in Agents \ {a} : agent'[b] = agent[b]
  BY DEF ReplayInv, ReplayShapeInv
<1>2. ReplayShapeInv'
  BY <1>1 DEF ReplayInv, ReplayShapeInv
<1>3. \A b \in Agents : LoopOK(agent'[b])
  BY <1>1 DEF ReplayInv
<1>4. PortInv'
  BY DEF ReplayInv, PortInv, Mode
<1>5. IndexInv'
  BY DEF ReplayInv, IndexInv, LastLine, LineLost
<1>6. AnsweredInv'
  BY <1>1, AgentIs DEF AnsweredInv, Answered
<1>7. RepeatInv'
  BY <1>1, AgentIs DEF RepeatInv, Sound, Repeats, LineLost
<1>8. TakeInv'
  <2>1. ~AllIdle'
    BY <1>1 DEF AllIdle
  <2>2. Quiet' => proxy.mode # "record" /\ Quiet
    BY <2>1 DEF Quiet
  <2>3. take.count = 0 /\ Quiet' => \A i \in DOMAIN jsonl : jsonl[i].turn = -1
    BY <2>2 DEF ReplayInv, TakeInv
  <2>4. ASSUME take.count = 0, ~Quiet', NEW b \in Agents, Alone(b)', NoEmpty(agent'[b].heard)
        PROVE  LineLost \/ Records(agent'[b].heard)
    <3>1. b = a /\ proxy.mode = "record" /\ \A c \in Agents \ {a} : agent[c].pc = "idle"
      BY <1>1, <2>4 DEF Alone, Quiet
    <3>2. agent'[b].heard = agent[a].heard
      BY <1>1, <3>1
    <3>3. CASE agent[a].pc = "idle"
      <4>1. AllIdle /\ agent[a] = Fresh
        BY <3>1, <3>3, AgentIs DEF AllIdle
      <4>2. \A i \in DOMAIN jsonl : jsonl[i].turn = -1
        BY <2>4, <4>1 DEF ReplayInv, TakeInv, Quiet
      <4>3. Records(<<>>)
        BY <4>2 DEF Records, RecordsIn
      <4>4. QED
        BY <3>2, <4>1, <4>3 DEF Fresh
    <3>4. CASE agent[a].pc # "idle"
      <4>1. ~Quiet /\ Alone(a)
        BY <3>1, <3>4 DEF Quiet, AllIdle, Alone
      <4>2. NoEmpty(agent[a].heard)
        BY <2>4, <3>2
      <4>3. QED
        BY <2>4, <3>2, <4>1, <4>2 DEF ReplayInv, TakeInv
    <3>5. QED
      BY <3>3, <3>4
  <2>5. LineLost' = LineLost /\ \A h : Records(h)' <=> Records(h)
    BY DEF LineLost, Records
  <2>6. QED
    BY <2>2, <2>3, <2>4, <2>5 DEF ReplayInv, TakeInv
<1>9. QED
  BY <1>2, <1>3, <1>4, <1>5, <1>6, <1>7, <1>8 DEF ReplayInv

\* A step without a reply, of a turn that was counted or will be.
LEMMA SilentKeeps ==
    ASSUME ReplayInv, NEW a \in Agents, NEW u \in TrialState, LoopOK(u), u.pc # "idle",
           port \in {"own", "dead", "foreign"},
           agent' = [agent EXCEPT ![a] = u], faults' \in Nat,
           UNCHANGED <<plan, strict, jsonl, port, proxy, take>>,
           u.heard = agent[a].heard, u.error = "none", agent[a].error = "none",
           port = "own" /\ proxy.mode = "replay" =>
               u.turns + Uncounted(u) = agent[a].turns + Uncounted(agent[a])
    PROVE  ReplayInv'
<1>1. ASSUME proxy.mode = "replay"
      PROVE  Answered(u)
  <2>1. Answered(agent[a])
    BY <1>1, AgentIs
  <2>2. \A k \in DOMAIN u.heard :
            LET t == TurnOf(u.heard, k)
            IN  IF t \in DOMAIN proxy.index THEN u.heard[k] = proxy.index[t]
                ELSE ~strict /\ u.heard[k] = "empty"
    BY <2>1 DEF Answered
  <2>3. ASSUME port = "own"
        PROVE  Len(u.heard) = u.turns + Uncounted(u) - (IF u.error = "miss" THEN 1 ELSE 0)
    <3>1. Len(agent[a].heard) = agent[a].turns + Uncounted(agent[a])
                                - (IF agent[a].error = "miss" THEN 1 ELSE 0)
      BY <2>1, <2>3 DEF Answered
    <3>2. agent[a].turns + Uncounted(agent[a]) = u.turns + Uncounted(u)
      BY <1>1, <2>3
    <3>3. /\ agent[a].turns \in Nat /\ Uncounted(agent[a]) \in Nat
          /\ u.turns \in Nat /\ Uncounted(u) \in Nat
      BY AgentIs, ReplayAssumption DEF TrialState, Uncounted
    <3>4. QED
      BY <3>1, <3>2, <3>3
  <2>4. QED
    BY <2>2, <2>3 DEF Answered
<1>2. Sound => Repeats(u)
  BY AgentIs DEF Repeats
<1>3. QED
  BY <1>1, <1>2, TrialKeeps

LEMMA BeginKeeps ==
    ASSUME ReplayInv, NEW a \in Agents, BeginTrial(a)
    PROVE  ReplayInv'
<1> DEFINE u == [agent[a] EXCEPT !.pc = "turn"]
<1>1. agent[a] \in TrialState /\ agent[a] = Fresh /\ LoopOK(agent[a])
  BY AgentIs DEF BeginTrial
<1>2. /\ u \in TrialState /\ u.pc = "turn" /\ u.heard = agent[a].heard /\ u.error = "none"
      /\ u.turns = agent[a].turns /\ u.spans = 0 /\ u.conv = agent[a].conv
      /\ u.submitted = agent[a].submitted /\ u.turns = 0
  <2>1. u \in TrialState
    BY <1>1 DEF TrialState
  <2>2. /\ u.pc = "turn" /\ u.heard = agent[a].heard /\ u.error = agent[a].error
        /\ u.turns = agent[a].turns /\ u.spans = agent[a].spans /\ u.conv = agent[a].conv
        /\ u.submitted = agent[a].submitted
    BY <1>1 DEF TrialState
  <2>3. agent[a].error = "none" /\ agent[a].spans = 0 /\ agent[a].turns = 0
    BY <1>1 DEF Fresh
  <2>4. QED
    BY <2>1, <2>2, <2>3
<1>3. agent[a].pc = "idle" /\ agent[a].error = "none" /\ ~agent[a].submitted
  BY <1>1 DEF Fresh
<1> HIDE DEF u
<1>4. LoopOK(u)
  BY <1>1, <1>2, <1>3, ReplayAssumption DEF LoopOK, HeardLast, Uncounted
<1>5. u.turns + Uncounted(u) = agent[a].turns + Uncounted(agent[a])
  BY <1>2, <1>3 DEF Uncounted
<1>6. agent' = [agent EXCEPT ![a] = u] /\ port \in {"own", "dead", "foreign"} /\ faults' \in Nat
      /\ UNCHANGED <<plan, strict, jsonl, port, proxy, take>>
  BY DEF BeginTrial, Sets, u, ReplayInv, ReplayShapeInv
<1>7. QED
  BY <1>2, <1>3, <1>4, <1>5, <1>6, SilentKeeps

LEMMA RequestKeeps ==
    ASSUME ReplayInv, NEW a \in Agents, Request(a)
    PROVE  ReplayInv'
<1> DEFINE s == agent[a]
           u == [s EXCEPT !.pc = "waiting", !.spans = 1]
<1>1. /\ s \in TrialState /\ LoopOK(s) /\ s.pc = "turn"
      /\ port \in {"own", "dead", "foreign"}
  BY AgentIs DEF Request
<1>2. s.spans = 0 /\ s.error = "none" /\ ~s.submitted /\ s.turns < MaxTurns
  BY <1>1 DEF LoopOK
<1>3. agent' = [agent EXCEPT ![a] = u]
  BY <1>2 DEF Request, Sets
<1> HIDE DEF s
<1>4. u \in TrialState
  BY <1>1, StepSet
<1>5. /\ u.pc = "waiting" /\ u.heard = s.heard /\ u.error = "none" /\ u.turns = s.turns
      /\ u.spans = 1 /\ u.conv = s.conv /\ u.submitted = s.submitted
  BY <1>1, <1>2 DEF TrialState
<1> HIDE DEF u
<1>6. LoopOK(u) /\ u.turns + Uncounted(u) = s.turns + Uncounted(s)
  BY <1>1, <1>2, <1>5 DEF LoopOK, HeardLast, Uncounted
<1>7. faults' \in Nat /\ UNCHANGED <<plan, strict, jsonl, port, proxy, take>>
  BY DEF Request, ReplayInv, ReplayShapeInv
<1>8. QED
  BY <1>1, <1>2, <1>3, <1>4, <1>5, <1>6, <1>7, SilentKeeps DEF s

\* A turn that ends without a reply goes on, or ends the trial.
LEMMA NoReplyIs ==
    ASSUME ReplayInv, NEW a \in Agents, agent[a].pc \in {"waiting", "command"},
           NEW u \in {NoAction(Unanswered(agent[a])), Acted(Unanswered(agent[a]))}
    PROVE  /\ u \in TrialState /\ LoopOK(u) /\ u.pc \in {"turn", "ended"}
           /\ u.heard = agent[a].heard /\ u.turns = agent[a].turns + 1 /\ u.error = "none"
           /\ agent[a].error = "none"
<1> DEFINE s == agent[a]
           t == Unanswered(s)
<1>1. s \in TrialState /\ LoopOK(s)
  BY AgentIs
<1>2. /\ s.error = "none" /\ ~s.submitted /\ s.turns < MaxTurns /\ ~HeardLast(s, "submit")
      /\ ~HeardLast(s, "broken") /\ s.turns \in Nat
  BY <1>1, ReplayAssumption DEF LoopOK, TrialState
<1> HIDE DEF s
<1>3. /\ t \in TrialState /\ t.turns = s.turns + 1 /\ t.spans = 0
      /\ t.heard = s.heard /\ t.conv = s.conv /\ ~t.submitted /\ t.error = "none"
  BY <1>1, UnansweredIs DEF s
<1>4. u \in {NoAction(t), Acted(t)}
  BY DEF s
<1> HIDE DEF t
<1>5. /\ t.turns \in 1 .. MaxTurns /\ t.conv = TurnOf(t.heard, Len(t.heard) + 1)
      /\ t.conv <= Len(t.heard)
      /\ \A k \in 1 .. Len(t.heard) - 1 : t.heard[k] \notin {"submit", "broken"}
  BY <1>1, <1>2, <1>3, ReplayAssumption DEF LoopOK
<1>6. Len(t.heard) <= t.turns
  BY <1>1, <1>2, <1>3 DEF LoopOK, Uncounted, TrialState
<1>7. ~HeardLast(t, "submit") /\ ~HeardLast(t, "broken")
  BY <1>2, <1>3 DEF HeardLast
<1>8. /\ u \in TrialState /\ LoopOK(u) /\ u.pc \in {"turn", "ended"}
      /\ u.heard = t.heard /\ u.turns = t.turns /\ u.error = "none"
  BY <1>3, <1>4, <1>5, <1>6, <1>7, GoOnIs
<1>9. QED
  BY <1>2, <1>3, <1>8 DEF s

LEMMA FailureKeeps ==
    ASSUME ReplayInv, NEW a \in Agents, AnswerFailure(a)
    PROVE  ReplayInv'
<1> DEFINE u == NoAction(Unanswered(agent[a]))
<1>1. agent[a].pc = "waiting" /\ ~(port = "own" /\ proxy.mode = "replay")
  BY DEF AnswerFailure
<1>2. /\ agent' = [agent EXCEPT ![a] = u] /\ faults' \in Nat
      /\ UNCHANGED <<plan, strict, jsonl, port, proxy, take>>
  BY DEF AnswerFailure, Sets, ReplayInv, ReplayShapeInv
<1>3. port \in {"own", "dead", "foreign"}
  BY <1>1, AgentIs
<1>4. u \in {NoAction(Unanswered(agent[a])), Acted(Unanswered(agent[a]))}
  OBVIOUS
<1> HIDE DEF u
<1>5. /\ u \in TrialState /\ LoopOK(u) /\ u.pc \in {"turn", "ended"}
      /\ u.heard = agent[a].heard /\ u.error = "none" /\ agent[a].error = "none"
  BY <1>1, <1>4, NoReplyIs
<1>6. u.pc # "idle"
  BY <1>5
<1>7. QED
  BY <1>1, <1>2, <1>3, <1>5, <1>6, SilentKeeps

LEMMA ExecuteKeeps ==
    ASSUME ReplayInv, NEW a \in Agents, Execute(a)
    PROVE  ReplayInv'
<1> DEFINE u == Acted(Unanswered(agent[a]))
<1>1. agent[a].pc = "command"
  BY DEF Execute
<1>2. /\ agent' = [agent EXCEPT ![a] = u] /\ faults' \in Nat
      /\ UNCHANGED <<plan, strict, jsonl, port, proxy, take>>
  BY DEF Execute, Sets, ReplayInv, ReplayShapeInv
<1>3. port \in {"own", "dead", "foreign"} /\ agent[a] \in TrialState
  BY <1>1, AgentIs
<1>4. u \in {NoAction(Unanswered(agent[a])), Acted(Unanswered(agent[a]))}
  OBVIOUS
<1> HIDE DEF u
<1>5. /\ u \in TrialState /\ LoopOK(u) /\ u.pc \in {"turn", "ended"}
      /\ u.heard = agent[a].heard /\ u.error = "none" /\ agent[a].error = "none"
      /\ u.turns = agent[a].turns + 1
  BY <1>1, <1>4, NoReplyIs
<1>6. u.turns + Uncounted(u) = agent[a].turns + Uncounted(agent[a])
  BY <1>1, <1>3, <1>5 DEF Uncounted, TrialState
<1>7. u.pc # "idle"
  BY <1>5
<1>8. QED
  BY <1>2, <1>3, <1>5, <1>6, <1>7, SilentKeeps

\* While a sound recording is repeated, the next turn is one that it has.
LEMMA NextIsRecorded ==
    ASSUME ReplayInv, Sound, NEW a \in Agents, agent[a].pc = "waiting"
    PROVE  LET n == Len(agent[a].heard)
           IN  /\ n < Len(take.heard) /\ agent[a].conv = n /\ n \in DOMAIN proxy.index
               /\ proxy.index[n] = take.heard[n + 1]
<1> DEFINE s == agent[a]
           h == take.heard
<1>1. /\ s \in TrialState /\ LoopOK(s) /\ Repeats(s) /\ Answered(s)
      /\ s.heard \in Seq(ReplyKinds)
  BY AgentIs DEF Sound, TrialState
<1>2. /\ s.turns < MaxTurns /\ s.error = "none" /\ ~s.submitted
      /\ ~HeardLast(s, "submit") /\ ~HeardLast(s, "broken") /\ s.turns \in Nat
  BY <1>1, ReplayAssumption DEF LoopOK, TrialState
<1>3. Len(s.heard) = s.turns
  BY <1>1, <1>2 DEF Answered, Sound, Uncounted
<1>4. h \in Seq(ReplyKinds)
  BY DEF Sound, ReplayInv, ReplayShapeInv, TakeState
<1>5. /\ NoEmpty(h) /\ h # <<>>
      /\ Len(h) = MaxTurns \/ h[Len(h)] \in {"submit", "broken"}
      /\ Records(h)
  BY DEF ReplayInv, TakeInv, Sound, Quiet
<1>6. Len(s.heard) <= Len(h) /\ \A k \in DOMAIN s.heard : s.heard[k] = h[k]
  BY <1>1 DEF Repeats
<1>7. Len(s.heard) < Len(h)
  <2>1. SUFFICES ASSUME Len(s.heard) = Len(h)
                 PROVE  FALSE
    BY <1>1, <1>4, <1>6
  <2>2. Len(h) # MaxTurns
    BY <1>2, <1>3, <2>1
  <2>3. s.heard # <<>> /\ s.heard[Len(s.heard)] = h[Len(h)]
    BY <1>1, <1>4, <1>5, <1>6, <2>1
  <2>4. QED
    BY <1>2, <1>5, <2>2, <2>3 DEF HeardLast
<1>8. NoEmpty(s.heard)
  BY <1>1, <1>4, <1>5, <1>6 DEF NoEmpty
<1>9. s.conv = Len(s.heard)
  <2>1. Len(s.heard) + 1 \in 1 .. Len(s.heard) + 1 /\ Len(s.heard) + 1 - 1 = Len(s.heard)
    BY <1>1
  <2>2. TurnOf(s.heard, Len(s.heard) + 1) = Len(s.heard) + 1 - 1
    BY <1>1, <1>8, <2>1, TurnOfIs
  <2>3. s.conv = TurnOf(s.heard, Len(s.heard) + 1)
    BY <1>1 DEF LoopOK
  <2>4. QED
    BY <2>1, <2>2, <2>3
<1> DEFINE n == Len(s.heard)
<1>10. n + 1 \in DOMAIN h /\ n \in Nat /\ n + 1 - 1 = n
  BY <1>1, <1>4, <1>7
<1>11. LastIn(jsonl, n, h[n + 1])
  <2>1. LastIn(jsonl, n + 1 - 1, h[n + 1])
    BY <1>5, <1>10 DEF Records, RecordsIn
  <2>2. QED
    BY <1>10, <2>1
<1>12. proxy.index = load_fixture(jsonl) /\ jsonl \in Seq(FixtureLine)
  BY DEF ReplayInv, ReplayShapeInv, IndexInv, Sound
<1> HIDE DEF n, s, h
<1>13. n \in DOMAIN proxy.index
  <2>1. PICK i \in DOMAIN jsonl : jsonl[i] = Entry(n, h[n + 1])
    BY <1>11 DEF LastIn
  <2>2. jsonl[i].turn = n /\ n # -1
    BY <1>10, <2>1 DEF Entry
  <2>3. QED
    BY <1>12, <2>2, LoadIs
<1>14. LastIn(jsonl, n, proxy.index[n])
  BY <1>12, <1>13, LoadIs
<1>15. proxy.index[n] = h[n + 1]
  BY <1>11, <1>12, <1>14, LastIsOne
<1>16. QED
  BY <1>7, <1>9, <1>13, <1>15 DEF n, s, h

\* An agent hears what the proxy has for its turn, or nothing.
LEMMA HearKeeps ==
    ASSUME ReplayInv, NEW a \in Agents, agent[a].pc = "waiting", proxy.mode = "replay",
           NEW reply \in ReplyKinds,
           IF agent[a].conv \in DOMAIN proxy.index THEN reply = proxy.index[agent[a].conv]
           ELSE ~strict /\ reply = "empty",
           agent' = [agent EXCEPT ![a] = Digest(agent[a], reply)], faults' = faults,
           UNCHANGED <<plan, strict, jsonl, port, proxy, take>>
    PROVE  ReplayInv'
<1> DEFINE s == agent[a]
           u == Digest(s, reply)
<1>1. /\ s \in TrialState /\ LoopOK(s) /\ Answered(s) /\ s.heard \in Seq(ReplyKinds)
      /\ Sound => Repeats(s)
      /\ s.error = "none" /\ port \in {"own", "dead", "foreign"}
  BY AgentIs DEF TrialState, LoopOK
<1>2. s.conv = TurnOf(s.heard, Len(s.heard) + 1) /\ s.turns \in Nat
  BY <1>1, ReplayAssumption DEF LoopOK, TrialState
<1>3. /\ u \in TrialState /\ LoopOK(u) /\ u.pc # "idle" /\ u.heard = Append(s.heard, reply)
      /\ u.error # "miss" /\ u.turns + Uncounted(u) = s.turns + 1
  BY <1>1, DigestIs
<1>4. /\ DOMAIN u.heard = 1 .. Len(s.heard) + 1 /\ Len(s.heard) \in Nat
      /\ DOMAIN s.heard = 1 .. Len(s.heard) /\ Len(u.heard) = Len(s.heard) + 1
      /\ \A k \in DOMAIN s.heard : u.heard[k] = s.heard[k]
      /\ u.heard[Len(s.heard) + 1] = reply
  BY <1>1, <1>3
<1>5. \A k \in 1 .. Len(s.heard) + 1 : TurnOf(u.heard, k) = TurnOf(s.heard, k)
  BY <1>1, <1>3, TurnOfGrows
<1>6. agent' = [agent EXCEPT ![a] = u] /\ faults' \in Nat
  BY DEF ReplayInv, ReplayShapeInv
<1> HIDE DEF u
<1>7. Answered(u)
  <2>1. ASSUME NEW k \in DOMAIN u.heard
        PROVE  LET t == TurnOf(u.heard, k)
               IN  IF t \in DOMAIN proxy.index THEN u.heard[k] = proxy.index[t]
                   ELSE ~strict /\ u.heard[k] = "empty"
    <3>1. CASE k \in DOMAIN s.heard
      <4>1. TurnOf(u.heard, k) = TurnOf(s.heard, k) /\ u.heard[k] = s.heard[k]
        BY <1>4, <1>5, <3>1
      <4>2. QED
        BY <1>1, <3>1, <4>1 DEF Answered
    <3>2. CASE k = Len(s.heard) + 1
      <4>1. TurnOf(u.heard, k) = s.conv /\ u.heard[k] = reply
        BY <1>2, <1>4, <1>5, <3>2
      <4>2. QED
        BY <4>1
    <3>3. QED
      BY <1>4, <2>1, <3>1, <3>2
  <2>2. ASSUME port = "own"
        PROVE  Len(u.heard) = u.turns + Uncounted(u) - (IF u.error = "miss" THEN 1 ELSE 0)
    <3>1. Uncounted(s) = 0
      BY <1>1 DEF Uncounted
    <3>2. Len(s.heard) = s.turns + Uncounted(s) - (IF s.error = "miss" THEN 1 ELSE 0)
      BY <1>1, <2>2 DEF Answered
    <3>3. Len(s.heard) = s.turns
      BY <1>1, <1>2, <3>1, <3>2
    <3>4. u.turns \in Nat /\ Uncounted(u) \in Nat
      BY <1>3, ReplayAssumption DEF TrialState, Uncounted
    <3>5. QED
      BY <1>2, <1>3, <1>4, <3>3, <3>4
  <2>3. QED
    BY <2>1, <2>2 DEF Answered
<1>8. ASSUME Sound
      PROVE  Repeats(u)
  <2>1. /\ Len(s.heard) < Len(take.heard) /\ s.conv = Len(s.heard)
        /\ s.conv \in DOMAIN proxy.index
        /\ proxy.index[s.conv] = take.heard[Len(s.heard) + 1]
    BY <1>8, NextIsRecorded
  <2>2. reply = take.heard[Len(s.heard) + 1]
    BY <2>1
  <2>3. take.heard \in Seq(ReplyKinds)
    BY <1>8 DEF Sound, ReplayInv, ReplayShapeInv, TakeState
  <2>4. \A k \in DOMAIN s.heard : s.heard[k] = take.heard[k]
    BY <1>1, <1>8 DEF Repeats
  <2>5. \A k \in DOMAIN u.heard : u.heard[k] = take.heard[k]
    BY <1>4, <2>2, <2>4
  <2>6. Len(u.heard) <= Len(take.heard)
    BY <1>4, <2>1, <2>3
  <2>7. QED
    BY <1>3, <2>5, <2>6 DEF Repeats
<1>9. QED
  BY <1>1, <1>3, <1>6, <1>7, <1>8, TrialKeeps

LEMMA StrictMissKeeps ==
    ASSUME ReplayInv, NEW a \in Agents, agent[a].pc = "waiting", proxy.mode = "replay",
           agent[a].conv \notin DOMAIN proxy.index,
           agent' = [agent EXCEPT ![a] = Abort(Unanswered(agent[a]))], faults' = faults,
           UNCHANGED <<plan, strict, jsonl, port, proxy, take>>
    PROVE  ReplayInv'
<1> DEFINE s == agent[a]
           t == Unanswered(s)
           u == [t EXCEPT !.pc = "ended", !.error = "miss"]
<1>1. /\ s \in TrialState /\ LoopOK(s) /\ Answered(s) /\ s.pc = "waiting"
      /\ s.error = "none" /\ ~s.submitted /\ port \in {"own", "dead", "foreign"}
      /\ s.turns \in Nat /\ s.turns < MaxTurns /\ s.heard \in Seq(ReplyKinds)
  BY AgentIs, ReplayAssumption DEF TrialState, LoopOK
<1>2. /\ t \in TrialState /\ t.turns = s.turns + 1 /\ t.spans = 0
      /\ t.heard = s.heard /\ t.conv = s.conv /\ ~t.submitted /\ t.error = "none"
  BY <1>1, UnansweredIs
<1>3. agent' = [agent EXCEPT ![a] = u] /\ faults' \in Nat
  BY DEF ReplayInv, ReplayShapeInv, Abort
<1> HIDE DEF t
<1>4. /\ u \in TrialState /\ u.pc = "ended" /\ u.turns = s.turns + 1 /\ u.spans = 0
      /\ u.heard = s.heard /\ u.conv = s.conv /\ ~u.submitted /\ u.error = "miss"
  BY <1>2 DEF TrialState
<1> HIDE DEF u, s
<1>5. LoopOK(u)
  BY <1>1, <1>4 DEF LoopOK, HeardLast, Uncounted
<1>6. Answered(u)
  <2>1. \A k \in DOMAIN u.heard :
            LET n == TurnOf(u.heard, k)
            IN  IF n \in DOMAIN proxy.index THEN u.heard[k] = proxy.index[n]
                ELSE ~strict /\ u.heard[k] = "empty"
    BY <1>1, <1>4 DEF Answered
  <2>2. ASSUME port = "own"
        PROVE  Len(u.heard) = u.turns + Uncounted(u) - (IF u.error = "miss" THEN 1 ELSE 0)
    <3>1. Len(s.heard) = s.turns + Uncounted(s) - (IF s.error = "miss" THEN 1 ELSE 0)
      BY <1>1, <2>2 DEF Answered
    <3>2. Uncounted(s) = 0 /\ Uncounted(u) = 0
      BY <1>1, <1>4 DEF Uncounted
    <3>3. QED
      BY <1>1, <1>4, <3>1, <3>2
  <2>3. QED
    BY <2>1, <2>2 DEF Answered
<1>7. ~Sound
  BY NextIsRecorded
<1>8. u.heard = agent[a].heard
  BY <1>4 DEF s
<1>9. QED
  BY <1>1, <1>3, <1>4, <1>5, <1>6, <1>7, <1>8, TrialKeeps

LEMMA ReplayKeeps ==
    ASSUME ReplayInv, NEW a \in Agents, AnswerReplay(a)
    PROVE  ReplayInv'
<1> DEFINE turn == agent[a].conv
<1>1. /\ agent[a].pc = "waiting" /\ proxy.mode = "replay"
      /\ UNCHANGED <<plan, strict, port, take, faults>>
  BY DEF AnswerReplay
<1>2. CASE Miss(turn, a)
  <2>1. turn \notin DOMAIN proxy.index /\ UNCHANGED <<jsonl, proxy>>
    BY <1>2 DEF Miss
  <2>2. CASE strict
    <3>1. agent' = [agent EXCEPT ![a] = Abort(Unanswered(agent[a]))]
      BY <1>2, <2>2 DEF Miss, Sets
    <3>2. QED
      BY <1>1, <2>1, <3>1, StrictMissKeeps
  <2>3. CASE ~strict
    <3>1. agent' = [agent EXCEPT ![a] = Digest(agent[a], "empty")]
      BY <1>2, <2>3 DEF Miss, Sets
    <3>2. "empty" \in ReplyKinds
      BY DEF ReplyKinds
    <3>3. QED
      BY <1>1, <2>1, <2>3, <3>1, <3>2, HearKeeps
  <2>4. QED
    BY <2>2, <2>3
<1>3. CASE /\ turn \in DOMAIN proxy.index
           /\ Sets(a, Digest(agent[a], proxy.index[turn]))
           /\ UNCHANGED <<jsonl, proxy>>
  <2>1. proxy.index[turn] \in ReplyKinds
    BY <1>3 DEF ReplayInv, ReplayShapeInv
  <2>2. agent' = [agent EXCEPT ![a] = Digest(agent[a], proxy.index[turn])]
    BY <1>3 DEF Sets
  <2>3. QED
    BY <1>1, <1>3, <2>1, <2>2, HearKeeps
<1>4. QED
  BY <1>2, <1>3 DEF AnswerReplay

LEMMA RecordsGrow ==
    ASSUME NEW lines \in Seq(FixtureLine), NEW h \in Seq(ReplyKinds), NEW r \in ReplyKinds,
           RecordsIn(lines, h)
    PROVE  RecordsIn(Append(lines, Entry(Len(h), r)), Append(h, r))
<1> DEFINE g == Append(h, r)
           line == Entry(Len(h), r)
           out == Append(lines, line)
<1>1. /\ line \in FixtureLine /\ line.turn = Len(h) /\ Len(h) \in Nat
  BY DEF FixtureLine, EntryLine, Entry
<1>2. /\ Len(g) = Len(h) + 1 /\ DOMAIN g = 1 .. Len(h) + 1 /\ g[Len(h) + 1] = r
      /\ \A k \in 1 .. Len(h) : g[k] = h[k]
      /\ DOMAIN h = 1 .. Len(h)
  OBVIOUS
<1>3. ASSUME NEW k \in DOMAIN g
      PROVE  LastIn(out, k - 1, g[k])
  <2>1. CASE k \in DOMAIN h
    <3>1. LastIn(lines, k - 1, h[k])
      BY <2>1 DEF RecordsIn
    <3>2. line.turn # k - 1
      BY <1>1, <1>2, <2>1
    <3>3. LastIn(out, k - 1, h[k])
      BY <1>1, <3>1, <3>2, AppendKeepsLast
    <3>4. g[k] = h[k]
      BY <1>2, <2>1
    <3>5. QED
      BY <3>3, <3>4
  <2>2. CASE k = Len(h) + 1
    <3>1. k - 1 = Len(h) /\ g[k] = r
      BY <1>1, <1>2, <2>2
    <3>2. LastIn(out, Len(h), r)
      BY <1>1, AppendKeepsLast
    <3>3. QED
      BY <3>1, <3>2
  <2>3. QED
    BY <1>2, <1>3, <2>1, <2>2
<1>4. ASSUME NEW i \in DOMAIN out
      PROVE  out[i].turn < Len(g)
  <2>1. \/ i \in DOMAIN lines /\ out[i] = lines[i]
        \/ out[i] = line
    BY <1>1
  <2>2. ASSUME NEW n \in DOMAIN lines
        PROVE  lines[n].turn < Len(h) /\ lines[n].turn \in Int
    <3>1. lines[n] \in FixtureLine
      OBVIOUS
    <3>2. lines[n].turn \in Int
      BY <3>1 DEF FixtureLine, EntryLine, BadLine, Entry
    <3>3. QED
      BY <3>2 DEF RecordsIn
  <2>3. QED
    BY <1>1, <1>2, <2>1, <2>2
<1>5. QED
  BY <1>3, <1>4 DEF RecordsIn

LEMMA RecordKeeps ==
    ASSUME ReplayInv, NEW a \in Agents, AnswerRecord(a)
    PROVE  ReplayInv'
<1> DEFINE s == agent[a]
<1>1. /\ s \in TrialState /\ LoopOK(s) /\ s.pc = "waiting" /\ proxy.mode = "record"
      /\ port \in {"own", "foreign"} /\ s.heard \in Seq(ReplyKinds) /\ s.conv \in Nat
      /\ s.conv = TurnOf(s.heard, Len(s.heard) + 1)
      /\ UNCHANGED <<plan, strict, port, take, faults>>
  BY AgentIs DEF AnswerRecord, TrialState, LoopOK
<1>2. PICK reply \in Head(plan).replies : Keep(s.conv, reply) /\ Sets(a, Digest(s, reply))
  BY DEF AnswerRecord
<1>3. reply \in ReplyKinds
  <2>1. plan \in Seq(PassKind) /\ plan # <<>>
    BY <1>1 DEF ReplayInv, ReplayShapeInv, PortInv
  <2>2. Head(plan) \in PassKind
    BY <2>1
  <2>3. QED
    BY <1>2, <2>2 DEF PassKind
<1> DEFINE u == Digest(s, reply)
           line == Entry(s.conv, reply)
           index == [t \in DOMAIN proxy.index \cup {s.conv} |->
                        IF t = s.conv THEN reply ELSE proxy.index[t]]
<1>4. /\ u \in TrialState /\ LoopOK(u) /\ u.pc # "idle" /\ u.heard = Append(s.heard, reply)
  BY <1>1, <1>3, DigestIs
<1>5. /\ agent' \in [Agents -> TrialState] /\ agent'[a] = u
      /\ \A b \in Agents \ {a} : agent'[b] = agent[b]
  BY <1>2, <1>4 DEF Sets, ReplayInv, ReplayShapeInv
<1>6. proxy' = [mode |-> "record", index |-> index]
  <2>1. proxy' = [proxy EXCEPT !.index = index]
    BY <1>2 DEF Keep
  <2>2. proxy = [mode |-> proxy.mode, index |-> proxy.index]
    BY DEF ReplayInv, ReplayShapeInv
  <2> HIDE DEF index
  <2>3. QED
    BY <1>1, <2>1, <2>2
<1>7. /\ DOMAIN index \subseteq Nat /\ \A t \in DOMAIN index : index[t] \in ReplyKinds
      /\ DOMAIN index = DOMAIN proxy.index \cup {s.conv} /\ index[s.conv] = reply
      /\ \A t \in DOMAIN proxy.index : t # s.conv => index[t] = proxy.index[t]
  BY <1>1, <1>3 DEF ReplayInv, ReplayShapeInv
<1>8. line \in EntryLine /\ line \in FixtureLine /\ line.turn = s.conv
  BY <1>1, <1>3 DEF EntryLine, FixtureLine, Entry
<1>9. jsonl' = AppendLine(jsonl, line) /\ jsonl \in Seq(FixtureLine)
  BY <1>2 DEF Keep, ReplayInv, ReplayShapeInv
<1>10. /\ jsonl' \in Seq(FixtureLine)
       /\ LostIn(jsonl) => LostIn(jsonl')
       /\ jsonl' = Append(jsonl, line) \/ LostIn(jsonl')
  <2> HIDE DEF line
  <2>1. QED
    BY <1>8, <1>9, AppendLineIs
<1>11. (LineLost <=> LostIn(jsonl)) /\ (LineLost' <=> LostIn(jsonl'))
  BY DEF LineLost, LostIn
<1> HIDE DEF u, index
<1>12. proxy'.mode = "record" /\ proxy'.index = index
  BY <1>6
<1>13. ReplayShapeInv'
  BY <1>1, <1>5, <1>6, <1>7, <1>10, <1>12 DEF ReplayInv, ReplayShapeInv
<1>14. \A b \in Agents : LoopOK(agent'[b])
  BY <1>4, <1>5 DEF ReplayInv
<1>15. PortInv'
  BY <1>1, <1>12 DEF ReplayInv, PortInv, Mode
<1>16. IndexInv'
  <2>1. ASSUME NEW t \in DOMAIN index, ~LostIn(jsonl')
        PROVE  LastIn(jsonl', t, index[t])
    <3>1. jsonl' = Append(jsonl, line) /\ ~LineLost
      BY <1>10, <1>11, <2>1
    <3>2. CASE t = s.conv
      <4>1. LastIn(jsonl', s.conv, reply)
        BY <1>8, <1>9, <3>1, AppendKeepsLast
      <4>2. QED
        BY <1>7, <3>2, <4>1
    <3>3. CASE t # s.conv
      <4>1. t \in DOMAIN proxy.index /\ index[t] = proxy.index[t]
        BY <1>7, <2>1, <3>3
      <4>2. LastIn(jsonl, t, index[t])
        BY <1>1, <3>1, <4>1, LastIsLast DEF ReplayInv, IndexInv
      <4>3. LastIn(jsonl', t, index[t])
        BY <1>8, <1>9, <3>1, <3>3, <4>2, AppendKeepsLast
      <4>4. QED
        BY <4>3
    <3>4. QED
      BY <3>2, <3>3
  <2>2. \A t \in DOMAIN index : LastIn(jsonl', t, index[t]) \/ LineLost'
    BY <1>11, <2>1
  <2>3. \A t \in DOMAIN proxy'.index : LastIn(jsonl', t, proxy'.index[t]) \/ LineLost'
    BY <1>12, <2>2
  <2>4. (\A t \in DOMAIN proxy.index : LastLine(t, proxy.index[t]) \/ LineLost)'
    BY <2>3 DEF LastIn, LastLine
  <2>5. QED
    BY <1>12, <2>4 DEF IndexInv
<1>17. AnsweredInv' /\ RepeatInv'
  BY <1>12 DEF AnsweredInv, RepeatInv
<1>18. TakeInv'
  <2>1. ~Quiet'
    BY <1>4, <1>5, <1>12 DEF Quiet, AllIdle
  <2>2. ASSUME take.count = 0, NEW b \in Agents, Alone(b)', NoEmpty(agent'[b].heard)
        PROVE  LostIn(jsonl') \/ RecordsIn(jsonl', agent'[b].heard)
    <3>1. b = a /\ \A c \in Agents \ {a} : agent[c].pc = "idle"
      BY <1>4, <1>5, <2>2 DEF Alone
    <3>2. Alone(a) /\ ~Quiet
      BY <1>1, <3>1 DEF Alone, Quiet, AllIdle
    <3>3. NoEmpty(s.heard)
      <4>1. /\ DOMAIN s.heard \subseteq DOMAIN u.heard
            /\ \A k \in DOMAIN s.heard : u.heard[k] = s.heard[k]
        BY <1>1, <1>3, <1>4
      <4>2. NoEmpty(u.heard)
        BY <1>5, <2>2, <3>1
      <4>3. QED
        BY <4>1, <4>2 DEF NoEmpty
    <3>4. LineLost \/ Records(s.heard)
      BY <2>2, <3>2, <3>3 DEF ReplayInv, TakeInv
    <3>5. SUFFICES ASSUME ~LostIn(jsonl')
                   PROVE  RecordsIn(jsonl', agent'[b].heard)
      OBVIOUS
    <3>6. jsonl' = Append(jsonl, line) /\ Records(s.heard)
      BY <1>10, <1>11, <3>4, <3>5
    <3>7. s.conv = Len(s.heard)
      <4>1. Len(s.heard) + 1 \in 1 .. Len(s.heard) + 1 /\ Len(s.heard) + 1 - 1 = Len(s.heard)
        BY <1>1
      <4>2. TurnOf(s.heard, Len(s.heard) + 1) = Len(s.heard) + 1 - 1
        BY <1>1, <3>3, <4>1, TurnOfIs
      <4>3. QED
        BY <1>1, <4>1, <4>2
    <3> DEFINE h == s.heard
    <3>8. /\ h \in Seq(ReplyKinds) /\ jsonl' = Append(jsonl, Entry(Len(h), reply))
          /\ RecordsIn(jsonl, h)
      BY <1>1, <3>6, <3>7 DEF Records
    <3> HIDE DEF h
    <3>9. RecordsIn(jsonl', Append(h, reply))
      BY <1>3, <1>9, <3>8, RecordsGrow
    <3>10. agent'[b].heard = Append(h, reply)
      BY <1>4, <1>5, <3>1 DEF h
    <3>11. QED
      BY <3>9, <3>10
  <2>3. take' = take
    BY <1>1
  <2>4. take.count = 0 =>
            \A b \in Agents : Alone(b)' /\ NoEmpty(agent'[b].heard) =>
                LineLost' \/ RecordsIn(jsonl', agent'[b].heard)
    BY <1>11, <2>2
  <2>5. take.count = 0 =>
            (\A b \in Agents : Alone(b) /\ NoEmpty(agent[b].heard) =>
                LineLost \/ Records(agent[b].heard))'
    BY <2>4 DEF Records
  <2>6. QED
    BY <2>1, <2>3, <2>5 DEF ReplayInv, TakeInv
<1>19. QED
  BY <1>13, <1>14, <1>15, <1>16, <1>17, <1>18 DEF ReplayInv

-------------------------------------------------------------------------------
(* Steps of the manager.                                                   *)

LEMMA FreshAnswers == Answered(Fresh) /\ (take \in TakeState /\ take.count = 1 => Repeats(Fresh))
<1>1. Fresh.heard = <<>> /\ Fresh.error = "none" /\ Fresh.turns = 0 /\ Fresh.pc = "idle"
  BY DEF Fresh
<1>2. Answered(Fresh)
  BY <1>1 DEF Answered, Uncounted
<1>3. take \in TakeState /\ take.count = 1 => take.heard \in Seq(ReplyKinds)
  BY DEF TakeState
<1>4. QED
  BY <1>1, <1>2, <1>3 DEF Repeats

\* With every agent idle nothing is being repeated or recorded.
LEMMA IdleIs ==
    ASSUME ReplayShapeInv, \A a \in Agents : LoopOK(agent[a]), AllIdle
    PROVE  AnsweredInv /\ RepeatInv /\ Quiet
<1>1. \A a \in Agents : agent[a] = Fresh
  BY DEF AllIdle, LoopOK
<1>2. QED
  BY <1>1, FreshAnswers DEF AnsweredInv, RepeatInv, Quiet, Repeats, ReplayShapeInv

LEMMA StartKeeps ==
    ASSUME ReplayInv, StartProxy
    PROVE  ReplayInv'
<1> DEFINE index == load_fixture(jsonl)
<1>1. /\ AllIdle /\ plan # <<>> /\ port' = "own"
      /\ UNCHANGED <<plan, strict, jsonl, agent, take, faults>>
  BY DEF StartProxy, ReplayInv, PortInv
<1>2. proxy' = [mode |-> Mode, index |-> index]
  BY DEF StartProxy
<1>3. Mode \in {"record", "replay"}
  <2>1. plan \in Seq(PassKind)
    BY DEF ReplayInv, ReplayShapeInv
  <2>2. Head(plan) \in PassKind
    BY <1>1, <2>1
  <2>3. QED
    BY <1>1, <2>2 DEF Mode, PassKind
<1>4. jsonl \in Seq(FixtureLine)
  BY DEF ReplayInv, ReplayShapeInv
<1>5. /\ DOMAIN index \subseteq Nat
      /\ \A t \in DOMAIN index : index[t] \in ReplyKinds /\ LastIn(jsonl, t, index[t])
  BY <1>4, LoadIs
<1> HIDE DEF index
<1>6. proxy'.mode = Mode /\ proxy'.index = index
  BY <1>2
<1>7. ReplayShapeInv'
  BY <1>1, <1>2, <1>3, <1>5, <1>6 DEF ReplayInv, ReplayShapeInv
<1>8. (\A a \in Agents : LoopOK(agent[a]))' /\ AllIdle'
  BY <1>1 DEF ReplayInv, AllIdle
<1>9. AnsweredInv' /\ RepeatInv' /\ Quiet'
  BY <1>7, <1>8, IdleIs, PTL
<1>10. PortInv'
  BY <1>1, <1>3, <1>6 DEF PortInv, Mode
<1>11. IndexInv'
  <2>1. \A t \in DOMAIN proxy'.index : LastIn(jsonl', t, proxy'.index[t])
    BY <1>1, <1>5, <1>6
  <2>2. (\A t \in DOMAIN proxy.index : LastLine(t, proxy.index[t]))'
    BY <2>1 DEF LastIn, LastLine
  <2>3. proxy'.index = load_fixture(jsonl)
    BY <1>6 DEF index
  <2>4. proxy'.index = load_fixture(jsonl')
    BY <1>1, <2>3
  <2>5. QED
    BY <2>2, <2>4 DEF IndexInv
<1>12. TakeInv'
  <2>1. Quiet
    BY <1>1 DEF Quiet
  <2>2. LineLost' = LineLost /\ \A h : Records(h)' <=> Records(h)
    BY <1>1 DEF LineLost, Records
  <2>3. QED
    BY <1>1, <1>9, <2>1, <2>2 DEF ReplayInv, TakeInv
<1>13. QED
  BY <1>7, <1>8, <1>9, <1>10, <1>11, <1>12 DEF ReplayInv

LEMMA TakenPortKeeps ==
    ASSUME ReplayInv, StartOnTakenPort
    PROVE  ReplayInv'
<1>1. /\ port = "left" /\ AllIdle /\ plan # <<>>
      /\ UNCHANGED <<strict, jsonl, proxy, agent, take, faults>>
      /\ \/ port' = "foreign" /\ plan' = plan
         \/ port' = "left" /\ plan' = Tail(plan)
  <2>1. port = "left" /\ plan # <<>> /\ UNCHANGED <<strict, jsonl, proxy, agent, take, faults>>
    BY DEF StartOnTakenPort
  <2>2. AllIdle
    BY <2>1 DEF ReplayInv, PortInv
  <2>3. \/ port' = "foreign" /\ plan' = plan
        \/ port' = "left" /\ plan' = Tail(plan)
    BY <2>1 DEF StartOnTakenPort
  <2>4. QED
    BY <2>1, <2>2, <2>3
<1>2. ReplayShapeInv'
  <2>1. plan \in Seq(PassKind) /\ Tail(plan) \in Seq(PassKind)
    BY <1>1 DEF ReplayInv, ReplayShapeInv
  <2>2. QED
    BY <1>1, <2>1 DEF ReplayInv, ReplayShapeInv
<1>3. (\A a \in Agents : LoopOK(agent[a]))' /\ AllIdle'
  BY <1>1 DEF ReplayInv, AllIdle
<1>4. AnsweredInv' /\ RepeatInv' /\ Quiet'
  BY <1>2, <1>3, IdleIs, PTL
<1>5. PortInv'
  BY <1>1, <1>3 DEF ReplayInv, PortInv, Mode
<1>6. IndexInv'
  BY <1>1 DEF ReplayInv, IndexInv, LastLine, LineLost
<1>7. TakeInv'
  <2>1. Quiet
    BY <1>1 DEF Quiet
  <2>2. LineLost' = LineLost /\ \A h : Records(h)' <=> Records(h)
    BY <1>1 DEF LineLost, Records
  <2>3. QED
    BY <1>1, <1>4, <2>1, <2>2 DEF ReplayInv, TakeInv
<1>8. QED
  BY <1>2, <1>3, <1>4, <1>5, <1>6, <1>7 DEF ReplayInv

\* The recording that is taken of a pass is what its one agent heard.
LEMMA TakenIs ==
    ASSUME ReplayInv
    PROVE  /\ Taken \in TakeState
           /\ \/ Taken = take /\ Quiet
              \/ Taken = [count |-> 2]
              \/ /\ Taken.count = 1
                 /\ Taken.whole =>
                        /\ NoEmpty(Taken.heard) /\ Taken.heard # <<>>
                        /\ Len(Taken.heard) <= MaxTurns
                        /\ \A k \in 1 .. Len(Taken.heard) - 1 :
                               Taken.heard[k] \notin {"submit", "broken"}
                        /\ Taken.submitted <=> Taken.heard[Len(Taken.heard)] = "submit"
                        /\ \/ Len(Taken.heard) = MaxTurns
                           \/ Taken.heard[Len(Taken.heard)] \in {"submit", "broken"}
                        /\ LineLost \/ Records(Taken.heard)
<1> DEFINE ran == {a \in Agents : agent[a].pc # "idle"}
           one == CHOOSE a \in ran : TRUE
<1>1. take \in TakeState /\ agent \in [Agents -> TrialState]
  BY DEF ReplayInv, ReplayShapeInv
<1>2. CASE proxy.mode # "record" \/ ran = {}
  <2>1. Taken = take
    BY <1>2 DEF Taken
  <2>2. Quiet
    BY <1>2 DEF Quiet, AllIdle
  <2>3. QED
    BY <1>1, <2>1, <2>2
<1>3. CASE ~(proxy.mode # "record" \/ ran = {}) /\ (take.count > 0 \/ Cardinality(ran) > 1)
  <2>1. Taken = [count |-> 2]
    BY <1>3 DEF Taken
  <2>2. QED
    BY <2>1 DEF TakeState
<1>4. CASE ~(proxy.mode # "record" \/ ran = {}) /\ ~(take.count > 0 \/ Cardinality(ran) > 1)
  <2> DEFINE s == agent[one]
             whole == s.pc = "ended" /\ Len(s.heard) = s.turns /\ "empty" \notin Range(s.heard)
  <2>1. Taken = [count |-> 1, heard |-> s.heard, submitted |-> s.submitted, whole |-> whole]
    BY <1>4 DEF Taken
  <2>2. ran \subseteq Agents /\ IsFiniteSet(ran) /\ ran # {}
    BY <1>4, ReplayAssumption, FS_Subset
  <2>3. one \in ran
    BY <2>2
  <2>4. ran = {one}
    <3>1. SUFFICES ASSUME NEW b \in ran, b # one
                   PROVE  FALSE
      BY <2>3
    <3>2. {one, b} \subseteq ran
      BY <2>3, <3>1
    <3> HIDE DEF ran, one
    <3>3. Cardinality({one, b}) = 2
      <4>1. IsFiniteSet({one}) /\ Cardinality({one}) = 1
        BY FS_Singleton
      <4>2. b \notin {one} /\ {one, b} = {one} \cup {b}
        BY <3>1
      <4>3. Cardinality({one} \cup {b}) = Cardinality({one}) + 1
        BY <4>1, <4>2, FS_AddElement
      <4>4. QED
        BY <4>1, <4>2, <4>3
    <3>4. Cardinality({one, b}) <= Cardinality(ran) /\ Cardinality(ran) \in Nat
      BY <2>2, <3>2, FS_Subset, FS_CardinalityType
    <3>5. QED
      BY <1>4, <3>3, <3>4
  <2>5. one \in Agents /\ s \in TrialState /\ LoopOK(s) /\ s.pc # "idle"
    BY <1>1, <2>3, AgentIs
  <2>6. take.count = 0
    BY <1>1, <1>4 DEF TakeState
  <2>7. Alone(one) /\ ~Quiet
    BY <1>4, <2>4, <2>5 DEF Alone, Quiet, AllIdle
  <2> HIDE DEF one, s, ran
  <2>8. s.heard \in Seq(ReplyKinds) /\ s.submitted \in BOOLEAN /\ s.turns \in 0 .. MaxTurns
    BY <2>5 DEF TrialState
  <2> HIDE DEF whole
  <2>9. /\ Taken.count = 1 /\ Taken.heard = s.heard /\ Taken.submitted = s.submitted
        /\ Taken.whole = whole
    BY <2>1
  <2>10. Taken \in TakeState
    <3>1. whole \in BOOLEAN
      BY DEF whole
    <3>2. QED
      BY <2>1, <2>8, <3>1 DEF TakeState
  <2>11. ASSUME whole
         PROVE  /\ NoEmpty(s.heard) /\ s.heard # <<>> /\ Len(s.heard) <= MaxTurns
                /\ \A k \in 1 .. Len(s.heard) - 1 : s.heard[k] \notin {"submit", "broken"}
                /\ s.submitted <=> s.heard[Len(s.heard)] = "submit"
                /\ \/ Len(s.heard) = MaxTurns
                   \/ s.heard[Len(s.heard)] \in {"submit", "broken"}
                /\ LineLost \/ Records(s.heard)
    <3>1. s.pc = "ended" /\ Len(s.heard) = s.turns /\ "empty" \notin Range(s.heard)
      BY <2>11 DEF whole
    <3>2. NoEmpty(s.heard)
      BY <3>1 DEF NoEmpty, Range
    <3>3. s.error # "miss"
      BY <2>5, <2>8, <3>1 DEF LoopOK
    <3>4. s.error \in {"none", "miss", "fatal"}
      BY <2>5 DEF TrialState
    <3>5. s.turns = MaxTurns \/ HeardLast(s, "submit") \/ HeardLast(s, "broken")
      BY <2>5, <3>1, <3>3, <3>4 DEF LoopOK
    <3>6. s.heard # <<>>
      <4>1. CASE s.turns = MaxTurns
        BY <2>8, <3>1, <4>1, ReplayAssumption
      <4>2. CASE s.turns # MaxTurns
        BY <3>5, <4>2 DEF HeardLast
      <4>3. QED
        BY <4>1, <4>2
    <3>7. s.submitted <=> s.heard[Len(s.heard)] = "submit"
      BY <2>5, <3>6 DEF LoopOK, HeardLast
    <3>8. \A k \in 1 .. Len(s.heard) - 1 : s.heard[k] \notin {"submit", "broken"}
      BY <2>5 DEF LoopOK
    <3>9. Len(s.heard) = MaxTurns \/ s.heard[Len(s.heard)] \in {"submit", "broken"}
      BY <3>1, <3>5 DEF HeardLast
    <3>10. LineLost \/ Records(s.heard)
      BY <2>5, <2>6, <2>7, <3>2 DEF ReplayInv, TakeInv, s
    <3>11. Len(s.heard) <= MaxTurns
      BY <2>8, <3>1
    <3>12. QED
      BY <3>2, <3>6, <3>7, <3>8, <3>9, <3>10, <3>11
  <2>12. QED
    BY <2>9, <2>10, <2>11
<1>5. QED
  BY <1>2, <1>3, <1>4

LEMMA EndKeeps ==
    ASSUME ReplayInv, EndPass, UNCHANGED <<strict, jsonl>>, faults' \in Nat,
           port \in {"own", "foreign", "dead"},
           \/ port' = "left" /\ proxy' = proxy
           \/ port' = "free" /\ proxy' = NoProxy
    PROVE  ReplayInv'
<1>1. /\ plan' = Tail(plan) /\ take' = Taken
      /\ agent' = [a \in Agents |-> Fresh]
  BY DEF EndPass
<1>2. plan \in Seq(PassKind) /\ plan # <<>> /\ Tail(plan) \in Seq(PassKind)
  <2>1. plan \in Seq(PassKind) /\ plan # <<>>
    BY DEF ReplayInv, ReplayShapeInv, PortInv
  <2>2. QED
    BY <2>1
<1>3. ReplayShapeInv'
  <2>1. /\ plan' \in Seq(PassKind) /\ strict' \in BOOLEAN /\ jsonl' \in Seq(FixtureLine)
        /\ agent' \in [Agents -> TrialState] /\ take' \in TakeState
    BY <1>1, <1>2, FreshOK, TakenIs DEF ReplayInv, ReplayShapeInv
  <2>2. CASE proxy' = NoProxy /\ port' = "free"
    <3>1. proxy'.mode = "none" /\ proxy'.index = <<>> /\ DOMAIN proxy'.index = {}
      BY <2>2 DEF NoProxy
    <3>2. proxy' = [mode |-> proxy'.mode, index |-> proxy'.index]
      BY <2>2 DEF NoProxy
    <3>3. DOMAIN proxy'.index \subseteq Nat
          /\ \A t \in DOMAIN proxy'.index : proxy'.index[t] \in ReplyKinds
      BY <3>1
    <3>4. QED
      BY <2>1, <2>2, <3>1, <3>2, <3>3 DEF ReplayShapeInv
  <2>3. CASE proxy' = proxy /\ port' = "left"
    BY <2>1, <2>3 DEF ReplayInv, ReplayShapeInv
  <2>4. QED
    BY <2>2, <2>3
<1>4. (\A a \in Agents : LoopOK(agent[a]))' /\ AllIdle'
  <2>1. \A a \in Agents : agent'[a] = Fresh
    BY <1>1
  <2>2. Fresh.pc = "idle"
    BY DEF Fresh
  <2>3. QED
    BY <2>1, <2>2, FreshOK DEF AllIdle
<1>5. AnsweredInv' /\ RepeatInv' /\ Quiet'
  BY <1>3, <1>4, IdleIs, PTL
<1>6. PortInv'
  <2>1. proxy.mode # "none"
    BY DEF ReplayInv, PortInv
  <2>2. QED
    BY <1>4, <2>1 DEF PortInv, NoProxy
<1>7. IndexInv'
  <2>1. CASE proxy' = NoProxy
    BY <2>1 DEF IndexInv, NoProxy
  <2>2. CASE proxy' = proxy
    BY <2>2 DEF ReplayInv, IndexInv, LastLine, LineLost
  <2>3. QED
    BY <2>1, <2>2
<1>8. TakeInv'
  <2>1. LineLost' = LineLost /\ \A h : Records(h)' <=> Records(h)
    BY DEF LineLost, Records
  <2>2. CASE Taken = take /\ Quiet
    BY <1>1, <1>5, <2>1, <2>2 DEF ReplayInv, TakeInv
  <2>3. CASE Taken = [count |-> 2]
    <3>1. take'.count = 2
      BY <1>1, <2>3
    <3>2. QED
      BY <3>1 DEF TakeInv
  <2>4. CASE ~(Taken = take /\ Quiet) /\ Taken # [count |-> 2]
    <3> DEFINE t == Taken
    <3>1. /\ t.count = 1
          /\ t.whole =>
                 /\ NoEmpty(t.heard) /\ t.heard # <<>> /\ Len(t.heard) <= MaxTurns
                 /\ \A k \in 1 .. Len(t.heard) - 1 : t.heard[k] \notin {"submit", "broken"}
                 /\ t.submitted <=> t.heard[Len(t.heard)] = "submit"
                 /\ Len(t.heard) = MaxTurns \/ t.heard[Len(t.heard)] \in {"submit", "broken"}
                 /\ LineLost \/ Records(t.heard)
      BY <2>4, TakenIs
    <3>2. take' = t
      BY <1>1
    <3> HIDE DEF t
    <3>3. LineLost \/ Records(t.heard) => LineLost' \/ Records(t.heard)
      BY <2>1
    <3>4. jsonl' = jsonl
      OBVIOUS
    <3>5. QED
      BY <1>5, <3>1, <3>2, <3>3, <3>4 DEF TakeInv, Records
  <2>5. QED
    BY <2>2, <2>3, <2>4
<1>9. QED
  BY <1>3, <1>4, <1>5, <1>6, <1>7, <1>8 DEF ReplayInv

LEMMA KillProxyKeeps ==
    ASSUME ReplayInv, KillProxy
    PROVE  ReplayInv'
<1> DEFINE torn == BadLine("torn")
<1>1. /\ port = "own" /\ port' = "dead"
      /\ UNCHANGED <<plan, strict, proxy, agent, take>>
      /\ faults' = faults + 1
      /\ \/ jsonl' = jsonl
         \/ proxy.mode = "record" /\ jsonl' = AppendLine(jsonl, torn)
  <2>1. /\ port = "own" /\ port' = "dead" /\ faults' = faults + 1
        /\ UNCHANGED <<plan, strict, proxy, agent, take>>
    BY DEF KillProxy
  <2>2. jsonl' = jsonl \/ (proxy.mode = "record" /\ jsonl' = AppendLine(jsonl, torn))
    BY DEF KillProxy
  <2>3. QED
    BY <2>1, <2>2
<1>2. jsonl \in Seq(FixtureLine) /\ torn \in FixtureLine /\ torn.turn = -1 /\ torn.reply = "torn"
  BY DEF ReplayInv, ReplayShapeInv, FixtureLine, BadLine, Entry
<1>3. jsonl' = jsonl \/ (proxy.mode = "record" /\ jsonl' = Append(jsonl, torn))
  <2>1. torn \in EntryLine \cup {BadLine("torn")} /\ torn = BadLine("torn")
    OBVIOUS
  <2> HIDE DEF torn
  <2>2. AppendLine(jsonl, torn) = Append(jsonl, torn) \/ AppendLine(jsonl, torn) = jsonl
    BY <1>2, <2>1, AppendLineIs
  <2>3. QED
    BY <1>1, <2>2
<1> HIDE DEF torn
<1>4. /\ jsonl' \in Seq(FixtureLine)
      /\ \A t \in Nat : \A r : LastIn(jsonl, t, r) => LastIn(jsonl', t, r)
      /\ LostIn(jsonl) => LostIn(jsonl')
      /\ \A i \in DOMAIN jsonl' :
             (i \in DOMAIN jsonl /\ jsonl'[i] = jsonl[i]) \/ jsonl'[i] = torn
  <2>1. CASE jsonl' = jsonl
    BY <1>2, <2>1
  <2>2. CASE jsonl' = Append(jsonl, torn)
    <3>1. /\ jsonl' \in Seq(FixtureLine) /\ DOMAIN jsonl \subseteq DOMAIN jsonl'
          /\ \A i \in DOMAIN jsonl : jsonl'[i] = jsonl[i]
          /\ \A i \in DOMAIN jsonl' : i \in DOMAIN jsonl \/ jsonl'[i] = torn
      BY <1>2, <2>2
    <3>2. ASSUME NEW t \in Nat, NEW r, LastIn(jsonl, t, r)
          PROVE  LastIn(jsonl', t, r)
      <4>1. torn.turn # t
        BY <1>2
      <4>2. QED
        BY <1>2, <2>2, <3>2, <4>1, AppendKeepsLast
    <3>3. LostIn(jsonl) => LostIn(jsonl')
      BY <3>1 DEF LostIn
    <3>4. QED
      BY <3>1, <3>2, <3>3
  <2>3. QED
    BY <1>3, <2>1, <2>2
<1>5. LineLost => LineLost'
  BY <1>4 DEF LineLost, LostIn
<1>6. ASSUME NEW h \in Seq(ReplyKinds), RecordsIn(jsonl, h)
      PROVE  RecordsIn(jsonl', h)
  <2>1. \A k \in DOMAIN h : LastIn(jsonl', k - 1, h[k])
    <3>1. \A k \in DOMAIN h : k - 1 \in Nat
      OBVIOUS
    <3>2. QED
      BY <1>4, <1>6, <3>1 DEF RecordsIn
  <2>2. \A i \in DOMAIN jsonl' : jsonl'[i].turn < Len(h)
    <3>1. Len(h) \in Nat /\ -1 < Len(h)
      OBVIOUS
    <3>2. QED
      BY <1>2, <1>4, <1>6, <3>1 DEF RecordsIn
  <2>3. QED
    BY <2>1, <2>2 DEF RecordsIn
<1>7. ReplayShapeInv'
  BY <1>1, <1>4 DEF ReplayInv, ReplayShapeInv
<1>8. (\A a \in Agents : LoopOK(agent[a]))'
  BY <1>1 DEF ReplayInv
<1>9. PortInv'
  BY <1>1 DEF ReplayInv, PortInv, AllIdle, Mode
<1>10. IndexInv'
  <2>1. ASSUME proxy.mode = "record", NEW t \in DOMAIN proxy.index
        PROVE  LastIn(jsonl', t, proxy.index[t]) \/ LineLost'
    <3>1. LastIn(jsonl, t, proxy.index[t]) \/ LineLost
      BY <2>1, LastIsLast DEF ReplayInv, IndexInv
    <3>2. t \in Nat
      BY <2>1 DEF ReplayInv, ReplayShapeInv
    <3>3. QED
      BY <1>4, <1>5, <3>1, <3>2
  <2>2. proxy.mode = "record" =>
            \A t \in DOMAIN proxy'.index : LastIn(jsonl', t, proxy'.index[t]) \/ LineLost'
    BY <1>1, <2>1
  <2>3. proxy.mode = "record" =>
            (\A t \in DOMAIN proxy.index : LastLine(t, proxy.index[t]) \/ LineLost)'
    BY <2>2 DEF LastIn, LastLine
  <2>4. proxy.mode = "replay" => jsonl' = jsonl
    BY <1>3
  <2>5. QED
    BY <1>1, <2>3, <2>4 DEF ReplayInv, IndexInv
<1>11. AnsweredInv'
  <2>1. AnsweredInv
    BY DEF ReplayInv
  <2>2. ASSUME proxy.mode = "replay", NEW a \in Agents
        PROVE  Answered(agent[a])'
    <3>1. Answered(agent[a])
      BY <2>1, <2>2 DEF AnsweredInv
    <3>2. agent' = agent /\ proxy' = proxy /\ strict' = strict /\ port' # "own"
      BY <1>1
    <3>3. QED
      BY <3>1, <3>2 DEF Answered
  <2>3. proxy' = proxy
    BY <1>1
  <2>4. QED
    BY <2>2, <2>3 DEF AnsweredInv
<1>12. RepeatInv'
  BY <1>1 DEF RepeatInv
<1>13. TakeInv'
  <2>1. Quiet' <=> Quiet
    BY <1>1 DEF Quiet, AllIdle
  <2>2. take.count = 0 /\ Quiet => \A i \in DOMAIN jsonl' : jsonl'[i].turn = -1
    BY <1>2, <1>4 DEF ReplayInv, TakeInv
  <2>3. \A h \in Seq(ReplyKinds) : LineLost \/ Records(h) => LineLost' \/ RecordsIn(jsonl', h)
    BY <1>5, <1>6 DEF Records
  <2>4. ASSUME take.count = 0, ~Quiet, NEW a \in Agents, Alone(a), NoEmpty(agent[a].heard)
        PROVE  LineLost' \/ RecordsIn(jsonl', agent[a].heard)
    <3>1. agent[a].heard \in Seq(ReplyKinds)
      BY AgentIs DEF TrialState
    <3>2. LineLost \/ Records(agent[a].heard)
      BY <2>4 DEF ReplayInv, TakeInv
    <3>3. QED
      BY <2>3, <3>1, <3>2
  <2>5. ASSUME take.count = 1, take.whole, Quiet
        PROVE  LineLost' \/ RecordsIn(jsonl', take.heard)
    <3>1. take.heard \in Seq(ReplyKinds)
      BY <2>5 DEF ReplayInv, ReplayShapeInv, TakeState
    <3>2. LineLost \/ Records(take.heard)
      BY <2>5 DEF ReplayInv, TakeInv
    <3>3. QED
      BY <2>3, <3>1, <3>2
  <2>6. take' = take /\ agent' = agent
    BY <1>1
  <2>7. QED
    BY <2>1, <2>2, <2>4, <2>5, <2>6 DEF ReplayInv, TakeInv, Records, Alone
<1>14. QED
  BY <1>7, <1>8, <1>9, <1>10, <1>11, <1>12, <1>13 DEF ReplayInv

-------------------------------------------------------------------------------
(* The invariant, and what it says.                                        *)

LEMMA ReplayInvInit == ReplayInit => ReplayInv
<1> SUFFICES ASSUME ReplayInit
             PROVE  ReplayInv
  OBVIOUS
<1>1. PICK config \in ReplayConfigs : ReplayFrom(config)
  BY DEF ReplayInit
<1>2. /\ plan \in Seq(PassKind) /\ strict \in BOOLEAN
      /\ jsonl = <<>> /\ port = "free" /\ proxy = NoProxy
      /\ agent = [a \in Agents |-> Fresh] /\ take = [count |-> 0] /\ faults = 0
  BY <1>1, ReplayAssumption DEF ReplayConfigs, ReplayFrom, PassKind
<1>3. /\ \A a \in Agents : agent[a] = Fresh
      /\ proxy.mode = "none" /\ proxy.index = <<>> /\ take.count = 0
      /\ proxy = [mode |-> proxy.mode, index |-> proxy.index]
  BY <1>2 DEF NoProxy
<1>4. ReplayShapeInv
  <2>1. /\ jsonl \in Seq(FixtureLine) /\ agent \in [Agents -> TrialState]
        /\ take \in TakeState /\ faults \in Nat
    BY <1>2, FreshOK DEF TakeState
  <2>2. DOMAIN proxy.index \subseteq Nat /\ \A t \in DOMAIN proxy.index : proxy.index[t] \in ReplyKinds
    BY <1>3
  <2>3. QED
    BY <1>2, <1>3, <2>1, <2>2 DEF ReplayShapeInv
<1>5. (\A a \in Agents : LoopOK(agent[a])) /\ AllIdle
  <2>1. Fresh.pc = "idle"
    BY DEF Fresh
  <2>2. QED
    BY <1>3, <2>1, FreshOK DEF AllIdle
<1>6. AnsweredInv /\ RepeatInv /\ Quiet
  BY <1>4, <1>5, IdleIs
<1>7. PortInv /\ IndexInv /\ TakeInv
  BY <1>2, <1>3, <1>5, <1>6 DEF PortInv, IndexInv, TakeInv
<1>8. QED
  BY <1>4, <1>5, <1>6, <1>7 DEF ReplayInv

LEMMA ReplayInvStutters == ReplayInv /\ UNCHANGED replayVars => ReplayInv'
<1> SUFFICES ASSUME ReplayInv, UNCHANGED replayVars
             PROVE  ReplayInv'
  OBVIOUS
<1>1. UNCHANGED <<plan, strict, jsonl, port, proxy, agent, take, faults>>
  BY DEF replayVars
<1>2. ReplayShapeInv' /\ (\A a \in Agents : LoopOK(agent[a]))' /\ PortInv' /\ IndexInv'
  BY <1>1 DEF ReplayInv, ReplayShapeInv, PortInv, IndexInv, AllIdle, Mode, LastLine, LineLost
<1>3. AnsweredInv' /\ RepeatInv'
  BY <1>1 DEF ReplayInv, AnsweredInv, Answered, RepeatInv, LineLost
<1>4. TakeInv'
  <2>1. TakeInv
    BY DEF ReplayInv
  <2>2. QED
    BY <1>1, <2>1 DEF TakeInv, Quiet, AllIdle, Alone, LineLost, Records
<1>5. QED
  BY <1>2, <1>3, <1>4 DEF ReplayInv

LEMMA ReplayInvStep == ReplayInv /\ [ReplayNext]_replayVars => ReplayInv'
<1> SUFFICES ASSUME ReplayInv, [ReplayNext]_replayVars
             PROVE  ReplayInv'
  OBVIOUS
<1>1. CASE StartProxy
  BY <1>1, StartKeeps
<1>2. CASE StartOnTakenPort
  BY <1>2, TakenPortKeeps
<1>3. CASE StopProxy
  <2>1. /\ EndPass /\ UNCHANGED <<strict, jsonl>> /\ faults' = faults
        /\ port \in {"own", "foreign", "dead"}
        /\ port' = (IF port = "foreign" THEN "left" ELSE "free")
        /\ proxy' = (IF port = "foreign" THEN proxy ELSE NoProxy)
    BY <1>3 DEF StopProxy
  <2>2. faults' \in Nat
    BY <2>1 DEF ReplayInv, ReplayShapeInv
  <2>3. QED
    BY <2>1, <2>2, EndKeeps
<1>4. CASE KillDriver
  <2>1. /\ EndPass /\ UNCHANGED <<strict, jsonl>> /\ faults' = faults + 1
        /\ port \in {"own", "foreign"} /\ port' = "left" /\ proxy' = proxy
    BY <1>4 DEF KillDriver
  <2>2. faults' \in Nat
    BY <2>1 DEF ReplayInv, ReplayShapeInv
  <2>3. QED
    BY <2>1, <2>2, EndKeeps
<1>5. CASE KillProxy
  BY <1>5, KillProxyKeeps
<1>6. ASSUME NEW a \in Agents, BeginTrial(a)
      PROVE  ReplayInv'
  BY <1>6, BeginKeeps
<1>7. ASSUME NEW a \in Agents, AgentStep(a)
      PROVE  ReplayInv'
  BY <1>7, RequestKeeps, RecordKeeps, ReplayKeeps, FailureKeeps, ExecuteKeeps DEF AgentStep
<1>8. CASE UNCHANGED replayVars
  BY <1>8, ReplayInvStutters
<1>9. QED
  BY <1>1, <1>2, <1>3, <1>4, <1>5, <1>6, <1>7, <1>8 DEF ReplayNext

LEMMA ReplayInvHolds == ReplaySpec => []ReplayInv
BY ReplayInvInit, ReplayInvStep, PTL DEF ReplaySpec

LEMMA TurnsAreCounted ==
    ASSUME NEW s \in TrialState, LoopOK(s)
    PROVE  Len(s.heard) \in Nat /\ s.conv <= Len(s.heard) /\ Len(s.heard) <= MaxTurns
<1>1. /\ s.turns \in 0 .. MaxTurns /\ MaxTurns \in Nat /\ s.conv <= Len(s.heard)
      /\ Len(s.heard) <= s.turns + Uncounted(s) /\ Len(s.heard) \in Nat
  BY ReplayAssumption DEF TrialState, LoopOK
<1>2. Uncounted(s) = 0 \/ (Uncounted(s) = 1 /\ s.turns < MaxTurns)
  BY DEF Uncounted, LoopOK
<1>3. QED
  BY <1>1, <1>2

LEMMA ReplayTypes == ReplayInv => ReplayTypeOK /\ SpansClosed
<1> SUFFICES ASSUME ReplayInv
             PROVE  ReplayTypeOK /\ SpansClosed
  OBVIOUS
<1>1. ASSUME NEW a \in Agents
      PROVE  /\ agent[a].pc \in {"idle", "turn", "waiting", "command", "ended"}
             /\ agent[a].turns \in 0 .. MaxTurns /\ agent[a].conv \in 0 .. MaxTurns
             /\ agent[a].heard \in Seq(ReplyKinds)
             /\ agent[a].spans = IF agent[a].pc \in {"waiting", "command"} THEN 1 ELSE 0
  <2>1. agent[a] \in TrialState /\ LoopOK(agent[a])
    BY AgentIs
  <2>2. /\ Len(agent[a].heard) \in Nat /\ agent[a].conv <= Len(agent[a].heard)
        /\ Len(agent[a].heard) <= MaxTurns
    BY <2>1, TurnsAreCounted
  <2>3. agent[a].conv \in 0 .. MaxTurns
    BY <2>1, <2>2, ReplayAssumption DEF TrialState
  <2>4. QED
    BY <2>1, <2>3 DEF TrialState, LoopOK
<1>2. QED
  BY <1>1 DEF ReplayTypeOK, SpansClosed, ReplayInv, ReplayShapeInv

LEMMA AnswersFromFile == ReplayInv => AnswersAreRecorded
<1> SUFFICES ASSUME ReplayInv, proxy.mode = "replay", NEW a \in Agents,
                    NEW k \in DOMAIN agent[a].heard
             PROVE  LET heard == agent[a].heard
                        turn == TurnOf(heard, k)
                    IN  \/ LastLine(turn, heard[k])
                        \/ /\ ~strict /\ heard[k] = "empty"
                           /\ \A i \in DOMAIN jsonl : jsonl[i].turn # turn
  BY DEF AnswersAreRecorded
<1> DEFINE h == agent[a].heard
           t == TurnOf(h, k)
<1>1. proxy.index = load_fixture(jsonl) /\ jsonl \in Seq(FixtureLine)
  BY DEF ReplayInv, ReplayShapeInv, IndexInv
<1>2. h \in Seq(ReplyKinds) /\ Answered(agent[a])
  BY AgentIs DEF TrialState
<1>3. t \in Nat
  <2>1. k \in 1 .. Len(h) + 1
    BY <1>2
  <2>2. QED
    BY <1>2, <2>1, TurnOfIs
<1>4. IF t \in DOMAIN proxy.index THEN h[k] = proxy.index[t] ELSE ~strict /\ h[k] = "empty"
  BY <1>2 DEF Answered
<1> HIDE DEF t, h
<1>5. CASE t \in DOMAIN proxy.index
  <2>1. LastIn(jsonl, t, proxy.index[t])
    BY <1>1, <1>5, LoadIs
  <2>2. LastLine(t, h[k])
    BY <1>4, <1>5, <2>1, LastIsLast
  <2>3. QED
    BY <2>2 DEF t, h
<1>6. CASE t \notin DOMAIN proxy.index
  <2>1. \A i \in DOMAIN jsonl : jsonl[i].turn # t
    <3>1. t # -1
      BY <1>3
    <3>2. QED
      BY <1>1, <1>6, <3>1, LoadIs
  <2>2. QED
    BY <1>4, <1>6, <2>1 DEF t, h
<1>7. QED
  BY <1>5, <1>6

LEMMA RecordedStays == ReplayInv => RecordedIsKept
BY DEF ReplayInv, IndexInv, RecordedIsKept

LEMMA TrajectoryIsRepeated == ReplayInv => SameTrajectory
<1> SUFFICES ASSUME ReplayInv, Sound, NEW a \in Agents
             PROVE  /\ IsPrefix(agent[a].heard, take.heard)
                    /\ agent[a].error # "miss"
                    /\ agent[a].pc = "ended" => /\ agent[a].heard = take.heard
                                                /\ agent[a].submitted = take.submitted
  BY DEF SameTrajectory, Sound
<1> DEFINE s == agent[a]
           h == take.heard
           n == Len(s.heard)
<1>1. /\ s \in TrialState /\ LoopOK(s) /\ Repeats(s) /\ Answered(s) /\ port = "own"
      /\ s.heard \in Seq(ReplyKinds) /\ s.turns \in Nat /\ s.submitted \in BOOLEAN
  BY AgentIs, ReplayAssumption DEF Sound, TrialState
<1>2. h \in Seq(ReplyKinds) /\ take.submitted \in BOOLEAN
  BY DEF Sound, ReplayInv, ReplayShapeInv, TakeState
<1>3. /\ h # <<>> /\ Len(h) <= MaxTurns
      /\ \A k \in 1 .. Len(h) - 1 : h[k] \notin {"submit", "broken"}
      /\ take.submitted <=> h[Len(h)] = "submit"
  BY DEF ReplayInv, TakeInv, Sound
<1>4. n <= Len(h) /\ (\A k \in DOMAIN s.heard : s.heard[k] = h[k]) /\ s.error # "miss"
  BY <1>1 DEF Repeats
<1> HIDE DEF s, h
<1>5. IsPrefix(s.heard, h)
  <2>1. s.heard = SubSeq(h, 1, n)
    <3>1. 1 \in Int /\ n \in Int /\ n \in Nat /\ \A i \in 1 .. n : h[i] \in ReplyKinds
      BY <1>1, <1>2, <1>4
    <3> DEFINE short == SubSeq(h, 1, n)
    <3>2. /\ short \in Seq(ReplyKinds) /\ Len(short) = IF 1 <= n THEN n - 1 + 1 ELSE 0
          /\ \A i \in 1 .. n - 1 + 1 : short[i] = h[1 + i - 1]
      BY <3>1, SubSeqProperties
    <3> HIDE DEF short, n
    <3>3. (IF 1 <= n THEN n - 1 + 1 ELSE 0) = n
      BY <3>1
    <3>4. Len(short) = n /\ \A i \in 1 .. n : short[i] = h[i]
      BY <3>1, <3>2, <3>3
    <3>5. \A i \in 1 .. n : s.heard[i] = h[i]
      BY <1>1, <1>4 DEF n
    <3>6. Len(s.heard) = n
      BY DEF n
    <3>7. s.heard = short
      BY <1>1, <3>2, <3>4, <3>5, <3>6
    <3>8. QED
      BY <3>7 DEF short
  <2>2. SubSeq(s.heard, 1, n) = s.heard
    BY <1>1
  <2>3. QED
    BY <1>4, <2>1, <2>2 DEF IsPrefix
<1>6. ASSUME s.pc = "ended"
      PROVE  s.heard = h /\ s.submitted = take.submitted
  <2>1. n = s.turns + Uncounted(s) /\ Uncounted(s) \in {0, 1}
    <3>1. n = s.turns + Uncounted(s) - (IF s.error = "miss" THEN 1 ELSE 0)
      BY <1>1 DEF Answered
    <3>2. Uncounted(s) \in {0, 1}
      BY DEF Uncounted
    <3>3. QED
      BY <1>1, <1>4, <3>1, <3>2
  <2>2. s.error \in {"none", "fatal"}
    BY <1>1, <1>4 DEF TrialState
  <2>3. s.turns = MaxTurns \/ HeardLast(s, "submit") \/ HeardLast(s, "broken")
    BY <1>1, <1>6, <2>2 DEF LoopOK
  <2>4. n = Len(h)
    <3>1. CASE s.turns = MaxTurns
      BY <1>1, <1>2, <1>3, <1>4, <2>1, <3>1
    <3>2. CASE HeardLast(s, "submit") \/ HeardLast(s, "broken")
      <4>1. s.heard # <<>> /\ s.heard[n] \in {"submit", "broken"}
        BY <3>2 DEF HeardLast
      <4>2. n \in DOMAIN s.heard /\ n \in 1 .. Len(h) /\ h[n] \in {"submit", "broken"}
        BY <1>1, <1>2, <1>4, <4>1
      <4>3. n \notin 1 .. Len(h) - 1
        BY <1>3, <4>2
      <4>4. QED
        BY <1>2, <4>2, <4>3
    <3>3. QED
      BY <2>3, <3>1, <3>2
  <2>5. s.heard = h
    BY <1>1, <1>2, <1>4, <2>4
  <2>6. s.submitted <=> h[Len(h)] = "submit"
    BY <1>1, <1>3, <2>5 DEF LoopOK, HeardLast
  <2>7. QED
    BY <1>1, <1>2, <1>3, <2>5, <2>6
<1>7. QED
  BY <1>4, <1>5, <1>6 DEF s, h

LEMMA IndexIsFinite ==
    ASSUME NEW lines \in Seq(FixtureLine)
    PROVE  IsFiniteSet(DOMAIN load_fixture(lines))
<1> DEFINE S == Entries(lines)
           T == {lines[i].turn : i \in S}
           f == [i \in S |-> lines[i].turn]
<1>1. IsFiniteSet(1 .. Len(lines)) /\ S \subseteq 1 .. Len(lines)
  <2>1. 1 \in Int /\ Len(lines) \in Int
    OBVIOUS
  <2>2. IsFiniteSet(1 .. Len(lines))
    BY <2>1, FS_Interval
  <2>3. S \subseteq 1 .. Len(lines)
    BY DEF Entries
  <2>4. QED
    BY <2>2, <2>3
<1>2. IsFiniteSet(S)
  BY <1>1, FS_Subset
<1>3. f \in Surjection(S, T)
  BY DEF Surjection
<1>4. IsFiniteSet(T)
  BY <1>2, <1>3, FS_Surjection
<1>5. QED
  BY <1>4, LoadIs

LEMMA MissIsCheap == ReplayInv => MissCostsOneTurn
<1> SUFFICES ASSUME ReplayInv, strict, port = "own", proxy.mode = "replay",
                    "empty" \notin Range(proxy.index), NEW a \in Agents
             PROVE  agent[a].turns <= Cardinality(DOMAIN proxy.index) + 1
  BY DEF MissCostsOneTurn
<1> DEFINE s == agent[a]
           n == Len(s.heard)
           D == DOMAIN proxy.index
<1>1. /\ s \in TrialState /\ LoopOK(s) /\ Answered(s)
      /\ s.heard \in Seq(ReplyKinds) /\ s.turns \in Nat /\ n \in Nat
  BY AgentIs, ReplayAssumption DEF TrialState
<1>2. \A k \in DOMAIN s.heard : /\ TurnOf(s.heard, k) \in D
                                /\ s.heard[k] = proxy.index[TurnOf(s.heard, k)]
  BY <1>1 DEF Answered
<1>3. NoEmpty(s.heard)
  BY <1>2 DEF NoEmpty, Range
<1>4. \A k \in 1 .. n : k - 1 \in D
  <2> TAKE k \in 1 .. n
  <2>1. k \in 1 .. Len(s.heard) + 1 /\ k \in DOMAIN s.heard
    BY <1>1
  <2>2. TurnOf(s.heard, k) = k - 1
    BY <1>1, <1>3, <2>1, TurnOfIs
  <2>3. QED
    BY <1>2, <2>1, <2>2
<1>5. IsFiniteSet(D) /\ Cardinality(D) \in Nat
  <2>1. jsonl \in Seq(FixtureLine) /\ proxy.index = load_fixture(jsonl)
    BY DEF ReplayInv, ReplayShapeInv, IndexInv
  <2>2. QED
    BY <2>1, IndexIsFinite, FS_CardinalityType
<1>6. n <= Cardinality(D)
  <2> HIDE DEF n, D
  <2>1. 0 .. n - 1 \subseteq D
    <3>1. ASSUME NEW i \in 0 .. n - 1
          PROVE  i \in D
      <4>1. i + 1 \in 1 .. n /\ i + 1 - 1 = i
        BY <1>1
      <4>2. QED
        BY <1>4, <4>1
    <3>2. QED
      BY <3>1
  <2>2. Cardinality(0 .. n - 1) = IF 0 > n - 1 THEN 0 ELSE n - 1 - 0 + 1
    <3>1. 0 \in Int /\ n - 1 \in Int
      BY <1>1
    <3>2. QED
      BY <3>1, FS_Interval
  <2>3. Cardinality(0 .. n - 1) = n
    BY <1>1, <2>2
  <2>4. Cardinality(0 .. n - 1) <= Cardinality(D)
    BY <1>5, <2>1, FS_Subset
  <2>5. QED
    BY <2>3, <2>4
<1>7. n = s.turns + Uncounted(s) - (IF s.error = "miss" THEN 1 ELSE 0)
  BY <1>1 DEF Answered
<1>8. Uncounted(s) \in {0, 1}
  BY DEF Uncounted
<1>9. s.turns <= n + 1
  <2> HIDE DEF n, s
  <2>1. QED
    BY <1>1, <1>7, <1>8
<1>10. QED
  BY <1>1, <1>5, <1>6, <1>9

LEMMA ReplayInvImplies ==
    ReplayInv => /\ ReplayTypeOK /\ SpansClosed /\ AnswersAreRecorded /\ SameTrajectory
                 /\ RecordedIsKept /\ MissCostsOneTurn
BY ReplayTypes, AnswersFromFile, TrajectoryIsRepeated, RecordedStays, MissIsCheap

\* A replay pass writes to the file only through a proxy that was left recording:
\* lines are added by a recording proxy, and the proxy of the pass has its mode.
THEOREM ReplayReadsOnly == ReplaySpec => ReplayOnlyReads
<1>1. ReplayInv /\ [ReplayNext]_replayVars =>
          [Mode = "replay" /\ jsonl' # jsonl => port = "foreign" /\ proxy.mode = "record"]_replayVars
  <2> SUFFICES ASSUME ReplayInv, ReplayNext, Mode = "replay", jsonl' # jsonl
               PROVE  port = "foreign" /\ proxy.mode = "record"
    BY DEF replayVars
  <2>1. port = "own" => proxy.mode # "record"
    BY DEF ReplayInv, PortInv
  <2>2. CASE KillProxy
    BY <2>1, <2>2 DEF KillProxy
  <2>3. ASSUME NEW a \in Agents, AnswerRecord(a)
        PROVE  port = "foreign" /\ proxy.mode = "record"
    BY <2>1, <2>3 DEF AnswerRecord
  <2>4. ASSUME NEW a \in Agents, AnswerReplay(a)
        PROVE  FALSE
    BY <2>4 DEF AnswerReplay, Miss
  <2>5. ASSUME \/ StartProxy \/ StartOnTakenPort \/ StopProxy \/ KillDriver
               \/ \E a \in Agents : BeginTrial(a) \/ Request(a) \/ AnswerFailure(a) \/ Execute(a)
        PROVE  FALSE
    BY <2>5 DEF StartProxy, StartOnTakenPort, StopProxy, KillDriver, BeginTrial, Request,
                AnswerFailure, Execute
  <2>6. QED
    BY <2>2, <2>3, <2>4, <2>5 DEF ReplayNext, AgentStep
<1>2. QED
  BY <1>1, ReplayInvHolds, PTL DEF ReplaySpec, ReplayOnlyReads

-------------------------------------------------------------------------------
(* The tasks of terminal-bench.                                             *)

TaskVerdict == [kind : {"result"}, passed : BOOLEAN, scored : BOOLEAN,
                truth : {"none", "passed", "failed"}, claim : BOOLEAN]
Outcome == {[kind |-> "none"], Raised} \cup TaskVerdict
TaskWork == [pc : {"idle", "start", "setup", "agent", "oracle", "teardown", "killed"},
             env : {"none", "harbor", "standalone"}, memory : Nat, claim : BOOLEAN,
             outcome : Outcome, stopFailed : BOOLEAN]
Honest(r) == /\ r.kind \in {"raised", "result"}
             /\ r.kind = "result" => IF r.scored THEN r.passed = (r.truth = "passed")
                                                 ELSE r.passed = r.claim

TaskShapeInv ==
    /\ profile \in [TaskIds -> TaskProfile] /\ sized \in BOOLEAN
    /\ todo \in [Workers -> Seq(TaskIds)]
    /\ work \in [Workers -> TaskWork]
    /\ container \in [Workers -> [task : TaskIds \cup {"none"}, memory : Nat]]
    /\ images \subseteq TaskIds
    /\ reports \in [Workers -> Seq(Outcome)]
    /\ \A w \in Workers : \A i \in DOMAIN reports[w] : Honest(reports[w][i])

\* What is started has the environment of its task, and that environment a container
\* of its task; a worker without one of Harbor's has no container, unless a stop failed.
WorkerOK(w) ==
    /\ work[w].pc \notin {"idle", "killed"} => todo[w] # <<>>
    /\ work[w].pc \in {"start", "setup", "agent", "oracle"} =>
           work[w].env = EnvironmentFor(w) /\ work[w].memory = PinnedMemory(w)
    /\ work[w].pc \in {"setup", "agent", "oracle"} /\ work[w].env = "harbor" =>
           container[w] = [task |-> Task(w), memory |-> work[w].memory]
    /\ work[w].pc \in {"idle", "start"} \/ (work[w].pc # "killed" /\ work[w].env # "harbor") =>
           work[w].stopFailed \/ container[w] = NoContainer
    /\ work[w].pc = "teardown" => Honest(work[w].outcome)

TaskInv == TaskShapeInv /\ PulledImagesStay /\ \A w \in Workers : WorkerOK(w)

\* A step of w that touches only what is w's.
TaskMoves(w, s) ==
    /\ work' = [work EXCEPT ![w] = s]
    /\ profile' = profile /\ sized' = sized
    /\ \A u \in Workers \ {w} :
           todo'[u] = todo[u] /\ container'[u] = container[u] /\ reports'[u] = reports[u]

LEMMA OthersStayOK ==
    ASSUME TaskInv, NEW w \in Workers, NEW s, TaskMoves(w, s)
    PROVE  /\ \A u \in Workers \ {w} : WorkerOK(u)'
           /\ work'[w] = s
<1>1. work'[w] = s /\ \A u \in Workers \ {w} : work'[u] = work[u]
  BY DEF TaskMoves, TaskInv, TaskShapeInv
<1>2. ASSUME NEW u \in Workers \ {w}
      PROVE  WorkerOK(u)'
  <2>1. WorkerOK(u)
    BY DEF TaskInv
  <2>2. /\ work'[u] = work[u] /\ todo'[u] = todo[u] /\ container'[u] = container[u]
        /\ profile' = profile /\ sized' = sized
    BY <1>1 DEF TaskMoves
  <2>3. /\ EnvironmentFor(u)' = EnvironmentFor(u) /\ PinnedMemory(u)' = PinnedMemory(u)
        /\ Task(u)' = Task(u)
    BY <2>2 DEF EnvironmentFor, PinnedMemory, Profile, Task
  <2>4. QED
    BY <2>1, <2>2, <2>3 DEF WorkerOK
<1>3. QED
  BY <1>1, <1>2

\* A step that moves one worker on, without a container or a report.
LEMMA MoveKeeps ==
    ASSUME TaskInv, NEW w \in Workers, NEW s \in TaskWork,
           work' = [work EXCEPT ![w] = s],
           UNCHANGED <<profile, sized, todo, container, images, reports>>,
           WorkerOK(w)'
    PROVE  TaskInv'
<1>1. TaskMoves(w, s)
  BY DEF TaskMoves
<1>2. \A u \in Workers : WorkerOK(u)'
  BY <1>1, OthersStayOK
<1>3. TaskShapeInv'
  BY DEF TaskInv, TaskShapeInv
<1>4. QED
  BY <1>2, <1>3 DEF TaskInv, PulledImagesStay

LEMMA WorkIs ==
    ASSUME TaskInv, NEW w \in Workers
    PROVE  /\ work[w] \in TaskWork /\ WorkerOK(w) /\ todo[w] \in Seq(TaskIds)
           /\ todo[w] # <<>> => /\ Task(w) \in TaskIds /\ Task(w) = todo[w][1]
                                /\ Profile(w) \in TaskProfile
                                /\ PinnedMemory(w) \in Nat
                                /\ EnvironmentFor(w) \in {"harbor", "standalone"}
<1>1. work[w] \in TaskWork /\ WorkerOK(w) /\ todo[w] \in Seq(TaskIds)
  BY DEF TaskInv, TaskShapeInv
<1>2. ASSUME todo[w] # <<>>
      PROVE  Task(w) \in TaskIds /\ Task(w) = todo[w][1]
  BY <1>1, <1>2 DEF Task
<1>3. ASSUME todo[w] # <<>>
      PROVE  Profile(w) \in TaskProfile
  BY <1>2, <1>3 DEF Profile, TaskInv, TaskShapeInv
<1>4. ASSUME todo[w] # <<>>
      PROVE  PinnedMemory(w) \in Nat /\ EnvironmentFor(w) \in {"harbor", "standalone"}
  BY <1>3, <1>4 DEF PinnedMemory, EnvironmentFor, TaskProfile
<1>5. QED
  BY <1>1, <1>2, <1>3, <1>4

LEMMA MakeEnvironmentKeeps ==
    ASSUME TaskInv, NEW w \in Workers, MakeEnvironment(w)
    PROVE  TaskInv'
<1>1. /\ work[w].pc = "idle" /\ todo[w] # <<>>
      /\ UNCHANGED <<profile, sized, todo, container, images, reports>>
  BY DEF MakeEnvironment, TaskReady
<1>2. /\ work[w] \in TaskWork /\ WorkerOK(w) /\ PinnedMemory(w) \in Nat
      /\ EnvironmentFor(w) \in {"harbor", "standalone"}
  BY <1>1, WorkIs
<1>3. /\ EnvironmentFor(w)' = EnvironmentFor(w) /\ PinnedMemory(w)' = PinnedMemory(w)
  BY <1>1 DEF EnvironmentFor, PinnedMemory, Profile, Task
<1>4. CASE sized /\ EnvironmentFor(w) = "standalone"
  <2> DEFINE s == [work[w] EXCEPT !.pc = "teardown", !.outcome = Raised]
  <2>1. work' = [work EXCEPT ![w] = s]
    BY <1>4 DEF MakeEnvironment, Ends, Now
  <2>2. s \in TaskWork /\ s.pc = "teardown" /\ s.outcome = Raised
        /\ s.stopFailed = work[w].stopFailed
    BY <1>2 DEF TaskWork, Outcome
  <2> HIDE DEF s
  <2>3. work'[w] = s
    BY <2>1 DEF TaskInv, TaskShapeInv
  <2>4. WorkerOK(w)'
    BY <1>1, <1>2, <2>2, <2>3 DEF WorkerOK, Honest, Raised
  <2>5. QED
    BY <1>1, <2>1, <2>2, <2>4, MoveKeeps
<1>5. CASE ~(sized /\ EnvironmentFor(w) = "standalone")
  <2> DEFINE s == [work[w] EXCEPT !.pc = "start", !.env = EnvironmentFor(w),
                                  !.memory = PinnedMemory(w)]
  <2>1. work' = [work EXCEPT ![w] = s]
    BY <1>5 DEF MakeEnvironment, Now
  <2>2. s \in TaskWork /\ s.pc = "start" /\ s.env = EnvironmentFor(w)
        /\ s.memory = PinnedMemory(w) /\ s.stopFailed = work[w].stopFailed
    BY <1>2 DEF TaskWork
  <2> HIDE DEF s
  <2>3. work'[w] = s
    BY <2>1 DEF TaskInv, TaskShapeInv
  <2>4. WorkerOK(w)'
    BY <1>1, <1>2, <1>3, <2>2, <2>3 DEF WorkerOK
  <2>5. QED
    BY <1>1, <2>1, <2>2, <2>4, MoveKeeps
<1>6. QED
  BY <1>4, <1>5

\* The task's step ends, or goes on to the next.
LEMMA GoesKeeps ==
    ASSUME TaskInv, NEW w \in Workers, NEW pc,
           \/ pc = "setup" /\ work[w].pc = "start" /\ work[w].env = "standalone"
           \/ pc = "agent" /\ work[w].pc = "setup"
           \/ pc = "killed",
           Goes(w, pc), UNCHANGED <<profile, sized, todo, container, images, reports>>
    PROVE  TaskInv'
<1> DEFINE s == [work[w] EXCEPT !.pc = pc]
<1>1. work' = [work EXCEPT ![w] = s]
  BY DEF Goes, Now
<1>2. work[w] \in TaskWork /\ WorkerOK(w)
  BY WorkIs
<1>3. s \in TaskWork /\ s.pc = pc /\ s.env = work[w].env /\ s.memory = work[w].memory
      /\ s.stopFailed = work[w].stopFailed
  BY <1>2 DEF TaskWork
<1> HIDE DEF s
<1>4. work'[w] = s
  BY <1>1 DEF TaskInv, TaskShapeInv
<1>5. /\ EnvironmentFor(w)' = EnvironmentFor(w) /\ PinnedMemory(w)' = PinnedMemory(w)
      /\ Task(w)' = Task(w)
  BY DEF EnvironmentFor, PinnedMemory, Profile, Task
<1>6. WorkerOK(w)'
  BY <1>2, <1>3, <1>4, <1>5 DEF WorkerOK
<1>7. QED
  BY <1>1, <1>3, <1>6, MoveKeeps

LEMMA EndsKeeps ==
    ASSUME TaskInv, NEW w \in Workers, NEW outcome \in Outcome, Honest(outcome),
           work[w].pc \in {"setup", "agent", "oracle"},
           Ends(w, outcome), UNCHANGED <<profile, sized, todo, container, images, reports>>
    PROVE  TaskInv'
<1> DEFINE s == [work[w] EXCEPT !.pc = "teardown", !.outcome = outcome]
<1>1. work' = [work EXCEPT ![w] = s]
  BY DEF Ends, Now
<1>2. work[w] \in TaskWork /\ WorkerOK(w)
  BY WorkIs
<1>3. s \in TaskWork /\ s.pc = "teardown" /\ s.env = work[w].env /\ s.outcome = outcome
      /\ s.stopFailed = work[w].stopFailed
  BY <1>2 DEF TaskWork
<1> HIDE DEF s
<1>4. work'[w] = s
  BY <1>1 DEF TaskInv, TaskShapeInv
<1>5. WorkerOK(w)'
  BY <1>2, <1>3, <1>4 DEF WorkerOK
<1>6. QED
  BY <1>1, <1>3, <1>5, MoveKeeps

LEMMA StartHarborKeeps ==
    ASSUME TaskInv, NEW w \in Workers, StartHarbor(w)
    PROVE  TaskInv'
<1>1. /\ work[w].pc = "start" /\ work[w].env = "harbor"
      /\ UNCHANGED <<profile, sized, todo, reports>>
  BY DEF StartHarbor
<1>2. work[w] \in TaskWork /\ WorkerOK(w) /\ todo[w] # <<>>
  BY <1>1, WorkIs DEF WorkerOK
<1>3. Task(w) \in TaskIds
  BY <1>2, WorkIs
<1>4. CASE UNCHANGED <<container, images>>
           /\ Now(w, [work[w] EXCEPT !.pc = "teardown", !.env = "none", !.outcome = Raised])
  <2> DEFINE s == [work[w] EXCEPT !.pc = "teardown", !.env = "none", !.outcome = Raised]
  <2>1. work' = [work EXCEPT ![w] = s]
    BY <1>4 DEF Now
  <2>2. s \in TaskWork /\ s.pc = "teardown" /\ s.outcome = Raised
        /\ s.stopFailed = work[w].stopFailed
    BY <1>2 DEF TaskWork, Outcome
  <2> HIDE DEF s
  <2>3. work'[w] = s
    BY <2>1 DEF TaskInv, TaskShapeInv
  <2>4. WorkerOK(w)'
    BY <1>1, <1>2, <1>4, <2>2, <2>3 DEF WorkerOK, Honest, Raised
  <2>5. QED
    BY <1>1, <1>4, <2>1, <2>2, <2>4, MoveKeeps
<1>5. CASE /\ images' = images \cup {Task(w)}
           /\ container' = [container EXCEPT ![w] = [task |-> Task(w), memory |-> work[w].memory]]
           /\ Goes(w, "setup") \/ Ends(w, Raised)
  <2>1. PICK s \in TaskWork :
            /\ work' = [work EXCEPT ![w] = s]
            /\ s.env = work[w].env /\ s.memory = work[w].memory
            /\ s.stopFailed = work[w].stopFailed
            /\ s.pc = "setup" \/ (s.pc = "teardown" /\ s.outcome = Raised)
    <3>1. CASE Goes(w, "setup")
      <4> DEFINE s == [work[w] EXCEPT !.pc = "setup"]
      <4>1. s \in TaskWork /\ s.pc = "setup" /\ s.env = work[w].env /\ s.memory = work[w].memory
            /\ s.stopFailed = work[w].stopFailed
        BY <1>2 DEF TaskWork
      <4>2. QED
        BY <3>1, <4>1 DEF Goes, Now
    <3>2. CASE Ends(w, Raised)
      <4> DEFINE s == [work[w] EXCEPT !.pc = "teardown", !.outcome = Raised]
      <4>1. s \in TaskWork /\ s.pc = "teardown" /\ s.env = work[w].env
            /\ s.memory = work[w].memory /\ s.outcome = Raised
            /\ s.stopFailed = work[w].stopFailed
        BY <1>2 DEF TaskWork, Outcome
      <4>2. QED
        BY <3>2, <4>1 DEF Ends, Now
    <3>3. QED
      BY <1>5, <3>1, <3>2
  <2>2. container'[w] = [task |-> Task(w), memory |-> work[w].memory]
    BY <1>5 DEF TaskInv, TaskShapeInv
  <2>3. TaskMoves(w, s)
    BY <1>1, <1>5, <2>1 DEF TaskMoves, TaskInv, TaskShapeInv
  <2>4. work'[w] = s /\ \A u \in Workers \ {w} : WorkerOK(u)'
    BY <2>3, OthersStayOK
  <2>5. /\ EnvironmentFor(w)' = EnvironmentFor(w) /\ PinnedMemory(w)' = PinnedMemory(w)
        /\ Task(w)' = Task(w)
    BY <1>1 DEF EnvironmentFor, PinnedMemory, Profile, Task
  <2>6. WorkerOK(w)'
    BY <1>1, <1>2, <2>1, <2>2, <2>4, <2>5 DEF WorkerOK, Honest, Raised
  <2>7. TaskShapeInv'
    <3>1. work[w].memory \in Nat
      BY <1>2 DEF TaskWork
    <3>2. [task |-> Task(w), memory |-> work[w].memory] \in
              [task : TaskIds \cup {"none"}, memory : Nat]
      BY <1>3, <3>1
    <3>3. QED
      BY <1>1, <1>3, <1>5, <2>1, <3>2 DEF TaskInv, TaskShapeInv
  <2>8. QED
    BY <1>1, <1>5, <2>4, <2>6, <2>7 DEF TaskInv, PulledImagesStay
<1>6. QED
  BY <1>4, <1>5 DEF StartHarbor

LEMMA ScoreIs ==
    ASSUME TaskInv, NEW w \in Workers, NEW verdict, NEW truth,
           \/ verdict = "unknown" /\ truth \in {"none", "passed", "failed"}
           \/ verdict = truth /\ truth \in {"passed", "failed"}
    PROVE  Score(w, verdict, truth) \in Outcome /\ Honest(Score(w, verdict, truth))
<1>1. work[w].claim \in BOOLEAN
  BY WorkIs DEF TaskWork
<1>2. QED
  BY <1>1 DEF Score, Outcome, TaskVerdict, Honest

\* What the files say is what the tests found, or nothing.
LEMMA VerdictIs ==
    ASSUME NEW truth \in {"passed", "failed"}, NEW files \in Left(truth)
    PROVE  RewardVerdict(files) \in {truth, "unknown"}
BY DEF Left, RewardVerdict, CtrfVerdict

LEMMA RunOracleKeeps ==
    ASSUME TaskInv, NEW w \in Workers, RunOracle(w)
    PROVE  TaskInv'
<1>1. work[w].pc = "oracle" /\ UNCHANGED <<profile, sized, todo, container, images, reports>>
  BY DEF RunOracle
<1>2. Raised \in Outcome /\ Honest(Raised)
  BY DEF Raised, Outcome, Honest
<1>3. CASE Ends(w, Score(w, "unknown", "none")) \/ Ends(w, Raised)
  BY <1>1, <1>2, <1>3, ScoreIs, EndsKeeps
<1>4. CASE \E truth \in {"passed", "failed"} : Ends(w, Score(w, truth, truth))
  BY <1>1, <1>4, ScoreIs, EndsKeeps
<1>5. CASE \E truth \in {"passed", "failed"} : \E files \in Left(truth) :
               Ends(w, Score(w, RewardVerdict(files), truth))
  <2>0. PICK truth \in {"passed", "failed"} : \E files \in Left(truth) :
            Ends(w, Score(w, RewardVerdict(files), truth))
    BY <1>5
  <2>1. PICK files \in Left(truth) : Ends(w, Score(w, RewardVerdict(files), truth))
    BY <2>0
  <2>2. RewardVerdict(files) \in {truth, "unknown"}
    BY VerdictIs
  <2>3. QED
    BY <1>1, <2>1, <2>2, ScoreIs, EndsKeeps
<1>6. QED
  BY <1>3, <1>4, <1>5 DEF RunOracle

LEMMA InvokeAgentKeeps ==
    ASSUME TaskInv, NEW w \in Workers, InvokeAgent(w)
    PROVE  TaskInv'
<1>1. work[w].pc = "agent" /\ UNCHANGED <<profile, sized, todo, container, images, reports>>
  BY DEF InvokeAgent
<1>2. ASSUME NEW claim \in BOOLEAN,
             Now(w, [work[w] EXCEPT !.pc = "oracle", !.claim = claim])
      PROVE  TaskInv'
  <2> DEFINE s == [work[w] EXCEPT !.pc = "oracle", !.claim = claim]
  <2>1. work' = [work EXCEPT ![w] = s]
    BY <1>2 DEF Now
  <2>2. work[w] \in TaskWork /\ WorkerOK(w)
    BY WorkIs
  <2>3. s \in TaskWork /\ s.pc = "oracle" /\ s.env = work[w].env /\ s.memory = work[w].memory
        /\ s.stopFailed = work[w].stopFailed
    BY <2>2 DEF TaskWork
  <2> HIDE DEF s
  <2>4. work'[w] = s
    BY <2>1 DEF TaskInv, TaskShapeInv
  <2>5. /\ EnvironmentFor(w)' = EnvironmentFor(w) /\ PinnedMemory(w)' = PinnedMemory(w)
        /\ Task(w)' = Task(w)
    BY <1>1 DEF EnvironmentFor, PinnedMemory, Profile, Task
  <2>6. WorkerOK(w)'
    BY <1>1, <2>2, <2>3, <2>4, <2>5 DEF WorkerOK
  <2>7. QED
    BY <1>1, <2>1, <2>3, <2>6, MoveKeeps
<1>3. CASE Ends(w, Failed)
  <2>1. Failed \in Outcome /\ Honest(Failed)
    BY DEF Failed, Outcome, TaskVerdict, Honest
  <2>2. QED
    BY <1>1, <1>3, <2>1, EndsKeeps
<1>4. QED
  BY <1>2, <1>3 DEF InvokeAgent

LEMMA TeardownKeeps ==
    ASSUME TaskInv, NEW w \in Workers, Teardown(w)
    PROVE  TaskInv'
<1>1. /\ work[w].pc = "teardown"
      /\ reports' = [reports EXCEPT ![w] = Append(@, work[w].outcome)]
      /\ todo' = [todo EXCEPT ![w] = Tail(@)]
      /\ UNCHANGED <<profile, sized>>
  BY DEF Teardown
<1>2. /\ work[w] \in TaskWork /\ WorkerOK(w) /\ todo[w] # <<>> /\ Honest(work[w].outcome)
      /\ todo[w] \in Seq(TaskIds)
  BY <1>1, WorkIs DEF WorkerOK
<1>3. Task(w) \in TaskIds
  BY <1>2, WorkIs
<1>4. PICK failed \in BOOLEAN :
          /\ work' = [work EXCEPT ![w] = [AtRest EXCEPT !.stopFailed = failed]]
          /\ \/ container' = [container EXCEPT ![w] = NoContainer] /\ images' = ImagesAfterStop(w)
             \/ /\ UNCHANGED <<container, images>>
                /\ failed \/ (work[w].env # "harbor" /\ failed = work[w].stopFailed)
  <2>1. work[w].stopFailed \in BOOLEAN
    BY <1>2 DEF TaskWork
  <2>2. CASE /\ IF work[w].env = "harbor"
                THEN container' = [container EXCEPT ![w] = NoContainer]
                     /\ images' = ImagesAfterStop(w)
                ELSE UNCHANGED <<container, images>>
             /\ Now(w, [AtRest EXCEPT !.stopFailed = work[w].stopFailed /\ work[w].env # "harbor"])
    <3>1. CASE work[w].env = "harbor"
      <4>1. (work[w].stopFailed /\ work[w].env # "harbor") = FALSE
        BY <2>1, <3>1
      <4>2. QED
        BY <2>2, <3>1, <4>1 DEF Now
    <3>2. CASE work[w].env # "harbor"
      <4>1. (work[w].stopFailed /\ work[w].env # "harbor") = work[w].stopFailed
        BY <2>1, <3>2
      <4>2. QED
        BY <2>1, <2>2, <3>2, <4>1 DEF Now
    <3>3. QED
      BY <3>1, <3>2
  <2>3. CASE Now(w, [AtRest EXCEPT !.stopFailed = TRUE]) /\ UNCHANGED <<container, images>>
    BY <2>3 DEF Now
  <2>4. QED
    BY <2>2, <2>3 DEF Teardown
<1> DEFINE s == [AtRest EXCEPT !.stopFailed = failed]
<1>5. s \in TaskWork /\ s.pc = "idle" /\ s.stopFailed = failed
  BY DEF AtRest, TaskWork, Outcome
<1>6. TaskMoves(w, s)
  BY <1>1, <1>4 DEF TaskMoves, TaskInv, TaskShapeInv
<1> HIDE DEF s
<1>7. work'[w] = s /\ \A u \in Workers \ {w} : WorkerOK(u)'
  BY <1>6, OthersStayOK
<1>8. WorkerOK(w)'
  <2>1. failed \/ container'[w] = NoContainer
    BY <1>1, <1>2, <1>4 DEF WorkerOK, TaskInv, TaskShapeInv
  <2>2. QED
    BY <1>5, <1>7, <2>1 DEF WorkerOK
<1>9. images' \subseteq images /\ (sized => images' = images)
  BY <1>4 DEF ImagesAfterStop
<1>10. Tail(todo[w]) \in Seq(TaskIds)
       /\ \A i \in DOMAIN Tail(todo[w]) : i + 1 \in DOMAIN todo[w]
                                          /\ Tail(todo[w])[i] = todo[w][i + 1]
  BY <1>2
<1>11. /\ todo' \in [Workers -> Seq(TaskIds)] /\ todo'[w] = Tail(todo[w])
       /\ \A u \in Workers \ {w} : todo'[u] = todo[u]
  BY <1>1, <1>10 DEF TaskInv, TaskShapeInv
<1>12. TaskShapeInv'
  <2>1. container' \in [Workers -> [task : TaskIds \cup {"none"}, memory : Nat]]
    <3>1. NoContainer \in [task : TaskIds \cup {"none"}, memory : Nat]
      BY DEF NoContainer
    <3>2. QED
      BY <1>4, <3>1 DEF TaskInv, TaskShapeInv
  <2>2. work' \in [Workers -> TaskWork]
    BY <1>4, <1>5 DEF TaskInv, TaskShapeInv, s
  <2>3. work[w].outcome \in Outcome
    BY <1>2 DEF TaskWork
  <2>4. /\ reports' \in [Workers -> Seq(Outcome)]
        /\ \A u \in Workers : \A i \in DOMAIN reports'[u] : Honest(reports'[u][i])
    <3>1. reports[w] \in Seq(Outcome) /\ \A i \in DOMAIN reports[w] : Honest(reports[w][i])
      BY DEF TaskInv, TaskShapeInv
    <3> DEFINE r == Append(reports[w], work[w].outcome)
    <3>2. r \in Seq(Outcome) /\ \A i \in DOMAIN r : Honest(r[i])
      <4>1. \A i \in DOMAIN r : \/ i \in DOMAIN reports[w] /\ r[i] = reports[w][i]
                                \/ r[i] = work[w].outcome
        BY <2>3, <3>1
      <4>2. QED
        BY <1>2, <2>3, <3>1, <4>1
    <3> HIDE DEF r
    <3>3. reports' = [reports EXCEPT ![w] = r]
      BY <1>1 DEF r
    <3>4. QED
      BY <3>2, <3>3 DEF TaskInv, TaskShapeInv
  <2>5. QED
    BY <1>1, <1>9, <1>11, <2>1, <2>2, <2>4 DEF TaskInv, TaskShapeInv
<1>13. PulledImagesStay'
  BY <1>1, <1>9, <1>10, <1>11 DEF PulledImagesStay, TaskInv
<1>14. QED
  BY <1>7, <1>8, <1>12, <1>13 DEF TaskInv

LEMMA TaskInvStarts == TaskInit => TaskInv
<1> SUFFICES ASSUME NEW config \in TaskConfigs, TaskFrom(config)
             PROVE  TaskInv
  BY DEF TaskInit
<1>1. /\ profile \in [TaskIds -> TaskProfile] /\ sized \in BOOLEAN
      /\ todo \in [Workers -> Seq(TaskIds)]
  BY TaskAssumption DEF TaskFrom, TaskConfigs
<1>2. AtRest \in TaskWork /\ NoContainer \in [task : TaskIds \cup {"none"}, memory : Nat]
  BY DEF AtRest, TaskWork, Outcome, NoContainer
<1>3. /\ \A w \in Workers : work[w] = AtRest /\ container[w] = NoContainer /\ reports[w] = <<>>
      /\ images \subseteq TaskIds /\ (sized => images = TaskIds)
  BY <1>1 DEF TaskFrom
<1>4. TaskShapeInv
  BY <1>1, <1>2, <1>3 DEF TaskShapeInv, TaskFrom
<1>5. \A w \in Workers : WorkerOK(w)
  BY <1>3 DEF WorkerOK, AtRest
<1>6. PulledImagesStay
  BY <1>1, <1>3 DEF PulledImagesStay
<1>7. QED
  BY <1>4, <1>5, <1>6 DEF TaskInv

LEMMA TaskInvHolds == TaskSpec => []TaskInv
<1>1. TaskInit => TaskInv
  BY TaskInvStarts
<1>2. TaskInv /\ [TaskNext]_taskVars => TaskInv'
  <2> SUFFICES ASSUME TaskInv, [TaskNext]_taskVars
               PROVE  TaskInv'
    OBVIOUS
  <2>1. ASSUME NEW w \in Workers, Works(w) \/ KillWorker(w)
        PROVE  TaskInv'
    <3>1. CASE StartStandalone(w)
      BY <3>1, GoesKeeps DEF StartStandalone
    <3>2. CASE RunSetup(w)
      <4>1. Raised \in Outcome /\ Honest(Raised)
        BY DEF Raised, Outcome, Honest
      <4>2. QED
        BY <3>2, <4>1, GoesKeeps, EndsKeeps DEF RunSetup
    <3>3. CASE KillWorker(w)
      BY <3>3, GoesKeeps DEF KillWorker
    <3>4. QED
      BY <2>1, <3>1, <3>2, <3>3, MakeEnvironmentKeeps, StartHarborKeeps, InvokeAgentKeeps,
         RunOracleKeeps, TeardownKeeps DEF Works
  <2>2. CASE UNCHANGED taskVars
    <3>1. UNCHANGED <<profile, sized, todo, work, container, images, reports>>
      BY <2>2 DEF taskVars
    <3>2. \A w \in Workers : /\ EnvironmentFor(w)' = EnvironmentFor(w)
                             /\ PinnedMemory(w)' = PinnedMemory(w) /\ Task(w)' = Task(w)
      BY <3>1 DEF EnvironmentFor, PinnedMemory, Profile, Task
    <3>3. \A w \in Workers : WorkerOK(w)'
      BY <3>1, <3>2 DEF TaskInv, WorkerOK
    <3>4. QED
      BY <3>1, <3>3 DEF TaskInv, TaskShapeInv, PulledImagesStay
  <2>3. QED
    BY <2>1, <2>2 DEF TaskNext
<1>3. QED
  BY <1>1, <1>2, PTL DEF TaskSpec

TasksKeep == TaskTypeOK /\ OwnContainer /\ NothingLeftRunning /\ VerdictNotInvented
             /\ PulledImagesStay

LEMMA TaskInvImplies == TaskInv => TasksKeep
<1> SUFFICES ASSUME TaskInv
             PROVE  TasksKeep
  OBVIOUS
<1>1. TaskTypeOK
  BY DEF TaskInv, TaskShapeInv, TaskTypeOK, TaskWork, Honest
<1>2. OwnContainer
  <2> SUFFICES ASSUME NEW w \in Workers, work[w].pc \in {"setup", "agent", "oracle"},
                      Profile(w).kind = "harbor"
               PROVE  /\ work[w].env = "harbor" /\ container[w].task = Task(w)
                      /\ sized => container[w].memory = Profile(w).memory
    BY DEF OwnContainer
  <2>1. WorkerOK(w)
    BY DEF TaskInv
  <2>2. work[w].env = "harbor" /\ work[w].memory = PinnedMemory(w)
    BY <2>1 DEF WorkerOK, EnvironmentFor
  <2>3. container[w] = [task |-> Task(w), memory |-> work[w].memory]
    BY <2>1, <2>2 DEF WorkerOK
  <2>4. QED
    BY <2>2, <2>3 DEF PinnedMemory
<1>3. NothingLeftRunning
  BY DEF TaskInv, WorkerOK, NothingLeftRunning
<1>4. VerdictNotInvented
  BY DEF TaskInv, TaskShapeInv, VerdictNotInvented, Honest
<1>5. QED
  BY <1>1, <1>2, <1>3, <1>4 DEF TasksKeep, TaskInv

-------------------------------------------------------------------------------

(* Recorded replies are kept and repeated, each task runs in its own        *)
(* container and a verdict is the tests', however many agents, turns, tasks *)
(* and failures there are.                                                  *)
THEOREM TrialsAreFaithful == ReplaySpec /\ TaskSpec => []TrialsFaithful
<1>1. ReplayInv /\ TaskInv => TrialsFaithful
  BY ReplayInvImplies, TaskInvImplies DEF TrialsFaithful, TasksKeep
<1>2. QED
  BY <1>1, ReplayInvHolds, TaskInvHolds, PTL
===============================================================================
