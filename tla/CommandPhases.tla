----------------------------- MODULE CommandPhases -----------------------------
(***************************************************************************)
(* What a shell command of an agent is counted as: its resource tier       *)
(* (terminal_bench/commands.py) and its phase (terminal_bench/             *)
(* retrieval.py).  A command is a sequence of words; of a word only the    *)
(* lists it is in matter.                                                  *)
(***************************************************************************)
EXTENDS TaskChoice

CONSTANT Commands   \* sequences of words that a shell accepts

ASSUME CommandsAssumption ==
    \A cmd \in Commands : cmd \in Seq(ToSet(cmd)) /\ (cmd # <<>> => cmd[1] # "|")

\* One word or two for each combination of the lists in the code.
Light == {"cat", "echo"}
Filesystem == {"grep", "cat", "awk"}
SearchWords == {"grep"}
Numbers == {"30"}
Flags == {"-c", "-r"}
Signals == {"faiss"}
Gpu == {"nvcc"}

\* Quoted words, and what is inside.
Inside == [word \in {"'grep", "'faiss", "'sudo"} |->
              CASE word = "'grep" -> "grep" [] word = "'faiss" -> "faiss" [] OTHER -> "sudo"]

Bug_OnlySudo == {"sudo"}
TierWrappers == {"sudo", "timeout", "nohup"}
PipeWrappers == {"sudo", "timeout"}
PhaseWrappers == {"sudo", "timeout", "nohup", "bash"}

\* The first word outside a set, or "".
FirstOutside(words, S) ==
    LET outside == {k \in DOMAIN words : words[k] \notin S}
    IN  IF outside = {} THEN "" ELSE words[Min(outside)]

\* The stages of a pipeline.
Stages(cmd) ==
    LET pipes == {k \in DOMAIN cmd : cmd[k] = "|"}
        cut == {0, Len(cmd) + 1} \cup pipes
    IN  {SubSeq(cmd, a + 1, Min({b \in cut : b > a}) - 1) : a \in cut \ {Len(cmd) + 1}} \ {<<>>}

classify_command(cmd) ==
    LET base == FirstOutside(cmd, TierWrappers)
        piped == \E k \in DOMAIN cmd : cmd[k] = "|"
    IN  IF cmd = <<>> THEN "cpu_light"
        ELSE IF base = "" THEN "cpu_heavy"
        ELSE IF base \in Light THEN "cpu_light"
        ELSE IF piped /\ \A s \in Stages(cmd) : FirstOutside(s, PipeWrappers) \in Light
             THEN "cpu_light"
        ELSE IF ToSet(cmd) \cap Gpu # {} THEN "gpu_inference"
        ELSE IF base \in SearchWords THEN "cpu_light"
        ELSE "cpu_heavy"

Bug_StopsAtNumbers == PhaseWrappers \cup Flags
\* The operand of timeout is no command either.
Skipped == PhaseWrappers \cup Flags \cup Numbers

\* Of a quoted body only the first word is looked at.
_leading_binary(cmd) ==
    LET first == FirstOutside(cmd, Skipped)
    IN  IF first \notin DOMAIN Inside THEN first
        ELSE FirstOutside(<<Inside[first]>>, Skipped)

retrieval_signals(cmd) ==
    IF cmd = <<>> \/ _leading_binary(cmd) \in Filesystem THEN {}
    ELSE {w \in ToSet(cmd) : w \in Signals
                                \/ (w \in DOMAIN Inside /\ Inside[w] \in Signals)}

classify_phase(cmd) == IF retrieval_signals(cmd) # {} THEN "retrieve" ELSE "act"

Classify ==
    /\ Idle
    /\ \E cmd \in Commands :
           Answer("classify", cmd, [tier |-> classify_command(cmd), phase |-> classify_phase(cmd)])

-------------------------------------------------------------------------------

\* What is executed behind any wrappers, their flags and numbers, and a quote.
Unquoted(cmd) ==
    [k \in DOMAIN cmd |-> IF cmd[k] \in DOMAIN Inside THEN Inside[cmd[k]] ELSE cmd[k]]
Executes(cmd) == FirstOutside(Unquoted(cmd), PhaseWrappers \cup Flags \cup Numbers)

\* A search of files is never counted as retrieval, which would be answered with
\* advice for a vector index, however it is wrapped and whatever it looks for: as
\* long as a quoted body does not start with a wrapper of its own.
FileSearchIsAct ==
    (Called("classify") /\ "'sudo" \notin ToSet(call.args)) =>
        (Executes(call.args) \in Filesystem => call.result.phase = "act")

\* Running a command under another wrapper changes neither its tier nor its phase.
WrapperChangesNothing ==
    (Called("classify") /\ call.args # <<>>) =>
        \A w \in {"timeout", "nohup"} :
            /\ classify_command(<<w>> \o call.args) = call.result.tier
            /\ classify_phase(<<w>> \o call.args) = call.result.phase

-------------------------------------------------------------------------------
(* Tasks, answers and commands together.                                   *)

\* A run has the tasks that were asked for, whatever was loaded before; an answer
\* passes, and a command is classified, by its substance.
TasksAsAsked ==
    /\ LimitKeepsTheBeginning /\ NamedAreRun /\ CacheIsFaithful /\ PassedOnSubstance
    /\ FileSearchIsAct /\ WrapperChangesNothing

\* One call of any of them.
AskedSpec == Idle /\ [][ChoiceNext \/ Classify]_call
===============================================================================
