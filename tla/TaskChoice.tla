------------------------------ MODULE TaskChoice -------------------------------
(***************************************************************************)
(* Which tasks a run has: list_tasks of the seven adapters, the loaders    *)
(* of Terminal-Bench tasks, and _build_adapter_and_tasks of the run        *)
(* driver, with its cache of loaded tasks; and which answers to an         *)
(* OpenClaw task pass.                                                     *)
(*                                                                         *)
(* A name is a sequence of letters: "starts with" and "occurs in" are all  *)
(* that is asked of it.                                                    *)
(***************************************************************************)
EXTENDS Calls

CONSTANTS
    Catalogues,    \* sequences of tasks [id, category], as an adapter has loaded them
    Selectors,     \* what include and exclude may list
    Datasets,      \* sequences of tasks of the registry, <<organisation, name>>
    RunRequests,   \* what `run` may be asked: [tasks, num_tasks, full, preresolved]
    DefaultTasks,  \* how many tasks a run has when nothing is asked
    LegalTasks,    \* [gold, criteria, citations]: whether, and how many there are
    MaxIndicators  \* of the words of legal reasoning, in an answer

IsSequence(s) == s \in Seq(ToSet(s))

ASSUME CataloguesAssumption == \A tasks \in Catalogues : IsSequence(tasks)
ASSUME DatasetsAssumption ==
    \A dataset \in Datasets :
        IsSequence(dataset) /\ \A task \in ToSet(dataset) : task = <<task[1], task[2]>>
ASSUME RequestsAssumption ==
    \A request \in RunRequests : IsSequence(request.tasks) /\ IsSequence(request.preresolved)
ASSUME LegalTasksAssumption ==
    /\ LegalTasks \subseteq [gold : BOOLEAN, criteria : Nat, citations : Nat]
    /\ MaxIndicators \in Nat

\* No limit given.
NoLimit == -1

Adapters == {"openclaw", "vllm", "tau_bench", "swe_bench", "six_phase", "synthetic_cpu",
             "terminal_bench"}

OccursIn(part, name) ==
    \E k \in 0 .. Len(name) - Len(part) : SubSeq(name, k + 1, k + Len(part)) = part

\* Whether an entry of include or exclude names the task.
Selects(adapter, entry, task) ==
    CASE adapter = "tau_bench" -> OccursIn(entry, task.id)
      [] adapter = "swe_bench" -> OccursIn(entry, task.id) \/ OccursIn(entry, task.category)
      [] adapter = "openclaw" -> IsPrefix(entry, task.id) \/ entry = task.category
      [] adapter = "vllm" -> entry = task.category
      [] OTHER -> entry = task.id

\* An empty include asks for everything, but of the six phases for nothing.
Wanted(adapter, include, exclude, task) ==
    /\ \/ include = {} /\ adapter # "six_phase"
       \/ \E entry \in include : Selects(adapter, entry, task)
    /\ \A entry \in exclude : ~Selects(adapter, entry, task)

\* The list without what is not in S.
Picking(seq, S) ==
    LET upto[k \in 0 .. Len(seq)] ==
            IF k = 0 THEN <<>>
            ELSE IF seq[k] \in S THEN Append(upto[k - 1], seq[k]) ELSE upto[k - 1]
    IN  upto
Picked(seq, S) == Picking(seq, S)[Len(seq)]

WantedOf(adapter, tasks, include, exclude) ==
    Picked(tasks, {t \in ToSet(tasks) : Wanted(adapter, include, exclude, t)})

First(n, seq) == IF n < Len(seq) THEN SubSeq(seq, 1, n) ELSE seq

\* The limit is looked at after a task was given: 0 is no limit for those that ask
\* `if limit`, and one task for those that ask `is not None`.
Upto(adapter, limit, tasks) ==
    IF limit = NoLimit THEN tasks
    ELSE IF limit > 0 THEN First(limit, tasks)
    ELSE IF adapter \in {"openclaw", "vllm", "tau_bench", "swe_bench"} THEN tasks
    ELSE First(1, tasks)

Bug_LimitFirst(adapter, tasks, include, exclude, limit) ==
    WantedOf(adapter, Upto(adapter, limit, tasks), include, exclude)
list_tasks(adapter, tasks, include, exclude, limit) ==
    Upto(adapter, limit, WantedOf(adapter, tasks, include, exclude))

ListTasks ==
    /\ Idle
    /\ \E adapter \in Adapters, tasks \in Catalogues, limit \in {NoLimit, 0, 1, 2} :
       \E include, exclude \in Selectors :
           Answer("list_tasks",
                  [adapter |-> adapter, tasks |-> tasks, include |-> include,
                   exclude |-> exclude, limit |-> limit],
                  list_tasks(adapter, tasks, include, exclude, limit))

-------------------------------------------------------------------------------
(* The run driver *)

\* The registry's tasks are cut to the limit before they are looked at by name.
load_tasks_from_harbor_registry(dataset, names, limit) ==
    LET ids == IF limit = NoLimit THEN dataset ELSE First(limit, dataset)
    IN  IF names = <<>> THEN ids ELSE Picked(ids, ToSet(names))

\* Named tasks are sought in the dataset under terminal-bench/, wherever the user
\* says they are.
NamesOf(request) == [k \in DOMAIN request.tasks |-> <<"terminal-bench", request.tasks[k]>>]
LimitOf(request) ==
    IF request.full THEN NoLimit
    ELSE IF request.num_tasks = 0 THEN DefaultTasks ELSE request.num_tasks

Bug_LimitsNamed(request) == LimitOf(request)
LoadLimit(request) == IF request.tasks # <<>> THEN NoLimit ELSE LimitOf(request)

Bug_KeyHasNoLimit(request) == <<NamesOf(request)>>
CacheKey(request) == <<NamesOf(request), LoadLimit(request)>>

\* The tasks, and the cache after.
_load_harbor_tasks_cached(dataset, cache, request) ==
    LET key == CacheKey(request)
        loaded == load_tasks_from_harbor_registry(dataset, NamesOf(request), LoadLimit(request))
    IN  IF key \in DOMAIN cache THEN [tasks |-> cache[key], cache |-> cache]
        ELSE [tasks |-> loaded,
              cache |-> [k \in DOMAIN cache \cup {key} |-> IF k = key THEN loaded ELSE cache[k]]]

\* The tasks of the run: those named, in the order and as often as they are named.
SpecsOf(tasks, request) ==
    LET found(name) == {k \in DOMAIN tasks : tasks[k][2] = name}
        missing == {name \in ToSet(request.tasks) : found(name) = {}}
    IN  IF request.tasks = <<>> THEN Returns(Upto("terminal_bench", LoadLimit(request), tasks))
        ELSE IF missing # {} THEN Raises(missing)
        ELSE Returns([k \in DOMAIN request.tasks |-> tasks[Max(found(request.tasks[k]))]])

_build_adapter_and_tasks(dataset, cache, request) ==
    LET load == _load_harbor_tasks_cached(dataset, cache, request)
    IN  IF request.preresolved # <<>>
        THEN [specs |-> SpecsOf(request.preresolved, request), cache |-> cache]
        ELSE [specs |-> SpecsOf(load.tasks, request), cache |-> load.cache]

\* Two runs of one process.
BuildTasks ==
    /\ Idle
    /\ \E dataset \in Datasets, first, second \in RunRequests :
           LET before == _build_adapter_and_tasks(dataset, <<>>, first).cache
           IN  Answer("build_tasks",
                      [dataset |-> dataset, first |-> first, second |-> second],
                      [after |-> _build_adapter_and_tasks(dataset, before, second).specs,
                       alone |-> _build_adapter_and_tasks(dataset, <<>>, second).specs])

-------------------------------------------------------------------------------
(* OpenClaw *)

\* Shares are percentages.  A task without a gold answer is half right.
Bug_FullMarks(task, answer) == IF task.gold THEN answer.overlap ELSE 100
_check_correctness(task, answer) == IF task.gold THEN answer.overlap ELSE 50

Share(part, whole) == (100 * part) \div whole

_check_reasoning_quality(task, answer) ==
    LET found == IF answer.indicators > 3 THEN 3 ELSE answer.indicators
        score == 20 * found
                   + (IF task.criteria > 0 THEN (40 * answer.criteria) \div task.criteria ELSE 0)
    IN  IF score > 100 THEN 100 ELSE score

_check_citations(task, answer) ==
    IF task.citations = 0 THEN 50 ELSE Share(answer.citations, task.citations)
_check_completeness(task, answer) ==
    IF task.criteria = 0 THEN 50 ELSE Share(answer.criteria, task.criteria)

_evaluate_legal_reasoning(task, answer) ==
    LET score == 40 * _check_correctness(task, answer) + 30 * _check_reasoning_quality(task, answer)
                   + 20 * _check_citations(task, answer) + 10 * _check_completeness(task, answer)
    IN  [score |-> score, passed |-> score >= 7000]

LegalAnswers(task) ==
    [overlap : {0, 25, 50, 75, 100}, indicators : 0 .. MaxIndicators,
     criteria : 0 .. task.criteria, citations : 0 .. task.citations]

JudgeAnswer ==
    /\ Idle
    /\ \E task \in LegalTasks : \E answer \in LegalAnswers(task) :
           Answer("evaluate", [task |-> task, answer |-> answer],
                  _evaluate_legal_reasoning(task, answer))

ChoiceNext == ListTasks \/ BuildTasks \/ JudgeAnswer

-------------------------------------------------------------------------------

\* A limit shortens what the filters leave and changes nothing else: a run of the
\* first n tasks is the beginning of the run of all of them.
LimitKeepsTheBeginning ==
    Called("list_tasks") =>
        LET a == call.args
            all == list_tasks(a.adapter, a.tasks, a.include, a.exclude, NoLimit)
        IN  /\ IsPrefix(call.result, all)
            /\ (a.limit # NoLimit /\ a.limit > 0) =>
                   Len(call.result) = Min({a.limit, Len(all)})

\* A run of named tasks has these, in their order, or says which are missing, and
\* those the dataset, or what was resolved before, does not have; neither --full,
\* nor --num-tasks nor where they stand in the dataset matters.
NamedAreRun ==
    Called("build_tasks") =>
        LET r == call.args.second
            from == IF r.preresolved # <<>> THEN ToSet(r.preresolved)
                    ELSE {task \in ToSet(call.args.dataset) : task[1] = "terminal-bench"}
            known == {task[2] : task \in from}
            specs == call.result.alone
        IN  r.tasks # <<>> =>
                IF ToSet(r.tasks) \subseteq known
                THEN ~specs.raised
                        /\ [k \in DOMAIN specs.value |-> specs.value[k][2]] = r.tasks
                ELSE specs.raised /\ specs.reason = ToSet(r.tasks) \ known

\* The tasks of a run do not depend on the runs that the process made before.
CacheIsFaithful == Called("build_tasks") => call.result.after = call.result.alone

\* No answer passes on its form: where there is a gold answer it shares words with
\* it, where there is none it meets more than half of the criteria, and half of the
\* citations if there are any; a task with nothing to compare with is never passed.
PassedOnSubstance ==
    (Called("evaluate") /\ call.result.passed) =>
        LET task == call.args.task
            answer == call.args.answer
        IN  IF task.gold THEN answer.overlap > 0
            ELSE /\ 2 * answer.criteria > task.criteria
                 /\ 2 * answer.citations >= task.citations
===============================================================================
