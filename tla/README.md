# Formal models of AgentSysPerf

AgentSysPerf runs agent benchmarks (Terminal-Bench first of all), measures the
machine while they run, stores the results in SQLite and reports on them.  This
directory holds TLA+ modules translated from its source, the configurations
that check them with TLC, and proofs that TLAPS checks.  Paths below are
relative to the repository root.

## The system

| Component | Source | State | Operations |
|---|---|---|---|
| stream orchestrator | `src/streams/orchestrator.py` | worker processes, one item queue per task size, result queue, cleanup lock, Docker resources | plan, start, supervise, collect, clean up |
| slot planner | `src/streams/resources.py` | none (pure) | slots per size, NUMA-local cpusets |
| run driver | `src/run_driver.py` | one-thread executor, futures, task results | run tasks under a timeout, persist |
| run context | `src/runner.py` | span stacks by thread, records, sampler | start, stop, spans, PMU election |
| result store | `src/storage/sqlite_store.py` | one SQLite file | persist_run, upserts, queries, deletes |
| migrations | `src/storage/sqlite_store.py`, `src/storage/migrations/` | schema, `user_version` | apply in order |
| replay proxy | `src/replay/` | journal of LLM calls, a server process | record, replay, health check |
| agent loops | `src/agent_loops/` | conversation, turn counter | one turn at a time |
| adapters | `src/benchmarks/` | a task's environment | set up, run, score, tear down |
| probes | `src/measurements/`, `src/runner.py` | collector processes, buffered samples, PMU owner | elect, start, observe, finalize, stop |
| sweeps | `src/sweep/`, `experiments/scaling/` | sweep rows, agent processes, EMON | cells, barrier start, collect, verdict |
| harness | `harness/scripts/` | proxy, monitors, samplers, output directories | cells, samples, rollups |
| host | `src/platform/`, `src/preflight/`, `src/optimization_profiles/` | none (reads the host) | detect, check, fix, verify a profile |
| analyzers | `src/analyzers/` | none (pure) | verdicts on spans, traces and sweeps |
| readers | reporting, exporters, dashboards | none | present stored data |

How they interact: `run-streams` plans slots, starts one **worker process** per
slot and hands out items through `multiprocessing` queues; each worker calls
`run_benchmark` for each item, which submits the adapter's task to its **executor
thread** and waits with a timeout; the adapter talks to an LLM, or to the
**replay proxy** process, and to Docker; spans opened by both threads reach the
probes through the run context; the run context and then the driver persist the
run in **two transactions** of a store that all workers share.

Beside `run-streams` there are five other ways to run something: one `run`, a Harbor
**sweep**, the **scaling experiment** with processes that meet at a barrier, the
tau-bench **launcher** with threads that share a process's patches, and the **harness**
scripts with a proxy and monitors around Harbor.  They share the store, the proxy, the
host's PMU and its Docker daemon, and nothing locks any of them between two of these.

What is hard here: processes that die holding a lock or a queue; threads that
cannot be stopped when their time is over; exceptions raised while another one
is in flight; results that arrive after nobody is alive; resources on the host
that outlive the process that made them; stores that are written in several
transactions; samples taken by themselves that are given to spans afterwards; and
numbers that were never measured and look like zeros.  `PROJECT.json` lists each hazard at its line with the properties
that cover it.

## Modules

### StreamOrchestrator

`run_task_sized_streams` from its queues to its return, with `_worker`,
`_cleanup_point_containers`, `_record_point_metadata` and `_shutdown_workers`.

| State | Code |
|---|---|
| `parent`, `started`, `results`, `idle_after_exit`, `raised`, `expired` | locals of `run_task_sized_streams`; `raised` is `primary_exception`, `expired` the comparison with `supervision_deadline` |
| `task_queue[s]`, `read_lost[s]` | the queue of size `s` and its reader lock |
| `outbox[w]`, `result_queue`, `write_lost` | the buffer of `w`'s feeder thread, the pipe, the writer lock |
| `cleanup_lock` | `mp_context.Lock()`; it stays held when its holder dies |
| `phase[w]`, `item[w]`, `primary_error[w]`, `cleanup_error[w]`, `exitcode[w]` | where `_worker` is, and its locals |
| `attempts`, `docker`, `recorded` | running task threads, containers and networks, metadata rows |

Actions follow the code one to one: `Fetch`, `BenchmarkReturns`,
`BenchmarkTimesOut`, `BenchmarkRaises`, `AcquireCleanup`, `CleanupRemoves`,
`CleanupVerified`, `CleanupFails`, `Report`, `RecordMetadata`, `Flush`, `Exit` of
a worker; `StartWorker`, `AllStarted`, `Check`, `Get`, `PollEmpty`, `CheckAlive`,
`Join`, `ShutdownWorker`, `ShutdownDone`, `FinalRemoves`, `FinalVerified`,
`FinalFails` of the parent; `Crash` of a worker at any step, `TaskCreates` and
`TaskEnds` of its task, `Expire` of the clock.  `Faults` says which failures a run
of the model contains.

A worker's failure is taken apart into a result (`ResultOf`: `error_type`, `cleanup_error`),
goes through buffer and pipe, and is put together again by the parent
(`WorkerErrorFromResult`).  A cleanup that fails alone always does so with a `CleanupError`:
`_cleanup_point_containers` keeps every exception of a docker call, a timeout too, as the cause
of the one it raises at its deadline (`orchestrator.py:419`, `:443`), and
`_docker_storage_stats` catches its own (`:337`).  `Crash` also stands for an exception that
leaves `_worker` outside its `try`, as `sched_setaffinity`'s does (`:497`).

### StreamPoint

What the caller of `run_task_sized_streams` may rely on: items reported once
each, a return only with all of them, nothing after an exception.  The
orchestrator implements it under `done <- ItemsIn(results)` and `outcome <-
Outcome`; TLC checks this in `streams_errors`, and TLAPS proves it.


### RunContext, ResultStore and RunDriver

`RunDriver` is `run_benchmark` with the task of `TerminalBenchAdapter.run_task` that
it submits.  It extends `RunContext`, which has the state of `runner.py` and the
operators that are parts of its actions, and instantiates `ResultStore`, which has
no state: one run's rows are a record, and `persist_run`, one transaction, is an
operator from rows to rows.

| State | Code |
|---|---|
| `ctx_started`, `registry`, `records`, `step_traces`, `json` | `_started`, `SpanRegistry`, `_records`, `_step_traces`, `measurement_records.json` |
| `pc`, `i`, `outcome`, `passed`, `execution_failures`, `oracle_failures` | the loop of `run_benchmark` and its locals |
| `future[t]`, `step`, `answer` | the futures of the one-thread pool, and where the task that runs is |
| `rows` | what the store holds of this run id, every value marked with the attempt that wrote it |
| `under[t]` | history: whose work went on while the span of `t` was open |

Actions: `Enter`, `Submit`, `Answered`, `TimesOut`, `Account`, `Leave`,
`PersistMeasurements`, `Analyze`, `PersistResults` and `Exit` of the driver's thread;
`Begin`, `Admit`, `OpenPhase`, `Turns`, `Commit` and `Finish` of the pool's; `Crash` of
the process and `RunAgain` of the same run id.

Abstractions.  The turns of an agent are one span.  A probe of `FlakyProbe` may or
may not produce a record; every other one does.  `TimesOut` needs a busy pool thread:
an idle one takes a task at once, long before any timeout.  The records that `stop()`
makes for the whole run and the verdicts that several analyzers give on one span are
left out; the election of the PMU owner is in `ProbeRuns`.

### StoreMigrations

Opening a writable store: `_ensure_db` and `_run_migrations`.  A database is the set
of its features (tables, columns, constraints that differ between versions); a script
of `storage/migrations/` is a sequence of statements, each of which needs, refuses,
adds and drops features.  A script that brackets itself in `BEGIN` and `COMMIT` is one
statement.

| State | Code |
|---|---|
| `version`, `schema` | `PRAGMA user_version`, `sqlite_master` |
| `runs`, `rows[t]` | run ids with a row in `runs`, and those that child table `t` refers to |
| `pc[o]`, `current[o]`, `stmt[o]`, `fk[o]` | where opener `o` is, its local `current`, its script, `PRAGMA foreign_keys` of its connection |
| `workers_may_start` | the store was opened and closed by `run_task_sized_streams` (`orchestrator.py:737`) |

Actions: `EnsureDb`, `ReadVersion`, `AdoptBaseline`, `BeginMigration`, `Execute`,
`ScriptFails`, `Stamp`, `CheckForeignKeys`, `Opened`, and `PersistRun`, `Close` and `Kill`
of who has it open.  What SQLite refuses or cascades is external (`Refused`,
`DropsRuns`).  `Promised(v)` says what version `v` has to look like; it is written
from the scripts' comments, independently of the statements, so that it can be wrong
about them.

### Functions: Calls and the modules that extend it

What keeps no state is an operator.  `Calls` has one variable, `call`; a step calls one
function with one input of a bounded set, `call` then holds name, arguments and answer,
and the invariants compare the three, often with a reference definition or with the
answer for another input.  `MCDecisions` collects the inputs and groups the properties;
`CommandPhases` and `ProfileChecks`, which extend `TaskChoice` and `HostChecks`, group
their own, since proofs extend them.

| Module | Code | What it has |
|---|---|---|
| `SlotPlanning` | `streams/resources.py`, start of `streams/orchestrator.py` | slot counts pinned and unpinned, packing into NUMA nodes, cpuset strings, memory demand, admission, ports, the probe network, run id prefixes |
| `DensityPlans` | `experiments/scaling/{config,pinning,analysis}.py`, `launch_vllm_taubench.py` | agent cores, placements and wrapping, the EMON filter, bridged records, curves and findings |
| `Analyzers` | `src/analyzers/` | memory patterns and bottleneck, CPU, cache, breakdown, leak, phase profiler |
| `SweepAnalysis` | `analyzers/scaling.py`, `task_signature.py`, `sweep/import_points.py` | knee, bottleneck past it, signatures by concurrency, saturation; which cells of the shell runner become points, which CPUs their densities refer to |
| `HostChecks` | `platform/detect.py`, `preflight/system_check.py`, the commands in `cli.py` | topology, caches, bandwidth, readiness, fixes, exit status |
| `ProfileChecks` | `optimization_profiles/`, `measurements/l3_perf/telemetry.py` | axes, requirements, counters read and their verdict |
| `CpusetSamples` | `harness/scripts/cpuset_telemetry.py` | the load of a CPU list from readings of `/proc/stat` |
| `TaskChoice` | `list_tasks` of all adapters, `harbor_loader.py`, `_build_adapter_and_tasks` | which tasks a run has, the cache of loaded ones, OpenClaw's scoring |
| `CommandPhases` | `terminal_bench/commands.py`, `retrieval.py` | tier and phase of a shell command |

Numbers are integers in a unit that the module's comments name (sixths for means of up
to three replicates, percent, tenths); `Unmeasured`, `Absent` and `Garbage` stand for
`None`, a missing file and a line that does not parse.

### ProbeRuns

One run's probes and the sampler of `runner.py`.  Every event has an instant, counted by
`clock`; samples (`sysSamples`, `perfRows`, `sampled`) are taken by threads and processes
of their own and given to a span when it is finalized.  `openSpans[s].left` are the probes
that have yet to finalize `s`; `collectors` are the processes that collect; `foreign` is
another user of the PMU, under whom an interval may show anything (`Readings`).  The code
cannot see that user: `Plausible` drops an interval with more cycles than the CPUs can retire,
`CountsArePhysical` judges the sums of a whole span, and a summary of PerfSpect is dropped by
the marks in it (`Summary`).  `cpuTick` is the sampler between its reading, its stamp and its
fold, and `openSpans[s].cpu` what was folded into a span: weight, readings of the mean, readings
of the peak.  Actions: `ProbesStart` with `ElectPmuOwner`, `ProbeSpanOpen`, `ProbeSpanClose`,
`FinalizeSpan`, `SamplerReads`, `SamplerStamps`, `SamplerFolds`, `SystemSample`, `PerfRow`,
`ForeignTakes`, `ForeignLeaves`, `ProbesStop`.

Abstractions.  Counts are not numbers: a row is plain, in excess or impossible.  Real counts are
taken to stay under half of the ceiling of 10 GHz a CPU.  perf's start-up time, by which its
rows lag, is left out.  Counts that another collector spoilt and that look plausible are
reported, as the code reports them, and no property says otherwise.  The mean of a span in
which no tick fell is a reading from before it (`runner.py:359`); `CpuWithinSpan` says that it
is one at most, and only until a tick falls in the span.

### StoreTables, StoreWrites and RunStore

`StoreTables` is the schema as data: a statement is a record, `Refused` says when a
foreign key forbids it, `Apply` what it does; a method of `SQLiteResultStore` is a sequence
of statements, and its users are sequences of methods (`EndOfRun`, `SweepCalls`,
`delete_run`, `DeleteSweep`, `DeleteBenchmark`).  `StoreWrites` runs them in several processes:
the first write takes the lock and a copy (`txn`), `Commit` publishes it; `Fails`, `Busy`
and `Die` roll back.  `RunStore` is the abstract specification, in which a method is one
step on `db` or none; `ImplementsRunStore` is the refinement with `db <- database`.
`ScenesAssumption` says what the processes start with: a database that whole methods left,
and calls in the order in which the store's users make them (`InOrder`: results follow their
measurements, `get_run` follows the results, a sweep's point follows its run's row).  TLC
evaluates it for the scenes of `safety`, which are built from `EndOfRun` and `SweepCalls`.

### Adapters: TaskRuns, SweRuns, PhaseRuns, ServerRuns, TauRuns

| Module | State | Code |
|---|---|---|
| `TaskRuns` | `work[w]`, `container` (by run id), `images`, `todo`, `reports` | Terminal-Bench: `run_task`, both environments, pre-pull, scoring from three verdict files |
| `SweRuns` | `preds` and `predsLock`, `sweData`, `sweContainers`, `sweResults` | SWE-bench: the threads of one adapter, `_update_preds`, the recorder, the finally |
| `PhaseRuns` | `pool`, `index`, `meta` and two locks, `loops`, `warmup` | six-phase agent: double-checked construction, replicas, warm-up |
| `ServerRuns` | `servers`, `srv.handle`, `someone` on the port, `teardown` | vLLM: one server for all tasks, started by docker or as a process, and a teardown whose docker calls may be refused or raise |
| `TauRuns` | `latencyLock`, `hooks`, `argv`, `recorders`, `tau[a]` | tau-bench: patches, `sys.argv` and the recorders' lock shared by the launcher's threads |

Modules that put such parts side by side state what is promised of them together:
`AdapterRuns` has `SweRuns`, `PhaseRuns` and `ServerRuns` (`AdaptersKeep`), `TrialRuns` has
`ReplayRuns` and `TaskRuns` (`TrialsFaithful`), `CellRuns` has `SweepRuns`, `DensityRuns` and
`TauRuns` (`CellsWhole`), `TelemetryRuns` has `HarnessRuns` beside itself
(`CellsAreTheirOwn`).  Their parts share no variable; runs and proofs both extend them.

### ReplayRuns

A driver's passes over one fixture: `jsonl` (entries, torn and bad lines), `port` (who holds
it), `proxy` (mode and index), `agent[a]` (the loop of `litellm_terminal_loop.py`: turns,
what it heard, its end), `take` (history: the recording).  Actions: `StartProxy`,
`StartOnTakenPort`, `StopProxy`, `KillDriver`, `KillProxy`, `BeginTrial`, `Request`,
`AnswerRecord`, `AnswerReplay`, `AnswerFailure`, `Execute`.

### SweepRuns, DensityRuns, HarnessRuns, TelemetryRuns

| Module | State | Code |
|---|---|---|
| `SweepRuns` | `trials` on disk, `sweepRows`, `sweepPoints`, `verdicts`, `collecting` (cells), `abandoned` (history) | `HarborSweep`: cells with EMON, harbor, collection, points and verdict; a later sweep over the same directory |
| `DensityRuns` | `phase[c][a]`, `pipe`, `holder`, `reading`, `heard`, `broken`, `emon` | both drivers of the scaling experiment: barrier, bounded result pipe, joins, stragglers |
| `HarnessRuns` | `running`, `listener`, `outputs`, `bench` | cells of `harness/scripts/runner.py`: proxy, monitors, counters, results by label |
| `TelemetryRuns` | `beside`, `readings`, `diskDue`, `disk`, `tick`, `steady` | `container_telemetry.py` beside containers that come and go: CPU time without a value, and bytes as 0, once a file is gone |

`MCSafety` and `MCLoops` put the parts side by side: a behaviour plays one part and the
variables of the others keep their first value, so that their states add up.  They also
hold the conjunctions that are checked.

## What makes each part correct

- *Stream orchestrator*: every item is handed out and reported once (`NoItemTwice`); no
  worker waits on an empty queue (`NeverBlockedOnEmpty`) or leaves items behind
  (`SentinelsLast`); one worker at a time cleans up (`CleanupExclusive`); what the
  caller gets tells what happened in the worker, its own failure and its cleanup's
  (`WorkerErrorSurfaces`), and stays what it is (`PrimaryPreserved`); a verdict about dead
  workers is never false (`NoFalseAlarm`); a return means that all is done and removed
  (`ReturnedComplete`, and `LeavesNothing`, which is `ReportedClean`, `ReturnedClean` and
  `MetadataLostOnlyByKill`); and it ends
  (`ParentTerminates`, `RunReturns`).
- *Run driver and context*: other tasks' work is charged to a span only after a timeout
  (`ForeignWorkOnlyAfterTimeout`); counts agree with what was returned
  (`CountsMatchOutcomes`); nothing is open or added after the end unless a task was given
  up (`QuietAfterStop`); `DriverReturns`, `ProcessExits`.
- *Result store*: "complete" means whole, and of one attempt (`StoredIsWhole`, which is
  `CompleteIsWhole` and `ResultsHaveMeasurements`).
- *Migrations*: the version does not run ahead of the file (`VersionNotAhead`), a store
  that opens is current (`OpenIsCurrent`), rows survive (`RowsKept`), a refused opening gets
  further the next time (`FailureAdvances`), workers do not migrate (`WorkersDoNotMigrate`).
- *Plans* (`PlansFit`): the cores or slots asked for are spent and shared fairly
  (`SlotCountsRight`, `UnpinnedCountsRight`, `WrapIsFair`), CPU sets are disjoint, inside a node
  and survive rendering (`SlotsDisjoint`, `CpusetRoundTrip`, `AgentsArePlaced`,
  `DedicatedUnlessOverflow`, `FilterIsExact`), what is admitted fits (`DemandCoversAnyMix`,
  `AdmittedFits`), no worker is idle from the start (`EverySlotHasWork`), and probes and
  cleanups touch only their own resources (`NoProbeLeft`, `CleanupScoped`).
- *Verdicts* (`TraceVerdicts`, `SweepVerdicts`, `HostVerdicts`): two analyzers do not contradict
  each other, or themselves under more misses (`AnalyzersAgree`, `ProfilerAgreesWithMemory`,
  `BottleneckOutlastsMisses`, `FindingsAgree`); what was not measured is not zero
  (`MissingIsNotZero`, `AdviceNeedsInstrument`, `BottleneckMeasured`, `FailureHasCause`,
  `EngagedMeansMeasured`); arithmetic meets its definition (`BreakdownAddsUp`, `LineFitsBest`,
  `InflectionMatchesProfile`, `KneeWhereGainsShrink`, `SaturationPastPeak`, `LossIsReported`,
  `BridgeKeepsTime`); rows are comparable (`ImportAccountsForCells`, `DensitiesComparable`,
  `RunqueueScopeMatches`); sources of host facts agree (`PeakHasSource`, `NodesShareTheHost`,
  `L3SourcesAgree`); and preflight's fixes converge, change only what failed and report the
  host they leave (`FixConverges`, `FixesOnlyFailures`, `ExitMatchesHost`, `ReadyMeansCounters`);
  the load of the CPUs under test is that of those CPUs while they are online
  (`PeggedReadsPegged`, `SamplesAreOfTheList`, `PercentileIsBetween`).
- *Tasks* (`TasksAsAsked`): `LimitKeepsTheBeginning`, `NamedAreRun`, `CacheIsFaithful`,
  `PassedOnSubstance`, `FileSearchIsAct`, `WrapperChangesNothing`.
- *Probes* (`ProbesHonest`, and `BadIntervalCostsItself` in `NothingIsLost`): one owner of the
  PMU, records of samples inside their span, impossible intervals dropped and the others kept,
  no CPU from before the span beyond one first reading, no collector left.
- *Result store*, write by write (`StoreConsistent`, `ImplementsRunStore`, `RecordKeeps` in
  `NothingIsLost`): complete means whole, counts match rows, deletions are not refused and
  leave nothing they listed.
- *Adapters* (`AdaptersKeep`, `PredictionsStay` in `NothingIsLost`; `TrialsFaithful`;
  `CellsWhole`): predictions, latencies and containers of SWE-bench; pool and index built
  once, and a loop whose phases all run; one vLLM server, which outlives its
  adapter only if docker refused to remove it, a call of the teardown raised, or its handle
  was lost; own container, images that stay and a verdict that is the tests'; calls
  recorded where they were made.
- *Replay* (`TrialsFaithful`, `LoopsEnd`): what is answered was recorded, the same trajectory
  follows, a miss costs one turn, a replay pass only reads.
- *Sweeps and cells* (`CellsWhole`, `CellsAreTheirOwn`): points have parents and are of one
  kind, agents start together, EMON stops with its cell unless the cell is interrupted or
  EMON's own start or stop raises, a result is lost only with its agent, no process
  of one cell serves another, samplers count the cell's containers and no others,
  and report no more than these used and wrote beside them.
- *Everything ends* (`LoopsEnd`): trials, tasks, sweeps and densities, and the launcher but for
  the teardown below.

Each of these conjunctions is of named parts, each part with its comment in its module.
Where a bug in the code can break a part, `PROJECT.json` lists a mutant for it.

## Runs

| Run | Instance | Properties | Shows |
|---|---|---|---|
| `streams_crashes` | 2 slots of one size, 3 items; crashes, task and cleanup errors, deadline | type, `NoItemTwice`, `NeverBlockedOnEmpty`, `SentinelsLast`, `CleanupExclusive`, `ReturnedComplete`, `NoFalseAlarm`, `LeavesNothing` | safety when workers die at any step |
| `streams_errors` | 2 slots, 2 items; every failure that is an exception, and timeouts | `WorkerErrorSurfaces`, `PrimaryPreserved`, `ImplementsPoint` | which exception the caller gets, and refinement |
| `streams_ends` | 2 slots, 2 items; crashes, cleanup errors, deadline; fair parent | `ParentTerminates`, `RunReturns` | the run ends, and needs the deadline only after a kill |
| `run_tasks` | 2 tasks, run id run twice; timeouts, exceptions, agent failures, crashes | type, `ForeignWorkOnlyAfterTimeout`, `CountsMatchOutcomes`, `QuietAfterStop`, `StoredIsWhole` | what a task that was given up can still do, and what two transactions and a second attempt leave |
| `run_ends` | 2 tasks; timeouts, a probe and a store that fail; fair driver | `DriverReturns`, `ProcessExits` | the driver ends although tasks hang |
| `run_starved` | 2 tasks, timeouts | `TimedOutTaskRan` *violated* | see findings |
| `migrate_opens` | any database, 2 run ids, 4 openings by a parent and two workers, killed anywhere | type, `VersionNotAhead`, `OpenIsCurrent`, `FailureAdvances`, `WorkersDoNotMigrate`, `RowsKept` | a kill may stop the store from opening, never corrupt one that opens; opening once before the workers is enough |
| `migrate_killed` | new database, one opener, killed | `ScriptsRunOnce` *violated* | see findings |
| `migrate_race` | new database, two openers | `OpenIsCurrent` *violated* | see findings |
| `safety` | every function with every input of its set; and one part at a time: probes, store, SWE-bench, six phases, vLLM, harness, telemetry | `PlansFit`, `TraceVerdicts`, `SweepVerdicts`, `HostVerdicts`, `TasksAsAsked`, `ProbesHonest`, `StoreConsistent`, `AdaptersKeep`, `CellsAreTheirOwn`, `ImplementsRunStore`, `NothingIsLost` | what is decided, and what is shared when steps interleave and fail |
| `loops` | one part at a time: replay, tasks, sweeps, densities, tau-bench; fair actors | `TrialsFaithful`, `CellsWhole`, `LoopsEnd` | loops that talk to something that fails are right and end |
| `launch_hangs` | the tau-bench launcher, two agents | `TeardownReturns` *violated* | see findings |

Bounds, and why they suffice.  Two slots are the fewest that share a queue, a lock and a
pipe, and three items the fewest for which one worker dies, one item is done and another
waits.  One size is enough for TLC: the queues of two sizes share nothing but the
result queue and the cleanup lock, and what is proved is proved for any sizes.  The
failures are split over runs because each run asks about different ones;
`Faults` names them.  Two tasks are enough for one to run behind another that was given
up.  Two attempts are enough for rows of an old attempt to meet a new one: the upserts
look at one earlier row only.  Four openings are enough for a kill, its consequence and
the workers, and they happen at each of the nine scripts because the initial states
include every released version.  Deadlock is not checked: parents return, runs end,
stores are opened a bounded number of times (`Opens`).

Bounds of `safety` and `loops` (`MCSafety.cfg`, `MCLoops.cfg`, and the `MC...` definitions beside
them).  Functions: up to eight cores on one or a few nodes and histograms of three sizes, so
that remainders, ties and an overflowing node happen; sweeps of up to three rows with
cells of each kind, curves of up to five points, so that there is a step before and after a
knee; inputs are chosen around each threshold in the code.  Two actors for each shared
thing: threads, workers, agents, processes.  `MaxClock` = 8 instants hold two
overlapping spans with samples before, in and after them.  One to two failures per
behaviour (`Max...Faults`, `MaxMishaps`, `MaxTroubles`): one to bring a rare path about, two
where the second hits the recovery of the first.  `TrialsPerCell` = 3 against `PipeRoom` = 2,
and `PipeSize` = 3 against two results of two parts each, so that a pipe fills up.  Three
tasks, cells or tasks of a server, where the third meets what two left.  Two sweeps, so
that an id and a directory are used again.

Fairness.  `ParentFairness`: the parent is a running process and each of its waits has a
timeout (the 0.5 s poll, the joins, the docker calls, the cleanup deadline).
`ClockFairness`, assumed by `ParentTerminates` alone: time passes, so that the supervision
deadline does.  `WorkerFairness`, assumed by `RunReturns` alone: a worker that nobody kills
goes on, and its tasks end.  `DriverFairness`: the driver's thread runs, its one wait has a
timeout, and an idle pool thread takes the next task.  `TaskFairness`, assumed by
`ProcessExits` alone: turns and commands of a task are bounded.

`MCLoops`: an agent, a worker or an agent's thread goes on with its next step, since model
calls, commands and docker calls have timeouts (`FirstActor`, `SecondActor`); so do the
driver of a sweep, of a density and of the launcher (`Driver`).  Nothing is assumed of kills,
of what fails, or of the number of calls an external agent makes beyond its bound.  The
functions and the parts of `safety` are asked no liveness.

Every property of a passing run has a mutant in `PROJECT.json`: a variant of one
definition (`Bug_...`) under which TLC finds the property violated.

## Findings

- `run_starved`.  The timeout of a task starts when it is submitted; behind a task
  that was given up it runs out while the task is still queued.  The cap is described
  as per task (`src/run_driver.py:13`, `:75`).
- `migrate_killed`.  Scripts 0004 and 0007 rely on running once, but neither is atomic
  with its stamp: a process killed in between leaves a store that never opens again.
- `migrate_race`.  `user_version` is read once and unlocked: of two processes that open a
  new store together one can set it back under the other, and apply scripts again.
- `launch_hangs`.  `LatencyRecorder.dump` holds `_LATENCY_LOCK`, which is no `RLock`, and calls
  `summary`, which takes it again (`src/benchmarks/tau_bench/adapter.py:174`): the teardown
  of an agent that recorded a call never returns.

Seen while modelling, without a run of its own.  A worker that saw an empty listing
reports its run clean, although the task that `run_benchmark` gave up may still create
a container: `ReportedClean` and `ReturnedClean` hold only where no task is given up
(add `"timeout"` to `Faults` to see a counterexample).  A store with dangling rows is
refused once per script and then opened with them, since the foreign-key check comes
after the stamp (`docs/STORAGE_LAYER.md`, section 5, describes the order; the comments
in the code call the check a gate).  A second attempt of a run id keeps the status
"complete" of the first until it ends (`COALESCE`), while its measurements already
replace the old ones; the first of the two persists may fail without a trace in the
store; a task that passes with an error counts as passed and as an execution failure;
records that an abandoned task adds after `stop()` are judged by analyzers but never
stored; the message "DB left at version" names the version before the stamp.

More of this kind, by part; the models have this behaviour and the properties say
where it ends.

- *Plans*: pinned slots can outnumber the items of the smallest size.  Agents placed "spread"
  may share cores with others of their node once one did not fit.
- *Analyzers*: from an IPC of 3 on, more misses can turn a bottleneck into none; a PerfSpect
  record without memory keys counts as measured; a share of TMA up to 1 % is read as a
  ratio; miss ratios that were not measured count as 0 in the breakdown's rollup; the leak
  analyzer takes span durations for time; `(retention or 1)` makes a retention of 0 a 1.
- *Imports*: a cell without `n` still decides on which CPUs the densities are based.
- *Host*: without lscpu the topology raises; one broken line of lscpu loses those after it;
  Skylake and Cascade Lake are known but have no peak bandwidth; PerfSpect is unpacked
  where preflight runs and looked for in the home directory; warnings are never fixed.
- *Profiles*: one that claims no counter read with cycles is not protected against a
  contended PMU.
- *Task choice*: `--full` beats `--num-tasks`, although a docstring puts them the other way round
  (`src/run_driver.py:311`); with synthetic_cpu `--num-tasks` cuts `--tasks` and unknown names
  are dropped silently; a limit of 0 is no limit for four adapters and one task for three.
- *Commands*: the comment "only if no heavy command in the pipeline" describes a branch that is
  never reached; `timeout 30 ls` is CPU heavy; `env FOO=1 grep faiss` counts as retrieval.
- *Streams*: what docker raised before the cleanup deadline is only the cause of the
  `CleanupError` that ends it (`src/streams/orchestrator.py:443`).
- *Probes*: the first row in a window also has counts from before it, for which a short span
  may lose its record; the first reading of a span may have ended before it; a task asked for twice
  shares a span id; `l1_system` keeps its samples between starts.
- *Store*: a failed write is only logged by the `store_*` methods; a sweep id that is used
  again mixes labels and verdict.
- *Replay*: a proxy left on the port answers the health check of the next; a recorded empty
  reply is replayed until `max_turns`; the line after a torn one is lost.
- *Terminal-Bench*: the temporary directory of the standalone environment stays; all tasks of
  a run share one compose project; verdict files count whoever wrote them.
- *SWE-bench*: `resume` is never read; a torn `preds.json` is read as empty; a prediction that
  cannot be written skips the clean-up; `dump` has the lock shape of tau-bench
  (`src/benchmarks/swe_bench/adapter.py:178`).
- *tau-bench*: patches of earlier adapters stay; simulation data falls back to a key that
  contains the task's id; the exit status alone decides whether a task passed.
- *vLLM*: a container whose start was given up has no handle and is never stopped; the exit
  status of `docker stop` and `docker rm -f` is not looked at, and the container is forgotten
  whether or not it went (`src/benchmarks/vllm_inference/adapter.py:512`); an empty
  id counts as a handle; a server that died is not started again; the first task's flags
  are all tasks'; a task passes with no successful request.
- *Six phases*: the index is published before its metadata; a phase that fails in the warm-up
  skips the rest of it.
- *Sweeps and densities*: EMON is left collecting when a cell raises, and when its own
  start or stop does, which is only logged (`src/sweep/harbor_sweep.py:240`, `:270`); a directory used again
  counts old trials; one driver reads the queue only after the joins; a barrier that
  fails leaves workers unjoined; a killed agent leaves its shell command; bridged records
  assume 1.0 and 0.2 seconds a call.
- *Harness*: a missing monitor raises out of a cell whose proxy goes on; nobody reads the
  proxy's pipe; the recording mode passes no fixture, so that its requests fail; harbor's
  exit status is not looked at; an average leaves out rewards of 0; a container that goes
  while it is read loses all its counted time; what it read and wrote is taken from 0 once its
  file is gone (`harness/scripts/container_telemetry.py:105`), may be below zero, and is added
  to that of the others so (`:292`).

## Proofs

TLAPS proves these for every value of the constants, under the named assumptions of
the modules they are about.

- `StreamOrchestrator`: any number of slots, items and sizes, any assignment of sizes and
  any faults.  Assumed: there is a slot, the items are a finite set that is not empty, the
  sentinel is neither an item nor a slot, each item's size has a slot, and `Backlog` lists
  every item once in the queue of its size.
- `RunDriver`: any number of tasks and of attempts, any results tasks may return, any
  probes, any faults.  Assumed: `Null` is no number and no status; the spans are those of
  the driver and of the phases of a task.
- `StoreWrites`: any processes and scenes, any number of failing statements, any refusals,
  busy locks and deaths.  Assumed: run and task ids are finite sets and there is a task,
  `Null` is none of the values it stands beside, and `ScenesAssumption` (above).
- `ProbeRuns`: any hosts and spans, any number of events.  Assumed: a host has at least one of
  the four probes, task and turn spans differ, no span is called `l3_perf`, and, as above, real
  counts stay under half of what is taken to be impossible.
- `AdapterRuns`: any number of threads, instances and calls; of loops, workers and replicas; of
  tasks, requests and servers; any faults.  Assumed: no two threads of a SWE-bench adapter
  are given the same instance (a caller hands out each task of `list_tasks` once; the recorder
  and the predictions are kept by instance and would mix two attempts that overlap), the
  pool has a replica to hand out, a vLLM run has a task, and "free" is no thread or worker.
- `ReplayRuns` and `TaskRuns`: any finite set of agents, any passes and replies, any limit of
  turns but 0, any number of tasks, workers, failures and kills.  Assumed: a pass records or
  replays, and what a model may reply is one of the kinds the loop tells apart.
- `SweepRuns`, `DensityRuns` and `TauRuns`: any number of cells, trials, sweeps, agents, tasks,
  calls and failures, any pipe.  Assumed: sizes are numbers, there is an agent and a part of a
  pipe, and a launch of tau-bench has at least one task and at most `MaxTauTasks`.
- `HarnessRuns` and `TelemetryRuns`: any plans of cells in the four modes, any missing
  monitors, any trials, pipe and failures; any containers, ticks and failing answers of docker.
  Assumed: an image is the cell's or a tenant's, and `Unread` is no number.
- `TaskChoice` and `CommandPhases`: any catalogues, datasets, requests, legal tasks and
  commands.  Assumed: they are sequences, a task of the registry is a pair, and no command
  begins with a pipe.
- `HostChecks` and `ProfileChecks`: any outputs of lscpu, cache and MLC files, settings, windows
  and claims.  Assumed: a count that lscpu prints is at least 1; a window shows the truth but
  for the generic events while another collector holds the counters, when cycles read back
  as more than a CPU can do (`src/measurements/l3_perf/telemetry.py`, `_counts_are_physical`);
  a plugin beside `PerfStatTelemetry` advertises none of those events.
- `StoreMigrations`: any number of openers, run ids, openings and kills, any released
  version, schema without version or new file to begin with.  Assumed in four theorems,
  and named there: one opener is the `Supervisor`.  Without it they are false
  (`migrate_race`).

| Theorem | States | Module |
|---|---|---|
| `TypeCorrect` | `TypeOK` | `StreamOrchestratorProofs` |
| `CleanupIsExclusive` | `CleanupExclusive` | |
| `WorkerErrorIsRaised` | `WorkerErrorSurfaces` | |
| `PrimaryErrorIsPreserved` | `PrimaryPreserved` | |
| `NeverBlocked` | `NeverBlockedOnEmpty` | |
| `SentinelsAreLast` | `SentinelsLast` | |
| `ItemsOnce` | `NoItemTwice` | |
| `ReturnIsComplete` | `ReturnedComplete` | |
| `ImplementsStreamPoint` | the refinement of `StreamPoint` | |
| `VerdictsAreTrue` | `NoFalseAlarm` | |
| `NothingIsLeft` | `LeavesNothing`, if no task is given up and the store does not fail | |
| `TypeCorrect` | `TypeOK` | `RunDriverProofs` |
| `ForeignWorkWasGivenUp` | `ForeignWorkOnlyAfterTimeout` | |
| `CountsAreOutcomes` | `CountsMatchOutcomes` | |
| `StoppedIsQuiet` | `QuietAfterStop` | |
| `StoredRunIsWhole` | `StoredIsWhole` | |
| `TypeCorrect` | `TypeOK` | `StoreMigrationsProofs` |
| `RowsAreKept` | `RowsKept` | |
| `WorkersFindItMigrated` | `WorkersDoNotMigrate`, with a `Supervisor` | |
| `RefusalsEnd` | `FailureAdvances`, with a `Supervisor` | |
| `VersionIsHonest` | `VersionNotAhead`, with a `Supervisor` | |
| `OpenedIsCurrent` | `OpenIsCurrent`, with a `Supervisor` | |
| `MethodsAreAtomic` | the refinement of `RunStore` | `StoreWritesProofs` |
| `WritesFitTogether` | `StoreConsistent` | |
| `MergesKeepMetadata` | `RecordKeeps` | |
| `ProbesAreHonest` | `ProbesHonest` | `MeasurementProofs` |
| `BadIntervalIsDropped` | `BadIntervalCostsItself` | |
| `CellsAreOwn` | `CellsAreTheirOwn` | |
| `HostIsAsSaid` | `HostVerdicts` | |
| `AdaptersAreKept` | `AdaptersKeep` | `AdapterProofs` |
| `OthersPredictionsStay` | `PredictionsStay` | |
| `TasksAreAsked` | `TasksAsAsked` | |
| `TrialsAreFaithful` | `TrialsFaithful` | `TrialProofs` |
| `ReplayReadsOnly` | `ReplayOnlyReads` | |
| `CellsAreWhole` | `CellsWhole` | `CellProofs` |

How the arguments about the orchestrator go.

- `TypeInv` adds to `TypeOK` that a supervising parent has seen fewer than four empty polls,
  and that a worker has an item in the phases that use one; without them the counter
  leaves its type and `RunOf(w)` is no run.
- `RaisedInv`: an exception is only in flight on the way out, where `results` does not grow any
  more; so the one in flight was built from the last result (`LastInv`).  `FatalInv`: a result
  with an error, wherever it is on its way, still says what its worker went through, because
  that worker takes no further item, also when it is killed.  `WorkerErrorSurfaces` needs
  both: the caller's exception against the state of a worker that has long ended.
- `SentinelInv`: each queue is items and then sentinels (`SortedInv`); it has a sentinel for
  each worker of its size that has not taken one, counted as the cardinality of a set
  of slots (`CountInv`); a worker that ended normally left no item (`DrainedInv`).  The bare
  property is not inductive because one worker's fetch must not starve another;
  the count is what a fetch by any of them preserves.
- `ConservationInv` extends `NoItemTwice` to the items still queued: queue, hands, buffers and
  delivered results are pairwise disjoint and each without repetition.  A step moves
  an item from one place to the next; lemmas `FetchStep`, `ReportStep`, `FlushStep`, `KillStep`
  have one place each.
- `OutcomeInv` ties the parent's state to its results: it leaves the loop without an
  exception only with as many results as there are items.  With `NoItemTwice` a
  pigeonhole argument (`EnoughResults`) gives all items, which is `ReturnIsComplete` and the
  `Return` step of the refinement.
- `NoFalseAlarm` needs to know where everything is.  As long as nobody was killed, each item
  is queued, held or posted (`CoverInv`) and each worker's error has been posted
  (`ErrorsInv`).  A parent that sees no worker alive and polls an empty queue, or has
  counted its empty polls (`PollInv`), would therefore have all results or the fatal one.
- `NothingIsLeft`: an item whose task may still create something is in the hands of the worker
  that runs it, or was when that worker was killed, and is neither queued nor posted
  (`AttemptsInv`); so nothing is created after the cleanup that reports it clean
  (`CleanInv`), or after the parent's own removal before it returns (`ShutInv`).  `RecordInv`
  follows the metadata row of each posted result.  The two hypotheses are what the code
  depends on: a task given up at its deadline goes on in its thread, and a failed metadata
  write is only logged.  With `"timeout"` in `Faults` TLC finds the counterexample (below).

About the driver.

- `WorkInv`: tasks are submitted in order (`SubmittedInv`), the driver leaves one behind
  that is not done only by giving it up (`LeftBehindInv`), and what went on under a span is
  its own task or an earlier one given up on (`UnderInv`).  `ForeignWorkOnlyAfterTimeout`
  says only the last and is not inductive: which task the pool may still run follows
  from the first two.
- `CountInv`: the two counters are cardinalities over the tasks before `i`; a step of the
  loop adds one task to the set, and writes the outcome of that one only.
- `OpenInv`: each thread has at most one span open, which one follows from where it is, and
  at most one task runs.  So a close pops the span it opened, and at the stop with no
  task given up the stacks are empty and nothing is left to add a record after `json`.
- `StoredInv`: each finished task has a record of its span from each probe that does not fail
  (`RecordsInv`); one transaction stores measurements, a later one results, each row
  marked with the attempt.  `NotNewer` and `MeasuredNow` carry an old attempt's rows over a
  death and a second attempt, which upserts over them.

About the migrations.

- `SupervisedInv`: while the first opener is alone, the version it believes in is the one in
  the file, or one less between the stamp and the foreign-key check (`Believes`); once the
  workers may start, the version is the last one and no opener has a script to run.
- `SchemaInv`: beside `VersionNotAhead`, what the scripts so far dropped is gone (`DroppedInv`)
  and the statements before `stmt` have had their effect (`ProgressInv`), which is what
  makes the stamp after a kill and a second execution honest.  `ScriptsFit` says of each
  of the eight scripts that its effect takes one version's schema to the next's; the
  execution of any statement is then one lemma (`ExecuteSchema`).
- `RowsKept` holds with any openers: foreign keys are off in a script (`ForeignKeysInv`), so
  that a rebuilt parent table cascades to no child.

About the store.

- `TxnInv`: the copy an open transaction works on is what its first `at` statements make of the
  committed database, none of them was refused, and nobody else commits meanwhile.  A
  commit is then the whole method applied to `database`, which is the step of `RunStore`.
- `After` is a recursive function over the statements.  That it satisfies its equation
  (`UpToExists`, `AfterIs`) rests on `LeastNumber`: a set of numbers that is not empty has a
  least, from which each use argues by the least counterexample.
- One lemma per method says what all its statements do to a row (`MeasuredEffect`,
  `ResultsEffect`, `RecordEffect`, `DeleteEffect`, ...), and `CallEffect` gathers them.
- `StoreInv`: beside the rows and points themselves (`RowsInv`, `PointsInv`), what the next call
  of each process relies on is there, or is missing for a reason (`NextInv`: a run was
  deleted, a call failed, a merge is stale); later calls are preceded by those that see to
  it (`LaterInv`); and a listed run is gone, or written since, or its deletion is still to
  come (`ListedInv`).  `StoreConsistent` is about the committed rows only and is not
  inductive: whether `results` makes a whole run depends on what `measured` did before.
- `MergesKeepMetadata` follows from `NextInv`: as long as nobody wrote since, what the merge
  read is what is stored.

About the probes.

- `ElectionSound`: of `l3_perf` and `perfspect` one at most is kept, and one that can collect if
  there is any; the ranks of two probes differ whatever the environment names.
- `ProbeInv`: a tick reads after the last one was stamped and is stamped after it read
  (`TickInv`); a span's weight is at most the part of the ticks folded so far that lies in it,
  and once it has a reading the next one is from inside it (`CpuInv`), which is why one reading
  at most is from before; its perfspect process runs only while perfspect is yet to be asked
  for it (`CollectorsInv`); a probe that left a record for a span is not asked again
  (`Answered`), which gives one record a layer.
- `BadIntervalIsDropped` follows from the step of `l3_perf` alone: what is kept of the window
  are the rows that are not impossible, and the gate on their sum passes plain rows of which
  one began inside the span.

About the adapters.

- `SweInv`: what a thread that writes `preds.json` has read is what the file still has
  (`PredsInv`), from which `OthersPredictionsStay` follows at once; the recorder has as many
  calls of an instance as its attempt made (`LatenciesInv`); a thread past its write, and an
  instance whose attempt is over, has no short patch in the file if it passed
  (`PredictedInv`); a container that nobody left behind belongs to a thread
  that will still remove it (`ContainersInv`).  `PassedIsPredicted` is only about instances at
  rest and is not inductive: it needs the threads between the write and the result.
- `PhaseInv`: the free replicas and the workers that hold one, counted as a set, are the pool,
  and nobody holds one before it is built (`PoolInv`); whoever builds has the lock (`LocksInv`);
  an index without its metadata has somebody who is about to publish them (`IndexInv`);
  nothing runs until the warm-up is over, and a whole warm-up left the metadata
  (`WarmupInv`).  So the check under each lock is enough for one construction.
- `ServerInv`: until the teardown is over the adapter's handle is the one server that exists,
  those it was never told of aside, and it is down before it is removed unless docker refused
  to stop it (`OwnsInv`); the task that started it has its flags (`StarterInv`).

About the functions that say which tasks a run has (also in `AdapterProofs`).  No invariant:
each call is one step, and the lemmas are about the operators.

- A list comprehension is a recursive function (`Picking`); `PickedIs` says what it leaves of
  any list, by the least position where that would fail.  `NamedAreRun` and `CacheIsFaithful`
  follow with `SpecsAre` and `LoadCached`.
- `JudgedOnSubstance`: the shares that the other criteria can reach add up to at most 6980 of
  the 7000 needed.
- `SearchLeads`: quotes aside, `_leading_binary` looks at the word that is executed.
  `FirstStageDecides`: if the first command is not light, some stage of its pipe is not, which is
  why the branch for pipes never decides and a wrapper changes nothing (`TierIs`).

About the trials.

- `ReplayInv`: an agent's loop by itself, without the proxy (`LoopOK`); who may answer on the
  port (`PortInv`); what a proxy remembers of a turn is the last line of that turn in the
  file, unless a line was lost (`IndexInv`), and so is what it answered (`AnsweredInv`); the
  file is one recording, also while it is made (`TakeInv`), and a replay has so far been a
  replay of it (`RepeatInv`).  `SameTrajectory` alone is not inductive: it compares ended
  passes, and what makes them equal is what proxy and file hold on the way.
- `ReplayOnlyReads` is an action property: a replay pass appends nothing to the file, but
  through a recording proxy that a killed driver left on the port (`PortInv` says which).
- `TaskInv`: a worker's environment and container belong to the task it works on, unless a stop
  failed (`WorkerOK`), and an outcome is that of the trial it is written for (`Honest`).

About the cells.

- `SweepInv`: the rows of an id launched once are the points its sweep made, or a fault is to
  blame (`SweepOnceInv`); the trials and the result of the cell being run are its own
  (`SweepTrialsInv`, `SweepCurrentInv`); each cell that EMON still collects for is the one being
  measured or was abandoned (`SweepEmonInv`).
- `DensityInv`: the driver's step says which phases its agents may be in (`DensityControlInv`);
  the result of an agent that ended has been read or is in the pipe (`DensityQueueInv`);
  and with the pipe drained and no mishap nothing fails by itself (`DensityQuietInv`).
- `TauInv`: an agent that patched is still in the chain of patches unless it was replaced
  (`TauHooksInv`); a recorder has one entry for each simulation, which counts its calls
  (`TauRecordersInv`); `argv` is that of the one agent that set it, unless two agents crossed
  (`TauArgvInv`).

About the harness.

- `HarnessInv`: a proxy on the port is `running`'s, and in its own cell it has that cell's mode
  and has logged at most the requests made, so that a full pipe means at least `PipeRoom`
  requests (`ProxyInv`); no process of a cell is left at its start and after `StopAll`
  (`CellInv`); statistics and trials are never those of a later cell, and the csv is the
  cell's from perf on (`OutputInv`).
- `TelemetryInv`: only containers that the filter lets through are kept, and those listed are
  read or still to be read (`KeptInv`); what was read of a counter grows up to its usage,
  and ends when its container is gone (`ReadInv`); the first and the last reading of the bytes
  are in order and within its usage, or the container is gone and the last one is 0
  (`DiskInv`).

About hosts and profiles (also in `MeasurementProofs`).  No invariant either.

- `TopologyIs`, `MemoryIs`, `CacheIs` say what each part of `detect_platform` gives, from any
  output of lscpu: the counts divided by are never 0 (`LineOrIs`), and a quotient times its
  divisor misses less than one divisor (`Divided`).  An estimate needs a part in the table,
  and none of these is "unknown" (`PeakOfPart`).
- `FailedIs`: five of the eleven checks can fail; each is in the way of a run if it fails, and
  has a fix.  So nothing to fix and ready are the same, which is why the exit status after
  the fixes is that of the host that is left.  `FixesMend`: the fixes, in whatever order,
  touch one setting each (`ApplyFixesIs`), and of those only what failed.
- `ReadIs`: a contended window in which cycles were read shows more than a CPU can do and is
  dropped; so what was read is the truth, or cycles are not among it.  `EngagedIs` is the
  verdict without its loop.

Only model-checked: all liveness (`ParentTerminates`, `RunReturns`, `DriverReturns`,
`ProcessExits`, `LoopsEnd`), which is outside what the prover handles; `LeavesNothing` under
timeouts and store failures; and the functions that `safety` evaluates: plans
(`PlansFit`) and verdicts (`TraceVerdicts`, `SweepVerdicts`).  These are functions of bounded inputs, built on folds, sums and sorted sequences; what they compute
for every input needs an induction over data that the installed provers cannot do, least
counterexamples over numbers apart.

## Not modelled, and why

- *Streams*: torn writes into a pipe, SIGINT, two tasks of one name.  They need data or
  signals the model does not have.
- *Run driver*: the choice of probes and analyzers by name, the coverage report, the
  run-scope records of `stop()`: no state that anything else reads.
- *Replay*: the off mode, latency injection, flexible trials, the framing of streamed
  answers.  `ReplayRuns` assumes fewer requests than fill the proxy's pipe
  (`src/replay/manager.py:135`); `HarnessRuns` has the pipe that fills up.
- *Agents*: how a reply is parsed (`react_parser.py`).  What it may return is an input of
  `ReplayRuns`.
- *Datasets*: JSON formats, downloads.  *Adapters*: `synthetic_cpu`'s workload, what the
  external benchmarks do inside.
- *Probes*: the layout of records and the parsing of perf's and PerfSpect's files.
- *Scaling experiment*: workloads, plots, vLLM's command lines, EMON's post-processing.
- *Traces, calibration, command line, reports, exporters, dashboards, demo applications*:
  record construction, offline fitting, argument parsing and presentation, without
  control worth checking.  Of the command line the preflight and profile commands are
  in `HostChecks` and `ProfileChecks`.

`PROJECT.json` lists each component with what is left out of it.

## What could come next

1. Proofs about the plans (`PlansFit`), by least counterexamples over positions as in
   `StoreWritesProofs` and `AdapterProofs`.
2. Composition: the proxy around `RunDriver`'s loop, and the orchestrator's metadata writes
   on `StoreWrites`.
3. The parser of replies and the attribution of PerfSpect's intervals.
