------------------------------ MODULE HarnessRuns ------------------------------
(***************************************************************************)
(* Cells of harness/scripts/runner.py, one after the other on one host:    *)
(* the proxy, the monitors, harbor, and what is collected.  A cell's label *)
(* is its mode, and cells of one label share an output directory.          *)
(*                                                                         *)
(* A trial makes one request of the proxy that listens on the port.  The   *)
(* proxy logs every request into a pipe that runner.py does not read: it   *)
(* has room for PipeRoom lines, and the write after them never returns.    *)
(***************************************************************************)
EXTENDS Naturals, Sequences, FiniteSets

CONSTANTS
    HarnessPlans,      \* sequences of modes: the cells
    ToolsMissing,      \* sets of monitors that are not installed
    TrialsPerCell,
    PipeRoom,
    MaxHarnessFaults   \* failures of harbor or of a slow proxy, and kills

HarnessModes == {"off", "replay", "record", "live"}

ASSUME HarnessAssumption ==
    /\ HarnessPlans \subseteq Seq(HarnessModes)
    /\ {TrialsPerCell, PipeRoom, MaxHarnessFaults} \subseteq Nat
Monitors == <<"mpstat", "vmstat", "docker">>

VARIABLES
    bench,          \* the cell under way, those to come, and how the others ended
    running,        \* <<cell, program>>: the processes that cells started
    listener,       \* the proxy that has the port
    outputs,        \* the directory of each label
    toolsMissing,
    perfAble,       \* perf counters are accessible
    harnessFaults
harnessVars == <<bench, running, listener, outputs, toolsMissing, perfAble, harnessFaults>>

NoProxy == [cell |-> 0, mode |-> "none", logged |-> 0, wedged |-> FALSE]
NoStats == [cell |-> 0, completed |-> {}, counters |-> 0]

HarnessFrom(plan, missing, able, other) ==
    /\ bench = [todo |-> plan, n |-> 0, at |-> "done", mode |-> "none", made |-> 0, ends |-> <<>>]
    /\ running = {}
    /\ listener = [NoProxy EXCEPT !.mode = other]
    /\ outputs = [m \in HarnessModes |-> [trials |-> {}, csv |-> 0, stats |-> NoStats]]
    /\ toolsMissing = missing /\ perfAble = able
    /\ harnessFaults = 0

\* The port may belong to a proxy that somebody else started.
HarnessInit ==
    \E plan \in HarnessPlans, missing \in ToolsMissing, able \in BOOLEAN,
       other \in {"none", "off"} : HarnessFrom(plan, missing, able, other)

Cell == bench.n
CellAt(step) == bench.at = step
Then(step) == bench' = [bench EXCEPT !.at = step]
CellEnds(how) == bench' = [bench EXCEPT !.at = "done", !.ends = Append(@, how)]
HarnessFault == harnessFaults < MaxHarnessFaults /\ harnessFaults' = harnessFaults + 1
Directory == outputs[bench.mode]

HarnessTypeOK ==
    /\ bench \in [todo : Seq(HarnessModes), n : Nat,
                  at : {"done", "proxy", "mpstat", "vmstat", "docker", "perf", "harbor", "stop",
                        "collect"},
                  mode : HarnessModes \cup {"none"}, made : 0 .. TrialsPerCell,
                  ends : Seq({"Success", "ProxyFail", "raised", "killed"})]
    /\ Len(bench.ends) = IF CellAt("done") THEN Cell ELSE Cell - 1
    /\ \A r \in running : r[1] \in 1 .. Cell
    /\ listener.logged \in 0 .. PipeRoom

BeginCell ==
    /\ CellAt("done") /\ bench.todo # <<>>
    /\ bench' = [bench EXCEPT !.todo = Tail(@), !.n = @ + 1, !.at = "proxy",
                              !.mode = Head(bench.todo), !.made = 0]
    /\ UNCHANGED <<running, listener, outputs, toolsMissing, perfAble, harnessFaults>>

-----------------------------------------------------------------------------
(* The proxy *)

\* The modes that replay_proxy.py is told apart by; another one ends it at once.
CanServe(mode) == mode \in {"off", "replay", "record"}

\* The health check is answered by whoever has the port; a proxy that does not
\* answer it after two seconds is killed.
StartProxy ==
    /\ CellAt("proxy")
    /\ \/ /\ listener.mode = "none" /\ CanServe(bench.mode)
          /\ listener' = [NoProxy EXCEPT !.cell = Cell, !.mode = bench.mode]
          /\ running' = running \cup {<<Cell, "proxy">>}
          /\ Then("mpstat") /\ UNCHANGED harnessFaults
       \/ /\ listener.mode # "none"
          /\ Then("mpstat") /\ UNCHANGED <<listener, running, harnessFaults>>
       \/ /\ listener.mode = "none"
          /\ IF CanServe(bench.mode) THEN HarnessFault ELSE UNCHANGED harnessFaults
          /\ CellEnds("ProxyFail") /\ UNCHANGED <<listener, running>>
    /\ UNCHANGED <<outputs, toolsMissing, perfAble>>

-----------------------------------------------------------------------------
(* Monitors and counters *)

AfterMonitor(m) == CASE m = "mpstat" -> "vmstat" [] m = "vmstat" -> "docker" [] m = "docker" -> "perf"

\* A program that is not installed raises, out of run_one.
StartMonitor(m) ==
    /\ CellAt(m)
    /\ IF m \in toolsMissing
       THEN CellEnds("raised") /\ UNCHANGED running
       ELSE Then(AfterMonitor(m)) /\ running' = running \cup {<<Cell, m>>}
    /\ UNCHANGED <<listener, outputs, toolsMissing, perfAble, harnessFaults>>

Bug_KeepsCsv(csv) == IF csv = 0 THEN Cell ELSE csv
\* Opening the file for writing drops what an earlier cell of the label left.
Truncated(csv) == Cell

start_continuous ==
    /\ CellAt("perf")
    /\ IF perfAble
       THEN /\ running' = running \cup {<<Cell, "perf">>}
            /\ outputs' = [outputs EXCEPT ![bench.mode].csv = Truncated(@)]
       ELSE UNCHANGED <<running, outputs>>
    /\ Then("harbor")
    /\ UNCHANGED <<listener, toolsMissing, perfAble, harnessFaults>>

-----------------------------------------------------------------------------
(* Harbor *)

Bug_OrphanBlocks == listener.logged = PipeRoom
Bug_NeverBlocks == FALSE
\* Nothing reads the pipe while the cell that made it lives; afterwards a write
\* fails at once, which logging ignores.
LogBlocks == listener.cell = Cell /\ listener.logged = PipeRoom

\* off answers with an empty message, replay from the fixture or with a miss.
\* runner.py gives a recording proxy no fixture to append to: after the upstream
\* call, every request fails.
Answers(mode) ==
    CASE mode = "off" -> {"empty"} [] mode = "replay" -> {"hit", "miss"} [] mode = "record" -> {"error"}

Trial ==
    /\ CellAt("harbor") /\ bench.made < TrialsPerCell /\ ~listener.wedged
    /\ IF LogBlocks
       THEN /\ listener' = [listener EXCEPT !.wedged = TRUE]
            /\ UNCHANGED <<bench, outputs>>
       ELSE /\ listener' = [listener EXCEPT !.logged = IF listener.cell = Cell THEN @ + 1 ELSE @]
            /\ bench' = [bench EXCEPT !.made = @ + 1]
            /\ \E answer \in Answers(listener.mode) :
                  outputs' = [outputs EXCEPT ![bench.mode].trials =
                      @ \cup {[cell |-> Cell, number |-> bench.made, by |-> listener.mode,
                               from |-> listener.cell, answer |-> answer]}]
    /\ UNCHANGED <<running, toolsMissing, perfAble, harnessFaults>>

\* Its exit status is not looked at.
HarborReturns ==
    /\ CellAt("harbor") /\ ~listener.wedged
    /\ IF bench.made < TrialsPerCell THEN HarnessFault ELSE UNCHANGED harnessFaults
    /\ Then("stop")
    /\ UNCHANGED <<running, listener, outputs, toolsMissing, perfAble>>

\* The two hours are over, which a wedged proxy makes certain.
HarborTimesOut ==
    /\ CellAt("harbor")
    /\ IF listener.wedged THEN UNCHANGED harnessFaults ELSE HarnessFault
    /\ Then("stop")
    /\ UNCHANGED <<running, listener, outputs, toolsMissing, perfAble>>

-----------------------------------------------------------------------------
(* The end of the cell *)

Bug_ForgetsProxy == {"perf", "mpstat", "vmstat", "docker"}
Bug_ForgetsDocker == {"perf", "mpstat", "vmstat", "proxy"}
\* Each gets a signal and a few seconds, and is killed after them.
ToStop == {"perf", "mpstat", "vmstat", "docker", "proxy"}

StopAll ==
    /\ CellAt("stop")
    /\ running' = {r \in running : r[1] # Cell \/ r[2] \notin ToStop}
    /\ listener' = IF listener.cell = Cell /\ <<Cell, "proxy">> \notin running'
                   THEN NoProxy ELSE listener
    /\ Then("collect")
    /\ UNCHANGED <<outputs, toolsMissing, perfAble, harnessFaults>>

Bug_OtherLabels(mode) == UNION {outputs[m].trials : m \in HarnessModes}
\* Every result below the directory's jobs.
Collected(mode) == outputs[mode].trials

\* The counters are attributed if there is a file of them and one of the phases,
\* which is not written while the directory has no jobs.
CollectResults ==
    /\ CellAt("collect")
    /\ outputs' = [outputs EXCEPT ![bench.mode].stats =
           [cell |-> Cell, completed |-> Collected(bench.mode),
            counters |-> IF Collected(bench.mode) # {} THEN Directory.csv ELSE 0]]
    /\ CellEnds("Success")
    /\ UNCHANGED <<running, listener, toolsMissing, perfAble, harnessFaults>>

\* An interrupt is no Exception: it leaves run_one wherever it is.
KillRunner ==
    /\ ~CellAt("done") /\ HarnessFault
    /\ CellEnds("killed")
    /\ listener' = IF listener.cell = Cell THEN [listener EXCEPT !.wedged = FALSE] ELSE listener
    /\ UNCHANGED <<running, outputs, toolsMissing, perfAble>>

HarnessNext ==
    \/ BeginCell \/ StartProxy \/ start_continuous
    \/ \E m \in {Monitors[i] : i \in DOMAIN Monitors} : StartMonitor(m)
    \/ Trial \/ HarborReturns \/ HarborTimesOut
    \/ StopAll \/ CollectResults \/ KillRunner

HarnessSpec == HarnessInit /\ [][HarnessNext]_harnessVars

-----------------------------------------------------------------------------
Abandoned(c) == c \in DOMAIN bench.ends /\ bench.ends[c] \in {"raised", "killed"}

(* What a cell started does not outlive it, unless the cell was left by an *)
(* exception or killed: run_one stops its processes without a finally.     *)
NoProcessLeft ==
    \A r \in running : (r[1] = Cell /\ ~CellAt("done")) \/ Abandoned(r[1])

(* The directory of a mode holds trials that were answered in that mode,   *)
(* unless the port belonged to a proxy of somebody else or of a cell that  *)
(* was abandoned: the health check accepts any proxy.                      *)
AnsweredInItsMode ==
    \A m \in HarnessModes : \A t \in outputs[m].trials :
        t.by = m \/ t.from = 0 \/ (t.from # t.cell /\ Abandoned(t.from))

(* The statistics of the first cell of a label count the trials that it    *)
(* made, all of them and no others; a later one's include the earlier      *)
(* ones', since the directory is not emptied.                              *)
StatsCountTheLabel ==
    \A m \in HarnessModes :
        LET s == outputs[m].stats
            own == {t \in outputs[m].trials : t.cell = s.cell}
        IN  /\ own \subseteq s.completed
            /\ \A t \in s.completed : t \in outputs[m].trials /\ t.cell <= s.cell

(* Trials are attributed counters of their own cell, or, where perf cannot *)
(* be used, of none or of an older cell of the label.                      *)
CountersAreOwn ==
    \A m \in HarnessModes :
        outputs[m].stats.counters # 0 =>
            outputs[m].stats.counters = outputs[m].stats.cell \/ ~perfAble

(* A proxy hangs only in a cell that has more requests than its pipe has   *)
(* room for lines, and with it only until the time of harbor is over.      *)
HangsOnlyInOwnPipe ==
    listener.wedged => listener.cell = Cell /\ bench.made >= PipeRoom /\ ~CellAt("done")
===============================================================================
