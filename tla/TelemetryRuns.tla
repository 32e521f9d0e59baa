----------------------------- MODULE TelemetryRuns -----------------------------
(***************************************************************************)
(* harness/scripts/container_telemetry.py beside a cell: every tick it     *)
(* asks docker which containers are the cell's, lists the cgroups, and     *)
(* reads them one after the other, the CPU time and then what was read and *)
(* written, while containers come, work and go.  What it reports of a      *)
(* container is the difference of its first and its last reading.          *)
(***************************************************************************)
EXTENDS HarnessRuns, Integers

CONSTANTS
    Scope,               \* the containers that may run beside the sampler
    Image(_),            \* whose image: the "cell"'s or a "tenant"'s
    Unread,              \* a counter whose file was gone
    MaxUsage,            \* CPU time of a container, and bytes on the disk
    MaxTicks,
    MaxTelemetryFaults   \* calls of docker ps that fail

ASSUME TelemetryAssumption ==
    /\ \A c \in Scope : Image(c) \in {"cell", "tenant"}
    /\ Unread \notin Nat /\ {MaxUsage, MaxTicks, MaxTelemetryFaults} \subseteq Nat

VARIABLES
    beside,            \* the containers: [is, usage]
    tick,              \* the sampler: its step, what it may read and has still to read
    readings,          \* of each container seen, its CPU time in each tick
    diskDue,           \* the container whose io.stat is read next
    disk,              \* of each container seen: [first, last], of the disk
    filter,            \* "image", "baseline" or "none": how a cell's containers are told
    baseline,          \* the containers that were there before the cell
    steady,            \* history: the cell's containers that were up when docker
                       \* answered, and those still up when the tick listed them
    telemetryFaults
telemetryVars ==
    <<beside, tick, readings, diskDue, disk, filter, baseline, steady, telemetryFaults>>

IsUp(c) == beside[c].is = "up"
Cgroups == {c \in Scope : IsUp(c)}
TickAt(step) == tick.at = step
Noted(c) == c \in DOMAIN readings

TelemetryFrom(how, old) ==
    /\ filter = how /\ baseline = IF how = "baseline" THEN old ELSE {}
    /\ beside = [c \in Scope |-> [is |-> IF c \in old THEN "up" ELSE "coming", usage |-> 0]]
    /\ tick = [at |-> "owned", keep |-> {}, left |-> {}, number |-> 0]
    /\ readings = <<>> /\ diskDue = {} /\ disk = <<>> /\ steady = [asked |-> {}, listed |-> {}] /\ telemetryFaults = 0
TelemetryInit ==
    \E how \in {"image", "baseline", "none"}, old \in SUBSET Scope :
        (how = "baseline" => old # {}) /\ TelemetryFrom(how, old)

TelemetryTypeOK ==
    /\ beside \in [Scope -> [is : {"coming", "up", "gone"}, usage : 0 .. MaxUsage]]
    /\ tick.at \in {"owned", "list", "read", "sleep", "written"}
    /\ tick.left \subseteq tick.keep /\ tick.keep \subseteq Scope
    /\ DOMAIN readings \subseteq Scope
    /\ \A c \in DOMAIN readings : readings[c] \in Seq(0 .. MaxUsage \cup {Unread}) \ {<<>>}
    /\ diskDue \cup DOMAIN disk = DOMAIN readings
    /\ \A c \in DOMAIN disk : {disk[c].first, disk[c].last} \subseteq 0 .. MaxUsage

-----------------------------------------------------------------------------
(* The cell and the other tenants *)

ContainerStarts(c) ==
    /\ beside[c].is = "coming"
    /\ beside' = [beside EXCEPT ![c].is = "up"]
    /\ UNCHANGED <<tick, readings, diskDue, disk, filter, baseline, steady, telemetryFaults>>
ContainerWorks(c) ==
    /\ IsUp(c) /\ beside[c].usage < MaxUsage
    /\ beside' = [beside EXCEPT ![c].usage = @ + 1]
    /\ UNCHANGED <<tick, readings, diskDue, disk, filter, baseline, steady, telemetryFaults>>
ContainerGoes(c) ==
    /\ IsUp(c)
    /\ beside' = [beside EXCEPT ![c].is = "gone"]
    /\ UNCHANGED <<tick, readings, diskDue, disk, filter, baseline, steady, telemetryFaults>>

-----------------------------------------------------------------------------
(* The sampler *)

\* docker ps, by image and without the excluded ones.
OwnedNow ==
    IF filter = "none" THEN Scope
    ELSE {c \in Cgroups \ baseline : filter = "image" => Image(c) = "cell"}

Bug_AllIfUnknown == Scope
\* Without an answer it reads nothing rather than everybody's.
OwnedIfUnknown == {}

Bug_AskOnce == tick.number = 0
AskAgain == TRUE

owned ==
    /\ TickAt("owned")
    /\ \/ /\ LET keep == IF AskAgain THEN OwnedNow ELSE tick.keep
             IN  tick' = [tick EXCEPT !.at = "list", !.keep = keep, !.left = {}]
          /\ steady' = [steady EXCEPT !.asked = {c \in Cgroups \ baseline : Image(c) = "cell"}]
          /\ UNCHANGED telemetryFaults
       \/ /\ filter # "none"
          /\ telemetryFaults < MaxTelemetryFaults /\ telemetryFaults' = telemetryFaults + 1
          /\ tick' = [tick EXCEPT !.at = "list", !.keep = OwnedIfUnknown, !.left = {}]
          /\ steady' = [steady EXCEPT !.asked = {}]
    /\ UNCHANGED <<beside, readings, diskDue, disk, filter, baseline>>

Bug_ListsEveryScope == Cgroups
Listed == Cgroups \cap tick.keep

snapshot ==
    /\ TickAt("list")
    /\ tick' = [tick EXCEPT !.at = "read", !.left = Listed]
    /\ steady' = [steady EXCEPT !.listed = @ \cup (Cgroups \cap steady.asked)]
    /\ UNCHANGED <<beside, readings, diskDue, disk, filter, baseline, telemetryFaults>>

Bug_ReadsZero(c) == IF IsUp(c) THEN beside[c].usage ELSE 0
\* A missing cpu.stat gives no value ...
Counter(c) == IF IsUp(c) THEN beside[c].usage ELSE Unread

\* ... and a missing io.stat gives 0.
DiskCounter(c) == IF IsUp(c) THEN beside[c].usage ELSE 0

ReadContainer(c) ==
    /\ TickAt("read") /\ c \in tick.left /\ diskDue = {}
    /\ readings' = [d \in DOMAIN readings \cup {c} |->
                       IF d # c THEN readings[d]
                       ELSE IF Noted(c) THEN Append(readings[c], Counter(c)) ELSE <<Counter(c)>>]
    /\ tick' = [tick EXCEPT !.left = @ \ {c}]
    /\ diskDue' = {c}
    /\ UNCHANGED <<beside, disk, filter, baseline, steady, telemetryFaults>>

ReadDisk(c) ==
    /\ c \in diskDue
    /\ disk' = [d \in DOMAIN disk \cup {c} |->
                   IF d # c THEN disk[d]
                   ELSE [first |-> IF c \in DOMAIN disk THEN disk[c].first ELSE DiskCounter(c),
                         last |-> DiskCounter(c)]]
    /\ diskDue' = {}
    /\ UNCHANGED <<beside, tick, readings, filter, baseline, steady, telemetryFaults>>

EndTick ==
    /\ TickAt("read") /\ tick.left = {} /\ diskDue = {}
    /\ tick' = [tick EXCEPT !.at = "sleep", !.number = @ + 1]
    /\ UNCHANGED <<beside, readings, diskDue, disk, filter, baseline, steady, telemetryFaults>>

\* The signal of the harness only ends the loop.
Sleep ==
    /\ TickAt("sleep")
    /\ \E at \in {"owned", "written"} :
          /\ at = "owned" => tick.number < MaxTicks
          /\ tick' = [tick EXCEPT !.at = at]
    /\ UNCHANGED <<beside, readings, diskDue, disk, filter, baseline, steady, telemetryFaults>>

Bug_SinceItsStart(c) ==
    LET last == readings[c][Len(readings[c])] IN IF last = Unread THEN 0 ELSE last
\* A difference that cannot be formed counts as 0.
CpuSeconds(c) ==
    LET first == readings[c][1]
        last == readings[c][Len(readings[c])]
    IN  IF Unread \in {first, last} THEN 0 ELSE last - first

Bug_DiskSinceItsStart(c) == disk[c].last
DiskMb(c) == disk[c].last - disk[c].first

TelemetryNext ==
    \/ \E c \in Scope : ContainerStarts(c) \/ ContainerWorks(c) \/ ContainerGoes(c)
                            \/ ReadContainer(c) \/ ReadDisk(c)
    \/ owned \/ snapshot \/ EndTick \/ Sleep

TelemetrySpec == TelemetryInit /\ [][TelemetryNext]_telemetryVars

-----------------------------------------------------------------------------
IsWritten == TickAt("written")

(* "Without the filter the numbers are silently wrong": with an image      *)
(* filter no container of another image is counted, even while docker does *)
(* not answer; with a baseline none that was there before.                 *)
OthersAreNotCounted ==
    \A c \in DOMAIN readings :
        /\ filter = "image" => Image(c) = "cell"
        /\ filter = "baseline" => c \notin baseline

(* A container that was the cell's, and up, from docker's answer to the    *)
(* list of the cgroups of any tick is in the report, also when it started  *)
(* after the sampler.                                                      *)
SteadyAreSeen == IsWritten => steady.listed \subseteq DOMAIN readings

(* The CPU time that is reported was used while the sampler looked.        *)
ReportedWasUsed ==
    \A c \in DOMAIN readings :
        CpuSeconds(c) >= 0 /\ CpuSeconds(c) <= beside[c].usage
        /\ (readings[c][1] # Unread => CpuSeconds(c) <= beside[c].usage - readings[c][1])

(* Time between two readings is lost only for a container that is gone     *)
(* before its last reading is whole; it then loses all of it.              *)
LostOnlyIfCut ==
    IsWritten => \A c \in DOMAIN readings :
        LET whole == {readings[c][k] : k \in DOMAIN readings[c]} \ {Unread}
            spread == {x \in 0 .. MaxUsage : \E a, b \in whole : x = b - a}
        IN  \/ \A x \in spread : x <= CpuSeconds(c)
            \/ /\ CpuSeconds(c) = 0 /\ beside[c].is = "gone"
               /\ \E k \in DOMAIN readings[c] : readings[c][k] = Unread

(* So it is with what was read and written, but for a container that was   *)
(* gone before its last reading: its first reading is taken from 0, and    *)
(* what is reported of it, and added to the others', may be below zero.    *)
ReportedWasWritten ==
    \A c \in DOMAIN disk :
        /\ DiskMb(c) <= beside[c].usage - disk[c].first
        /\ DiskMb(c) < 0 => beside[c].is = "gone" /\ DiskMb(c) = 0 - disk[c].first

-------------------------------------------------------------------------------
(* A cell of the harness is answered, measured and counted as itself: no    *)
(* process of an earlier one, no other tenant, no CPU time or bytes but     *)
(* what was used and written beside it.  A counter that went away takes     *)
(* from what is reported of its own container, and adds nothing.            *)
CellsAreTheirOwn ==
    /\ HarnessTypeOK /\ NoProcessLeft /\ AnsweredInItsMode /\ StatsCountTheLabel
    /\ CountersAreOwn /\ HangsOnlyInOwnPipe
    /\ TelemetryTypeOK /\ OthersAreNotCounted /\ SteadyAreSeen /\ ReportedWasUsed
    /\ LostOnlyIfCut /\ ReportedWasWritten
===============================================================================
