------------------------------ MODULE ServerRuns ------------------------------
(***************************************************************************)
(* The vLLM server of the vllm_inference adapter: one server, started for  *)
(* the first task that wants one and stopped by teardown, whose port       *)
(* answers whoever listens on it.  Docker and vLLM are external: a docker  *)
(* run starts a container, ends with an error after it made the container  *)
(* or before, or takes longer than the client waits; a docker stop or rm   *)
(* does what it is asked, ends with an error that nobody looks at, or      *)
(* takes longer than that.                                                 *)
(***************************************************************************)
EXTENDS Integers, Sequences, FiniteSets

CONSTANTS
    ServerModes,     \* of {"docker", "process", "remote"}
    TaskLists,       \* lists of tasks, each "plain" or "speculative"
    MaxRequests,     \* requests of a task
    MaxServerFaults  \* failing docker calls and servers that end

ASSUME ServerAssumption ==
    /\ MaxRequests \in Nat /\ MaxServerFaults \in Nat
    /\ TaskLists \subseteq Seq({"plain", "speculative"}) \ {<<>>}

NoHandle == -1
EmptyId == 0   \* docker run printed no id
Nobody == 0

VARIABLES
    srv,           \* the adapter: [mode, pc, todo, handle, started]
    servers,       \* the servers: [is: "up", "ended" or "removed", speculative]
    someone,       \* does another program answer on the port?
    serverResults, \* of the tasks: [task, passed, good, by, started]
    unowned,       \* history: servers docker started after the client gave up
    teardown,      \* history: its docker calls: [raised, refused: of "stop" and "rm"]
    serverFaults

serverVars == <<srv, servers, someone, serverResults, unowned, teardown, serverFaults>>

Up == {s \in DOMAIN servers : servers[s].is = "up"}
Exist == {s \in DOMAIN servers : servers[s].is # "removed"}
PortTaken == someone \/ Up # {}
ServerFault == serverFaults < MaxServerFaults /\ serverFaults' = serverFaults + 1
ServerAt(step) == srv.pc = step
Asked == Head(srv.todo)
NewServer == Len(servers) + 1
ServerIs(s, is) == servers' = [servers EXCEPT ![s].is = is]

ServerTypeOK ==
    /\ srv.pc \in {"task", "wait", "requests", "stop", "rm", "ended"}
    /\ srv.handle \in {NoHandle, EmptyId} \cup DOMAIN servers
    /\ \A s \in DOMAIN servers : servers[s].is \in {"up", "ended", "removed"}
    /\ ServerAt("wait") => srv.mode = "remote" \/ srv.handle # NoHandle
    /\ Cardinality(Up) <= 1 /\ unowned \subseteq DOMAIN servers

ServerFrom(mode, todo, other) ==
    /\ srv = [mode |-> mode, pc |-> "task", todo |-> todo, handle |-> NoHandle,
              started |-> FALSE]
    /\ servers = <<>> /\ someone = other
    /\ serverResults = <<>> /\ unowned = {}
    /\ teardown = [raised |-> FALSE, refused |-> {}] /\ serverFaults = 0

ServerInit == \E mode \in ServerModes, todo \in TaskLists, other \in BOOLEAN :
                  ServerFrom(mode, todo, other)

Waits(handle, started) ==
    srv' = [srv EXCEPT !.pc = "wait", !.handle = handle, !.started = started]

\* The result of a task; the driver goes on with the next one, or tears down.
Result(passed, good, by) ==
    /\ serverResults' = Append(serverResults,
           [task |-> Asked, passed |-> passed, good |-> good, by |-> by,
            started |-> srv.started])
    /\ srv' = [srv EXCEPT !.todo = Tail(@), !.started = FALSE,
                          !.pc = IF Tail(srv.todo) # <<>> THEN "task" ELSE "stop"]

-------------------------------------------------------------------------------
Bug_StartsEachTask == srv.mode # "remote"
Bug_StartsOnlyDocker == srv.mode = "docker" /\ srv.handle = NoHandle

(* _ensure_server_running: an id or a process is taken for a server, also   *)
(* one that is empty or has ended.                                          *)
Starts == srv.mode # "remote" /\ srv.handle = NoHandle

Uses ==
    /\ ServerAt("task") /\ ~Starts
    /\ Waits(srv.handle, FALSE)
    /\ UNCHANGED <<servers, someone, serverResults, unowned, teardown, serverFaults>>

Bug_NoSpeculation == FALSE
\* The flags of the server are those of the task that starts it.
Speculative == Asked = "speculative"
Made(is) == servers' = Append(servers, [is |-> is, speculative |-> Speculative])

(* docker run in time, with the port free.                                  *)
DockerStarts ==
    /\ ServerAt("task") /\ Starts /\ srv.mode = "docker" /\ ~PortTaken
    /\ Made("up") /\ Waits(NewServer, TRUE)
    /\ UNCHANGED <<someone, serverResults, unowned, teardown, serverFaults>>

\* docker run ends with an error, which is not looked at: the port was taken and the
\* container is there, or there is none and no id.
DockerExits ==
    /\ ServerAt("task") /\ Starts /\ srv.mode = "docker"
    /\ \/ /\ PortTaken /\ Made("ended") /\ Waits(NewServer, TRUE)
          /\ UNCHANGED serverFaults
       \/ ServerFault /\ Waits(EmptyId, TRUE) /\ UNCHANGED servers
    /\ UNCHANGED <<someone, serverResults, unowned, teardown>>

\* The client times out, while docker may go on and start the container.
DockerTimesOut ==
    /\ ServerAt("task") /\ Starts /\ srv.mode = "docker" /\ ServerFault
    /\ \/ ~PortTaken /\ Made("up") /\ unowned' = unowned \cup {NewServer}
       \/ UNCHANGED <<servers, unowned>>
    /\ Result(FALSE, 0, Nobody)
    /\ UNCHANGED <<someone, teardown>>

ProcessStarts ==
    /\ ServerAt("task") /\ Starts /\ srv.mode = "process"
    /\ Made(IF PortTaken THEN "ended" ELSE "up") /\ Waits(NewServer, TRUE)
    /\ UNCHANGED <<someone, serverResults, unowned, teardown, serverFaults>>

ProcessRaises ==
    /\ ServerAt("task") /\ Starts /\ srv.mode = "process" /\ ServerFault
    /\ Result(FALSE, 0, Nobody)
    /\ UNCHANGED <<servers, someone, unowned, teardown>>

ServerEnds ==
    /\ ~ServerAt("ended") /\ ServerFault
    /\ \E s \in Up : ServerIs(s, "ended")
    /\ UNCHANGED <<srv, someone, serverResults, unowned, teardown>>

-------------------------------------------------------------------------------
(* _wait_for_server: whoever answers on the port.                           *)
Ready ==
    /\ ServerAt("wait") /\ PortTaken
    /\ srv' = [srv EXCEPT !.pc = "requests"]
    /\ UNCHANGED <<servers, someone, serverResults, unowned, teardown, serverFaults>>

NotReady ==
    /\ ServerAt("wait")
    /\ Result(FALSE, 0, Nobody)
    /\ UNCHANGED <<servers, someone, unowned, teardown, serverFaults>>

(* The warm-up and the requests, each of which may fail; the task has passed *)
(* whatever came of them.                                                   *)
Requests ==
    /\ ServerAt("requests")
    /\ \E good \in 0 .. MaxRequests, by \in Up \cup {Nobody} :
           /\ by = Nobody => someone \/ good = 0
           /\ someone => by = Nobody
           /\ Result(TRUE, good, by)
    /\ UNCHANGED <<servers, someone, unowned, teardown, serverFaults>>

-------------------------------------------------------------------------------
(* teardown: _stop_server.                                                  *)
NothingToStop ==
    /\ ServerAt("stop") /\ srv.handle \in {NoHandle, EmptyId}
    /\ srv' = [srv EXCEPT !.pc = "ended"]
    /\ UNCHANGED <<servers, someone, serverResults, unowned, teardown, serverFaults>>

\* docker ends with an error, which is not looked at: nothing has changed.
Refuses(asked) ==
    /\ ServerFault /\ teardown' = [teardown EXCEPT !.refused = @ \cup {asked}]
    /\ UNCHANGED servers

StopContainer ==
    /\ ServerAt("stop") /\ srv.mode = "docker" /\ srv.handle \in DOMAIN servers
    /\ \/ ServerIs(srv.handle, "ended") /\ UNCHANGED <<teardown, serverFaults>>
       \/ Refuses("stop")
    /\ srv' = [srv EXCEPT !.pc = "rm"]
    /\ UNCHANGED <<someone, serverResults, unowned>>

Bug_RemovesIfStopped ==
    /\ ServerAt("rm")
    /\ \/ "stop" \notin teardown.refused /\ ServerIs(srv.handle, "removed")
       \/ "stop" \in teardown.refused /\ UNCHANGED servers
    /\ srv' = [srv EXCEPT !.pc = "ended", !.handle = NoHandle]
    /\ UNCHANGED <<someone, serverResults, unowned, teardown, serverFaults>>

\* The container is forgotten whether docker removed it or not.
RemoveContainer ==
    /\ ServerAt("rm")
    /\ \/ ServerIs(srv.handle, "removed") /\ UNCHANGED <<teardown, serverFaults>>
       \/ Refuses("rm")
    /\ srv' = [srv EXCEPT !.pc = "ended", !.handle = NoHandle]
    /\ UNCHANGED <<someone, serverResults, unowned>>

\* The stop or the rm takes longer than it may, and docker may go on and end it: the
\* exception leaves teardown.
StopRaises ==
    /\ srv.mode = "docker" /\ srv.handle \in DOMAIN servers /\ srv.pc \in {"stop", "rm"}
    /\ ServerFault /\ teardown' = [teardown EXCEPT !.raised = TRUE]
    /\ \/ ServerIs(srv.handle, IF ServerAt("stop") THEN "ended" ELSE "removed")
       \/ UNCHANGED servers
    /\ srv' = [srv EXCEPT !.pc = "ended"]
    /\ UNCHANGED <<someone, serverResults, unowned>>

\* terminate, and kill after 10 seconds.
StopProcess ==
    /\ ServerAt("stop") /\ srv.mode = "process" /\ srv.handle \in DOMAIN servers
    /\ ServerIs(srv.handle, "removed")
    /\ srv' = [srv EXCEPT !.pc = "ended", !.handle = NoHandle]
    /\ UNCHANGED <<someone, serverResults, unowned, teardown, serverFaults>>

ServerNext ==
    \/ Uses \/ DockerStarts \/ DockerExits \/ DockerTimesOut \/ ProcessStarts \/ ProcessRaises
    \/ ServerEnds \/ Ready \/ NotReady \/ Requests
    \/ NothingToStop \/ StopContainer \/ RemoveContainer \/ StopRaises \/ StopProcess

ServerSpec == ServerInit /\ [][ServerNext]_serverVars

-------------------------------------------------------------------------------
(* What teardown leaves of the servers, those that docker started for a     *)
(* client that had given up apart: at most one, also when starts failed and *)
(* were tried again by later tasks; none, unless docker refused to remove   *)
(* it; none that runs, unless docker refused to stop it too.  A teardown    *)
(* that an exception of a docker call left may leave its server as it was.  *)
NoServerLeft ==
    ServerAt("ended") =>
        /\ \A s, t \in Exist \ unowned : s = t
        /\ Exist \ unowned # {} => teardown.raised \/ "rm" \in teardown.refused
        /\ Up \ unowned # {} => teardown.raised \/ {"stop", "rm"} \subseteq teardown.refused

(* What a task that started the adapter's server measured was a server with *)
(* the flags of its kind, unless another program answered on the port, or a *)
(* container of an earlier attempt that docker finished late.               *)
StarterIsMeasured ==
    \A k \in DOMAIN serverResults :
        LET r == serverResults[k]
        IN  r.started /\ r.by # Nobody /\ r.by \notin unowned
                => servers[r.by].speculative = (r.task = "speculative")
===============================================================================
