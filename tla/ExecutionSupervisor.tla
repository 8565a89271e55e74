-------------------------- MODULE ExecutionSupervisor ---------------------------
(***************************************************************************)
(* The supervisor of one execution, from its published preparation to its  *)
(* exit, with the runtime host it spawns, the coordinator it watches and   *)
(* the records it leaves.                                                  *)
(*                                                                         *)
(* The supervisor is one event loop, so what it does between two awaits is *)
(* one step. Its start, a termination it was asked for, the termination of *)
(* its shutdown, the settlement of the worker and its record writes are    *)
(* separate activities that interleave at their awaits. Requests are       *)
(* served one at a time; a shutdown does not wait for them.                *)
(***************************************************************************)
EXTENDS Naturals, Sequences

CONSTANT MaxQueue   \* sockets that may wait (8 in the code)

ASSUME QueueBound == MaxQueue \in Nat

VARIABLES
    \* the coordinator and the records on disk
    coordinator,  \* the process that prepared the execution lives
    authority,    \* start-authority.json exists
    disk,         \* the state manifest.json shows
    record,       \* the cleanup terminal.json shows, or "none"
    \* the supervisor
    supervisor,   \* "live", "closed" (no endpoint any more), "gone" or "dead"
    requests,     \* requests waiting at its endpoint
    serving,      \* the request being served, or "none"
    memory,       \* manifest.state
    writes,       \* manifest states being written
    publication,  \* terminalPublication: "none", "recording" or "announced"
    cleanup,      \* the cleanup it publishes
    start,        \* where startExecution is
    leader,       \* executionLeader is known
    settling,     \* executionSettlement exists
    stopping,     \* shutdown was called
    stop,         \* where terminateExecution is, for a request and for the shutdown
    \* the runtime host
    child,        \* the process: "left" if it proved ready and exited without a launch
    stragglers,   \* its group has members besides it
    \* those who inspect or collect the execution
    manifest,     \* the manifest state an inspection under way has read, or "none"
    reports       \* what they were told is over: "current" if the manifest still was, or
                  \* "overtaken" if a start was published after it was read

records == <<disk, record>>
readers == <<manifest, reports>>
outside == <<coordinator, authority, manifest, reports>>
terminal == <<memory, publication, cleanup>>
starting == <<start, leader, settling>>
process == <<child, stragglers>>
vars == <<outside, records, supervisor, requests, serving, terminal, writes, starting, stopping,
          stop, process>>

Operation == {"authorize", "terminate", "release"}
Caller == {"request", "shutdown"}
Alive == {"spawned", "ready", "working"}

Running == supervisor \in {"live", "closed"}

\* How a runtime host that works on nothing yet exits.
Exit(host) == IF host = "ready" THEN "left" ELSE "failed"

-----------------------------------------------------------------------------
\* Records.

\* publishManifest: the state changes at once, its write takes a while. Concurrent writes
\* replace the record in any order.
PublishManifest(state) == memory' = state /\ writes' = writes \cup {state}

ManifestWritten(state) ==
    /\ Running /\ state \in writes
    /\ disk' = state /\ writes' = writes \ {state}
    /\ UNCHANGED <<outside, record, supervisor, requests, serving, terminal, starting, stopping,
                   stop, process>>

\* publishTerminal: the first caller decides, the others wait for the same publication.
PublishTerminal(outcome) ==
    /\ IF publication = "none"
       THEN publication' = "recording" /\ cleanup' = outcome
       ELSE UNCHANGED <<publication, cleanup>>
    /\ UNCHANGED memory

TerminalRecorded ==
    /\ Running /\ publication = "recording"
    /\ record' = cleanup /\ publication' = "announced"
    /\ PublishManifest("terminal")
    /\ UNCHANGED <<outside, disk, supervisor, requests, serving, cleanup, starting, stopping, stop,
                   process>>

Terminal == publication = "announced"
Published == Terminal /\ "terminal" \notin writes

GroupCleanup == IF stragglers THEN "unknown" ELSE "confirmed"

\* serveNextSocket, dispatch
Serve(operation) ==
    /\ supervisor = "live" /\ serving = "none" /\ requests # <<>>
    /\ Head(requests) = operation /\ requests' = Tail(requests) /\ serving' = operation

-----------------------------------------------------------------------------
\* startExecution

StartMoves(next) == start' = next /\ UNCHANGED <<leader, settling>>

\* The first authorization starts; later ones share its outcome.
Authorize ==
    /\ Serve("authorize")
    /\ IF start # "none" THEN UNCHANGED start
       ELSE start' = IF memory \in {"active", "terminal"} THEN "returned" ELSE "authority"
    /\ UNCHANGED <<terminal, writes, leader, settling, stop, process>>

\* readAuthority finds the start authority, which its client wrote before it asked.
AuthorityRead ==
    /\ start = "authority"
    /\ PublishManifest("starting") /\ StartMoves("starting")
    /\ UNCHANGED <<publication, cleanup, serving, stop, process>>

Spawn ==
    /\ start = "starting" /\ "starting" \notin writes
    /\ child' = "spawned" /\ StartMoves("spawned")
    /\ UNCHANGED <<terminal, writes, serving, stop, stragglers>>

\* A process that has exited may have no identity any more.
Identify ==
    /\ start = "spawned"
    /\ \/ start' = "identified" /\ leader' = TRUE /\ UNCHANGED settling
       \/ child \notin Alive /\ StartMoves("rejected")
    /\ UNCHANGED <<terminal, writes, serving, stop, process>>

\* Mutant of HostReady: a supervisor that is stopping launches all the same.
HostReadyUnchecked ==
    /\ start = "identified" /\ child \in {"ready", "left"}
    /\ PublishManifest("active") /\ StartMoves("active") /\ UNCHANGED <<publication, cleanup>>
    /\ UNCHANGED <<serving, stop, process>>

\* The runtime host proved ready. It still waits for its launch, or has exited.
HostReady ==
    /\ start = "identified" /\ child \in {"ready", "left"}
    /\ IF stopping
       THEN StartMoves("rejected") /\ UNCHANGED <<terminal, writes>>
       ELSE /\ PublishManifest("active") /\ StartMoves("active")
            /\ UNCHANGED <<publication, cleanup>>
    /\ UNCHANGED <<serving, stop, process>>

\* The readiness proof is late, or never comes; the group is killed.
HostUnready ==
    /\ start = "identified" /\ child \in {"spawned", "ready", "failed"}
    /\ child' = (IF child \in Alive THEN Exit(child) ELSE child) /\ StartMoves("unready")
    /\ UNCHANGED <<terminal, writes, serving, stop, stragglers>>

RejectUnready ==
    \/ /\ start = "unready" /\ PublishTerminal(GroupCleanup) /\ StartMoves("unpublished")
       /\ UNCHANGED <<writes, serving, stop, process>>
    \/ /\ start = "unpublished" /\ Published /\ StartMoves("rejected")
       /\ UNCHANGED <<terminal, writes, serving, stop, process>>

\* The settlement awaits the worker from before the launch is sent.
Launch ==
    /\ start = "active" /\ "active" \notin writes
    /\ start' = "returned" /\ settling' = TRUE
    /\ child' = IF child = "ready" THEN "working" ELSE child
    /\ UNCHANGED <<terminal, writes, leader, serving, stop, stragglers>>

\* Mutant of Authorized: a start that was rejected is not answered.
AuthorizedWhenReturned ==
    /\ serving = "authorize" /\ start = "returned"
    /\ serving' = "none"
    /\ UNCHANGED <<terminal, writes, starting, stop, process>>

\* An authorization is answered when the start it shares has ended.
Authorized ==
    /\ serving = "authorize" /\ start \in {"returned", "rejected"}
    /\ serving' = "none"
    /\ UNCHANGED <<terminal, writes, starting, stop, process>>

\* settleExecution: only a worker that delivered its result, exited well and left no other
\* process of its group has confirmed its cleanup.
SettleExecution ==
    /\ settling /\ child \notin Alive /\ publication = "none"
    /\ PublishTerminal(IF child = "done" THEN GroupCleanup ELSE "unknown")
    /\ UNCHANGED <<writes, starting, serving, stop, process>>

-----------------------------------------------------------------------------
\* terminateExecution and shutdown

StopMoves(caller, next) == stop' = [stop EXCEPT ![caller] = next]

\* Mutant of Terminate: a settlement under way is awaited, not hastened.
TerminateAwaitingSettlement(caller) ==
    IF Terminal THEN StopMoves(caller, "done") /\ UNCHANGED terminal
    ELSE IF memory = "awaiting-start"
    THEN StopMoves(caller, "waiting") /\ PublishTerminal("confirmed")
    ELSE IF ~leader THEN StopMoves(caller, "waiting") /\ PublishTerminal("unknown")
    ELSE StopMoves(caller, IF settling THEN "waiting" ELSE "killing") /\ UNCHANGED terminal

\* Nothing was spawned before the start was published; a process without an identity cannot
\* be signalled.
Terminate(caller) ==
    IF Terminal THEN StopMoves(caller, "done") /\ UNCHANGED terminal
    ELSE IF memory = "awaiting-start"
    THEN StopMoves(caller, "waiting") /\ PublishTerminal("confirmed")
    ELSE IF ~leader THEN StopMoves(caller, "waiting") /\ PublishTerminal("unknown")
    ELSE StopMoves(caller, "killing") /\ UNCHANGED terminal

\* terminatePrivateProcessGroup signals the group of a leader that lives, and waits. A worker
\* that is told to stop may still deliver a result.
KillGroup(caller) ==
    /\ stop[caller] = "killing"
    /\ IF child \in Alive
       THEN child' \in {Exit(child)} \cup (IF child = "working" THEN {"done"} ELSE {})
            /\ stragglers' = FALSE
       ELSE UNCHANGED process
    /\ StopMoves(caller, IF settling THEN "waiting" ELSE "reaping")
    /\ UNCHANGED <<terminal, writes, starting, serving>>

Reap(caller) ==
    /\ stop[caller] = "reaping" /\ child \notin Alive
    /\ PublishTerminal(GroupCleanup) /\ StopMoves(caller, "waiting")
    /\ UNCHANGED <<writes, starting, serving, process>>

TerminalPublished(caller) ==
    /\ stop[caller] = "waiting" /\ Published
    /\ StopMoves(caller, "done")
    /\ UNCHANGED <<terminal, writes, starting, serving, process>>

TerminateRequested ==
    /\ Serve("terminate") /\ Terminate("request")
    /\ UNCHANGED <<writes, starting, process>>

Terminated ==
    /\ serving = "terminate" /\ stop["request"] = "done"
    /\ serving' = "none" /\ StopMoves("request", "idle")
    /\ UNCHANGED <<terminal, writes, starting, process>>

Shutdown(clean) ==
    /\ ~stopping /\ stopping' = TRUE
    /\ IF clean THEN Terminate("shutdown") ELSE StopMoves("shutdown", "done") /\ UNCHANGED terminal
    /\ UNCHANGED <<outside, records, supervisor, writes, starting, process>>

\* The watch finds the coordinator gone, or cannot tell.
CoordinatorClosed ==
    /\ Running /\ Shutdown(TRUE)
    /\ UNCHANGED <<requests, serving>>

\* A terminal execution is released: the supervisor shuts down once it has answered.
Release ==
    /\ Serve("release")
    /\ UNCHANGED <<terminal, writes, starting, stop, process>>

Released ==
    /\ Running /\ serving = "release" /\ serving' = "none"
    /\ IF Terminal /\ ~stopping THEN Shutdown(FALSE)
       ELSE UNCHANGED <<outside, records, supervisor, terminal, writes, starting, stopping, stop,
                        process>>
    /\ UNCHANGED requests

\* closeServer: the endpoint goes, and with it the requests that wait.
CloseServer ==
    /\ supervisor = "live" /\ stop["shutdown"] = "done"
    /\ supervisor' = "closed" /\ requests' = <<>>
    /\ UNCHANGED <<outside, records, serving, terminal, writes, starting, stopping, stop, process>>

\* The process exits when nothing is under way and its child has exited.
Exits ==
    /\ supervisor = "closed" /\ supervisor' = "gone"
    /\ child \notin Alive /\ writes = {} /\ serving = "none"
    /\ start \in {"none", "returned", "rejected"} /\ settling => Published
    /\ UNCHANGED <<outside, records, requests, serving, terminal, writes, starting, stopping, stop,
                   process>>

\* The supervisor is killed: prepare gives up, its machine is short of memory.
Dies ==
    /\ Running /\ supervisor' = "dead" /\ requests' = <<>> /\ writes' = {}
    /\ UNCHANGED <<outside, records, serving, terminal, starting, stopping, stop, process>>

-----------------------------------------------------------------------------
\* The runtime host.

HostSteps ==
    /\ \/ child = "spawned" /\ child' = "ready" /\ UNCHANGED stragglers
       \/ child \in {"spawned", "ready"} /\ child' = Exit(child) /\ UNCHANGED stragglers
       \/ child = "working" /\ child' \in {"done", "failed"} /\ stragglers' \in BOOLEAN
    /\ UNCHANGED <<outside, records, supervisor, requests, serving, terminal, writes, starting,
                   stopping, stop>>

\* Its launch pipe closes with the supervisor.
LaunchPipeCloses ==
    /\ ~Running /\ child \in {"spawned", "ready"}
    /\ child' = Exit(child)
    /\ UNCHANGED <<outside, records, supervisor, requests, serving, terminal, writes, starting,
                   stopping, stop, stragglers>>

-----------------------------------------------------------------------------
\* The coordinator and its replacements.

WriteAuthority ==
    /\ coordinator /\ ~authority /\ authority' = TRUE
    /\ UNCHANGED <<coordinator, readers, records, supervisor, requests, serving, terminal, writes, starting,
                   stopping, stop, process>>

CoordinatorDies ==
    /\ coordinator /\ coordinator' = FALSE
    /\ UNCHANGED <<authority, readers, records, supervisor, requests, serving, terminal, writes, starting,
                   stopping, stop, process>>

\* Only the coordinator asks for the start; whoever owns the run terminates and releases.
Request(operation) ==
    /\ supervisor = "live" /\ Len(requests) < MaxQueue /\ requests' = Append(requests, operation)
    /\ operation = "authorize" => coordinator /\ authority
    /\ UNCHANGED <<outside, records, supervisor, serving, terminal, writes, starting, stopping,
                   stop, process>>

-----------------------------------------------------------------------------
\* Those who inspect or collect the execution, in any process.

\* inspect reads the manifest, and only then looks for the supervisor it names.
InspectManifest ==
    /\ manifest = "none" /\ manifest' = disk /\ UNCHANGED reports

\* It finds no supervisor, and concludes from the manifest it has read that none ever started.
InspectAbsent ==
    /\ manifest = "awaiting-start" /\ ~Running
    /\ reports' = reports \cup {IF disk = manifest THEN "current" ELSE "overtaken"}
    /\ manifest' = "none"

\* terminalObservation, collectTerminal: the terminal record says the cleanup is confirmed.
ReadTerminal ==
    /\ record = "confirmed" /\ reports' = reports \cup {"current"}

\* inspect reads the terminal record of a terminal manifest whose supervisor is gone.
InspectTerminal ==
    /\ manifest = "terminal" /\ ~Running /\ ReadTerminal /\ manifest' = "none"

\* collect and terminate read it after the supervisor answered them.
Collect == ReadTerminal /\ UNCHANGED manifest

\* Any other inspection ends with "active" or "unknown".
InspectionEnds == manifest # "none" /\ manifest' = "none" /\ UNCHANGED reports

-----------------------------------------------------------------------------
\* prepare returned: the records are published and the supervisor waits for its start.
Init ==
    /\ coordinator = TRUE /\ authority = FALSE
    /\ disk = "awaiting-start" /\ record = "none"
    /\ supervisor = "live" /\ requests = <<>> /\ serving = "none"
    /\ memory = "awaiting-start" /\ publication = "none" /\ cleanup = "none" /\ writes = {}
    /\ start = "none" /\ leader = FALSE /\ settling = FALSE
    /\ stopping = FALSE /\ stop = [caller \in Caller |-> "idle"]
    /\ child = "none" /\ stragglers = FALSE
    /\ manifest = "none" /\ reports = {}

Starting ==
    /\ Running
    /\ \/ AuthorityRead \/ Spawn \/ Identify \/ HostReady \/ HostUnready \/ RejectUnready
       \/ Launch \/ Authorized \/ SettleExecution
    /\ UNCHANGED <<outside, records, supervisor, requests, stopping>>

Stopping(caller) ==
    /\ Running
    /\ KillGroup(caller) \/ Reap(caller) \/ TerminalPublished(caller)
    /\ UNCHANGED <<outside, records, supervisor, requests, stopping>>

Serving ==
    /\ Authorize \/ TerminateRequested \/ Release
    /\ UNCHANGED <<outside, records, supervisor, stopping>>

Answering ==
    /\ Running /\ Terminated
    /\ UNCHANGED <<outside, records, supervisor, requests, stopping>>

Writing == TerminalRecorded \/ \E state \in {"starting", "active", "terminal"} : ManifestWritten(state)

Reading ==
    /\ InspectManifest \/ InspectAbsent \/ InspectTerminal \/ Collect \/ InspectionEnds
    /\ UNCHANGED <<coordinator, authority, records, supervisor, requests, serving, terminal, writes,
                   starting, stopping, stop, process>>

Next ==
    \/ Starting \/ (\E caller \in Caller : Stopping(caller)) \/ Serving \/ Answering \/ Writing
    \/ CoordinatorClosed \/ Released \/ CloseServer \/ Exits \/ Dies
    \/ HostSteps \/ LaunchPipeCloses
    \/ WriteAuthority \/ CoordinatorDies \/ \E operation \in Operation : Request(operation)
    \/ Reading

Spec == Init /\ [][Next]_vars

\* Every activity of the supervisor goes on while the supervisor runs: its awaits are writes,
\* signals and timers. The watch keeps looking for a coordinator that is gone. A worker owes
\* nothing.
FairSpec ==
    /\ Spec
    /\ WF_vars(Starting) /\ WF_vars(Serving) /\ WF_vars(Answering \/ Released) /\ WF_vars(Writing)
    /\ \A caller \in Caller : WF_vars(Stopping(caller))
    /\ WF_vars(CloseServer) /\ WF_vars(Exits)
    /\ WF_vars(~coordinator /\ CoordinatorClosed)
    /\ WF_vars(LaunchPipeCloses)

-----------------------------------------------------------------------------
\* Correctness.

TypeOK ==
    /\ coordinator \in BOOLEAN /\ authority \in BOOLEAN
    /\ disk \in {"awaiting-start", "starting", "active", "terminal"}
    /\ record \in {"none", "confirmed", "unknown"}
    /\ supervisor \in {"live", "closed", "gone", "dead"}
    /\ requests \in Seq(Operation) /\ Len(requests) <= MaxQueue
    /\ serving \in Operation \cup {"none"}
    /\ memory \in {"awaiting-start", "starting", "active", "terminal"}
    /\ writes \subseteq {"starting", "active", "terminal"}
    /\ publication \in {"none", "recording", "announced"}
    /\ cleanup \in {"none", "confirmed", "unknown"}
    /\ start \in {"none", "authority", "starting", "spawned", "identified", "unready", "unpublished",
                  "active", "returned", "rejected"}
    /\ leader \in BOOLEAN /\ settling \in BOOLEAN /\ stopping \in BOOLEAN
    /\ stop \in [Caller -> {"idle", "killing", "reaping", "waiting", "done"}]
    /\ child \in Alive \cup {"none", "left", "done", "failed"} /\ stragglers \in BOOLEAN
    /\ manifest \in {"none", "awaiting-start", "starting", "active", "terminal"}
    /\ reports \subseteq {"current", "overtaken"}

\* Somebody was told that the execution is over, and not by an inspection a start overtook.
Over == "current" \in reports

Work ==
    IF child = "working" \/ stragglers THEN "working"
    ELSE IF child \in {"done", "failed"} /\ settling THEN "ended"
    ELSE "idle"

Promise == INSTANCE WorkerPromise WITH work <- Work, over <- Over

\* inspect, publishTerminal, startExecution: whatever is lost or runs late, an execution of which
\* a reader was told that it is over has no worker, and will have none. One answer is excepted:
\* that of an inspection which read a manifest without a start, and looked for the supervisor
\* when a start had been published and the supervisor had died. (docs/M3_PRODUCTION_CONTRACT.md:621,
\* "absent supervisor plus authenticated `awaiting-start` proves no worker launch was authorized",
\* does not know it.)
KeepsPromise == Promise!Spec

\* coordinatorClosed, terminateExecution: once the coordinator is gone its worker is stopped and
\* no process of the start outlives it, unless the supervisor dies first or one case occurs:
\* the start was rejected by the shutdown itself after its host had proved ready, and nobody
\* launches or stops that host. ("Coordinator-pipe loss triggers cleanup without waiting for
\* lease expiry", packages/execution-host/README.md:19, knows no such case.)
LossIsCleanedUp ==
    ~coordinator ~> \/ child \notin Alive \/ supervisor = "dead"
                    \/ start = "rejected" /\ child = "ready"

\* serveNextSocket: a request, whatever the start and a shutdown do meanwhile, does not hold up
\* the ones behind it for good.
RequestsAreServed == serving # "none" ~> serving = "none" \/ supervisor # "live"

=============================================================================
