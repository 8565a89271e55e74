------------------------ MODULE ExecutionSupervisorProofs ------------------------
(***************************************************************************)
(* The supervisor keeps the promise of WorkerPromise however many requests *)
(* wait and however its activities interleave at their awaits.             *)
(*                                                                         *)
(* A confirmed cleanup is decided in one activity and recorded later,      *)
(* while a start may still be under way. The invariant says why that start *)
(* launches nothing (CannotWork), and why a supervisor that is gone before *)
(* it published a start has spawned nothing (DiskSound).                   *)
(*                                                                         *)
(* The second half is about Observations, the events of one execution on   *)
(* their way from the runtime host to the drive of the coordinator. The    *)
(* invariant relates at every step what was emitted to what the supervisor *)
(* retains (Accounted), what the terminal record holds (RecordSound) and   *)
(* what the drive took, polled and has still to poll (DriveSound).         *)
(***************************************************************************)
EXTENDS ExecutionSupervisor, Observations, SequenceTheorems, WellFoundedInduction, TLAPS

\* How far the runtime host may have come at each place of startExecution.
HostSound ==
    /\ start \in {"none", "authority", "starting"} => child = "none"
    /\ start \in {"spawned", "identified"} => child \in {"spawned", "ready", "left", "failed"}
    /\ start \in {"unready", "unpublished"} => child \in {"left", "failed"}
    /\ start = "rejected" => child \in {"ready", "left", "failed"}
    /\ start = "active" => child \in {"ready", "left"}
    /\ start = "returned" =>
          IF settling THEN child \in {"working", "left", "done", "failed"} ELSE child = "none"
    /\ settling => start = "returned"
    /\ stragglers => settling /\ child \in {"done", "failed"}
    /\ leader => child # "none"

\* A start is published before it spawns, and is the request being served until it ends.
DiskSound ==
    /\ memory = "awaiting-start" => start \in {"none", "authority"}
    /\ disk = "awaiting-start" =>
          \/ start \in {"none", "authority"}
          \/ start = "starting" /\ (Running => "starting" \in writes)
          \/ start = "returned" /\ child = "none"
    /\ start \notin {"none", "returned", "rejected"} => serving = "authorize"

\* Nothing is at work, and nothing that is under way will launch it: the host has exited, or
\* the start will find the supervisor stopping, or no start began and none will.
CannotWork ==
    /\ child # "working" /\ ~stragglers
    /\ \/ child \in {"left", "failed", "done"}
       \/ stopping /\ start # "active"
       \/ start = "returned"
       \/ start = "none" /\ (serving = "terminate" \/ memory = "terminal")

\* One cleanup is decided, then recorded; a termination ends when it was.
PublicationSound ==
    /\ record # "none" => publication = "announced" /\ record = cleanup
    /\ publication = "none" <=> cleanup = "none"
    /\ publication = "announced" /\ start = "none" => memory = "terminal"
    /\ cleanup = "confirmed" => CannotWork
    /\ \A caller \in Caller :
          /\ stop[caller] = "done" => publication = "announced"
          /\ stop[caller] \in {"killing", "reaping"} => leader

IInv == TypeOK /\ HostSound /\ DiskSound /\ PublicationSound

\* What the records and the supervisor show of an execution that is over for good: a confirmed
\* cleanup, or a start that was never published and no longer can be.
Certain == record = "confirmed" \/ (~Running /\ disk = "awaiting-start")

Evidence == INSTANCE WorkerPromise WITH work <- Work, over <- Certain

\* What a reader was told rests on that, unless a start overtook its inspection.
ReportsSound == "current" \in reports => Certain

-----------------------------------------------------------------------------
\* Serving takes the first of the requests that wait.
LEMMA Served ==
    ASSUME NEW operation \in Operation, Serve(operation),
           requests \in Seq(Operation), Len(requests) <= MaxQueue
    PROVE  /\ requests' \in Seq(Operation) /\ Len(requests') <= MaxQueue
           /\ serving = "none" /\ serving' = operation
BY QueueBound DEF Serve

\* The start is published before anything is spawned.
LEMMA AuthorityReadStep ==
    ASSUME IInv, AuthorityRead,
           Running /\ UNCHANGED <<outside, records, supervisor, requests, stopping>>
    PROVE  IInv'
<1> USE DEF AuthorityRead, PublishManifest, StartMoves, outside, records, terminal, starting,
            process, Caller, Alive, Running
<1>1. TypeOK'
  BY DEF IInv, TypeOK, HostSound
<1>2. HostSound'
  BY DEF IInv, TypeOK, HostSound, PublicationSound
<1>3. DiskSound'
  BY DEF IInv, TypeOK, HostSound, DiskSound
<1>4. PublicationSound'
  BY DEF IInv, TypeOK, HostSound, DiskSound, PublicationSound, CannotWork
<1> QED  BY <1>1, <1>2, <1>3, <1>4 DEF IInv

\* A host is spawned once the start is on disk.
LEMMA SpawnStep ==
    ASSUME IInv, Spawn,
           Running /\ UNCHANGED <<outside, records, supervisor, requests, stopping>>
    PROVE  IInv'
<1> USE DEF Spawn, StartMoves, outside, records, terminal, starting, process, Caller, Alive, Running
<1>1. TypeOK'
  BY DEF IInv, TypeOK, HostSound
<1>2. HostSound'
  BY DEF IInv, TypeOK, HostSound, PublicationSound
<1>3. DiskSound'
  BY DEF IInv, TypeOK, HostSound, DiskSound
<1>4. PublicationSound'
  BY DEF IInv, TypeOK, HostSound, DiskSound, PublicationSound, CannotWork
<1> QED  BY <1>1, <1>2, <1>3, <1>4 DEF IInv

\* A host with an identity can be signalled.
LEMMA IdentifyStep ==
    ASSUME IInv, Identify,
           Running /\ UNCHANGED <<outside, records, supervisor, requests, stopping>>
    PROVE  IInv'
<1> USE DEF Identify, StartMoves, outside, records, terminal, starting, process, Caller, Alive,
            Running
<1>1. TypeOK'
  <2>1. {coordinator', authority', leader', settling', stopping', stragglers'} \subseteq BOOLEAN
    BY DEF IInv, TypeOK
  <2> QED  BY <2>1 DEF IInv, TypeOK
<1>2. HostSound'
  BY DEF IInv, TypeOK, HostSound, PublicationSound
<1>3. DiskSound'
  BY DEF IInv, TypeOK, HostSound, DiskSound
<1>4. PublicationSound'
  BY DEF IInv, TypeOK, HostSound, DiskSound, PublicationSound, CannotWork
<1> QED  BY <1>1, <1>2, <1>3, <1>4 DEF IInv

\* A supervisor that is stopping goes no further than a host that is ready.
LEMMA HostReadyStep ==
    ASSUME IInv, HostReady,
           Running /\ UNCHANGED <<outside, records, supervisor, requests, stopping>>
    PROVE  IInv'
<1> USE DEF HostReady, PublishManifest, StartMoves, outside, records, terminal, starting,
            process, Caller, Alive, Running
<1>1. TypeOK'
  <2>1. /\ UNCHANGED <<outside, records, supervisor, requests, serving, publication, cleanup, leader, settling,
                      stopping, stop, process>>
        /\ start' \in {"rejected", "active"} /\ memory' \in {memory, "active"}
        /\ writes' \in {writes, writes \cup {"active"}}
    OBVIOUS
  <2> HIDE DEF HostReady
  <2> QED  BY <2>1 DEF IInv, TypeOK
<1>2. HostSound'
  BY DEF IInv, TypeOK, HostSound, PublicationSound
<1>3. DiskSound'
  BY DEF IInv, TypeOK, HostSound, DiskSound
<1>4. PublicationSound'
  BY DEF IInv, TypeOK, HostSound, DiskSound, PublicationSound, CannotWork
<1> QED  BY <1>1, <1>2, <1>3, <1>4 DEF IInv

\* A host that was killed before its launch worked on nothing.
LEMMA HostUnreadyStep ==
    ASSUME IInv, HostUnready,
           Running /\ UNCHANGED <<outside, records, supervisor, requests, stopping>>
    PROVE  IInv'
<1> USE DEF HostUnready, Exit, StartMoves, outside, records, terminal, starting, process, Caller,
            Alive, Running
<1>1. TypeOK'
  BY DEF IInv, TypeOK, HostSound
<1>2. HostSound'
  BY DEF IInv, TypeOK, HostSound, PublicationSound
<1>3. DiskSound'
  BY DEF IInv, TypeOK, HostSound, DiskSound
<1>4. PublicationSound'
  BY DEF IInv, TypeOK, HostSound, DiskSound, PublicationSound, CannotWork
<1> QED  BY <1>1, <1>2, <1>3, <1>4 DEF IInv

\* The start of a host that was killed publishes its own cleanup.
LEMMA RejectUnreadyStep ==
    ASSUME IInv, RejectUnready,
           Running /\ UNCHANGED <<outside, records, supervisor, requests, stopping>>
    PROVE  IInv'
<1> USE DEF RejectUnready, PublishTerminal, GroupCleanup, Published, Terminal, StartMoves,
            outside, records, terminal, starting, process, Caller, Alive, Running
<1>1. TypeOK'
  <2>1. /\ UNCHANGED <<outside, records, supervisor, requests, serving, memory, writes, leader, settling, stopping,
                      stop, process>>
        /\ start' \in {"unpublished", "rejected"}
        /\ publication' \in {publication, "recording"} /\ cleanup' \in {cleanup, "confirmed", "unknown"}
    OBVIOUS
  <2> HIDE DEF RejectUnready
  <2> QED  BY <2>1 DEF IInv, TypeOK
<1>2. HostSound'
  BY DEF IInv, TypeOK, HostSound, PublicationSound
<1>3. DiskSound'
  BY DEF IInv, TypeOK, HostSound, DiskSound
<1>4. PublicationSound'
  BY DEF IInv, TypeOK, HostSound, DiskSound, PublicationSound, CannotWork
<1> QED  BY <1>1, <1>2, <1>3, <1>4 DEF IInv

\* Only here does a worker begin: with a start that no confirmed cleanup knows of.
LEMMA LaunchStep ==
    ASSUME IInv, Launch,
           Running /\ UNCHANGED <<outside, records, supervisor, requests, stopping>>
    PROVE  IInv'
<1> USE DEF Launch, outside, records, terminal, starting, process, Caller, Alive, Running
<1>1. TypeOK'
  BY DEF IInv, TypeOK, HostSound
<1>2. HostSound'
  BY DEF IInv, TypeOK, HostSound, PublicationSound
<1>3. DiskSound'
  BY DEF IInv, TypeOK, HostSound, DiskSound
<1>4. PublicationSound'
  BY DEF IInv, TypeOK, HostSound, DiskSound, PublicationSound, CannotWork
<1> QED  BY <1>1, <1>2, <1>3, <1>4 DEF IInv

\* An answered start has ended.
LEMMA AuthorizedStep ==
    ASSUME IInv, Authorized,
           Running /\ UNCHANGED <<outside, records, supervisor, requests, stopping>>
    PROVE  IInv'
<1> USE DEF Authorized, outside, records, terminal, starting, process, Caller, Alive, Running
<1>1. TypeOK'
  BY DEF IInv, TypeOK, HostSound
<1>2. HostSound'
  BY DEF IInv, TypeOK, HostSound, PublicationSound
<1>3. DiskSound'
  BY DEF IInv, TypeOK, HostSound, DiskSound
<1>4. PublicationSound'
  BY DEF IInv, TypeOK, HostSound, DiskSound, PublicationSound, CannotWork
<1> QED  BY <1>1, <1>2, <1>3, <1>4 DEF IInv

\* A settlement confirms the cleanup of a worker that has ended.
LEMMA SettleExecutionStep ==
    ASSUME IInv, SettleExecution,
           Running /\ UNCHANGED <<outside, records, supervisor, requests, stopping>>
    PROVE  IInv'
<1> USE DEF SettleExecution, PublishTerminal, GroupCleanup, outside, records, terminal, starting,
            process, Caller, Alive, Running
<1>1. TypeOK'
  BY DEF IInv, TypeOK, HostSound
<1>2. HostSound'
  BY DEF IInv, TypeOK, HostSound, PublicationSound
<1>3. DiskSound'
  BY DEF IInv, TypeOK, HostSound, DiskSound
<1>4. PublicationSound'
  BY DEF IInv, TypeOK, HostSound, DiskSound, PublicationSound, CannotWork
<1> QED  BY <1>1, <1>2, <1>3, <1>4 DEF IInv

\* What is killed works no more.
LEMMA KillGroupStep ==
    ASSUME IInv, NEW caller \in Caller, KillGroup(caller),
           Running /\ UNCHANGED <<outside, records, supervisor, requests, stopping>>
    PROVE  IInv'
<1> USE DEF KillGroup, Exit, StopMoves, outside, records, terminal, starting, process, Caller,
            Alive, Running
<1>1. TypeOK'
  <2>1. {coordinator', authority', leader', settling', stopping', stragglers'} \subseteq BOOLEAN
    BY DEF IInv, TypeOK
  <2> QED  BY <2>1 DEF IInv, TypeOK
<1>2. HostSound'
  BY DEF IInv, TypeOK, HostSound, PublicationSound
<1>3. DiskSound'
  BY DEF IInv, TypeOK, HostSound, DiskSound
<1>4. PublicationSound'
  BY DEF IInv, TypeOK, HostSound, DiskSound, PublicationSound, CannotWork
<1> QED  BY <1>1, <1>2, <1>3, <1>4 DEF IInv

\* A host that was reaped has exited, so nothing launches it.
LEMMA ReapStep ==
    ASSUME IInv, NEW caller \in Caller, Reap(caller),
           Running /\ UNCHANGED <<outside, records, supervisor, requests, stopping>>
    PROVE  IInv'
<1> USE DEF Reap, PublishTerminal, GroupCleanup, StopMoves, outside, records, terminal, starting,
            process, Caller, Alive, Running
<1>1. TypeOK'
  BY DEF IInv, TypeOK, HostSound
<1>2. HostSound'
  BY DEF IInv, TypeOK, HostSound, PublicationSound
<1>3. DiskSound'
  BY DEF IInv, TypeOK, HostSound, DiskSound
<1>4. PublicationSound'
  BY DEF IInv, TypeOK, HostSound, DiskSound, PublicationSound, CannotWork
<1> QED  BY <1>1, <1>2, <1>3, <1>4 DEF IInv

\* A termination ends once the terminal record is published.
LEMMA TerminalPublishedStep ==
    ASSUME IInv, NEW caller \in Caller, TerminalPublished(caller),
           Running /\ UNCHANGED <<outside, records, supervisor, requests, stopping>>
    PROVE  IInv'
<1> USE DEF TerminalPublished, Published, Terminal, StopMoves, outside, records, terminal,
            starting, process, Caller, Alive, Running
<1>1. TypeOK'
  BY DEF IInv, TypeOK, HostSound
<1>2. HostSound'
  BY DEF IInv, TypeOK, HostSound, PublicationSound
<1>3. DiskSound'
  BY DEF IInv, TypeOK, HostSound, DiskSound
<1>4. PublicationSound'
  BY DEF IInv, TypeOK, HostSound, DiskSound, PublicationSound, CannotWork
<1> QED  BY <1>1, <1>2, <1>3, <1>4 DEF IInv

\* A start begins when no other request is served.
LEMMA AuthorizeStep ==
    ASSUME IInv, Authorize,
           UNCHANGED <<outside, records, supervisor, stopping>>
    PROVE  IInv'
<1> USE DEF Authorize, outside, records, terminal, starting, process, Caller, Alive, Running
<1>1. /\ requests' \in Seq(Operation) /\ Len(requests') <= MaxQueue
      /\ serving = "none" /\ serving' \in Operation
  <2>1. "authorize" \in Operation
    BY DEF Operation
  <2> QED  BY <2>1, Served DEF IInv, TypeOK
<1>2. TypeOK'
  BY <1>1 DEF IInv, TypeOK, HostSound
<1>3. HostSound'
  BY DEF IInv, TypeOK, HostSound, PublicationSound
<1>4. DiskSound'
  BY <1>1 DEF IInv, TypeOK, HostSound, DiskSound, Serve
<1>5. PublicationSound'
  BY <1>1 DEF IInv, TypeOK, HostSound, DiskSound, PublicationSound, CannotWork, Serve
<1> QED  BY <1>2, <1>3, <1>4, <1>5 DEF IInv

\* A termination that finds no start confirms the cleanup, and keeps a start waiting until it is recorded.
LEMMA TerminateRequestedStep ==
    ASSUME IInv, TerminateRequested,
           UNCHANGED <<outside, records, supervisor, stopping>>
    PROVE  IInv'
<1> USE DEF TerminateRequested, Terminate, PublishTerminal, Terminal, StopMoves, outside,
            records, terminal, starting, process, Caller, Alive, Running
<1>1. /\ requests' \in Seq(Operation) /\ Len(requests') <= MaxQueue
      /\ serving = "none" /\ serving' \in Operation
  <2>1. "terminate" \in Operation
    BY DEF Operation
  <2> QED  BY <2>1, Served DEF IInv, TypeOK
<1>2. TypeOK'
  BY <1>1 DEF IInv, TypeOK, HostSound
<1>3. HostSound'
  BY DEF IInv, TypeOK, HostSound, PublicationSound
<1>4. DiskSound'
  BY <1>1 DEF IInv, TypeOK, HostSound, DiskSound, Serve
<1>5. PublicationSound'
  BY <1>1 DEF IInv, TypeOK, HostSound, DiskSound, PublicationSound, CannotWork, Serve
<1> QED  BY <1>2, <1>3, <1>4, <1>5 DEF IInv

\* A release changes nothing yet.
LEMMA ReleaseStep ==
    ASSUME IInv, Release,
           UNCHANGED <<outside, records, supervisor, stopping>>
    PROVE  IInv'
<1> USE DEF Release, outside, records, terminal, starting, process, Caller, Alive, Running
<1>1. /\ requests' \in Seq(Operation) /\ Len(requests') <= MaxQueue
      /\ serving = "none" /\ serving' \in Operation
  <2>1. "release" \in Operation
    BY DEF Operation
  <2> QED  BY <2>1, Served DEF IInv, TypeOK
<1>2. TypeOK'
  BY <1>1 DEF IInv, TypeOK, HostSound
<1>3. HostSound'
  BY DEF IInv, TypeOK, HostSound, PublicationSound
<1>4. DiskSound'
  BY <1>1 DEF IInv, TypeOK, HostSound, DiskSound, Serve
<1>5. PublicationSound'
  BY <1>1 DEF IInv, TypeOK, HostSound, DiskSound, PublicationSound, CannotWork, Serve
<1> QED  BY <1>2, <1>3, <1>4, <1>5 DEF IInv

\* An answered termination has left a terminal manifest, which begins no start.
LEMMA TerminatedStep ==
    ASSUME IInv, Answering
    PROVE  IInv'
<1> USE DEF Answering, Terminated, StopMoves, outside, records, terminal, starting, process,
            Caller, Alive, Running
<1>1. TypeOK'
  BY DEF IInv, TypeOK, HostSound
<1>2. HostSound'
  BY DEF IInv, TypeOK, HostSound, PublicationSound
<1>3. DiskSound'
  BY DEF IInv, TypeOK, HostSound, DiskSound
<1>4. PublicationSound'
  BY DEF IInv, TypeOK, HostSound, DiskSound, PublicationSound, CannotWork
<1> QED  BY <1>1, <1>2, <1>3, <1>4 DEF IInv

\* The record shows the cleanup that was decided.
LEMMA TerminalRecordedStep ==
    ASSUME IInv, TerminalRecorded
    PROVE  IInv'
<1> USE DEF TerminalRecorded, PublishManifest, outside, records, terminal, starting, process,
            Caller, Alive, Running
<1>1. TypeOK'
  BY DEF IInv, TypeOK, HostSound
<1>2. HostSound'
  BY DEF IInv, TypeOK, HostSound, PublicationSound
<1>3. DiskSound'
  BY DEF IInv, TypeOK, HostSound, DiskSound
<1>4. PublicationSound'
  BY DEF IInv, TypeOK, HostSound, DiskSound, PublicationSound, CannotWork
<1> QED  BY <1>1, <1>2, <1>3, <1>4 DEF IInv

\* A manifest that was written never shows again that no start was published.
LEMMA ManifestWrittenStep ==
    ASSUME IInv, NEW state \in {"starting", "active", "terminal"}, ManifestWritten(state)
    PROVE  IInv'
<1> USE DEF ManifestWritten, outside, records, terminal, starting, process, Caller, Alive, Running
<1>1. TypeOK'
  BY DEF IInv, TypeOK, HostSound
<1>2. HostSound'
  BY DEF IInv, TypeOK, HostSound, PublicationSound
<1>3. DiskSound'
  BY DEF IInv, TypeOK, HostSound, DiskSound
<1>4. PublicationSound'
  BY DEF IInv, TypeOK, HostSound, DiskSound, PublicationSound, CannotWork
<1> QED  BY <1>1, <1>2, <1>3, <1>4 DEF IInv

\* A shutdown may confirm the cleanup of a start that is under way: it stops the start at its host.
LEMMA CoordinatorClosedStep ==
    ASSUME IInv, CoordinatorClosed
    PROVE  IInv'
<1> USE DEF CoordinatorClosed, Shutdown, Terminate, PublishTerminal, Terminal, StopMoves,
            outside, records, terminal, starting, process, Caller, Alive, Running
<1>1. TypeOK'
  BY DEF IInv, TypeOK, HostSound
<1>2. HostSound'
  BY DEF IInv, TypeOK, HostSound, PublicationSound
<1>3. DiskSound'
  BY DEF IInv, TypeOK, HostSound, DiskSound
<1>4. PublicationSound'
  BY DEF IInv, TypeOK, HostSound, DiskSound, PublicationSound, CannotWork
<1> QED  BY <1>1, <1>2, <1>3, <1>4 DEF IInv

\* A released execution has its record.
LEMMA ReleasedStep ==
    ASSUME IInv, Released
    PROVE  IInv'
<1> USE DEF Released, Shutdown, Terminal, StopMoves, outside, records, terminal, starting,
            process, Caller, Alive, Running
<1>1. TypeOK'
  <2>1. /\ UNCHANGED <<outside, records, supervisor, requests, terminal, writes, starting, process>>
        /\ serving' = "none" /\ stopping' \in BOOLEAN
        /\ stop' \in {stop, [stop EXCEPT !["shutdown"] = "done"]}
    BY DEF IInv, TypeOK
  <2> HIDE DEF Released
  <2> QED  BY <2>1 DEF IInv, TypeOK
<1>2. HostSound'
  BY DEF IInv, TypeOK, HostSound, PublicationSound
<1>3. DiskSound'
  BY DEF IInv, TypeOK, HostSound, DiskSound
<1>4. PublicationSound'
  BY DEF IInv, TypeOK, HostSound, DiskSound, PublicationSound, CannotWork
<1> QED  BY <1>1, <1>2, <1>3, <1>4 DEF IInv

\* The endpoint goes.
LEMMA CloseServerStep ==
    ASSUME IInv, CloseServer
    PROVE  IInv'
<1> USE DEF CloseServer, outside, records, terminal, starting, process, Caller, Alive, Running
<1>1. TypeOK'
  BY QueueBound DEF IInv, TypeOK
<1>2. HostSound'
  BY DEF IInv, TypeOK, HostSound, PublicationSound
<1>3. DiskSound'
  BY DEF IInv, TypeOK, HostSound, DiskSound
<1>4. PublicationSound'
  BY DEF IInv, TypeOK, HostSound, DiskSound, PublicationSound, CannotWork
<1> QED  BY <1>1, <1>2, <1>3, <1>4 DEF IInv

\* What a supervisor leaves behind says whether it published a start.
LEMMA ExitsStep ==
    ASSUME IInv, Exits
    PROVE  IInv'
<1> USE DEF Exits, outside, records, terminal, starting, process, Caller, Alive, Running
<1>1. TypeOK'
  BY DEF IInv, TypeOK, HostSound
<1>2. HostSound'
  BY DEF IInv, TypeOK, HostSound, PublicationSound
<1>3. DiskSound'
  BY DEF IInv, TypeOK, HostSound, DiskSound
<1>4. PublicationSound'
  BY DEF IInv, TypeOK, HostSound, DiskSound, PublicationSound, CannotWork
<1> QED  BY <1>1, <1>2, <1>3, <1>4 DEF IInv

\* So does what is left of one that was killed.
LEMMA DiesStep ==
    ASSUME IInv, Dies
    PROVE  IInv'
<1> USE DEF Dies, outside, records, terminal, starting, process, Caller, Alive, Running
<1>1. TypeOK'
  BY QueueBound DEF IInv, TypeOK
<1>2. HostSound'
  BY DEF IInv, TypeOK, HostSound, PublicationSound
<1>3. DiskSound'
  BY DEF IInv, TypeOK, HostSound, DiskSound
<1>4. PublicationSound'
  BY DEF IInv, TypeOK, HostSound, DiskSound, PublicationSound, CannotWork
<1> QED  BY <1>1, <1>2, <1>3, <1>4 DEF IInv

\* A worker may leave stragglers when it ends, never before.
LEMMA HostStepsStep ==
    ASSUME IInv, HostSteps
    PROVE  IInv'
<1> USE DEF HostSteps, Exit, outside, records, terminal, starting, process, Caller, Alive, Running
<1>1. TypeOK'
  BY DEF IInv, TypeOK, HostSound
<1>2. HostSound'
  BY DEF IInv, TypeOK, HostSound, PublicationSound
<1>3. DiskSound'
  BY DEF IInv, TypeOK, HostSound, DiskSound
<1>4. PublicationSound'
  BY DEF IInv, TypeOK, HostSound, DiskSound, PublicationSound, CannotWork
<1> QED  BY <1>1, <1>2, <1>3, <1>4 DEF IInv

\* A host that waits for its launch exits with its supervisor.
LEMMA LaunchPipeClosesStep ==
    ASSUME IInv, LaunchPipeCloses
    PROVE  IInv'
<1> USE DEF LaunchPipeCloses, Exit, outside, records, terminal, starting, process, Caller, Alive,
            Running
<1>1. TypeOK'
  BY DEF IInv, TypeOK, HostSound
<1>2. HostSound'
  BY DEF IInv, TypeOK, HostSound, PublicationSound
<1>3. DiskSound'
  BY DEF IInv, TypeOK, HostSound, DiskSound
<1>4. PublicationSound'
  BY DEF IInv, TypeOK, HostSound, DiskSound, PublicationSound, CannotWork
<1> QED  BY <1>1, <1>2, <1>3, <1>4 DEF IInv

\* The authority to start is no part of the promise.
LEMMA WriteAuthorityStep ==
    ASSUME IInv, WriteAuthority
    PROVE  IInv'
<1> USE DEF WriteAuthority, outside, readers, records, terminal, starting, process, Caller, Alive, Running
<1>1. TypeOK'
  BY DEF IInv, TypeOK, HostSound
<1>2. HostSound'
  BY DEF IInv, TypeOK, HostSound, PublicationSound
<1>3. DiskSound'
  BY DEF IInv, TypeOK, HostSound, DiskSound
<1>4. PublicationSound'
  BY DEF IInv, TypeOK, HostSound, DiskSound, PublicationSound, CannotWork
<1> QED  BY <1>1, <1>2, <1>3, <1>4 DEF IInv

\* Nor is the coordinator.
LEMMA CoordinatorDiesStep ==
    ASSUME IInv, CoordinatorDies
    PROVE  IInv'
<1> USE DEF CoordinatorDies, outside, readers, records, terminal, starting, process, Caller, Alive, Running
<1>1. TypeOK'
  <2>1. {coordinator', authority', leader', settling', stopping', stragglers'} \subseteq BOOLEAN
    BY DEF IInv, TypeOK
  <2> QED  BY <2>1 DEF IInv, TypeOK
<1>2. HostSound'
  BY DEF IInv, TypeOK, HostSound, PublicationSound
<1>3. DiskSound'
  BY DEF IInv, TypeOK, HostSound, DiskSound
<1>4. PublicationSound'
  BY DEF IInv, TypeOK, HostSound, DiskSound, PublicationSound, CannotWork
<1> QED  BY <1>1, <1>2, <1>3, <1>4 DEF IInv

\* Nor is a request that waits.
LEMMA RequestStep ==
    ASSUME IInv, NEW operation \in Operation, Request(operation)
    PROVE  IInv'
<1> USE DEF Request, outside, records, terminal, starting, process, Caller, Alive, Running
<1>1. requests' \in Seq(Operation) /\ Len(requests') <= MaxQueue
  BY QueueBound DEF IInv, TypeOK
<1>2. TypeOK'
  BY <1>1 DEF IInv, TypeOK, HostSound
<1>3. HostSound'
  BY DEF IInv, TypeOK, HostSound, PublicationSound
<1>4. DiskSound'
  BY <1>1 DEF IInv, TypeOK, HostSound, DiskSound
<1>5. PublicationSound'
  BY <1>1 DEF IInv, TypeOK, HostSound, DiskSound, PublicationSound, CannotWork
<1> QED  BY <1>2, <1>3, <1>4, <1>5 DEF IInv

\* Reading changes nothing but what is read and told.
LEMMA ReadingStep ==
    ASSUME IInv, Reading
    PROVE  IInv'
<1> USE DEF Reading, InspectManifest, InspectAbsent, InspectTerminal, ReadTerminal, Collect,
            InspectionEnds, records, terminal, starting, process, Caller, Alive, Running
<1>1. TypeOK'
  <2>1. /\ manifest' \in {"none", "awaiting-start", "starting", "active", "terminal"}
        /\ reports' \subseteq {"current", "overtaken"}
    BY DEF IInv, TypeOK
  <2> QED  BY <2>1 DEF IInv, TypeOK
<1>2. HostSound' /\ DiskSound' /\ PublicationSound'
  BY DEF IInv, HostSound, DiskSound, PublicationSound, CannotWork
<1> QED  BY <1>1, <1>2 DEF IInv

-----------------------------------------------------------------------------
\* The invariant holds of a supervisor that waits for its start.
LEMMA Initially == Init => IInv
<1> SUFFICES ASSUME Init PROVE IInv
  OBVIOUS
<1> USE DEF Init
<1>1. TypeOK
  <2>1. requests \in Seq(Operation) /\ Len(requests) <= MaxQueue
    BY QueueBound
  <2>2. stop \in [Caller -> {"idle", "killing", "reaping", "waiting", "done"}]
    OBVIOUS
  <2> QED  BY <2>1, <2>2 DEF TypeOK
<1>2. HostSound /\ DiskSound /\ PublicationSound
  BY DEF HostSound, DiskSound, PublicationSound
<1> QED  BY <1>1, <1>2 DEF IInv

\* Every step keeps it.
LEMMA Inductive == IInv /\ [Next]_vars => IInv'
<1> SUFFICES ASSUME IInv, [Next]_vars PROVE IInv'
  OBVIOUS
<1>1. CASE Starting
  BY <1>1, AuthorityReadStep, SpawnStep, IdentifyStep, HostReadyStep, HostUnreadyStep,
       RejectUnreadyStep, LaunchStep, AuthorizedStep, SettleExecutionStep DEF Starting
<1>2. ASSUME NEW caller \in Caller, Stopping(caller) PROVE IInv'
  BY <1>2, KillGroupStep, ReapStep, TerminalPublishedStep DEF Stopping
<1>3. CASE Serving
  BY <1>3, AuthorizeStep, TerminateRequestedStep, ReleaseStep DEF Serving
<1>4. CASE Writing
  BY <1>4, TerminalRecordedStep, ManifestWrittenStep DEF Writing
<1>5. CASE Answering \/ CoordinatorClosed \/ Released \/ CloseServer \/ Exits \/ Dies
  BY <1>5, TerminatedStep, CoordinatorClosedStep, ReleasedStep, CloseServerStep, ExitsStep, DiesStep
<1>6. CASE HostSteps \/ LaunchPipeCloses \/ WriteAuthority \/ CoordinatorDies
  BY <1>6, HostStepsStep, LaunchPipeClosesStep, WriteAuthorityStep, CoordinatorDiesStep
<1>7. ASSUME NEW operation \in Operation, Request(operation) PROVE IInv'
  BY <1>7, RequestStep
<1>8. CASE Reading
  BY <1>8, ReadingStep
<1>9. CASE UNCHANGED vars
  <2> USE <1>9 DEF vars, outside, records, terminal, starting, process, Running, Caller, Alive
  <2>1. TypeOK'
    BY DEF IInv, TypeOK
  <2>2. HostSound' /\ DiskSound' /\ PublicationSound'
    BY DEF IInv, HostSound, DiskSound, PublicationSound, CannotWork
  <2> QED  BY <2>1, <2>2 DEF IInv
<1> QED  BY <1>1, <1>2, <1>3, <1>4, <1>5, <1>6, <1>7, <1>8, <1>9 DEF Next

\* IInv holds in every state.
LEMMA Invariance == Spec => []IInv
BY Initially, Inductive, PTL DEF Spec

\* Every state of a supervisor has the declared types, whatever interleaves.
THEOREM TypeCorrect == Spec => []TypeOK
BY Invariance, PTL DEF IInv

-----------------------------------------------------------------------------
\* The supervisor's own activities: a worker begins in Launch, when nothing shows that the execution
\* is over; KillGroup may end it; a record may only show that it is over when it is.
LEMMA ActivityKeepsEvidence ==
    ASSUME IInv, Running, UNCHANGED <<records, supervisor>>,
           \/ AuthorityRead \/ Spawn \/ Identify \/ HostReady \/ HostUnready \/ RejectUnready
           \/ Launch \/ Authorized \/ SettleExecution
           \/ \E caller \in Caller : KillGroup(caller) \/ Reap(caller) \/ TerminalPublished(caller)
    PROVE  Evidence!Next \/ UNCHANGED Evidence!promiseVars
<1> USE DEF Work, Certain, Running, records, starting, process, terminal
<1>1. UNCHANGED Certain
  OBVIOUS
<1>2. CASE Launch
  BY <1>1, <1>2 DEF Launch, IInv, HostSound, PublicationSound, CannotWork, DiskSound,
       Evidence!Next, Evidence!Launch, Evidence!promiseVars
<1>3. ASSUME NEW caller \in Caller, KillGroup(caller) PROVE Evidence!Next \/ UNCHANGED Evidence!promiseVars
  <2>1. CASE child = "working"
    <3>1. Work = "working" /\ Work' = "ended"
      BY <1>3, <2>1 DEF KillGroup, Exit, Alive, IInv, TypeOK, HostSound
    <3> QED  BY <1>1, <3>1 DEF Evidence!Next, Evidence!End
  <2>2. CASE child # "working"
    <3>1. Work' = Work
      BY <1>3, <2>2 DEF KillGroup, Exit, Alive, IInv, HostSound
    <3> QED  BY <1>1, <3>1 DEF Evidence!promiseVars
  <2> QED  BY <2>1, <2>2
<1>4. ASSUME \/ AuthorityRead \/ Spawn \/ Identify \/ HostReady \/ HostUnready \/ RejectUnready
             \/ Authorized \/ SettleExecution
             \/ \E caller \in Caller : Reap(caller) \/ TerminalPublished(caller)
      PROVE  UNCHANGED Evidence!promiseVars
  <2>1. Work' = Work
    BY <1>4 DEF AuthorityRead, Spawn, Identify, HostReady, HostUnready, RejectUnready, Authorized,
         SettleExecution,
         Reap, TerminalPublished, StartMoves, Exit, Alive, IInv, HostSound
  <2> QED  BY <1>1, <2>1 DEF Evidence!promiseVars
<1> QED  BY <1>2, <1>3, <1>4

\* What the others do: a record or an exit reports the execution over, and the host ends by itself.
LEMMA RestKeepsEvidence ==
    ASSUME IInv,
           \/ Serving \/ Answering \/ Writing \/ CoordinatorClosed \/ Released \/ CloseServer
           \/ Exits \/ Dies \/ HostSteps \/ LaunchPipeCloses \/ WriteAuthority \/ CoordinatorDies
           \/ \E operation \in Operation : Request(operation)
           \/ UNCHANGED vars
    PROVE  Evidence!Next \/ UNCHANGED Evidence!promiseVars
<1> USE DEF Work, Certain, Running, records, starting, process, terminal, outside
<1>1. CASE TerminalRecorded
  BY <1>1 DEF TerminalRecorded, PublishManifest, IInv, PublicationSound, CannotWork, Evidence!Next,
       Evidence!Report, Evidence!promiseVars
<1>2. CASE Exits \/ Dies
  BY <1>2 DEF Exits, Dies, IInv, DiskSound, HostSound, Evidence!Next, Evidence!Report,
       Evidence!promiseVars
<1>3. CASE HostSteps
  <2>1. UNCHANGED Certain
    BY <1>3 DEF HostSteps
  <2>2. CASE child = "working" /\ ~stragglers'
    <3>1. Work = "working" /\ Work' = "ended"
      BY <1>3, <2>2 DEF HostSteps, Alive, IInv, TypeOK, HostSound
    <3> QED  BY <2>1, <3>1 DEF Evidence!Next, Evidence!End
  <2>3. CASE ~(child = "working" /\ ~stragglers')
    <3>1. Work' = Work
      BY <1>3, <2>3 DEF HostSteps, Exit, IInv, HostSound
    <3> QED  BY <2>1, <3>1 DEF Evidence!promiseVars
  <2> QED  BY <2>2, <2>3
<1>4. CASE LaunchPipeCloses
  BY <1>4 DEF LaunchPipeCloses, Exit, IInv, HostSound, Evidence!promiseVars
<1>5. ASSUME \/ Serving \/ Answering \/ CoordinatorClosed \/ Released \/ CloseServer
             \/ (\E state \in {"starting", "active", "terminal"} : ManifestWritten(state))
             \/ WriteAuthority \/ CoordinatorDies
             \/ (\E operation \in Operation : Request(operation))
             \/ UNCHANGED vars
      PROVE  UNCHANGED Evidence!promiseVars
  <2>1. UNCHANGED <<child, stragglers, settling, record>> /\ Running' = Running
    BY <1>5 DEF Serving, Authorize, TerminateRequested, Release, Answering, Terminated,
         CoordinatorClosed, Released,
         Shutdown, CloseServer, ManifestWritten, WriteAuthority, CoordinatorDies, Request, vars
  <2>2. Running \/ disk' = disk
    BY <1>5 DEF Serving, Answering, CoordinatorClosed, Released, Shutdown, CloseServer,
         ManifestWritten, WriteAuthority,
         CoordinatorDies, Request, vars
  <2> QED  BY <2>1, <2>2 DEF Evidence!promiseVars
<1> QED  BY <1>1, <1>2, <1>3, <1>4, <1>5 DEF Writing

\* Reading tells only what is certain.
LEMMA ReadingReports ==
    ASSUME IInv, ReportsSound, Reading
    PROVE  UNCHANGED <<Work, Certain>> /\ ReportsSound'
<1> USE DEF Reading, InspectManifest, InspectAbsent, InspectTerminal, ReadTerminal, Collect,
            InspectionEnds, records, starting, process
<1>1. UNCHANGED <<Work, Certain>>
  BY DEF Work, Certain, Running
<1>2. "current" \in reports' => "current" \in reports \/ Certain
  BY DEF Certain, Running
<1> QED  BY <1>1, <1>2 DEF ReportsSound

\* Every other step leaves the readers alone.
LEMMA OthersRead ==
    ASSUME [Next]_vars, ~Reading PROVE UNCHANGED <<manifest, reports>>
BY DEF Next, Starting, Stopping, Serving, Answering, Writing, TerminalRecorded, ManifestWritten,
       CoordinatorClosed, Released, Shutdown, CloseServer, Exits, Dies, HostSteps, LaunchPipeCloses,
       WriteAuthority, CoordinatorDies, Request, outside, readers, vars

\* Every other step launches a worker, ends it, or brings what shows that it is over.
LEMMA StepsKeepEvidence ==
    ASSUME IInv, [Next]_vars, ~Reading
    PROVE  Evidence!Next \/ UNCHANGED Evidence!promiseVars
BY ActivityKeepsEvidence, RestKeepsEvidence DEF Next, Starting, Stopping

\* What is certain of an execution has no worker.
LEMMA CertainIsIdle == IInv /\ Certain => Work # "working"
BY DEF IInv, DiskSound, HostSound, PublicationSound, CannotWork, Certain, Work

\* What was reported stays certain.
LEMMA ReportsStaySound == IInv /\ ReportsSound /\ [Next]_vars => ReportsSound'
<1> SUFFICES ASSUME IInv, ReportsSound, [Next]_vars, ~Reading PROVE ReportsSound'
  BY ReadingReports
<1>1. Certain => Certain'
  BY StepsKeepEvidence DEF Evidence!Next, Evidence!Launch, Evidence!End, Evidence!Report,
       Evidence!promiseVars
<1> QED  BY <1>1, OthersRead DEF ReportsSound

\* A step is one of the promise, or none: only a reader's adds to what was reported.
LEMMA PromiseStep ==
    IInv /\ ReportsSound /\ [Next]_vars => [Promise!Next]_Promise!promiseVars
<1> SUFFICES ASSUME IInv, ReportsSound, [Next]_vars
             PROVE  Promise!Next \/ UNCHANGED Promise!promiseVars
  OBVIOUS
<1>1. CASE Reading
  <2>1. Work' = Work /\ (Over => Over') /\ ReportsSound' /\ UNCHANGED Certain
    BY <1>1, ReadingReports DEF Over, Reading, InspectManifest, InspectAbsent, InspectTerminal,
         ReadTerminal, Collect, InspectionEnds
  <2>2. CASE Over'
    <3>1. Certain
      BY <2>1, <2>2 DEF ReportsSound, Over
    <3> QED  BY <2>1, <2>2, <3>1, CertainIsIdle DEF Promise!Next, Promise!Report
  <2>3. CASE ~Over'
    BY <2>1, <2>3 DEF Promise!promiseVars, Over
  <2> QED  BY <2>2, <2>3
<1>2. CASE ~Reading
  <2>1. Over' = Over
    BY <1>2, OthersRead DEF Over
  <2>2. CASE Evidence!Launch
    BY <2>1, <2>2 DEF Evidence!Launch, Promise!Next, Promise!Launch, Over, ReportsSound
  <2>3. CASE Evidence!End
    BY <2>1, <2>3 DEF Evidence!End, Promise!Next, Promise!End
  <2>4. CASE Evidence!Report \/ UNCHANGED Evidence!promiseVars
    BY <2>1, <2>4 DEF Evidence!Report, Evidence!promiseVars, Promise!promiseVars
  <2> QED  BY <1>2, <2>2, <2>3, <2>4, StepsKeepEvidence DEF Evidence!Next
<1> QED  BY <1>1, <1>2

\* inspect, publishTerminal, startExecution: whatever is lost or runs late, however many requests
\* wait, an execution of which a reader was told that it is over, by its terminal record or by an
\* inspection that no start overtook, has no worker and will have none.
THEOREM SupervisorKeepsPromise == Spec => KeepsPromise
<1>1. Init => ReportsSound /\ Promise!Init
  BY DEF Init, ReportsSound, Promise!Init, Work, Over
<1>2. Spec => []ReportsSound
  BY <1>1, Invariance, ReportsStaySound, PTL DEF Spec
<1> QED  BY <1>1, <1>2, Invariance, PromiseStep, PTL DEF Spec, KeepsPromise, Promise!Spec

-----------------------------------------------------------------------------
(* Sequences of events *)

\* What is kept of an event; a required one stands for no log.
RetainedEvent ==
    {e \in [kind : {"log", "summary"} \cup Required, dropped : Nat, ordinal : Nat] :
        e.kind \in Required => e.dropped = 0}

\* Numbers are well founded.
LEMMA LeastNumber ==
    ASSUME NEW S \in SUBSET Nat, S # {}
    PROVE  \E n \in S : \A m \in S : n <= m
<1>1. PICK n \in S : \A m \in S : <<m, n>> \notin OpToRel(<, Nat)
  BY WFMin, NatLessThanWellFounded, Zenon
<1>2. \A m \in S : ~(m < n)
  BY <1>1, Zenon DEF OpToRel
<1> QED  BY <1>2

\* What holds of the empty sequence and survives an Append holds of every sequence.
LEMMA SequencesGrow ==
    ASSUME NEW E, NEW T \in SUBSET Seq(E), <<>> \in T, \A s \in T, e \in E : Append(s, e) \in T
    PROVE  T = Seq(E)
<1> DEFINE Lengths == {n \in Nat : \E s \in Seq(E) : s \notin T /\ Len(s) = n}
<1> SUFFICES ASSUME NEW t \in Seq(E), t \notin T PROVE FALSE
  OBVIOUS
<1>1. Len(t) \in Lengths
  BY LenProperties
<1>2. PICK n \in Lengths : \A m \in Lengths : n <= m
  <2>1. Lengths \in SUBSET Nat /\ Lengths # {}
    BY <1>1
  <2> HIDE DEF Lengths
  <2> QED  BY <2>1, LeastNumber
<1>3. PICK s \in Seq(E) : s \notin T /\ Len(s) = n
  OBVIOUS
<1>4. PICK front \in Seq(E), e \in E : s = Append(front, e)
  BY <1>3, SequenceEmptyOrAppend
<1>5. Len(front) \in Nat /\ Len(s) = Len(front) + 1
  BY <1>4, LenProperties, AppendProperties
<1>6. front \notin T
  BY <1>3, <1>4
<1>7. Len(front) \in Lengths
  BY <1>5, <1>6
<1> HIDE DEF Lengths
<1> QED  BY <1>2, <1>3, <1>5, <1>7

\* Two functions of the position with the same recursion are one.
LEMMA OneRecursion ==
    ASSUME NEW n \in Nat, NEW f, NEW g, f = [i \in 0..n |-> f[i]], g = [i \in 0..n |-> g[i]],
           f[0] = g[0], \A i \in 1..n : f[i - 1] = g[i - 1] => f[i] = g[i]
    PROVE  f = g
<1> DEFINE Differ == {i \in 0..n : f[i] # g[i]}
<1> SUFFICES ASSUME Differ # {} PROVE FALSE
  <2>1. Differ = {} => \A i \in 0..n : f[i] = g[i]
    OBVIOUS
  <2> HIDE DEF Differ
  <2> QED  BY <2>1
<1>1. PICK i \in Differ : \A j \in Differ : i <= j
  <2>1. Differ \in SUBSET Nat
    OBVIOUS
  <2> HIDE DEF Differ
  <2> QED  BY <2>1, LeastNumber
<1>2. i \in 1..n /\ i - 1 \in 0..n
  OBVIOUS
<1>3. i - 1 \notin Differ
  <2>1. i \in Int /\ ~(i <= i - 1)
    BY <1>2
  <2> HIDE DEF Differ
  <2> QED  BY <1>1, <2>1
<1> QED  BY <1>2, <1>3

\* Append reaches the end of a concatenation.
LEMMA AppendConcat ==
    ASSUME NEW E, NEW s \in Seq(E), NEW t \in Seq(E), NEW e \in E
    PROVE  s \o Append(t, e) = Append(s \o t, e)
<1>1. <<e>> \in Seq(E) /\ s \o t \in Seq(E)
  BY ConcatProperties
<1>2. Append(t, e) = t \o <<e>> /\ Append(s \o t, e) = (s \o t) \o <<e>>
  BY <1>1, AppendIsConcat
<1> QED  BY <1>1, <1>2, ConcatAssociative

-----------------------------------------------------------------------------
(* The logs that events stand for *)

\* One event of Logs.
LogsStep(n, e) == n + Worth(e)

\* The recursion of Logs.
LogsUpTo(es, f) == f = [i \in 0..Len(es) |-> IF i = 0 THEN 0 ELSE LogsStep(f[i - 1], es[i])]

\* Logs as the last value of the function it builds; so for the three folds below.
LEMMA LogsUnfold == ASSUME NEW es PROVE Logs(es) = (CHOOSE f : LogsUpTo(es, f))[Len(es)]
  BY DEF Logs, LogsUpTo, LogsStep

\* It has one solution.
LEMMA LogsSolved ==
    ASSUME NEW es \in Seq(RetainedEvent), NEW f, LogsUpTo(es, f)
    PROVE  Logs(es) = f[Len(es)]
<1> DEFINE g == CHOOSE h : LogsUpTo(es, h)
<1>1. LogsUpTo(es, g)
  OBVIOUS
<1>2. Logs(es) = g[Len(es)]
  BY LogsUnfold
<1> HIDE DEF g
<1>3. Len(es) \in Nat
  BY LenProperties
<1>4. f = g
  <2>1. f = [i \in 0..Len(es) |-> f[i]] /\ g = [i \in 0..Len(es) |-> g[i]]
    BY <1>1, <1>3 DEF LogsUpTo
  <2>2. f[0] = g[0] /\ \A i \in 1..Len(es) : f[i - 1] = g[i - 1] => f[i] = g[i]
    BY <1>1, <1>3 DEF LogsUpTo
  <2> QED  BY <1>3, <2>1, <2>2, OneRecursion
<1> QED  BY <1>2, <1>4

\* An event adds its worth.
LEMMA LogsGrow ==
    /\ Logs(<<>>) = 0
    /\ \A es \in Seq(RetainedEvent) : Logs(es) \in Nat
    /\ \A es \in Seq(RetainedEvent), e \in RetainedEvent : Logs(Append(es, e)) = LogsStep(Logs(es), e)
<1> DEFINE T == {es \in Seq(RetainedEvent) : \E f : LogsUpTo(es, f) /\ f[Len(es)] \in Nat}
<1>1. \A v \in Nat, e \in RetainedEvent : LogsStep(v, e) \in Nat
  BY DEF RetainedEvent, Worth, LogsStep
<1>2. /\ <<>> \in T /\ Logs(<<>>) = 0
  <2> DEFINE f == [i \in 0..0 |-> 0]
  <2>1. <<>> \in Seq(RetainedEvent) /\ Len(<<>>) = 0 /\ 0 \in Nat
    BY EmptySeq
  <2>2. LogsUpTo(<<>>, f)
    BY <2>1 DEF LogsUpTo
  <2> QED  BY <2>1, <2>2, LogsSolved
<1>3. ASSUME NEW es \in T, NEW e \in RetainedEvent
      PROVE  Append(es, e) \in T /\ Logs(Append(es, e)) = LogsStep(Logs(es), e)
  <2> DEFINE a == Append(es, e)
             n == Len(es)
  <2>1. PICK f : LogsUpTo(es, f) /\ f[n] \in Nat
    OBVIOUS
  <2> DEFINE g == [i \in 0..(n + 1) |-> IF i = n + 1 THEN LogsStep(f[n], e) ELSE f[i]]
  <2>2. /\ n \in Nat /\ a \in Seq(RetainedEvent) /\ Len(a) = n + 1 /\ a[n + 1] = e
        /\ \A i \in 1..n : a[i] = es[i]
    BY LenProperties, AppendProperties
  <2> HIDE DEF a
  <2>3. /\ g = [i \in 0..(n + 1) |-> g[i]] /\ g[n + 1] = LogsStep(f[n], e)
        /\ \A i \in 0..n : g[i] = f[i]
    BY <2>2
  <2>4. f[0] = 0 /\ \A i \in 1..n : f[i] = LogsStep(f[i - 1], es[i])
    BY <2>1, <2>2 DEF LogsUpTo
  <2> HIDE DEF g, n, T
  <2>5. LogsUpTo(a, g)
    <3>1. g[0] = 0
      <4>1. 0 \in 0..n
        BY <2>2
      <4>2. g[0] = f[0]
        BY <2>3, <4>1
      <4> QED  BY <2>4, <4>2
    <3>2. ASSUME NEW i \in 1..(n + 1) PROVE g[i] = LogsStep(g[i - 1], a[i])
      <4>1. i - 1 \in 0..n
        BY <2>2
      <4>2. CASE i = n + 1
        <5>1. i - 1 = n /\ g[n] = f[n]
          BY <2>2, <2>3, <4>1, <4>2
        <5> QED  BY <2>2, <2>3, <4>2, <5>1
      <4>3. CASE i # n + 1
        <5>1. i \in 1..n /\ i \in 0..n
          BY <2>2, <4>3
        <5> QED  BY <2>2, <2>3, <2>4, <4>1, <5>1
      <4> QED  BY <4>2, <4>3
    <3>3. \A i \in 0..(n + 1) : g[i] = IF i = 0 THEN 0 ELSE LogsStep(g[i - 1], a[i])
      BY <2>2, <3>1, <3>2
    <3> QED  BY <2>2, <2>3, <3>3 DEF LogsUpTo
  <2>6. g[n + 1] \in Nat
    BY <1>1, <2>1, <2>3
  <2>7. Logs(es) = f[n] /\ Logs(a) = g[n + 1]
    BY <2>1, <2>2, <2>5, LogsSolved DEF n, T
  <2> QED  BY <2>2, <2>3, <2>5, <2>6, <2>7 DEF a, T
<1>4. T = Seq(RetainedEvent)
  <2>1. T \in SUBSET Seq(RetainedEvent)
    OBVIOUS
  <2> HIDE DEF T
  <2> QED  BY <1>2, <1>3, <2>1, SequencesGrow
<1>5. \A es \in T : Logs(es) \in Nat
  BY LogsSolved
<1> HIDE DEF T
<1> QED  BY <1>2, <1>3, <1>4, <1>5

-----------------------------------------------------------------------------
(* The required events among them *)

\* One event of RequiredOf.
RequiredStep(kinds, e) == IF e.kind \in Required THEN Append(kinds, e.kind) ELSE kinds

\* The recursion of RequiredOf.
RequiredUpTo(es, f) == f = [i \in 0..Len(es) |-> IF i = 0 THEN <<>> ELSE RequiredStep(f[i - 1], es[i])]

\* RequiredOf as the last value of the function it builds.
LEMMA RequiredUnfold == ASSUME NEW es PROVE RequiredOf(es) = (CHOOSE f : RequiredUpTo(es, f))[Len(es)]
  BY DEF RequiredOf, RequiredUpTo, RequiredStep

\* It has one solution.
LEMMA RequiredSolved ==
    ASSUME NEW es \in Seq(RetainedEvent), NEW f, RequiredUpTo(es, f)
    PROVE  RequiredOf(es) = f[Len(es)]
<1> DEFINE g == CHOOSE h : RequiredUpTo(es, h)
<1>1. RequiredUpTo(es, g)
  OBVIOUS
<1>2. RequiredOf(es) = g[Len(es)]
  BY RequiredUnfold
<1> HIDE DEF g
<1>3. Len(es) \in Nat
  BY LenProperties
<1>4. f = g
  <2>1. f = [i \in 0..Len(es) |-> f[i]] /\ g = [i \in 0..Len(es) |-> g[i]]
    BY <1>1, <1>3 DEF RequiredUpTo
  <2>2. f[0] = g[0] /\ \A i \in 1..Len(es) : f[i - 1] = g[i - 1] => f[i] = g[i]
    BY <1>1, <1>3 DEF RequiredUpTo
  <2> QED  BY <1>3, <2>1, <2>2, OneRecursion
<1> QED  BY <1>2, <1>4

\* A required event comes last.
LEMMA RequiredGrow ==
    /\ RequiredOf(<<>>) = <<>>
    /\ \A es \in Seq(RetainedEvent) : RequiredOf(es) \in Seq(Required)
    /\ \A es \in Seq(RetainedEvent), e \in RetainedEvent : RequiredOf(Append(es, e)) = RequiredStep(RequiredOf(es), e)
<1> DEFINE T == {es \in Seq(RetainedEvent) : \E f : RequiredUpTo(es, f) /\ f[Len(es)] \in Seq(Required)}
<1>1. \A v \in Seq(Required), e \in RetainedEvent : RequiredStep(v, e) \in Seq(Required)
  BY AppendProperties DEF RequiredStep
<1>2. /\ <<>> \in T /\ RequiredOf(<<>>) = <<>>
  <2> DEFINE f == [i \in 0..0 |-> <<>>]
  <2>1. <<>> \in Seq(RetainedEvent) /\ Len(<<>>) = 0 /\ <<>> \in Seq(Required)
    BY EmptySeq
  <2>2. RequiredUpTo(<<>>, f)
    BY <2>1 DEF RequiredUpTo
  <2> QED  BY <2>1, <2>2, RequiredSolved
<1>3. ASSUME NEW es \in T, NEW e \in RetainedEvent
      PROVE  Append(es, e) \in T /\ RequiredOf(Append(es, e)) = RequiredStep(RequiredOf(es), e)
  <2> DEFINE a == Append(es, e)
             n == Len(es)
  <2>1. PICK f : RequiredUpTo(es, f) /\ f[n] \in Seq(Required)
    OBVIOUS
  <2> DEFINE g == [i \in 0..(n + 1) |-> IF i = n + 1 THEN RequiredStep(f[n], e) ELSE f[i]]
  <2>2. /\ n \in Nat /\ a \in Seq(RetainedEvent) /\ Len(a) = n + 1 /\ a[n + 1] = e
        /\ \A i \in 1..n : a[i] = es[i]
    BY LenProperties, AppendProperties
  <2> HIDE DEF a
  <2>3. /\ g = [i \in 0..(n + 1) |-> g[i]] /\ g[n + 1] = RequiredStep(f[n], e)
        /\ \A i \in 0..n : g[i] = f[i]
    BY <2>2
  <2>4. f[0] = <<>> /\ \A i \in 1..n : f[i] = RequiredStep(f[i - 1], es[i])
    BY <2>1, <2>2 DEF RequiredUpTo
  <2> HIDE DEF g, n, T
  <2>5. RequiredUpTo(a, g)
    <3>1. g[0] = <<>>
      <4>1. 0 \in 0..n
        BY <2>2
      <4>2. g[0] = f[0]
        BY <2>3, <4>1
      <4> QED  BY <2>4, <4>2
    <3>2. ASSUME NEW i \in 1..(n + 1) PROVE g[i] = RequiredStep(g[i - 1], a[i])
      <4>1. i - 1 \in 0..n
        BY <2>2
      <4>2. CASE i = n + 1
        <5>1. i - 1 = n /\ g[n] = f[n]
          BY <2>2, <2>3, <4>1, <4>2
        <5> QED  BY <2>2, <2>3, <4>2, <5>1
      <4>3. CASE i # n + 1
        <5>1. i \in 1..n /\ i \in 0..n
          BY <2>2, <4>3
        <5> QED  BY <2>2, <2>3, <2>4, <4>1, <5>1
      <4> QED  BY <4>2, <4>3
    <3>3. \A i \in 0..(n + 1) : g[i] = IF i = 0 THEN <<>> ELSE RequiredStep(g[i - 1], a[i])
      BY <2>2, <3>1, <3>2
    <3> QED  BY <2>2, <2>3, <3>3 DEF RequiredUpTo
  <2>6. g[n + 1] \in Seq(Required)
    BY <1>1, <2>1, <2>3
  <2>7. RequiredOf(es) = f[n] /\ RequiredOf(a) = g[n + 1]
    BY <2>1, <2>2, <2>5, RequiredSolved DEF n, T
  <2> QED  BY <2>2, <2>3, <2>5, <2>6, <2>7 DEF a, T
<1>4. T = Seq(RetainedEvent)
  <2>1. T \in SUBSET Seq(RetainedEvent)
    OBVIOUS
  <2> HIDE DEF T
  <2> QED  BY <1>2, <1>3, <2>1, SequencesGrow
<1>5. \A es \in T : RequiredOf(es) \in Seq(Required)
  BY RequiredSolved
<1> HIDE DEF T
<1> QED  BY <1>2, <1>3, <1>4, <1>5

-----------------------------------------------------------------------------
(* The events after a cursor *)

\* One event of After.
AfterStep(es, e, cursor) == IF e.ordinal > cursor THEN Append(es, e) ELSE es

\* The recursion of After.
AfterUpTo(es, cursor, f) == f = [i \in 0..Len(es) |-> IF i = 0 THEN <<>> ELSE AfterStep(f[i - 1], es[i], cursor)]

\* After as the last value of the function it builds.
LEMMA AfterUnfold == ASSUME NEW es, NEW cursor PROVE After(es, cursor) = (CHOOSE f : AfterUpTo(es, cursor, f))[Len(es)]
  BY DEF After, AfterUpTo, AfterStep

\* It has one solution.
LEMMA AfterSolved ==
    ASSUME NEW es \in Seq(RetainedEvent), NEW cursor, NEW f, AfterUpTo(es, cursor, f)
    PROVE  After(es, cursor) = f[Len(es)]
<1> DEFINE g == CHOOSE h : AfterUpTo(es, cursor, h)
<1>1. AfterUpTo(es, cursor, g)
  OBVIOUS
<1>2. After(es, cursor) = g[Len(es)]
  BY AfterUnfold
<1> HIDE DEF g
<1>3. Len(es) \in Nat
  BY LenProperties
<1>4. f = g
  <2>1. f = [i \in 0..Len(es) |-> f[i]] /\ g = [i \in 0..Len(es) |-> g[i]]
    BY <1>1, <1>3 DEF AfterUpTo
  <2>2. f[0] = g[0] /\ \A i \in 1..Len(es) : f[i - 1] = g[i - 1] => f[i] = g[i]
    BY <1>1, <1>3 DEF AfterUpTo
  <2> QED  BY <1>3, <2>1, <2>2, OneRecursion
<1> QED  BY <1>2, <1>4

\* A later event comes last.
LEMMA AfterGrow ==
    ASSUME NEW cursor
    PROVE  /\ After(<<>>, cursor) = <<>>
           /\ \A es \in Seq(RetainedEvent) : After(es, cursor) \in Seq(RetainedEvent)
           /\ \A es \in Seq(RetainedEvent), e \in RetainedEvent : After(Append(es, e), cursor) = AfterStep(After(es, cursor), e, cursor)
<1> DEFINE T == {es \in Seq(RetainedEvent) : \E f : AfterUpTo(es, cursor, f) /\ f[Len(es)] \in Seq(RetainedEvent)}
<1>1. \A v \in Seq(RetainedEvent), e \in RetainedEvent : AfterStep(v, e, cursor) \in Seq(RetainedEvent)
  BY AppendProperties DEF AfterStep
<1>2. /\ <<>> \in T /\ After(<<>>, cursor) = <<>>
  <2> DEFINE f == [i \in 0..0 |-> <<>>]
  <2>1. <<>> \in Seq(RetainedEvent) /\ Len(<<>>) = 0 /\ <<>> \in Seq(RetainedEvent)
    BY EmptySeq
  <2>2. AfterUpTo(<<>>, cursor, f)
    BY <2>1 DEF AfterUpTo
  <2> QED  BY <2>1, <2>2, AfterSolved
<1>3. ASSUME NEW es \in T, NEW e \in RetainedEvent
      PROVE  Append(es, e) \in T /\ After(Append(es, e), cursor) = AfterStep(After(es, cursor), e, cursor)
  <2> DEFINE a == Append(es, e)
             n == Len(es)
  <2>1. PICK f : AfterUpTo(es, cursor, f) /\ f[n] \in Seq(RetainedEvent)
    OBVIOUS
  <2> DEFINE g == [i \in 0..(n + 1) |-> IF i = n + 1 THEN AfterStep(f[n], e, cursor) ELSE f[i]]
  <2>2. /\ n \in Nat /\ a \in Seq(RetainedEvent) /\ Len(a) = n + 1 /\ a[n + 1] = e
        /\ \A i \in 1..n : a[i] = es[i]
    BY LenProperties, AppendProperties
  <2> HIDE DEF a
  <2>3. /\ g = [i \in 0..(n + 1) |-> g[i]] /\ g[n + 1] = AfterStep(f[n], e, cursor)
        /\ \A i \in 0..n : g[i] = f[i]
    BY <2>2
  <2>4. f[0] = <<>> /\ \A i \in 1..n : f[i] = AfterStep(f[i - 1], es[i], cursor)
    BY <2>1, <2>2 DEF AfterUpTo
  <2> HIDE DEF g, n, T
  <2>5. AfterUpTo(a, cursor, g)
    <3>1. g[0] = <<>>
      <4>1. 0 \in 0..n
        BY <2>2
      <4>2. g[0] = f[0]
        BY <2>3, <4>1
      <4> QED  BY <2>4, <4>2
    <3>2. ASSUME NEW i \in 1..(n + 1) PROVE g[i] = AfterStep(g[i - 1], a[i], cursor)
      <4>1. i - 1 \in 0..n
        BY <2>2
      <4>2. CASE i = n + 1
        <5>1. i - 1 = n /\ g[n] = f[n]
          BY <2>2, <2>3, <4>1, <4>2
        <5> QED  BY <2>2, <2>3, <4>2, <5>1
      <4>3. CASE i # n + 1
        <5>1. i \in 1..n /\ i \in 0..n
          BY <2>2, <4>3
        <5> QED  BY <2>2, <2>3, <2>4, <4>1, <5>1
      <4> QED  BY <4>2, <4>3
    <3>3. \A i \in 0..(n + 1) : g[i] = IF i = 0 THEN <<>> ELSE AfterStep(g[i - 1], a[i], cursor)
      BY <2>2, <3>1, <3>2
    <3> QED  BY <2>2, <2>3, <3>3 DEF AfterUpTo
  <2>6. g[n + 1] \in Seq(RetainedEvent)
    BY <1>1, <2>1, <2>3
  <2>7. After(es, cursor) = f[n] /\ After(a, cursor) = g[n + 1]
    BY <2>1, <2>2, <2>5, AfterSolved DEF n, T
  <2> QED  BY <2>2, <2>3, <2>5, <2>6, <2>7 DEF a, T
<1>4. T = Seq(RetainedEvent)
  <2>1. T \in SUBSET Seq(RetainedEvent)
    OBVIOUS
  <2> HIDE DEF T
  <2> QED  BY <1>2, <1>3, <2>1, SequencesGrow
<1>5. \A es \in T : After(es, cursor) \in Seq(RetainedEvent)
  BY AfterSolved
<1> HIDE DEF T
<1> QED  BY <1>2, <1>3, <1>4, <1>5

-----------------------------------------------------------------------------
(* The required events that a drive commits *)

\* One event of Distinct.
DistinctStep(known, kind) == IF Contains(known, kind) THEN known ELSE Append(known, kind)

\* The recursion of Distinct.
DistinctUpTo(es, f) == f = [i \in 0..Len(es) |-> IF i = 0 THEN <<>> ELSE DistinctStep(f[i - 1], es[i])]

\* Distinct as the last value of the function it builds.
LEMMA DistinctUnfold == ASSUME NEW es PROVE Distinct(es) = (CHOOSE f : DistinctUpTo(es, f))[Len(es)]
  BY DEF Distinct, DistinctUpTo, DistinctStep

\* It has one solution.
LEMMA DistinctSolved ==
    ASSUME NEW es \in Seq(Required), NEW f, DistinctUpTo(es, f)
    PROVE  Distinct(es) = f[Len(es)]
<1> DEFINE g == CHOOSE h : DistinctUpTo(es, h)
<1>1. DistinctUpTo(es, g)
  OBVIOUS
<1>2. Distinct(es) = g[Len(es)]
  BY DistinctUnfold
<1> HIDE DEF g
<1>3. Len(es) \in Nat
  BY LenProperties
<1>4. f = g
  <2>1. f = [i \in 0..Len(es) |-> f[i]] /\ g = [i \in 0..Len(es) |-> g[i]]
    BY <1>1, <1>3 DEF DistinctUpTo
  <2>2. f[0] = g[0] /\ \A i \in 1..Len(es) : f[i - 1] = g[i - 1] => f[i] = g[i]
    BY <1>1, <1>3 DEF DistinctUpTo
  <2> QED  BY <1>3, <2>1, <2>2, OneRecursion
<1> QED  BY <1>2, <1>4

\* A kind is committed once.
LEMMA DistinctGrow ==
    /\ Distinct(<<>>) = <<>>
    /\ \A es \in Seq(Required) : Distinct(es) \in Seq(Required)
    /\ \A es \in Seq(Required), e \in Required : Distinct(Append(es, e)) = DistinctStep(Distinct(es), e)
<1> DEFINE T == {es \in Seq(Required) : \E f : DistinctUpTo(es, f) /\ f[Len(es)] \in Seq(Required)}
<1>1. \A v \in Seq(Required), e \in Required : DistinctStep(v, e) \in Seq(Required)
  BY AppendProperties DEF DistinctStep
<1>2. /\ <<>> \in T /\ Distinct(<<>>) = <<>>
  <2> DEFINE f == [i \in 0..0 |-> <<>>]
  <2>1. <<>> \in Seq(Required) /\ Len(<<>>) = 0 /\ <<>> \in Seq(Required)
    BY EmptySeq
  <2>2. DistinctUpTo(<<>>, f)
    BY <2>1 DEF DistinctUpTo
  <2> QED  BY <2>1, <2>2, DistinctSolved
<1>3. ASSUME NEW es \in T, NEW e \in Required
      PROVE  Append(es, e) \in T /\ Distinct(Append(es, e)) = DistinctStep(Distinct(es), e)
  <2> DEFINE a == Append(es, e)
             n == Len(es)
  <2>1. PICK f : DistinctUpTo(es, f) /\ f[n] \in Seq(Required)
    OBVIOUS
  <2> DEFINE g == [i \in 0..(n + 1) |-> IF i = n + 1 THEN DistinctStep(f[n], e) ELSE f[i]]
  <2>2. /\ n \in Nat /\ a \in Seq(Required) /\ Len(a) = n + 1 /\ a[n + 1] = e
        /\ \A i \in 1..n : a[i] = es[i]
    BY LenProperties, AppendProperties
  <2> HIDE DEF a
  <2>3. /\ g = [i \in 0..(n + 1) |-> g[i]] /\ g[n + 1] = DistinctStep(f[n], e)
        /\ \A i \in 0..n : g[i] = f[i]
    BY <2>2
  <2>4. f[0] = <<>> /\ \A i \in 1..n : f[i] = DistinctStep(f[i - 1], es[i])
    BY <2>1, <2>2 DEF DistinctUpTo
  <2> HIDE DEF g, n, T
  <2>5. DistinctUpTo(a, g)
    <3>1. g[0] = <<>>
      <4>1. 0 \in 0..n
        BY <2>2
      <4>2. g[0] = f[0]
        BY <2>3, <4>1
      <4> QED  BY <2>4, <4>2
    <3>2. ASSUME NEW i \in 1..(n + 1) PROVE g[i] = DistinctStep(g[i - 1], a[i])
      <4>1. i - 1 \in 0..n
        BY <2>2
      <4>2. CASE i = n + 1
        <5>1. i - 1 = n /\ g[n] = f[n]
          BY <2>2, <2>3, <4>1, <4>2
        <5> QED  BY <2>2, <2>3, <4>2, <5>1
      <4>3. CASE i # n + 1
        <5>1. i \in 1..n /\ i \in 0..n
          BY <2>2, <4>3
        <5> QED  BY <2>2, <2>3, <2>4, <4>1, <5>1
      <4> QED  BY <4>2, <4>3
    <3>3. \A i \in 0..(n + 1) : g[i] = IF i = 0 THEN <<>> ELSE DistinctStep(g[i - 1], a[i])
      BY <2>2, <3>1, <3>2
    <3> QED  BY <2>2, <2>3, <3>3 DEF DistinctUpTo
  <2>6. g[n + 1] \in Seq(Required)
    BY <1>1, <2>1, <2>3
  <2>7. Distinct(es) = f[n] /\ Distinct(a) = g[n + 1]
    BY <2>1, <2>2, <2>5, DistinctSolved DEF n, T
  <2> QED  BY <2>2, <2>3, <2>5, <2>6, <2>7 DEF a, T
<1>4. T = Seq(Required)
  <2>1. T \in SUBSET Seq(Required)
    OBVIOUS
  <2> HIDE DEF T
  <2> QED  BY <1>2, <1>3, <2>1, SequencesGrow
<1>5. \A es \in T : Distinct(es) \in Seq(Required)
  BY DistinctSolved
<1> HIDE DEF T
<1> QED  BY <1>2, <1>3, <1>4, <1>5

-----------------------------------------------------------------------------
(* What a drive has not polled *)

\* What the events after a cursor stand for.
LogsAfter(es, cursor) == Logs(After(es, cursor))
RequiredAfter(es, cursor) == RequiredOf(After(es, cursor))
WorthAfter(e, cursor) == IF e.ordinal > cursor THEN Worth(e) ELSE 0

\* Of one event.
LEMMA OneEvent ==
    ASSUME NEW e \in RetainedEvent, NEW cursor
    PROVE  /\ <<e>> \in Seq(RetainedEvent) /\ Worth(e) \in Nat /\ WorthAfter(e, cursor) \in Nat
           /\ Logs(<<e>>) = Worth(e)
           /\ RequiredOf(<<e>>) = IF e.kind \in Required THEN <<e.kind>> ELSE <<>>
           /\ After(<<e>>, cursor) = IF e.ordinal > cursor THEN <<e>> ELSE <<>>
           /\ LogsAfter(<<e>>, cursor) = WorthAfter(e, cursor)
           /\ RequiredAfter(<<e>>, cursor) =
                IF e.ordinal > cursor /\ e.kind \in Required THEN <<e.kind>> ELSE <<>>
<1>1. <<>> \in Seq(RetainedEvent) /\ <<e>> \in Seq(RetainedEvent) /\ Append(<<>>, e) = <<e>>
  <2>1. <<>> \in Seq(RetainedEvent) /\ <<e>> \in Seq(RetainedEvent)
    BY EmptySeq
  <2>2. Append(<<>>, e) = <<>> \o <<e>> /\ <<>> \o <<e>> = <<e>>
    BY <2>1, AppendIsConcat, ConcatEmptySeq
  <2> QED  BY <2>1, <2>2
<1>2. Worth(e) \in Nat
  BY DEF Worth, RetainedEvent
<1>3. Logs(<<e>>) = Worth(e) /\ Logs(<<>>) = 0
  <2>1. Logs(Append(<<>>, e)) = LogsStep(Logs(<<>>), e) /\ Logs(<<>>) = 0
    BY <1>1, LogsGrow
  <2>2. LogsStep(0, e) = Worth(e)
    BY <1>2 DEF LogsStep
  <2> QED  BY <1>1, <2>1, <2>2
<1>4. RequiredOf(<<e>>) = (IF e.kind \in Required THEN <<e.kind>> ELSE <<>>) /\ RequiredOf(<<>>) = <<>>
  <2>1. RequiredOf(Append(<<>>, e)) = RequiredStep(RequiredOf(<<>>), e) /\ RequiredOf(<<>>) = <<>>
    BY <1>1, RequiredGrow
  <2>2. ASSUME e.kind \in Required PROVE Append(<<>>, e.kind) = <<e.kind>>
    <3>1. <<>> \in Seq(Required) /\ <<e.kind>> \in Seq(Required)
      BY <2>2, EmptySeq
    <3>2. Append(<<>>, e.kind) = <<>> \o <<e.kind>> /\ <<>> \o <<e.kind>> = <<e.kind>>
      BY <2>2, <3>1, AppendIsConcat, ConcatEmptySeq
    <3> QED  BY <3>2
  <2> QED  BY <1>1, <2>1, <2>2 DEF RequiredStep
<1>5. After(<<e>>, cursor) = (IF e.ordinal > cursor THEN <<e>> ELSE <<>>)
  <2>1. After(Append(<<>>, e), cursor) = AfterStep(After(<<>>, cursor), e, cursor) /\ After(<<>>, cursor) = <<>>
    BY <1>1, AfterGrow
  <2> QED  BY <1>1, <2>1 DEF AfterStep
<1>6. LogsAfter(<<e>>, cursor) = WorthAfter(e, cursor)
  BY <1>3, <1>5 DEF LogsAfter, WorthAfter
<1>7. RequiredAfter(<<e>>, cursor) = IF e.ordinal > cursor /\ e.kind \in Required THEN <<e.kind>> ELSE <<>>
  BY <1>4, <1>5 DEF RequiredAfter
<1> QED  BY <1>1, <1>2, <1>3, <1>4, <1>5, <1>6, <1>7 DEF WorthAfter

\* Logs adds up.
LEMMA LogsConcat ==
    ASSUME NEW s \in Seq(RetainedEvent), NEW t \in Seq(RetainedEvent)
    PROVE  Logs(s \o t) = Logs(s) + Logs(t)
<1> DEFINE T == {u \in Seq(RetainedEvent) : Logs(s \o u) = Logs(s) + Logs(u)}
<1>1. <<>> \in T
  <2>1. s \o <<>> = s /\ <<>> \in Seq(RetainedEvent)
    BY ConcatEmptySeq, EmptySeq
  <2> QED  BY <2>1, LogsGrow
<1>2. ASSUME NEW u \in T, NEW e \in RetainedEvent PROVE Append(u, e) \in T
  <2>1. Append(u, e) \in Seq(RetainedEvent) /\ s \o u \in Seq(RetainedEvent)
    BY AppendProperties, ConcatProperties
  <2>2. s \o Append(u, e) = Append(s \o u, e)
    BY <2>1, AppendConcat
  <2>3. /\ Logs(Append(s \o u, e)) = Logs(s \o u) + Worth(e)
        /\ Logs(Append(u, e)) = Logs(u) + Worth(e)
        /\ Logs(s \o u) = Logs(s) + Logs(u)
    BY <2>1, LogsGrow DEF LogsStep
  <2>4. Logs(s) \in Nat /\ Logs(u) \in Nat
    BY LogsGrow
  <2>5. Worth(e) \in Nat
    BY DEF Worth, RetainedEvent
  <2>6. Logs(s \o Append(u, e)) = Logs(s) + Logs(Append(u, e))
    BY <2>2, <2>3, <2>4, <2>5
  <2> QED  BY <2>1, <2>6
<1>3. T \in SUBSET Seq(RetainedEvent)
  OBVIOUS
<1>4. T = Seq(RetainedEvent)
  <2> HIDE DEF T
  <2> QED  BY <1>1, <1>2, <1>3, SequencesGrow
<1> QED  BY <1>4

\* So do the required events.
LEMMA RequiredConcat ==
    ASSUME NEW s \in Seq(RetainedEvent), NEW t \in Seq(RetainedEvent)
    PROVE  RequiredOf(s \o t) = RequiredOf(s) \o RequiredOf(t)
<1> DEFINE T == {u \in Seq(RetainedEvent) : RequiredOf(s \o u) = RequiredOf(s) \o RequiredOf(u)}
<1>1. <<>> \in T
  <2>1. s \o <<>> = s /\ <<>> \in Seq(RetainedEvent)
    BY ConcatEmptySeq, EmptySeq
  <2>2. RequiredOf(s) \o <<>> = RequiredOf(s) /\ RequiredOf(<<>>) = <<>>
    BY RequiredGrow, ConcatEmptySeq
  <2> QED  BY <2>1, <2>2
<1>2. ASSUME NEW u \in T, NEW e \in RetainedEvent PROVE Append(u, e) \in T
  <2>1. Append(u, e) \in Seq(RetainedEvent) /\ s \o u \in Seq(RetainedEvent)
    BY AppendProperties, ConcatProperties
  <2>2. s \o Append(u, e) = Append(s \o u, e)
    BY <2>1, AppendConcat
  <2>3. /\ RequiredOf(Append(s \o u, e)) = RequiredStep(RequiredOf(s \o u), e)
        /\ RequiredOf(Append(u, e)) = RequiredStep(RequiredOf(u), e)
        /\ RequiredOf(s \o u) = RequiredOf(s) \o RequiredOf(u)
        /\ RequiredOf(s) \in Seq(Required) /\ RequiredOf(u) \in Seq(Required)
    BY <2>1, RequiredGrow
  <2>4. CASE e.kind \in Required
    <3>1. RequiredOf(s) \o Append(RequiredOf(u), e.kind) = Append(RequiredOf(s) \o RequiredOf(u), e.kind)
      BY <2>3, <2>4, AppendConcat
    <3> QED  BY <2>1, <2>2, <2>3, <2>4, <3>1 DEF RequiredStep
  <2>5. CASE e.kind \notin Required
    BY <2>1, <2>2, <2>3, <2>5 DEF RequiredStep
  <2> QED  BY <2>4, <2>5
<1>3. T \in SUBSET Seq(RetainedEvent)
  OBVIOUS
<1>4. T = Seq(RetainedEvent)
  <2> HIDE DEF T
  <2> QED  BY <1>1, <1>2, <1>3, SequencesGrow
<1> QED  BY <1>4

\* And the events after a cursor.
LEMMA AfterConcat ==
    ASSUME NEW s \in Seq(RetainedEvent), NEW t \in Seq(RetainedEvent), NEW cursor
    PROVE  After(s \o t, cursor) = After(s, cursor) \o After(t, cursor)
<1> DEFINE T == {u \in Seq(RetainedEvent) : After(s \o u, cursor) = After(s, cursor) \o After(u, cursor)}
<1>1. <<>> \in T
  <2>1. s \o <<>> = s /\ <<>> \in Seq(RetainedEvent)
    BY ConcatEmptySeq, EmptySeq
  <2>2. After(s, cursor) \o <<>> = After(s, cursor) /\ After(<<>>, cursor) = <<>>
    BY AfterGrow, ConcatEmptySeq
  <2> QED  BY <2>1, <2>2
<1>2. ASSUME NEW u \in T, NEW e \in RetainedEvent PROVE Append(u, e) \in T
  <2>1. Append(u, e) \in Seq(RetainedEvent) /\ s \o u \in Seq(RetainedEvent)
    BY AppendProperties, ConcatProperties
  <2>2. s \o Append(u, e) = Append(s \o u, e)
    BY <2>1, AppendConcat
  <2>3. /\ After(Append(s \o u, e), cursor) = AfterStep(After(s \o u, cursor), e, cursor)
        /\ After(Append(u, e), cursor) = AfterStep(After(u, cursor), e, cursor)
        /\ After(s \o u, cursor) = After(s, cursor) \o After(u, cursor)
        /\ After(s, cursor) \in Seq(RetainedEvent) /\ After(u, cursor) \in Seq(RetainedEvent)
    BY <2>1, AfterGrow
  <2>4. CASE e.ordinal > cursor
    <3>1. After(s, cursor) \o Append(After(u, cursor), e) = Append(After(s, cursor) \o After(u, cursor), e)
      BY <2>3, AppendConcat
    <3> QED  BY <2>1, <2>2, <2>3, <2>4, <3>1 DEF AfterStep
  <2>5. CASE ~(e.ordinal > cursor)
    BY <2>1, <2>2, <2>3, <2>5 DEF AfterStep
  <2> QED  BY <2>4, <2>5
<1>3. T \in SUBSET Seq(RetainedEvent)
  OBVIOUS
<1>4. T = Seq(RetainedEvent)
  <2> HIDE DEF T
  <2> QED  BY <1>1, <1>2, <1>3, SequencesGrow
<1> QED  BY <1>4

\* Together.
LEMMA LateTypes ==
    ASSUME NEW s \in Seq(RetainedEvent), NEW cursor
    PROVE  After(s, cursor) \in Seq(RetainedEvent) /\ LogsAfter(s, cursor) \in Nat /\ RequiredAfter(s, cursor) \in Seq(Required)
  BY AfterGrow, LogsGrow, RequiredGrow DEF LogsAfter, RequiredAfter

\* The logs behind a cursor add up event by event.
LEMMA LateLogs ==
    ASSUME NEW s \in Seq(RetainedEvent), NEW t \in Seq(RetainedEvent), NEW cursor
    PROVE  LogsAfter(s \o t, cursor) = LogsAfter(s, cursor) + LogsAfter(t, cursor)
<1>1. /\ After(s, cursor) \in Seq(RetainedEvent) /\ After(t, cursor) \in Seq(RetainedEvent)
      /\ After(s \o t, cursor) = After(s, cursor) \o After(t, cursor)
  BY AfterGrow, AfterConcat
<1>2. Logs(After(s \o t, cursor)) = Logs(After(s, cursor)) + Logs(After(t, cursor))
  BY <1>1, LogsConcat
<1> QED  BY <1>2 DEF LogsAfter

\* The required events behind a cursor are those of its parts, in order.
LEMMA LateRequired ==
    ASSUME NEW s \in Seq(RetainedEvent), NEW t \in Seq(RetainedEvent), NEW cursor
    PROVE  RequiredAfter(s \o t, cursor) = RequiredAfter(s, cursor) \o RequiredAfter(t, cursor)
<1>1. /\ After(s, cursor) \in Seq(RetainedEvent) /\ After(t, cursor) \in Seq(RetainedEvent)
      /\ After(s \o t, cursor) = After(s, cursor) \o After(t, cursor)
  BY AfterGrow, AfterConcat
<1>2. RequiredOf(After(s \o t, cursor)) = RequiredOf(After(s, cursor)) \o RequiredOf(After(t, cursor))
  BY <1>1, RequiredConcat
<1> QED  BY <1>2 DEF RequiredAfter

\* What one event among others stands for.
LEMMA EventBetween ==
    ASSUME NEW s \in Seq(RetainedEvent), NEW t \in Seq(RetainedEvent), NEW e \in RetainedEvent, NEW cursor
    PROVE  /\ LogsAfter(s \o <<e>> \o t, cursor) = LogsAfter(s \o t, cursor) + WorthAfter(e, cursor)
           /\ LogsAfter(s \o t, cursor) \in Nat /\ WorthAfter(e, cursor) \in Nat
           /\ IsLog(e) => RequiredAfter(s \o <<e>> \o t, cursor) = RequiredAfter(s \o t, cursor)
<1> DEFINE o == <<e>>
           a == s \o o
<1>1. /\ o \in Seq(RetainedEvent) /\ LogsAfter(o, cursor) = WorthAfter(e, cursor)
      /\ WorthAfter(e, cursor) \in Nat
      /\ IsLog(e) => RequiredAfter(o, cursor) = <<>>
  <2>1. IsLog(e) => e.kind \notin Required
    BY DEF IsLog, Required, Usages
  <2> QED  BY <2>1, OneEvent
<1> HIDE DEF o
<1>2. /\ a \in Seq(RetainedEvent) /\ LogsAfter(a, cursor) = LogsAfter(s, cursor) + LogsAfter(o, cursor)
      /\ RequiredAfter(a, cursor) = RequiredAfter(s, cursor) \o RequiredAfter(o, cursor)
  BY <1>1, LateLogs, LateRequired, ConcatProperties
<1> HIDE DEF a
<1>3. /\ LogsAfter(a \o t, cursor) = LogsAfter(a, cursor) + LogsAfter(t, cursor)
      /\ RequiredAfter(a \o t, cursor) = RequiredAfter(a, cursor) \o RequiredAfter(t, cursor)
  BY <1>2, LateLogs, LateRequired
<1>4. /\ LogsAfter(s \o t, cursor) = LogsAfter(s, cursor) + LogsAfter(t, cursor)
      /\ RequiredAfter(s \o t, cursor) = RequiredAfter(s, cursor) \o RequiredAfter(t, cursor)
  BY LateLogs, LateRequired
<1>5. /\ LogsAfter(s, cursor) \in Nat /\ LogsAfter(t, cursor) \in Nat
      /\ RequiredAfter(s, cursor) \in Seq(Required)
  BY LateTypes
<1>6. LogsAfter(a \o t, cursor) = LogsAfter(s \o t, cursor) + WorthAfter(e, cursor) /\ LogsAfter(s \o t, cursor) \in Nat
  BY <1>1, <1>2, <1>3, <1>4, <1>5
<1>7. IsLog(e) => RequiredAfter(a, cursor) = RequiredAfter(s, cursor)
  BY <1>1, <1>2, <1>5, ConcatEmptySeq
<1> QED  BY <1>1, <1>3, <1>4, <1>6, <1>7 DEF a, o

\* What is before an event and what is behind it.
LEMMA EventParts ==
    ASSUME NEW E, NEW s \in Seq(E), NEW i \in 1..Len(s)
    PROVE  /\ SubSeq(s, 1, i - 1) \in Seq(E) /\ Len(SubSeq(s, 1, i - 1)) = i - 1
           /\ \A j \in 1..(i - 1) : SubSeq(s, 1, i - 1)[j] = s[j]
           /\ SubSeq(s, i + 1, Len(s)) \in Seq(E) /\ Len(SubSeq(s, i + 1, Len(s))) = Len(s) - i
           /\ \A j \in 1..(Len(s) - i) : SubSeq(s, i + 1, Len(s))[j] = s[i + j]
<1> DEFINE n == Len(s)
           front == SubSeq(s, 1, i - 1)
           back == SubSeq(s, i + 1, n)
<1>1. n \in Nat /\ i \in 1..n /\ \A j \in 1..n : s[j] \in E
  BY LenProperties, ElementOfSeq
<1>2. /\ front \in Seq(E) /\ Len(front) = i - 1
      /\ \A j \in 1..(i - 1) : front[j] = s[j]
  <2>1. 1 \in Int /\ i - 1 \in Int /\ \A j \in 1..(i - 1) : s[j] \in E
    BY <1>1
  <2>2. /\ front \in Seq(E) /\ Len(front) = IF 1 <= i - 1 THEN i - 1 - 1 + 1 ELSE 0
        /\ \A j \in 1..(i - 1 - 1 + 1) : front[j] = s[1 + j - 1]
    BY <2>1, SubSeqProperties
  <2> QED  BY <1>1, <2>2
<1>3. /\ back \in Seq(E) /\ Len(back) = n - i
      /\ \A j \in 1..(n - i) : back[j] = s[i + j]
  <2>1. i + 1 \in Int /\ n \in Int /\ \A j \in (i + 1)..n : s[j] \in E
    BY <1>1
  <2>2. /\ back \in Seq(E) /\ Len(back) = IF i + 1 <= n THEN n - (i + 1) + 1 ELSE 0
        /\ \A j \in 1..(n - (i + 1) + 1) : back[j] = s[i + 1 + j - 1]
    BY <2>1, SubSeqProperties
  <2> QED  BY <1>1, <2>2
<1> QED  BY <1>2, <1>3

\* An event at a place is one among those before and behind it.
LEMMA EventAt ==
    ASSUME NEW E, NEW s \in Seq(E), NEW i \in 1..Len(s), NEW e \in E
    PROVE  [s EXCEPT ![i] = e] = SubSeq(s, 1, i - 1) \o <<e>> \o SubSeq(s, i + 1, Len(s))
<1> DEFINE n == Len(s)
           front == SubSeq(s, 1, i - 1)
           back == SubSeq(s, i + 1, n)
           o == <<e>>
           a == front \o o
           x == a \o back
           r == [s EXCEPT ![i] = e]
<1>1. n \in Nat /\ i \in 1..n /\ \A j \in 1..n : s[j] \in E
  BY LenProperties, ElementOfSeq
<1>2. /\ front \in Seq(E) /\ Len(front) = i - 1
      /\ \A j \in 1..(i - 1) : front[j] = s[j]
      /\ back \in Seq(E) /\ Len(back) = n - i
      /\ \A j \in 1..(n - i) : back[j] = s[i + j]
  BY EventParts
<1>3. r \in Seq(E) /\ Len(r) = n /\ \A j \in 1..n : r[j] = IF j = i THEN e ELSE s[j]
  BY ExceptSeq
<1>4. o \in Seq(E) /\ Len(o) = 1 /\ o[1] = e
  OBVIOUS
<1> HIDE DEF front, back, o, r
<1>5. a \in Seq(E) /\ Len(a) = i /\ \A j \in 1..i : a[j] = IF j = i THEN e ELSE s[j]
  <2>1. /\ a \in Seq(E) /\ Len(a) = Len(front) + Len(o)
        /\ \A j \in 1..(Len(front) + Len(o)) : a[j] = IF j <= Len(front) THEN front[j] ELSE o[j - Len(front)]
    BY <1>2, <1>4, ConcatProperties
  <2>2. Len(front) + Len(o) = i
    BY <1>1, <1>2, <1>4
  <2> HIDE DEF a
  <2>3. ASSUME NEW j \in 1..i PROVE a[j] = IF j = i THEN e ELSE s[j]
    <3>1. CASE j = i
      <4>1. j - Len(front) = 1 /\ ~(j <= Len(front))
        BY <1>1, <1>2, <3>1
      <4> QED  BY <1>4, <2>1, <2>2, <3>1, <4>1
    <3>2. CASE j # i
      <4>1. j \in 1..(i - 1) /\ j <= Len(front)
        BY <1>1, <1>2, <3>2
      <4> QED  BY <1>2, <2>1, <2>2, <3>2, <4>1
    <3> QED  BY <3>1, <3>2
  <2> QED  BY <2>1, <2>2, <2>3
<1> HIDE DEF a
<1>6. r = x
  <2>1. /\ x \in Seq(E) /\ Len(x) = Len(a) + Len(back)
        /\ \A j \in 1..(Len(a) + Len(back)) : x[j] = IF j <= Len(a) THEN a[j] ELSE back[j - Len(a)]
    BY <1>2, <1>5, ConcatProperties
  <2>2. Len(a) + Len(back) = n
    BY <1>1, <1>2, <1>5
  <2> HIDE DEF x
  <2>3. ASSUME NEW j \in 1..n PROVE r[j] = x[j]
    <3>1. CASE j <= i
      <4>1. j \in 1..i
        BY <1>1, <3>1
      <4> QED  BY <1>3, <1>5, <2>1, <2>2, <3>1, <4>1
    <3>2. CASE ~(j <= i)
      <4>1. j - i \in 1..(n - i) /\ i + (j - i) = j /\ j # i
        BY <1>1, <3>2
      <4> QED  BY <1>2, <1>3, <1>5, <2>1, <2>2, <3>2, <4>1
    <3> QED  BY <3>1, <3>2
  <2> QED  BY <1>3, <2>1, <2>2, <2>3, SeqEqual
<1> QED  BY <1>6 DEF a, front, back, o, r

\* An event taken out.
LEMMA EventRemoved ==
    ASSUME NEW s \in Seq(RetainedEvent), NEW i \in 1..Len(s)
    PROVE  /\ RemoveAt(s, i) \in Seq(RetainedEvent) /\ Len(RemoveAt(s, i)) = Len(s) - 1
           /\ \A j \in 1..(Len(s) - 1) : RemoveAt(s, i)[j] = IF j < i THEN s[j] ELSE s[j + 1]
           /\ \A cursor :
                /\ LogsAfter(s, cursor) = LogsAfter(RemoveAt(s, i), cursor) + WorthAfter(s[i], cursor)
                /\ LogsAfter(RemoveAt(s, i), cursor) \in Nat /\ WorthAfter(s[i], cursor) \in Nat
                /\ IsLog(s[i]) => RequiredAfter(RemoveAt(s, i), cursor) = RequiredAfter(s, cursor)
<1> DEFINE n == Len(s)
           front == SubSeq(s, 1, i - 1)
           back == SubSeq(s, i + 1, n)
           r == front \o back
<1>1. RemoveAt(s, i) = r
  BY DEF RemoveAt
<1>2. n \in Nat /\ i \in 1..n /\ s[i] \in RetainedEvent
  BY LenProperties, ElementOfSeq
<1>3. /\ front \in Seq(RetainedEvent) /\ back \in Seq(RetainedEvent) /\ Len(front) = i - 1 /\ Len(back) = n - i
      /\ \A j \in 1..(i - 1) : front[j] = s[j]
      /\ \A j \in 1..(n - i) : back[j] = s[i + j]
  BY <1>2, EventParts
<1>4. s = front \o <<s[i]>> \o back
  <2>1. s = [s EXCEPT ![i] = s[i]]
    BY <1>2, ExceptSeq, SeqEqual
  <2>2. [s EXCEPT ![i] = s[i]] = front \o <<s[i]>> \o back
    BY <1>2, EventAt
  <2> QED  BY <2>1, <2>2
<1> HIDE DEF front, back
<1>5. /\ r \in Seq(RetainedEvent) /\ Len(r) = n - 1
      /\ \A j \in 1..(n - 1) : r[j] = IF j < i THEN s[j] ELSE s[j + 1]
  <2>1. /\ r \in Seq(RetainedEvent) /\ Len(r) = Len(front) + Len(back)
        /\ \A j \in 1..(Len(front) + Len(back)) : r[j] = IF j <= Len(front) THEN front[j] ELSE back[j - Len(front)]
    BY <1>3, ConcatProperties
  <2>2. Len(front) + Len(back) = n - 1
    BY <1>2, <1>3
  <2> HIDE DEF r
  <2>3. ASSUME NEW j \in 1..(n - 1) PROVE r[j] = IF j < i THEN s[j] ELSE s[j + 1]
    <3>1. CASE j < i
      <4>1. j \in 1..(i - 1) /\ j <= Len(front)
        BY <1>2, <1>3, <3>1
      <4> QED  BY <1>3, <2>1, <2>2, <3>1, <4>1
    <3>2. CASE ~(j < i)
      <4>1. j - Len(front) \in 1..(n - i) /\ i + (j - Len(front)) = j + 1 /\ ~(j <= Len(front))
        BY <1>2, <1>3, <3>2
      <4> QED  BY <1>3, <2>1, <2>2, <3>2, <4>1
    <3> QED  BY <3>1, <3>2
  <2> QED  BY <2>1, <2>2, <2>3
<1>6. ASSUME NEW cursor
      PROVE  /\ LogsAfter(front \o <<s[i]>> \o back, cursor) = LogsAfter(r, cursor) + WorthAfter(s[i], cursor)
             /\ LogsAfter(r, cursor) \in Nat /\ WorthAfter(s[i], cursor) \in Nat
             /\ IsLog(s[i]) => RequiredAfter(front \o <<s[i]>> \o back, cursor) = RequiredAfter(r, cursor)
  BY <1>2, <1>3, EventBetween
<1>7. ASSUME NEW cursor
      PROVE  /\ LogsAfter(s, cursor) = LogsAfter(r, cursor) + WorthAfter(s[i], cursor)
             /\ LogsAfter(r, cursor) \in Nat /\ WorthAfter(s[i], cursor) \in Nat
             /\ IsLog(s[i]) => RequiredAfter(s, cursor) = RequiredAfter(r, cursor)
  BY <1>4, <1>6
<1> HIDE DEF r
<1> QED  BY <1>1, <1>5, <1>7

\* An event replaced by one with its ordinal.
LEMMA EventReplaced ==
    ASSUME NEW s \in Seq(RetainedEvent), NEW i \in 1..Len(s), NEW e \in RetainedEvent,
           IsLog(s[i]), IsLog(e)
    PROVE  /\ [s EXCEPT ![i] = e] \in Seq(RetainedEvent) /\ Len([s EXCEPT ![i] = e]) = Len(s)
           /\ \A j \in 1..Len(s) : [s EXCEPT ![i] = e][j] = IF j = i THEN e ELSE s[j]
           /\ \A cursor :
                /\ LogsAfter([s EXCEPT ![i] = e], cursor) + WorthAfter(s[i], cursor)
                     = LogsAfter(s, cursor) + WorthAfter(e, cursor)
                /\ LogsAfter([s EXCEPT ![i] = e], cursor) \in Nat
                /\ RequiredAfter([s EXCEPT ![i] = e], cursor) = RequiredAfter(s, cursor)
<1> DEFINE n == Len(s)
           front == SubSeq(s, 1, i - 1)
           back == SubSeq(s, i + 1, n)
           r == [s EXCEPT ![i] = e]
<1>1. n \in Nat /\ i \in 1..n /\ s[i] \in RetainedEvent
  BY LenProperties, ElementOfSeq
<1>2. r \in Seq(RetainedEvent) /\ Len(r) = n /\ \A j \in 1..n : r[j] = IF j = i THEN e ELSE s[j]
  BY ExceptSeq
<1>3. front \in Seq(RetainedEvent) /\ back \in Seq(RetainedEvent) /\ r = front \o <<e>> \o back
  <2>1. front \in Seq(RetainedEvent) /\ back \in Seq(RetainedEvent)
    BY EventParts
  <2>2. r = front \o <<e>> \o back
    BY EventAt
  <2> QED  BY <2>1, <2>2
<1>4. s = front \o <<s[i]>> \o back
  <2>1. s = [s EXCEPT ![i] = s[i]]
    BY <1>1, ExceptSeq, SeqEqual
  <2>2. [s EXCEPT ![i] = s[i]] = front \o <<s[i]>> \o back
    BY <1>1, EventAt
  <2> QED  BY <2>1, <2>2
<1> HIDE DEF front, back, r
<1>5. ASSUME NEW cursor
      PROVE  /\ LogsAfter(r, cursor) + WorthAfter(s[i], cursor) = LogsAfter(s, cursor) + WorthAfter(e, cursor)
             /\ LogsAfter(r, cursor) \in Nat
             /\ RequiredAfter(r, cursor) = RequiredAfter(s, cursor)
  <2> DEFINE m == front \o back
             x == front \o <<s[i]>> \o back
             y == front \o <<e>> \o back
  <2>1. /\ LogsAfter(x, cursor) = LogsAfter(m, cursor) + WorthAfter(s[i], cursor)
        /\ LogsAfter(m, cursor) \in Nat /\ WorthAfter(s[i], cursor) \in Nat
        /\ RequiredAfter(x, cursor) = RequiredAfter(m, cursor)
    BY <1>1, <1>3, EventBetween
  <2>2. /\ LogsAfter(y, cursor) = LogsAfter(m, cursor) + WorthAfter(e, cursor)
        /\ WorthAfter(e, cursor) \in Nat
        /\ RequiredAfter(y, cursor) = RequiredAfter(m, cursor)
    BY <1>1, <1>3, EventBetween
  <2>3. x = s /\ y = r
    BY <1>3, <1>4
  <2> HIDE DEF x, y, m
  <2> QED  BY <2>1, <2>2, <2>3
<1> QED  BY <1>2, <1>5 DEF r

\* An event put at the end.
LEMMA EventAppended ==
    ASSUME NEW s \in Seq(RetainedEvent), NEW e \in RetainedEvent, NEW cursor
    PROVE  /\ LogsAfter(Append(s, e), cursor) = LogsAfter(s, cursor) + WorthAfter(e, cursor)
           /\ WorthAfter(e, cursor) \in Nat
           /\ RequiredAfter(Append(s, e), cursor) =
                IF e.ordinal > cursor THEN RequiredStep(RequiredAfter(s, cursor), e) ELSE RequiredAfter(s, cursor)
<1>1. /\ After(Append(s, e), cursor) = AfterStep(After(s, cursor), e, cursor)
      /\ After(s, cursor) \in Seq(RetainedEvent)
  BY AfterGrow
<1>2. Worth(e) \in Nat /\ LogsAfter(s, cursor) \in Nat
  BY OneEvent, LateTypes
<1>3. CASE e.ordinal > cursor
  <2>1. /\ Logs(Append(After(s, cursor), e)) = LogsStep(Logs(After(s, cursor)), e)
        /\ RequiredOf(Append(After(s, cursor), e)) = RequiredStep(RequiredOf(After(s, cursor)), e)
    BY <1>1, LogsGrow, RequiredGrow
  <2> QED  BY <1>1, <1>2, <1>3, <2>1 DEF AfterStep, LogsStep, LogsAfter, RequiredAfter, WorthAfter
<1>4. CASE ~(e.ordinal > cursor)
  BY <1>1, <1>2, <1>4 DEF AfterStep, LogsAfter, RequiredAfter, WorthAfter
<1> QED  BY <1>3, <1>4

\* Nothing is after a cursor that all events have reached, and everything after one before them.
LEMMA AfterBounds ==
    ASSUME NEW s \in Seq(RetainedEvent), NEW cursor
    PROVE  /\ (\A i \in 1..Len(s) : ~(s[i].ordinal > cursor)) => After(s, cursor) = <<>>
           /\ (\A i \in 1..Len(s) : s[i].ordinal > cursor) => After(s, cursor) = s
<1> DEFINE None(u) == \A i \in 1..Len(u) : ~(u[i].ordinal > cursor)
           All(u) == \A i \in 1..Len(u) : u[i].ordinal > cursor
           T == {u \in Seq(RetainedEvent) :
                    (None(u) => After(u, cursor) = <<>>) /\ (All(u) => After(u, cursor) = u)}
<1>1. <<>> \in T
  BY AfterGrow, EmptySeq
<1>2. ASSUME NEW u \in T, NEW e \in RetainedEvent PROVE Append(u, e) \in T
  <2> DEFINE a == Append(u, e)
             n == Len(u)
  <2>1. /\ n \in Nat /\ a \in Seq(RetainedEvent) /\ Len(a) = n + 1 /\ a[n + 1] = e
        /\ \A i \in 1..n : a[i] = u[i]
    BY LenProperties, AppendProperties
  <2>2. After(a, cursor) = AfterStep(After(u, cursor), e, cursor)
    BY AfterGrow
  <2>3. a = Append(u, e)
    OBVIOUS
  <2> HIDE DEF a
  <2>4. ASSUME None(a) PROVE After(a, cursor) = <<>>
    <3>1. None(u) /\ ~(e.ordinal > cursor)
      BY <2>1, <2>4
    <3> QED  BY <2>2, <3>1 DEF AfterStep
  <2>5. ASSUME All(a) PROVE After(a, cursor) = a
    <3>1. All(u) /\ e.ordinal > cursor
      BY <2>1, <2>5
    <3> QED  BY <2>2, <2>3, <3>1 DEF AfterStep
  <2> QED  BY <2>1, <2>4, <2>5 DEF a
<1>3. T \in SUBSET Seq(RetainedEvent)
  OBVIOUS
<1>4. T = Seq(RetainedEvent)
  <2> HIDE DEF T
  <2> QED  BY <1>1, <1>2, <1>3, SequencesGrow
<1> QED  BY <1>4

-----------------------------------------------------------------------------
(* The events the supervisor retains *)

Retained == [events : Seq(RetainedEvent), ordinal : Nat, dropped : Nat]

NoSummary(es) == \A i \in 1..Len(es) : es[i].kind # "summary"

\* There is at most one summary and no log behind it, and nothing else is counted as dropped then.
SummaryLast(b) ==
    /\ \A i, j \in 1..Len(b.events) : b.events[i].kind = "summary" /\ IsLog(b.events[j]) => j <= i
    /\ b.dropped > 0 => NoSummary(b.events)

\* Ordinals ascend up to the last one given.
Ascending(b) ==
    /\ \A i \in 1..Len(b.events) : b.events[i].ordinal \in 1..b.ordinal
    /\ \A i, j \in 1..Len(b.events) : i < j => b.events[i].ordinal < b.events[j].ordinal

Kept(b) ==
    b \in Retained /\ Len(RequiredOf(b.events)) <= MaxRequired /\ Ascending(b) /\ SummaryLast(b)

\* From b to t events with these logs and kinds came in. Whoever polled up to a cursor finds in what is
\* after it, or will be, at least the logs he has not seen, and who polled nothing exactly those.
Passed(b, t, n, kinds) ==
    /\ b.ordinal <= t.ordinal
    /\ LogsAfter(t.events, 0) + t.dropped = LogsAfter(b.events, 0) + b.dropped + n
    /\ \A cursor \in 0..b.ordinal :
          /\ LogsAfter(t.events, cursor) + t.dropped >= LogsAfter(b.events, cursor) + b.dropped + n
          /\ RequiredAfter(t.events, cursor) = RequiredAfter(b.events, cursor) \o kinds

\* One after the other.
LEMMA PassedOn ==
    ASSUME NEW b, NEW t, NEW u, NEW m \in Nat, NEW n \in Nat, NEW k \in Seq(Required), NEW l \in Seq(Required),
           b \in Retained, t \in Retained, u \in Retained, Passed(b, t, m, k), Passed(t, u, n, l)
    PROVE  Passed(b, u, m + n, k \o l)
<1>1. /\ b.ordinal \in Nat /\ t.ordinal \in Nat /\ u.ordinal \in Nat
      /\ b.dropped \in Nat /\ t.dropped \in Nat /\ u.dropped \in Nat
      /\ b.events \in Seq(RetainedEvent) /\ t.events \in Seq(RetainedEvent) /\ u.events \in Seq(RetainedEvent)
  BY DEF Retained
<1>2. \A cursor :
        /\ LogsAfter(b.events, cursor) \in Nat /\ LogsAfter(t.events, cursor) \in Nat
        /\ LogsAfter(u.events, cursor) \in Nat /\ RequiredAfter(b.events, cursor) \in Seq(Required)
  BY <1>1, LateTypes
<1>3. /\ b.ordinal <= u.ordinal
      /\ LogsAfter(u.events, 0) + u.dropped = LogsAfter(b.events, 0) + b.dropped + (m + n)
  <2> DEFINE lb == LogsAfter(b.events, 0)
             lt == LogsAfter(t.events, 0)
             lu == LogsAfter(u.events, 0)
  <2>1. /\ b.ordinal <= t.ordinal /\ t.ordinal <= u.ordinal
        /\ lt + t.dropped = lb + b.dropped + m /\ lu + u.dropped = lt + t.dropped + n
    BY DEF Passed
  <2>2. lb \in Nat /\ lt \in Nat /\ lu \in Nat
    BY <1>2
  <2> HIDE DEF lb, lt, lu
  <2>3. lu + u.dropped = lb + b.dropped + (m + n)
    BY <1>1, <2>1, <2>2
  <2> QED  BY <1>1, <2>1, <2>3 DEF lb, lu
<1>4. ASSUME NEW cursor \in 0..b.ordinal
      PROVE  /\ LogsAfter(u.events, cursor) + u.dropped >= LogsAfter(b.events, cursor) + b.dropped + (m + n)
             /\ RequiredAfter(u.events, cursor) = RequiredAfter(b.events, cursor) \o (k \o l)
  <2> DEFINE lb == LogsAfter(b.events, cursor)
             lt == LogsAfter(t.events, cursor)
             lu == LogsAfter(u.events, cursor)
             rb == RequiredAfter(b.events, cursor)
  <2>1. cursor \in 0..t.ordinal
    <3>1. b.ordinal <= t.ordinal
      BY DEF Passed
    <3> QED  BY <1>1, <3>1
  <2>2. /\ lt + t.dropped >= lb + b.dropped + m /\ RequiredAfter(t.events, cursor) = rb \o k
        /\ lu + u.dropped >= lt + t.dropped + n /\ RequiredAfter(u.events, cursor) = RequiredAfter(t.events, cursor) \o l
    BY <2>1 DEF Passed
  <2>3. lb \in Nat /\ lt \in Nat /\ lu \in Nat /\ rb \in Seq(Required)
    BY <1>2
  <2> HIDE DEF lb, lt, lu, rb
  <2>4. lu + u.dropped >= lb + b.dropped + (m + n)
    <3>1. b.dropped \in Nat /\ t.dropped \in Nat /\ u.dropped \in Nat
      BY <1>1
    <3>2. lt + t.dropped >= lb + b.dropped + m /\ lu + u.dropped >= lt + t.dropped + n
      BY <2>2, Zenon
    <3> DEFINE db == b.dropped
               dt == t.dropped
               du == u.dropped
    <3>3. db \in Nat /\ dt \in Nat /\ du \in Nat /\ lt + dt >= lb + db + m /\ lu + du >= lt + dt + n
      BY <3>1, <3>2
    <3> HIDE DEF db, dt, du
    <3>4. lu + du >= lb + db + (m + n)
      BY <2>3, <3>3
    <3> QED  BY <3>4 DEF db, du
  <2>5. (rb \o k) \o l = rb \o (k \o l)
    BY <2>3, ConcatAssociative
  <2>6. RequiredAfter(u.events, cursor) = rb \o (k \o l)
    <3>1. RequiredAfter(u.events, cursor) = (rb \o k) \o l
      BY <2>2, Zenon
    <3> QED  BY <2>5, <3>1, Zenon
  <2> QED  BY <2>4, <2>6 DEF lb, lu, rb
<1> QED  BY <1>3, <1>4 DEF Passed

\* After nothing is everything.
LEMMA AllAfterZero ==
    ASSUME NEW b, b \in Retained, Ascending(b)
    PROVE  After(b.events, 0) = b.events /\ LogsAfter(b.events, 0) = Logs(b.events)
           /\ RequiredAfter(b.events, 0) = RequiredOf(b.events)
<1>1. b.events \in Seq(RetainedEvent) /\ b.ordinal \in Nat /\ \A i \in 1..Len(b.events) : b.events[i].ordinal > 0
  BY DEF Retained, Ascending
<1>2. After(b.events, 0) = b.events
  BY <1>1, AfterBounds
<1> QED  BY <1>2 DEF LogsAfter, RequiredAfter

\* Events without a log are all required, and with one all but that one are.
LEMMA RequiredAreCounted ==
    ASSUME NEW es \in Seq(RetainedEvent)
    PROVE  /\ Len(RequiredOf(es)) \in Nat
           /\ (\A i \in 1..Len(es) : ~IsLog(es[i])) => Len(RequiredOf(es)) = Len(es)
           /\ (\E i \in 1..Len(es) : \A j \in 1..Len(es) : IsLog(es[j]) => j = i) => Len(RequiredOf(es)) >= Len(es) - 1
<1> DEFINE None(u) == \A i \in 1..Len(u) : ~IsLog(u[i])
           One(u) == \E i \in 1..Len(u) : \A j \in 1..Len(u) : IsLog(u[j]) => j = i
           T == {u \in Seq(RetainedEvent) :
                    /\ None(u) => Len(RequiredOf(u)) = Len(u)
                    /\ One(u) => Len(RequiredOf(u)) >= Len(u) - 1}
<1>1. <<>> \in T
  BY RequiredGrow, EmptySeq
<1>2. ASSUME NEW u \in T, NEW e \in RetainedEvent PROVE Append(u, e) \in T
  <2> DEFINE a == Append(u, e)
             n == Len(u)
             r == Len(RequiredOf(u))
  <2>1. /\ n \in Nat /\ a \in Seq(RetainedEvent) /\ Len(a) = n + 1 /\ a[n + 1] = e
        /\ \A i \in 1..n : a[i] = u[i]
    BY LenProperties, AppendProperties
  <2>2. RequiredOf(a) = RequiredStep(RequiredOf(u), e) /\ RequiredOf(u) \in Seq(Required) /\ r \in Nat
    BY RequiredGrow, LenProperties
  <2>3. Len(RequiredOf(a)) = IF IsLog(e) THEN r ELSE r + 1
    <3>1. IsLog(e) <=> e.kind \notin Required
      BY DEF IsLog, RetainedEvent, Required, Usages
    <3>2. ~IsLog(e) => Len(Append(RequiredOf(u), e.kind)) = r + 1
      BY <2>2, <3>1, AppendProperties
    <3> QED  BY <2>2, <3>1, <3>2 DEF RequiredStep
  <2>4. (None(u) => r = n) /\ (One(u) => r >= n - 1)
    OBVIOUS
  <2> HIDE DEF a, r, n
  <2>5. ASSUME None(a) PROVE Len(RequiredOf(a)) = n + 1
    <3>1. None(u) /\ ~IsLog(e)
      BY <2>1, <2>5 DEF n
    <3> QED  BY <2>3, <2>4, <3>1
  <2>6. ASSUME One(a) PROVE Len(RequiredOf(a)) >= n
    <3>1. PICK i \in 1..(n + 1) : \A j \in 1..(n + 1) : IsLog(a[j]) => j = i
      BY <2>1, <2>6
    <3>2. CASE i = n + 1
      <4>1. \A j \in 1..n : ~IsLog(u[j])
        <5>1. \A j \in 1..n : j \in 1..(n + 1) /\ j # i
          BY <2>1, <3>2
        <5> QED  BY <2>1, <3>1, <5>1
      <4>2. None(u)
        BY <4>1 DEF n
      <4> QED  BY <2>1, <2>2, <2>3, <2>4, <4>2
    <3>3. CASE i # n + 1
      <4>1. i \in 1..n /\ \A j \in 1..n : IsLog(u[j]) => j = i
        BY <2>1, <3>1, <3>3
      <4>2. One(u) /\ ~IsLog(e)
        BY <2>1, <3>1, <3>3, <4>1 DEF n
      <4> QED  BY <2>1, <2>2, <2>3, <2>4, <4>2
    <3> QED  BY <3>2, <3>3
  <2>7. /\ None(a) => Len(RequiredOf(a)) = Len(a)
        /\ One(a) => Len(RequiredOf(a)) >= Len(a) - 1
    <3>1. Len(a) = n + 1 /\ Len(a) - 1 = n
      BY <2>1
    <3> QED  BY <2>5, <2>6, <3>1
  <2>8. a \in Seq(RetainedEvent)
    BY <2>1
  <2> QED  BY <2>7, <2>8 DEF a
<1>3. T \in SUBSET Seq(RetainedEvent)
  OBVIOUS
<1>4. T = Seq(RetainedEvent)
  <2> HIDE DEF T
  <2> QED  BY <1>1, <1>2, <1>3, SequencesGrow
<1>5. Len(RequiredOf(es)) \in Nat
  BY RequiredGrow, LenProperties
<1> QED  BY <1>4, <1>5

\* With one event too many the first one that is not required is a log.
LEMMA FirstLogIsLog ==
    ASSUME NEW b, Kept(b), Len(b.events) > MaxRetained
    PROVE  /\ FirstLog(b.events) \in 1..Len(b.events) /\ b.events[FirstLog(b.events)].kind = "log"
           /\ \A j \in 1..Len(b.events) : IsLog(b.events[j]) => FirstLog(b.events) <= j
<1> DEFINE es == b.events
           n == Len(es)
           S == {i \in 1..n : IsLog(es[i])}
           f == FirstLog(es)
<1>1. /\ es \in Seq(RetainedEvent) /\ n \in Nat /\ DOMAIN es = 1..n
      /\ MaxRetained \in Nat /\ MaxRequired \in Nat /\ MaxRequired < MaxRetained
  BY LenProperties, ObservationConstants DEF Kept, Retained
<1>2. /\ Len(RequiredOf(es)) \in Nat /\ Len(RequiredOf(es)) <= MaxRequired
      /\ (\A i \in 1..n : ~IsLog(es[i])) => Len(RequiredOf(es)) = n
      /\ (\E i \in 1..n : \A j \in 1..n : IsLog(es[j]) => j = i) => Len(RequiredOf(es)) >= n - 1
  BY <1>1, RequiredAreCounted DEF Kept
<1>3. n > MaxRetained
  OBVIOUS
<1>4. \A i \in 1..n : es[i] \in RetainedEvent
  BY <1>1, ElementOfSeq
<1>5. \A i, j \in 1..n : es[i].kind = "summary" /\ IsLog(es[j]) => j <= i
  BY DEF Kept, SummaryLast
<1> HIDE DEF es, n
<1>6. S # {} /\ S \in SUBSET Nat
  BY <1>1, <1>2, <1>3
<1>7. PICK i \in S : \A j \in S : i <= j
  <2> HIDE DEF S
  <2> QED  BY <1>6, LeastNumber
<1>8. IsLog(es[i]) /\ \A j \in 1..(i - 1) : ~IsLog(es[j])
  <2>1. ASSUME NEW j \in 1..(i - 1), IsLog(es[j]) PROVE FALSE
    <3>1. i \in 1..n
      OBVIOUS
    <3>2. j \in S /\ ~(i <= j)
      BY <1>1, <2>1, <3>1
    <3> QED  BY <1>7, <3>2
  <2> QED  BY <2>1
<1>9. f \in DOMAIN es /\ IsLog(es[f]) /\ \A j \in 1..(f - 1) : ~IsLog(es[j])
  BY <1>1, <1>8, Zenon DEF FirstLog
<1> HIDE DEF f, S
<1>10. \A j \in 1..n : IsLog(es[j]) => f <= j
  <2> SUFFICES ASSUME NEW j \in 1..n, IsLog(es[j]), ~(f <= j) PROVE FALSE
    OBVIOUS
  <2>1. j \in 1..(f - 1)
    BY <1>1, <1>9
  <2> QED  BY <1>9, <2>1
<1>11. es[f].kind # "summary"
  <2> SUFFICES ASSUME es[f].kind = "summary" PROVE FALSE
    OBVIOUS
  <2>1. \A j \in 1..n : IsLog(es[j]) => j = f
    BY <1>1, <1>5, <1>9, <1>10
  <2>2. Len(RequiredOf(es)) >= n - 1
    BY <1>1, <1>2, <1>9, <2>1
  <2> QED  BY <1>1, <1>2, <1>3, <2>2
<1>12. es[f].kind = "log"
  BY <1>1, <1>9, <1>11 DEF IsLog
<1> QED  BY <1>1, <1>9, <1>10, <1>12 DEF es, n, f

\* trimEvents loses no event that is required and forgets no log, whoever polled what before.
LEMMA TrimKeeps ==
    ASSUME NEW b, Kept(b), Len(b.events) <= MaxRetained + 1
    PROVE  /\ Kept(Trim(b)) /\ Len(Trim(b).events) <= MaxRetained
           /\ Passed(b, Trim(b), 0, <<>>)
           /\ NoSummary(b.events) <=> NoSummary(Trim(b).events)
           /\ ~NoSummary(b.events) => Trim(b).dropped = b.dropped
<1> DEFINE es == b.events
           n == Len(es)
           t == Trim(b)
<1>1. /\ b \in Retained /\ es \in Seq(RetainedEvent) /\ n \in Nat /\ MaxRetained \in Nat
      /\ b.ordinal \in Nat /\ b.dropped \in Nat
      /\ \A i \in 1..n : es[i] \in RetainedEvent
      /\ Ascending(b) /\ SummaryLast(b) /\ Len(RequiredOf(es)) <= MaxRequired
  BY LenProperties, ElementOfSeq, ObservationConstants DEF Kept, Retained
<1>2. CASE n <= MaxRetained
  <2>1. t = b
    BY <1>2 DEF Trim
  <2>2. Passed(b, b, 0, <<>>)
    <3>1. \A cursor : LogsAfter(es, cursor) \in Nat /\ RequiredAfter(es, cursor) \in Seq(Required)
      BY <1>1, LateTypes
    <3>2. \A cursor : RequiredAfter(es, cursor) = RequiredAfter(es, cursor) \o <<>>
      BY <3>1, ConcatEmptySeq
    <3> QED  BY <1>1, <3>1, <3>2 DEF Passed
  <2> QED  BY <1>2, <2>1, <2>2
<1>3. CASE ~(n <= MaxRetained)
  <2> DEFINE f == FirstLog(es)
             l == es[f]
             removed == TrimmedCount(l)
             rest == RemoveAt(es, f)
             summaries == {j \in DOMAIN rest : rest[j].kind = "summary"}
  <2>1. f \in 1..n /\ l.kind = "log" /\ \A j \in 1..n : IsLog(es[j]) => f <= j
    BY <1>1, <1>3, FirstLogIsLog
  <2>2. /\ l \in RetainedEvent /\ IsLog(l) /\ l.dropped \in Nat /\ removed = Worth(l) /\ removed \in Nat
        /\ l.ordinal \in 1..b.ordinal
    <3>1. l \in RetainedEvent
      BY <1>1, <2>1
    <3>2. l.ordinal \in 1..b.ordinal
      BY <1>1, <2>1 DEF Ascending
    <3>3. l.kind = "log"
      BY <2>1
    <3> HIDE DEF l
    <3>4. l.dropped \in Nat
      BY <3>1 DEF RetainedEvent
    <3>5. IsLog(l) /\ removed = l.dropped + 1 /\ Worth(l) = l.dropped + 1
      BY <3>3 DEF TrimmedCount, Worth, IsLog
    <3> QED  BY <3>1, <3>2, <3>4, <3>5
  <2>3. /\ rest \in Seq(RetainedEvent) /\ Len(rest) = n - 1
        /\ \A j \in 1..(n - 1) : rest[j] = IF j < f THEN es[j] ELSE es[j + 1]
        /\ \A cursor :
              /\ LogsAfter(es, cursor) = LogsAfter(rest, cursor) + WorthAfter(l, cursor)
              /\ LogsAfter(rest, cursor) \in Nat /\ WorthAfter(l, cursor) \in Nat
              /\ RequiredAfter(rest, cursor) = RequiredAfter(es, cursor)
    BY <1>1, <2>1, <2>2, EventRemoved
  <2>4. DOMAIN rest = 1..(n - 1) /\ n - 1 <= MaxRetained /\ n - 1 \in Nat
    <3>1. n - 1 \in Nat /\ n - 1 <= MaxRetained
      BY <1>1, <2>1
    <3> QED  BY <2>3, <3>1, LenProperties
  <2>5. t = IF summaries = {} THEN [b EXCEPT !.events = rest, !.dropped = @ + removed]
            ELSE [b EXCEPT !.events = [rest EXCEPT ![CHOOSE j \in summaries : TRUE].dropped = @ + removed]]
    BY <1>3 DEF Trim
  <2> DEFINE old(j) == IF j < f THEN j ELSE j + 1
  <2>6. \A j \in 1..(n - 1) : old(j) \in 1..n /\ rest[j] = es[old(j)] /\ rest[j] \in RetainedEvent
    <3>1. \A j \in 1..(n - 1) : old(j) \in 1..n /\ rest[j] = es[old(j)]
      BY <1>1, <2>1, <2>3
    <3> QED  BY <1>1, <3>1
  <2>7. \A i, j \in 1..(n - 1) : (i < j => old(i) < old(j)) /\ (old(i) <= old(j) => i <= j)
    BY <1>1, <2>1
  <2>8. /\ \A i \in 1..(n - 1) : rest[i].ordinal \in 1..b.ordinal
        /\ \A i, j \in 1..(n - 1) : i < j => rest[i].ordinal < rest[j].ordinal
        /\ \A i, j \in 1..(n - 1) : rest[i].kind = "summary" /\ IsLog(rest[j]) => j <= i
    BY <1>1, <2>6, <2>7 DEF Ascending, SummaryLast
  <2>9. \A i \in 1..n : i # f => \E j \in 1..(n - 1) : rest[j] = es[i]
    <3> SUFFICES ASSUME NEW i \in 1..n, i # f PROVE \E j \in 1..(n - 1) : rest[j] = es[i]
      OBVIOUS
    <3>1. CASE i < f
      BY <1>1, <2>1, <2>3, <3>1
    <3>2. CASE i > f
      <4>1. i - 1 \in 1..(n - 1) /\ ~(i - 1 < f) /\ i - 1 + 1 = i
        BY <1>1, <2>1, <3>2
      <4> QED  BY <2>3, <4>1
    <3> QED  BY <1>1, <2>1, <3>1, <3>2
  <2>10. NoSummary(es) <=> summaries = {}
    <3>1. NoSummary(es) => summaries = {}
      BY <2>4, <2>6 DEF NoSummary
    <3>2. summaries = {} => NoSummary(es)
      BY <2>1, <2>4, <2>9 DEF NoSummary
    <3> QED  BY <3>1, <3>2
  <2>11. RequiredAfter(es, 0) = RequiredOf(es)
    BY <1>1, AllAfterZero
  <2> HIDE DEF old, f, rest, summaries, removed, l, t, es, n
  <2>12. CASE summaries = {}
    <3>1. /\ t \in Retained /\ t.events = rest /\ t.dropped = b.dropped + removed /\ t.ordinal = b.ordinal
      <4>1. t = [b EXCEPT !.events = rest, !.dropped = b.dropped + removed]
        BY <2>5, <2>12, Zenon
      <4>2. b.dropped + removed \in Nat
        BY <1>1, <2>2
      <4> DEFINE d == b.dropped + removed
      <4> HIDE DEF d
      <4>3. t = [b EXCEPT !.events = rest, !.dropped = d] /\ d \in Nat
        BY <4>1, <4>2 DEF d
      <4>4. t \in Retained /\ t.events = rest /\ t.dropped = d /\ t.ordinal = b.ordinal
        BY <1>1, <2>3, <4>3 DEF Retained
      <4> QED  BY <4>4 DEF d
    <3>2. NoSummary(t.events)
      BY <2>3, <2>4, <2>12, <3>1 DEF NoSummary, summaries
    <3>3. Ascending(t) /\ SummaryLast(t)
      BY <2>3, <2>8, <3>1, <3>2 DEF Ascending, SummaryLast
    <3>4. RequiredOf(t.events) = RequiredOf(es)
      <4>1. RequiredAfter(t.events, 0) = RequiredOf(t.events)
        BY <3>1, <3>3, AllAfterZero
      <4> QED  BY <2>3, <2>11, <3>1, <4>1
    <3>5. Passed(b, t, 0, <<>>)
      <4>1. ASSUME NEW cursor
            PROVE  /\ LogsAfter(rest, cursor) + t.dropped >= LogsAfter(es, cursor) + b.dropped + 0
                   /\ RequiredAfter(rest, cursor) = RequiredAfter(es, cursor) \o <<>>
        <5> DEFINE lr == LogsAfter(rest, cursor)
                   le == LogsAfter(es, cursor)
                   w == WorthAfter(l, cursor)
        <5>1. lr \in Nat /\ w \in Nat /\ le = lr + w /\ w <= removed
          BY <2>2, <2>3 DEF WorthAfter
        <5>2. RequiredAfter(es, cursor) \in Seq(Required)
          BY <1>1, LateTypes
        <5> HIDE DEF lr, le, w
        <5>3. lr + t.dropped >= le + b.dropped + 0
          BY <1>1, <2>2, <3>1, <5>1
        <5>4. RequiredAfter(rest, cursor) = RequiredAfter(es, cursor) \o <<>>
          BY <2>3, <5>2, ConcatEmptySeq
        <5> QED  BY <5>3, <5>4 DEF lr, le
      <4>2. LogsAfter(rest, 0) + t.dropped = LogsAfter(es, 0) + b.dropped + 0
        <5>1. WorthAfter(l, 0) = removed
          BY <1>1, <2>2 DEF WorthAfter
        <5> DEFINE lr == LogsAfter(rest, 0)
                   le == LogsAfter(es, 0)
        <5>2. lr \in Nat /\ le = lr + removed
          BY <2>3, <5>1
        <5> HIDE DEF lr, le
        <5>3. lr + t.dropped = le + b.dropped + 0
          BY <1>1, <2>2, <3>1, <5>2
        <5> QED  BY <5>3 DEF lr, le
      <4> QED  BY <1>1, <3>1, <4>1, <4>2 DEF Passed, es
    <3>6. Kept(t) /\ Len(t.events) <= MaxRetained
      BY <1>1, <2>3, <2>4, <3>1, <3>3, <3>4 DEF Kept
    <3> QED  BY <2>10, <2>12, <3>2, <3>5, <3>6 DEF es, t
  <2>13. CASE summaries # {}
    <3> DEFINE s == CHOOSE j \in summaries : TRUE
               c == [rest[s] EXCEPT !.dropped = @ + removed]
               new == [rest EXCEPT ![s] = c]
    <3>1. s \in 1..(n - 1) /\ rest[s].kind = "summary" /\ rest[s] \in RetainedEvent
      <4>1. s \in summaries
        BY <2>13
      <4> QED  BY <2>4, <2>6, <4>1 DEF summaries
    <3>2. /\ c \in RetainedEvent /\ IsLog(c) /\ IsLog(rest[s]) /\ c.kind = "summary"
          /\ c.ordinal = rest[s].ordinal /\ c.dropped = rest[s].dropped + removed /\ rest[s].dropped \in Nat
      <4> DEFINE r == rest[s]
                 d == r.dropped + removed
      <4>1. r \in RetainedEvent /\ r.kind = "summary" /\ c = [r EXCEPT !.dropped = d]
        BY <3>1
      <4> HIDE DEF r, c
      <4>2. r.dropped \in Nat /\ d \in Nat
        BY <2>2, <4>1 DEF RetainedEvent
      <4> HIDE DEF d
      <4>3. c \in [kind : {"log", "summary"} \cup Required, dropped : Nat, ordinal : Nat]
        BY <4>1, <4>2 DEF RetainedEvent
      <4>4. c.kind = "summary" /\ c.ordinal = r.ordinal /\ c.dropped = d
        BY <4>1, <4>2 DEF RetainedEvent
      <4>5. c \in RetainedEvent /\ IsLog(c) /\ IsLog(r)
        BY <4>1, <4>3, <4>4 DEF RetainedEvent, IsLog, Required, Usages
      <4> QED  BY <4>2, <4>4, <4>5 DEF r, d
    <3>3. [rest EXCEPT ![s].dropped = @ + removed] = new
      OBVIOUS
    <3>4. /\ new \in Seq(RetainedEvent) /\ Len(new) = n - 1
          /\ \A j \in 1..(n - 1) : new[j] = IF j = s THEN c ELSE rest[j]
          /\ \A cursor :
                /\ LogsAfter(new, cursor) + WorthAfter(rest[s], cursor) = LogsAfter(rest, cursor) + WorthAfter(c, cursor)
                /\ LogsAfter(new, cursor) \in Nat
                /\ RequiredAfter(new, cursor) = RequiredAfter(rest, cursor)
      <4>1. s \in 1..Len(rest)
        BY <2>3, <3>1
      <4>2. rest \in Seq(RetainedEvent) /\ c \in RetainedEvent /\ IsLog(c) /\ IsLog(rest[s]) /\ Len(rest) = n - 1
        BY <2>3, <3>2
      <4>3. new = [rest EXCEPT ![s] = c]
        OBVIOUS
      <4> HIDE DEF c, s, new
      <4>4. /\ [rest EXCEPT ![s] = c] \in Seq(RetainedEvent) /\ Len([rest EXCEPT ![s] = c]) = Len(rest)
            /\ \A j \in 1..Len(rest) : [rest EXCEPT ![s] = c][j] = IF j = s THEN c ELSE rest[j]
            /\ \A cursor :
                  /\ LogsAfter([rest EXCEPT ![s] = c], cursor) + WorthAfter(rest[s], cursor)
                       = LogsAfter(rest, cursor) + WorthAfter(c, cursor)
                  /\ LogsAfter([rest EXCEPT ![s] = c], cursor) \in Nat
                  /\ RequiredAfter([rest EXCEPT ![s] = c], cursor) = RequiredAfter(rest, cursor)
        BY <4>1, <4>2, EventReplaced
      <4> QED  BY <4>2, <4>3, <4>4
    <3>5. t = [b EXCEPT !.events = new]
      BY <2>5, <2>13, <3>3
    <3> HIDE DEF s, c, new
    <3>6. t \in Retained /\ t.events = new /\ t.dropped = b.dropped /\ t.ordinal = b.ordinal
      BY <1>1, <3>4, <3>5 DEF Retained
    <3>7. b.dropped = 0
      BY <1>1, <2>10, <2>13 DEF SummaryLast, es
    <3>8. \A j \in 1..(n - 1) : new[j].kind = rest[j].kind /\ new[j].ordinal = rest[j].ordinal
      BY <3>1, <3>2, <3>4
    <3>9. Ascending(t) /\ SummaryLast(t)
      <4>1. \A i \in 1..(n - 1) : new[i].ordinal \in 1..b.ordinal
        BY <2>8, <3>8
      <4>2. \A i, j \in 1..(n - 1) : i < j => new[i].ordinal < new[j].ordinal
        BY <2>8, <3>8
      <4>3. \A i, j \in 1..(n - 1) : new[i].kind = "summary" /\ IsLog(new[j]) => j <= i
        BY <2>8, <3>8 DEF IsLog
      <4> QED  BY <3>4, <3>6, <3>7, <4>1, <4>2, <4>3 DEF Ascending, SummaryLast
    <3>10. ~NoSummary(t.events)
      BY <3>1, <3>4, <3>6, <3>8 DEF NoSummary
    <3>11. RequiredOf(t.events) = RequiredOf(es)
      <4>1. RequiredAfter(t.events, 0) = RequiredOf(t.events)
        BY <3>6, <3>9, AllAfterZero
      <4> QED  BY <2>3, <2>11, <3>4, <3>6, <4>1
    <3>12. l.ordinal < rest[s].ordinal
      <4>1. PICK k \in 1..n : es[k] = rest[s]
        BY <2>6, <3>1
      <4>2. f <= k /\ k # f
        BY <2>1, <3>1, <3>2, <4>1 DEF l
      <4>3. f < k
        BY <1>1, <2>1, <4>2
      <4> QED  BY <1>1, <2>1, <4>1, <4>3 DEF Ascending, l, es, n
    <3>13. Passed(b, t, 0, <<>>)
      <4>1. ASSUME NEW cursor \in Nat
            PROVE  /\ LogsAfter(new, cursor) >= LogsAfter(es, cursor)
                   /\ cursor = 0 => LogsAfter(new, cursor) = LogsAfter(es, cursor)
        <5> DEFINE ln == LogsAfter(new, cursor)
                   lr == LogsAfter(rest, cursor)
                   le == LogsAfter(es, cursor)
                   w == WorthAfter(l, cursor)
                   ws == WorthAfter(rest[s], cursor)
                   wc == WorthAfter(c, cursor)
        <5>1. ln \in Nat /\ lr \in Nat /\ w \in Nat /\ le = lr + w /\ ln + ws = lr + wc
          BY <2>3, <3>4
        <5>2. l.ordinal \in Nat /\ rest[s].ordinal \in Nat
          BY <2>2, <3>1 DEF RetainedEvent
        <5>3. wc = ws + (IF rest[s].ordinal > cursor THEN removed ELSE 0) /\ ws \in Nat
          BY <2>2, <3>1, <3>2 DEF WorthAfter, Worth
        <5>4. w = IF l.ordinal > cursor THEN removed ELSE 0
          BY <2>2 DEF WorthAfter
        <5>5. wc >= ws + w /\ (cursor = 0 => wc = ws + w) /\ wc \in Nat
          <6>1. l.ordinal > cursor => rest[s].ordinal > cursor
            BY <3>12, <5>2
          <6>2. cursor = 0 => l.ordinal > cursor
            BY <1>1, <2>2
          <6> QED  BY <2>2, <5>3, <5>4, <6>1, <6>2
        <5> HIDE DEF ln, lr, le, w, ws, wc
        <5>6. ln >= le /\ (cursor = 0 => ln = le)
          BY <5>1, <5>3, <5>5
        <5> QED  BY <5>6 DEF ln, le
      <4>2. \A cursor : LogsAfter(new, cursor) \in Nat /\ LogsAfter(es, cursor) \in Nat /\ RequiredAfter(es, cursor) \in Seq(Required)
        BY <1>1, <3>4, LateTypes
      <4>3. ASSUME NEW cursor \in 0..b.ordinal
            PROVE  /\ LogsAfter(new, cursor) + t.dropped >= LogsAfter(es, cursor) + b.dropped + 0
                   /\ RequiredAfter(new, cursor) = RequiredAfter(es, cursor) \o <<>>
        <5>1. LogsAfter(new, cursor) >= LogsAfter(es, cursor)
          BY <1>1, <4>1
        <5>2. LogsAfter(new, cursor) + 0 >= LogsAfter(es, cursor) + 0 + 0
          BY <4>2, <5>1
        <5>3. RequiredAfter(new, cursor) = RequiredAfter(es, cursor) \o <<>>
          BY <2>3, <3>4, <4>2, ConcatEmptySeq
        <5> QED  BY <3>6, <3>7, <5>2, <5>3
      <4>4. LogsAfter(new, 0) + t.dropped = LogsAfter(es, 0) + b.dropped + 0
        <5>1. LogsAfter(new, 0) = LogsAfter(es, 0)
          BY <4>1
        <5>2. LogsAfter(es, 0) \in Nat
          BY <4>2
        <5>3. t.dropped = 0 /\ b.dropped = 0
          BY <3>6, <3>7
        <5> QED  BY <5>1, <5>2, <5>3
      <4> QED  BY <1>1, <3>6, <4>3, <4>4 DEF Passed, es
    <3>14. Kept(t) /\ Len(t.events) <= MaxRetained
      BY <1>1, <2>4, <3>4, <3>6, <3>9, <3>11 DEF Kept
    <3> QED  BY <2>10, <2>13, <3>6, <3>10, <3>13, <3>14 DEF es, t
  <2> QED  BY <2>12, <2>13
<1> QED  BY <1>2, <1>3

\* With nothing before, and with nothing behind.
LEMMA PassedBefore ==
    ASSUME NEW b, NEW t, NEW u, NEW n \in Nat, NEW k \in Seq(Required),
           b \in Retained, t \in Retained, u \in Retained, Passed(b, t, 0, <<>>), Passed(t, u, n, k)
    PROVE  Passed(b, u, n, k)
<1>1. <<>> \in Seq(Required) /\ <<>> \o k = k /\ 0 + n = n
  BY EmptySeq, ConcatEmptySeq
<1>2. Passed(b, u, 0 + n, <<>> \o k)
  BY <1>1, PassedOn
<1> QED  BY <1>1, <1>2, Zenon

\* What passes before nothing passes is what passed.
LEMMA PassedBehind ==
    ASSUME NEW b, NEW t, NEW u, NEW n \in Nat, NEW k \in Seq(Required),
           b \in Retained, t \in Retained, u \in Retained, Passed(b, t, n, k), Passed(t, u, 0, <<>>)
    PROVE  Passed(b, u, n, k)
<1>1. <<>> \in Seq(Required) /\ k \o <<>> = k /\ n + 0 = n
  BY EmptySeq, ConcatEmptySeq
<1>2. Passed(b, u, n + 0, k \o <<>>)
  BY <1>1, PassedOn
<1> QED  BY <1>1, <1>2, Zenon

\* The kinds an event adds.
Kinds(e) == IF e.kind \in Required THEN <<e.kind>> ELSE <<>>

\* An event put at the end with the next ordinal.
LEMMA NumberKeeps ==
    ASSUME NEW b, Kept(b), NEW t, t \in Retained, NEW e \in RetainedEvent, NEW n \in Nat,
           e.ordinal = b.ordinal + 1, t.ordinal = b.ordinal + 1, t.events = Append(b.events, e),
           Worth(e) + t.dropped = b.dropped + n, t.dropped = 0 \/ t.dropped = b.dropped,
           IsLog(e) => NoSummary(b.events), e.kind = "summary" => t.dropped = 0,
           e.kind \in Required => Len(RequiredOf(b.events)) # MaxRequired
    PROVE  /\ Kept(t) /\ Len(t.events) = Len(b.events) + 1
           /\ Passed(b, t, n, Kinds(e)) /\ Kinds(e) \in Seq(Required)
           /\ NoSummary(t.events) <=> NoSummary(b.events) /\ e.kind # "summary"
<1> DEFINE es == b.events
           m == Len(es)
           a == t.events
           o == b.ordinal
<1>1. /\ b \in Retained /\ es \in Seq(RetainedEvent) /\ m \in Nat /\ MaxRequired \in Nat
      /\ o \in Nat /\ b.dropped \in Nat /\ t.dropped \in Nat /\ Worth(e) \in Nat
      /\ Ascending(b) /\ SummaryLast(b) /\ Len(RequiredOf(es)) <= MaxRequired
  BY LenProperties, ObservationConstants, OneEvent DEF Kept, Retained
<1>2. a \in Seq(RetainedEvent) /\ Len(a) = m + 1 /\ a[m + 1] = e /\ \A i \in 1..m : a[i] = es[i]
  BY <1>1, AppendProperties
<1>3. /\ \A cursor : LogsAfter(a, cursor) = LogsAfter(es, cursor) + WorthAfter(e, cursor)
      /\ \A cursor : RequiredAfter(a, cursor) =
            IF e.ordinal > cursor THEN RequiredStep(RequiredAfter(es, cursor), e) ELSE RequiredAfter(es, cursor)
      /\ RequiredOf(a) = RequiredStep(RequiredOf(es), e)
  <2>1. a = Append(es, e) /\ es \in Seq(RetainedEvent)
    BY <1>1
  <2> HIDE DEF a, es
  <2> QED  BY <2>1, EventAppended, RequiredGrow
<1>4. Ascending(t)
  <2>1. /\ \A i \in 1..m : es[i].ordinal \in 1..o
        /\ \A i, j \in 1..m : i < j => es[i].ordinal < es[j].ordinal
    BY <1>1 DEF Ascending
  <2>2. t.ordinal = o + 1 /\ e.ordinal = o + 1
    OBVIOUS
  <2> HIDE DEF a, es, m, o
  <2>3. \A i \in 1..(m + 1) : a[i].ordinal \in 1..(o + 1)
    <3> SUFFICES ASSUME NEW i \in 1..(m + 1) PROVE a[i].ordinal \in 1..(o + 1)
      OBVIOUS
    <3>1. CASE i = m + 1
      BY <1>1, <1>2, <2>2, <3>1
    <3>2. CASE i # m + 1
      <4>1. i \in 1..m
        BY <1>1, <3>2
      <4>2. es[i].ordinal \in 1..o /\ a[i] = es[i]
        BY <1>2, <2>1, <4>1
      <4>3. 1..o \subseteq 1..(o + 1)
        BY <1>1
      <4> QED  BY <4>2, <4>3, Zenon
    <3> QED  BY <3>1, <3>2
  <2>4. \A i, j \in 1..(m + 1) : i < j => a[i].ordinal < a[j].ordinal
    <3> SUFFICES ASSUME NEW i \in 1..(m + 1), NEW j \in 1..(m + 1), i < j PROVE a[i].ordinal < a[j].ordinal
      OBVIOUS
    <3>1. i \in 1..m /\ a[i] = es[i] /\ es[i].ordinal \in 1..o
      BY <1>1, <1>2, <2>1
    <3>2. CASE j = m + 1
      BY <1>1, <1>2, <2>2, <3>1, <3>2
    <3>3. CASE j # m + 1
      <4>1. j \in 1..m
        BY <1>1, <3>3
      <4> QED  BY <1>2, <2>1, <3>1, <4>1
    <3> QED  BY <3>2, <3>3
  <2> QED  BY <1>2, <2>2, <2>3, <2>4 DEF Ascending, a
<1>5. NoSummary(a) <=> NoSummary(es) /\ e.kind # "summary"
  <2> HIDE DEF a, es
  <2>1. ASSUME NoSummary(a) PROVE NoSummary(es) /\ e.kind # "summary"
    BY <1>1, <1>2, <2>1 DEF NoSummary
  <2>2. ASSUME NoSummary(es), e.kind # "summary" PROVE NoSummary(a)
    <3> SUFFICES ASSUME NEW i \in 1..(m + 1) PROVE a[i].kind # "summary"
      BY <1>2 DEF NoSummary
    <3>1. CASE i = m + 1
      BY <1>2, <2>2, <3>1
    <3>2. CASE i # m + 1
      <4>1. i \in 1..m
        BY <1>1, <3>2
      <4> QED  BY <1>2, <2>2, <4>1 DEF NoSummary
    <3> QED  BY <3>1, <3>2
  <2> QED  BY <2>1, <2>2
<1>6. SummaryLast(t)
  <2>1. \A i, j \in 1..m : es[i].kind = "summary" /\ IsLog(es[j]) => j <= i
    BY <1>1 DEF SummaryLast
  <2>2. b.dropped > 0 => NoSummary(es)
    BY <1>1 DEF SummaryLast
  <2>3. t.dropped > 0 => NoSummary(a)
    <3>1. t.dropped > 0 => t.dropped = b.dropped /\ e.kind # "summary"
      BY <1>1
    <3> HIDE DEF a, es
    <3> QED  BY <1>5, <2>2, <3>1
  <2>4. IsLog(e) => NoSummary(es)
    OBVIOUS
  <2> HIDE DEF a, es, m
  <2>5. \A i, j \in 1..(m + 1) : a[i].kind = "summary" /\ IsLog(a[j]) => j <= i
    <3> SUFFICES ASSUME NEW i \in 1..(m + 1), NEW j \in 1..(m + 1), a[i].kind = "summary", IsLog(a[j])
                 PROVE  j <= i
      OBVIOUS
    <3>1. CASE i = m + 1
      BY <1>1, <3>1
    <3>2. CASE i # m + 1
      <4>1. i \in 1..m /\ es[i].kind = "summary"
        BY <1>1, <1>2, <3>2
      <4>2. ~NoSummary(es)
        BY <4>1 DEF NoSummary, m
      <4>3. j # m + 1
        BY <1>2, <2>4, <4>2
      <4>4. j \in 1..m /\ IsLog(es[j])
        BY <1>1, <1>2, <4>3
      <4> QED  BY <2>1, <4>1, <4>4
    <3> QED  BY <3>1, <3>2
  <2> QED  BY <1>2, <2>3, <2>5 DEF SummaryLast, a
<1>7. Len(RequiredOf(a)) <= MaxRequired
  <2>1. e.kind \in Required => Len(RequiredOf(es)) # MaxRequired
    OBVIOUS
  <2>2. RequiredOf(es) \in Seq(Required)
    BY <1>1, RequiredGrow
  <2> DEFINE r == RequiredOf(es)
  <2> HIDE DEF r, es, a
  <2>3. r \in Seq(Required) /\ Len(r) \in Nat /\ Len(r) <= MaxRequired /\ (e.kind \in Required => Len(r) # MaxRequired)
    BY <1>1, <2>1, <2>2, LenProperties DEF r
  <2>4. CASE e.kind \in Required
    <3>1. RequiredOf(a) = Append(r, e.kind)
      BY <1>3, <2>4 DEF RequiredStep, r
    <3>2. Len(Append(r, e.kind)) = Len(r) + 1
      BY <2>3, <2>4, AppendProperties
    <3> QED  BY <1>1, <2>3, <2>4, <3>1, <3>2
  <2>5. CASE e.kind \notin Required
    BY <1>3, <2>3, <2>5 DEF RequiredStep, r
  <2> QED  BY <2>4, <2>5
<1>8. Kinds(e) \in Seq(Required)
  BY EmptySeq DEF Kinds
<1>9. Passed(b, t, n, Kinds(e))
  <2>1. ASSUME NEW cursor \in 0..o
        PROVE  /\ LogsAfter(a, cursor) + t.dropped = LogsAfter(es, cursor) + b.dropped + n
               /\ LogsAfter(a, cursor) \in Nat /\ LogsAfter(es, cursor) \in Nat
               /\ RequiredAfter(a, cursor) = RequiredAfter(es, cursor) \o Kinds(e)
    <3>1. e.ordinal > cursor
      BY <1>1
    <3>2. LogsAfter(a, cursor) = LogsAfter(es, cursor) + Worth(e)
      BY <1>3, <3>1 DEF WorthAfter
    <3>3. LogsAfter(a, cursor) \in Nat /\ LogsAfter(es, cursor) \in Nat /\ RequiredAfter(es, cursor) \in Seq(Required)
      BY <1>1, <1>2, LateTypes
    <3>4. LogsAfter(a, cursor) + t.dropped = LogsAfter(es, cursor) + b.dropped + n
      <4> DEFINE la == LogsAfter(a, cursor)
                 le == LogsAfter(es, cursor)
                 w == Worth(e)
                 dt == t.dropped
                 db == b.dropped
      <4>1. la \in Nat /\ le \in Nat /\ w \in Nat /\ dt \in Nat /\ db \in Nat /\ la = le + w /\ w + dt = db + n
        BY <1>1, <3>2, <3>3
      <4> HIDE DEF la, le, w, dt, db
      <4>2. la + dt = le + db + n
        BY <4>1
      <4> QED  BY <4>2 DEF la, le, dt, db
    <3>5. RequiredAfter(a, cursor) = RequiredAfter(es, cursor) \o Kinds(e)
      <4> DEFINE r == RequiredAfter(es, cursor)
      <4>1. r \in Seq(Required) /\ RequiredAfter(a, cursor) = RequiredStep(r, e)
        BY <1>3, <3>1, <3>3
      <4> HIDE DEF r
      <4>2. CASE e.kind \in Required
        <5>1. Append(r, e.kind) = r \o <<e.kind>>
          BY <4>1, <4>2, AppendIsConcat
        <5> QED  BY <4>1, <4>2, <5>1 DEF RequiredStep, Kinds, r
      <4>3. CASE e.kind \notin Required
        <5>1. r \o <<>> = r
          BY <4>1, ConcatEmptySeq
        <5> QED  BY <4>1, <4>3, <5>1 DEF RequiredStep, Kinds, r
      <4> QED  BY <4>2, <4>3
    <3> QED  BY <3>3, <3>4, <3>5
  <2>2. 0 \in 0..o /\ o <= t.ordinal
    BY <1>1
  <2>3. LogsAfter(a, 0) + t.dropped = LogsAfter(es, 0) + b.dropped + n
    BY <2>1, <2>2
  <2>4. ASSUME NEW cursor \in 0..o
        PROVE  LogsAfter(a, cursor) + t.dropped >= LogsAfter(es, cursor) + b.dropped + n
    <3> DEFINE x == LogsAfter(a, cursor)
               d == t.dropped
               y == LogsAfter(es, cursor) + b.dropped + n
    <3>1. x + d = y /\ x \in Nat /\ d \in Nat
      BY <1>1, <2>1
    <3> HIDE DEF x, y, d
    <3>2. x + d >= y
      BY <3>1
    <3> QED  BY <3>2 DEF x, y, d
  <2> QED  BY <2>1, <2>2, <2>3, <2>4 DEF Passed
<1>10. Kept(t) /\ Len(t.events) = Len(b.events) + 1
  BY <1>2, <1>4, <1>6, <1>7 DEF Kept
<1> QED  BY <1>5, <1>8, <1>9, <1>10

\* Events with a field replaced.
LEMMA EventCopies ==
    ASSUME NEW e \in [kind : {"log", "summary"} \cup Required, dropped : Nat, ordinal : Nat],
           NEW d \in Nat, NEW o \in Nat
    PROVE  /\ [e EXCEPT !.ordinal = o] \in [kind : {"log", "summary"} \cup Required, dropped : Nat, ordinal : Nat]
           /\ [e EXCEPT !.ordinal = o].kind = e.kind /\ [e EXCEPT !.ordinal = o].dropped = e.dropped
           /\ [e EXCEPT !.ordinal = o].ordinal = o
           /\ [e EXCEPT !.dropped = d] \in [kind : {"log", "summary"} \cup Required, dropped : Nat, ordinal : Nat]
           /\ [e EXCEPT !.dropped = d].kind = e.kind /\ [e EXCEPT !.dropped = d].dropped = d
  OBVIOUS

\* flushDroppedLogs: the logs dropped are in a summary then.
LEMMA FlushKeeps ==
    ASSUME NEW b, Kept(b), Len(b.events) <= MaxRetained
    PROVE  /\ Kept(FlushDropped(b)) /\ Len(FlushDropped(b).events) <= MaxRetained
           /\ FlushDropped(b).dropped = 0 /\ Passed(b, FlushDropped(b), 0, <<>>)
<1> DEFINE es == b.events
           f == FlushDropped(b)
           d == b.dropped
           o == b.ordinal
<1>1. /\ b \in Retained /\ es \in Seq(RetainedEvent) /\ d \in Nat /\ o \in Nat
      /\ Len(es) \in Nat /\ MaxRetained \in Nat /\ SummaryLast(b)
  BY LenProperties, ObservationConstants DEF Kept, Retained
<1>2. CASE d = 0
  <2>1. f = b
    BY <1>2 DEF FlushDropped
  <2>2. \A cursor : LogsAfter(es, cursor) \in Nat /\ RequiredAfter(es, cursor) \in Seq(Required)
    BY <1>1, LateTypes
  <2>3. \A cursor : RequiredAfter(es, cursor) = RequiredAfter(es, cursor) \o <<>>
    BY <2>2, ConcatEmptySeq
  <2>4. Passed(b, b, 0, <<>>)
    BY <1>1, <2>2, <2>3 DEF Passed
  <2> QED  BY <1>2, <2>1, <2>4
<1>3. CASE d # 0
  <2> DEFINE v == Event("summary", d)
             e == [v EXCEPT !.ordinal = o + 1]
             u == [b EXCEPT !.ordinal = o + 1, !.events = Append(es, e)]
             t == [u EXCEPT !.dropped = 0]
  <2>1. f = Trim(t)
    BY <1>3 DEF FlushDropped, Numbered
  <2>2. /\ e \in RetainedEvent /\ e.kind = "summary" /\ IsLog(e) /\ Worth(e) = d
        /\ e.kind \notin Required /\ e.ordinal = o + 1
    <3>1. "summary" \notin Required
      BY DEF Required, Usages
    <3>2. /\ v \in [kind : {"log", "summary"} \cup Required, dropped : Nat, ordinal : Nat]
          /\ v.kind = "summary" /\ v.dropped = d /\ o + 1 \in Nat
      BY <1>1 DEF Event
    <3> HIDE DEF v
    <3>3. /\ e \in [kind : {"log", "summary"} \cup Required, dropped : Nat, ordinal : Nat]
          /\ e.kind = "summary" /\ e.dropped = d /\ e.ordinal = o + 1
      BY <1>1, <3>2, EventCopies
    <3> HIDE DEF e
    <3> QED  BY <3>1, <3>3 DEF RetainedEvent, IsLog, Worth
  <2>3. t \in Retained /\ t.events = Append(es, e) /\ t.ordinal = o + 1 /\ t.dropped = 0
    <3> HIDE DEF e
    <3>1. Append(es, e) \in Seq(RetainedEvent) /\ o + 1 \in Nat
      BY <1>1, <2>2, AppendProperties
    <3> DEFINE as == Append(es, e)
               i == o + 1
    <3>2. u = [b EXCEPT !.ordinal = i, !.events = as] /\ t = [u EXCEPT !.dropped = 0]
      OBVIOUS
    <3> HIDE DEF u, t, as, i
    <3>3. as \in Seq(RetainedEvent) /\ i \in Nat
      BY <3>1 DEF as, i
    <3>4. u \in Retained /\ u.events = as /\ u.ordinal = i
      BY <1>1, <3>2, <3>3 DEF Retained
    <3>5. t \in Retained /\ t.events = as /\ t.ordinal = i /\ t.dropped = 0
      BY <3>2, <3>4 DEF Retained
    <3> QED  BY <3>5 DEF as, i
  <2>4. NoSummary(es)
    BY <1>1, <1>3 DEF SummaryLast
  <2>5. Worth(e) + t.dropped = d + 0
    BY <1>1, <2>2, <2>3
  <2>6. Kinds(e) = <<>>
    BY <2>2 DEF Kinds
  <2> HIDE DEF e, u, t, f
  <2>7. /\ Kept(t) /\ Len(t.events) = Len(es) + 1 /\ Passed(b, t, 0, Kinds(e))
        /\ NoSummary(t.events) <=> NoSummary(es) /\ e.kind # "summary"
    <3>1. /\ IsLog(e) => NoSummary(b.events)
          /\ e.kind = "summary" => t.dropped = 0
          /\ e.kind \in Required => Len(RequiredOf(b.events)) # MaxRequired
          /\ t.dropped = 0 \/ t.dropped = b.dropped
      BY <2>2, <2>3, <2>4
    <3>2. 0 \in Nat /\ t.events = Append(b.events, e) /\ t.ordinal = b.ordinal + 1 /\ e.ordinal = b.ordinal + 1
          /\ Worth(e) + t.dropped = b.dropped + 0
      BY <2>2, <2>3, <2>5
    <3>3. Kept(t)
      BY <2>2, <2>3, <3>1, <3>2, NumberKeeps, Zenon
    <3> QED  BY <2>2, <2>3, <3>1, <3>2, NumberKeeps
  <2>8. Len(t.events) <= MaxRetained + 1
    BY <1>1, <2>7
  <2>9. /\ Kept(f) /\ Len(f.events) <= MaxRetained /\ Passed(t, f, 0, <<>>)
        /\ ~NoSummary(t.events) => f.dropped = t.dropped
    BY <2>1, <2>7, <2>8, TrimKeeps
  <2>10. f.dropped = 0
    BY <2>2, <2>3, <2>7, <2>9
  <2>11. Passed(b, f, 0, <<>>)
    <3>1. <<>> \in Seq(Required) /\ f \in Retained /\ 0 \in Nat /\ b \in Retained /\ t \in Retained
      BY <1>1, <2>3, <2>9, EmptySeq DEF Kept
    <3>2. Passed(b, t, 0, <<>>) /\ Passed(t, f, 0, <<>>)
      BY <2>6, <2>7, <2>9
    <3> QED  BY <3>1, <3>2, PassedBehind, Zenon
  <2> QED  BY <2>9, <2>10, <2>11 DEF f
<1> QED  BY <1>2, <1>3

\* appendEvent: one event came in. The required events before it are as they were.
LEMMA AppendKeeps ==
    ASSUME NEW b, Kept(b), Len(b.events) <= MaxRetained, NEW e \in RetainedEvent,
           e.kind # "summary", e.kind = "log" => NoSummary(b.events),
           e.kind \in Required => Len(RequiredOf(b.events)) # MaxRequired
    PROVE  /\ Kept(AppendEvent(b, e)) /\ Len(AppendEvent(b, e).events) <= MaxRetained
           /\ Passed(b, AppendEvent(b, e), Worth(e), Kinds(e))
           /\ Worth(e) \in Nat /\ Kinds(e) \in Seq(Required)
           /\ e.kind # "completed" /\ NoSummary(b.events) => NoSummary(AppendEvent(b, e).events)
<1> DEFINE f == IF e.kind = "completed" THEN FlushDropped(b) ELSE b
           d == IF e.kind = "log" THEN b.dropped ELSE 0
           y == IF e.kind = "log" THEN [e EXCEPT !.dropped = e.dropped + b.dropped] ELSE e
           x == [y EXCEPT !.ordinal = f.ordinal + 1]
           u == [f EXCEPT !.ordinal = f.ordinal + 1, !.events = Append(f.events, x)]
           t == IF e.kind = "log" THEN [u EXCEPT !.dropped = 0] ELSE u
           a == AppendEvent(b, e)
<1>1. /\ b \in Retained /\ b.events \in Seq(RetainedEvent) /\ b.dropped \in Nat /\ b.ordinal \in Nat
      /\ MaxRetained \in Nat /\ <<>> \in Seq(Required) /\ Ascending(b)
      /\ e.kind \in {"log", "summary"} \cup Required /\ e.dropped \in Nat
      /\ e.kind \in Required => e.dropped = 0
  BY EmptySeq, ObservationConstants DEF Kept, Retained, RetainedEvent
<1>2. /\ Kept(f) /\ Len(f.events) <= MaxRetained /\ Passed(b, f, 0, <<>>)
      /\ e.kind # "completed" => f = b
  <2>1. CASE e.kind = "completed"
    BY <2>1, FlushKeeps
  <2>2. CASE e.kind # "completed"
    <3>1. \A cursor : LogsAfter(b.events, cursor) \in Nat /\ RequiredAfter(b.events, cursor) \in Seq(Required)
      BY <1>1, LateTypes
    <3>2. \A cursor : RequiredAfter(b.events, cursor) = RequiredAfter(b.events, cursor) \o <<>>
      BY <3>1, ConcatEmptySeq
    <3>3. Passed(b, b, 0, <<>>)
      BY <1>1, <3>1, <3>2 DEF Passed
    <3> QED  BY <2>2, <3>3
  <2> QED  BY <2>1, <2>2
<1>3. /\ f \in Retained /\ f.events \in Seq(RetainedEvent) /\ f.dropped \in Nat /\ f.ordinal \in Nat
      /\ Len(f.events) \in Nat /\ Ascending(f)
  BY <1>2, LenProperties DEF Kept, Retained
<1>4. RequiredOf(f.events) = RequiredOf(b.events)
  <2>1. RequiredAfter(f.events, 0) = RequiredAfter(b.events, 0) \o <<>>
    BY <1>1, <1>2 DEF Passed
  <2>2. RequiredAfter(f.events, 0) = RequiredOf(f.events) /\ RequiredAfter(b.events, 0) = RequiredOf(b.events)
    BY <1>1, <1>3, AllAfterZero
  <2>3. RequiredOf(b.events) \in Seq(Required)
    BY <1>1, RequiredGrow
  <2> QED  BY <2>1, <2>2, <2>3, ConcatEmptySeq
<1>5. d \in Nat /\ (e.kind = "log" => d = f.dropped) /\ (e.kind # "log" => d = 0) /\ f.dropped - d \in Nat
      /\ (f.dropped - d = 0 \/ d = 0) /\ f.dropped - 0 = f.dropped /\ e.dropped + 0 = e.dropped
  <2>1. e.kind = "log" => f.dropped = b.dropped /\ d = b.dropped
    BY <1>2
  <2>2. e.kind # "log" => d = 0
    OBVIOUS
  <2> DEFINE fd == f.dropped
             ed == e.dropped
  <2>3. fd \in Nat /\ ed \in Nat /\ (e.kind = "log" => d = fd) /\ (e.kind # "log" => d = 0)
    BY <1>1, <1>3, <2>1, <2>2
  <2> HIDE DEF fd, ed, d
  <2>4. d \in Nat /\ fd - d \in Nat /\ (fd - d = 0 \/ d = 0) /\ fd - 0 = fd /\ ed + 0 = ed
    BY <2>3
  <2> QED  BY <2>3, <2>4 DEF fd, ed
<1>6. a = Trim(t)
  BY DEF AppendEvent, Numbered
<1>7. /\ x \in RetainedEvent /\ x.kind = e.kind /\ x.ordinal = f.ordinal + 1
      /\ IsLog(x) <=> e.kind = "log"
      /\ Kinds(x) = Kinds(e) /\ Worth(e) \in Nat
      /\ Worth(x) + (f.dropped - d) = f.dropped + Worth(e)
  <2>1. "log" \notin Required
    BY DEF Required, Usages
  <2>2. /\ x.kind = e.kind /\ x.dropped = e.dropped + d /\ x.ordinal = f.ordinal + 1
        /\ x \in [kind : {"log", "summary"} \cup Required, dropped : Nat, ordinal : Nat]
    <3>1. /\ y.kind = e.kind /\ y.dropped = e.dropped + d
          /\ y \in [kind : {"log", "summary"} \cup Required, dropped : Nat, ordinal : Nat]
      <4>1. e \in [kind : {"log", "summary"} \cup Required, dropped : Nat, ordinal : Nat]
        BY DEF RetainedEvent
      <4>2. e.dropped + b.dropped \in Nat
        BY <1>1
      <4>3. CASE e.kind = "log"
        <5> DEFINE z == e.dropped + b.dropped
        <5>1. y = [e EXCEPT !.dropped = z] /\ z \in Nat /\ z = e.dropped + d
          BY <4>2, <4>3
        <5> HIDE DEF z, y
        <5> QED  BY <1>1, <4>1, <5>1, EventCopies
      <4>4. CASE e.kind # "log"
        <5>1. y = e /\ e.dropped = e.dropped + d
          BY <1>5, <4>4
        <5> QED  BY <4>1, <5>1
      <4> QED  BY <4>3, <4>4
    <3>2. f.ordinal + 1 \in Nat
      BY <1>3
    <3> DEFINE z == f.ordinal + 1
    <3> HIDE DEF y, z
    <3>3. /\ x.kind = y.kind /\ x.dropped = y.dropped /\ x.ordinal = z
          /\ x \in [kind : {"log", "summary"} \cup Required, dropped : Nat, ordinal : Nat]
      <4>1. x = [y EXCEPT !.ordinal = z] /\ z \in Nat
        BY <3>2 DEF z
      <4> HIDE DEF x
      <4> QED  BY <3>1, <4>1, EventCopies
    <3> QED  BY <3>1, <3>3 DEF z
  <2>3. x \in [kind : {"log", "summary"} \cup Required, dropped : Nat, ordinal : Nat]
    BY <2>2
  <2>4. e.kind \in Required => x.dropped = 0
    BY <1>1, <1>5, <2>1, <2>2
  <2>5. Worth(e) \in Nat /\ Worth(e) = IF e.kind = "log" THEN e.dropped + 1 ELSE e.dropped
    BY <1>1 DEF Worth
  <2>6. Worth(x) = Worth(e) + d
    <3> DEFINE ed == e.dropped
               xd == x.dropped
    <3>1. ed \in Nat /\ xd = ed + d /\ Worth(x) = (IF e.kind = "log" THEN xd + 1 ELSE xd)
          /\ Worth(e) = (IF e.kind = "log" THEN ed + 1 ELSE ed)
      BY <1>1, <2>2 DEF Worth
    <3> HIDE DEF ed, xd, d
    <3> QED  BY <1>5, <3>1
  <2> HIDE DEF x
  <2>7. x \in RetainedEvent /\ Kinds(x) = Kinds(e)
    BY <2>2, <2>3, <2>4 DEF RetainedEvent, Kinds
  <2>8. IsLog(x) <=> e.kind = "log"
    BY <2>2 DEF IsLog
  <2>9. Worth(x) + (f.dropped - d) = f.dropped + Worth(e)
    <3> DEFINE w == Worth(e)
               fd == f.dropped
    <3>1. w \in Nat /\ fd \in Nat /\ Worth(x) = w + d /\ d \in Nat
      BY <1>3, <1>5, <2>5, <2>6
    <3> HIDE DEF w, fd, d
    <3>2. Worth(x) + (fd - d) = fd + w
      BY <3>1
    <3> QED  BY <3>2 DEF w, fd
  <2> QED  BY <2>2, <2>5, <2>7, <2>8, <2>9
<1>8. t \in Retained /\ t.events = Append(f.events, x) /\ t.ordinal = f.ordinal + 1 /\ t.dropped = f.dropped - d
  <2>1. Append(f.events, x) \in Seq(RetainedEvent) /\ f.ordinal + 1 \in Nat
    <3> HIDE DEF f, x
    <3> QED  BY <1>3, <1>7, AppendProperties
  <2> DEFINE es == Append(f.events, x)
             o == f.ordinal + 1
             z == [u EXCEPT !.dropped = 0]
  <2>2. u = [f EXCEPT !.ordinal = o, !.events = es] /\ es \in Seq(RetainedEvent) /\ o \in Nat
    BY <2>1
  <2>3. t = IF e.kind = "log" THEN z ELSE u
    OBVIOUS
  <2>4. z = [u EXCEPT !.dropped = 0]
    OBVIOUS
  <2> HIDE DEF es, o, f, x, u, z, t, d
  <2>5. /\ u \in Retained /\ u.events = es /\ u.ordinal = o /\ u.dropped = f.dropped
        /\ z \in Retained /\ z.events = es /\ z.ordinal = o /\ z.dropped = 0
    <3>1. u \in Retained /\ u.events = es /\ u.ordinal = o /\ u.dropped = f.dropped
      BY <1>3, <2>2 DEF Retained
    <3>2. z \in Retained /\ z.events = u.events /\ z.ordinal = u.ordinal /\ z.dropped = 0
      BY <2>4, <3>1 DEF Retained
    <3> QED  BY <3>1, <3>2
  <2>6. t \in Retained /\ t.events = es /\ t.ordinal = o /\ t.dropped = f.dropped - d
    <3>1. CASE e.kind = "log"
      <4>1. f.dropped - d = 0
        BY <1>3, <1>5, <3>1
      <4> QED  BY <2>3, <2>5, <3>1, <4>1
    <3>2. CASE e.kind # "log"
      <4>1. f.dropped - d = f.dropped
        BY <1>5, <3>2
      <4> QED  BY <2>3, <2>5, <3>2, <4>1
    <3> QED  BY <3>1, <3>2
  <2> QED  BY <2>6 DEF es, o
<1> HIDE DEF x, y, d, u, t, a
<1>9. /\ Kept(t) /\ Len(t.events) = Len(f.events) + 1 /\ Kinds(x) \in Seq(Required)
      /\ Passed(f, t, Worth(e), Kinds(x))
      /\ NoSummary(t.events) <=> NoSummary(f.events) /\ x.kind # "summary"
  <2>1. /\ IsLog(x) => NoSummary(f.events)
        /\ x.kind = "summary" => t.dropped = 0
        /\ x.kind \in Required => Len(RequiredOf(f.events)) # MaxRequired
    <3>1. e.kind = "log" => e.kind # "completed"
      OBVIOUS
    <3> QED  BY <1>2, <1>4, <1>7, <3>1
  <2>2. Worth(x) + t.dropped = f.dropped + Worth(e)
    BY <1>7, <1>8
  <2>3. t.dropped = 0 \/ t.dropped = f.dropped
    BY <1>3, <1>5, <1>8
  <2> HIDE DEF f
  <2>4. /\ Kept(f) /\ t \in Retained /\ x \in RetainedEvent /\ Worth(e) \in Nat
        /\ x.ordinal = f.ordinal + 1 /\ t.ordinal = f.ordinal + 1 /\ t.events = Append(f.events, x)
    BY <1>2, <1>7, <1>8
  <2>5. Kept(t)
    BY <2>1, <2>2, <2>3, <2>4, NumberKeeps, Zenon
  <2> QED  BY <2>1, <2>2, <2>3, <2>4, NumberKeeps
<1>10. Len(t.events) <= MaxRetained + 1
  BY <1>1, <1>2, <1>3, <1>9
<1>11. /\ Kept(a) /\ Len(a.events) <= MaxRetained /\ Passed(t, a, 0, <<>>)
       /\ NoSummary(t.events) <=> NoSummary(a.events)
  BY <1>6, <1>9, <1>10, TrimKeeps
<1>12. Passed(b, a, Worth(e), Kinds(e))
  <2>1. Passed(f, a, Worth(e), Kinds(e))
    <3>1. a \in Retained
      BY <1>11 DEF Kept
    <3> HIDE DEF f
    <3> QED  BY <1>3, <1>7, <1>8, <1>9, <1>11, <3>1, PassedBehind
  <2>2. a \in Retained /\ Kinds(e) \in Seq(Required)
    BY <1>7, <1>9, <1>11 DEF Kept
  <2> HIDE DEF f
  <2> QED  BY <1>1, <1>2, <1>3, <1>7, <2>1, <2>2, PassedBefore
<1>13. e.kind # "completed" /\ NoSummary(b.events) => NoSummary(a.events)
  BY <1>2, <1>7, <1>9, <1>11
<1> QED  BY <1>7, <1>9, <1>11, <1>12, <1>13 DEF a

\* Nothing came in.
LEMMA PassedSelf ==
    ASSUME NEW b \in Retained
    PROVE  Passed(b, b, 0, <<>>)
<1>1. \A cursor : LogsAfter(b.events, cursor) \in Nat /\ RequiredAfter(b.events, cursor) \in Seq(Required)
  BY LateTypes DEF Retained
<1>2. \A cursor : RequiredAfter(b.events, cursor) = RequiredAfter(b.events, cursor) \o <<>>
  BY <1>1, ConcatEmptySeq
<1>3. b.ordinal \in Nat /\ b.dropped \in Nat
  BY DEF Retained
<1> QED  BY <1>1, <1>2, <1>3 DEF Passed

\* What all events that are kept stand for.
LEMMA PassedWhole ==
    ASSUME NEW b, NEW t, NEW n \in Nat, NEW k \in Seq(Required), Kept(b), Kept(t), Passed(b, t, n, k)
    PROVE  /\ Logs(t.events) + t.dropped = Logs(b.events) + b.dropped + n
           /\ RequiredOf(t.events) = RequiredOf(b.events) \o k
           /\ Logs(b.events) \in Nat /\ Logs(t.events) \in Nat
<1>1. /\ b \in Retained /\ t \in Retained /\ Ascending(b) /\ Ascending(t) /\ b.ordinal \in Nat
      /\ b.events \in Seq(RetainedEvent) /\ t.events \in Seq(RetainedEvent)
  BY DEF Kept, Retained
<1>2. /\ LogsAfter(b.events, 0) = Logs(b.events) /\ RequiredAfter(b.events, 0) = RequiredOf(b.events)
      /\ LogsAfter(t.events, 0) = Logs(t.events) /\ RequiredAfter(t.events, 0) = RequiredOf(t.events)
  BY <1>1, AllAfterZero
<1>3. 0 \in 0..b.ordinal
  BY <1>1
<1>4. Logs(b.events) \in Nat /\ Logs(t.events) \in Nat
  BY <1>1, LogsGrow
<1>5. LogsAfter(t.events, 0) + t.dropped = LogsAfter(b.events, 0) + b.dropped + n
  BY DEF Passed
<1>6. RequiredAfter(t.events, 0) = RequiredAfter(b.events, 0) \o k
  BY <1>3 DEF Passed
<1> QED  BY <1>2, <1>4, <1>5, <1>6

\* A drive has polled all there is when it is at the last event it found.
LEMMA NothingAfterLast ==
    ASSUME NEW b, Kept(b), NEW cursor \in Nat, NEW late, late = After(b.events, cursor), late # <<>>
    PROVE  /\ late[Len(late)].ordinal \in 0..b.ordinal
           /\ After(b.events, late[Len(late)].ordinal) = <<>>
<1> DEFINE es == b.events
           n == Len(es)
<1>1. /\ es \in Seq(RetainedEvent) /\ n \in Nat /\ b.ordinal \in Nat
      /\ \A i \in 1..n : es[i].ordinal \in 1..b.ordinal
      /\ \A i, j \in 1..n : i < j => es[i].ordinal < es[j].ordinal
      /\ late \in Seq(RetainedEvent)
  BY LenProperties, AfterGrow DEF Kept, Retained, Ascending
<1>2. es # <<>>
  BY AfterGrow
<1>3. PICK front \in Seq(RetainedEvent), x \in RetainedEvent : es = Append(front, x)
  BY <1>1, <1>2, SequenceEmptyOrAppend
<1>4. n \in 1..n /\ es[n] = x
  BY <1>3, LenProperties, AppendProperties
<1>5. \A i \in 1..n : ~(es[i].ordinal > x.ordinal)
  <2> SUFFICES ASSUME NEW i \in 1..n PROVE ~(es[i].ordinal > x.ordinal)
    OBVIOUS
  <2>1. x.ordinal \in Nat /\ es[i].ordinal \in Nat
    BY <1>1, <1>4
  <2>2. CASE i = n
    BY <1>4, <2>1, <2>2
  <2>3. CASE i # n
    <3> HIDE DEF n, es
    <3>1. i < n
      BY <1>1, <2>3
    <3>2. es[i].ordinal < x.ordinal
      BY <1>1, <1>4, <3>1
    <3> QED  BY <2>1, <3>2
  <2> QED  BY <2>2, <2>3
<1>6. x.ordinal > cursor
  <2> SUFFICES ASSUME ~(x.ordinal > cursor) PROVE FALSE
    OBVIOUS
  <2>1. \A i \in 1..n : ~(es[i].ordinal > cursor)
    <3> SUFFICES ASSUME NEW i \in 1..n PROVE ~(es[i].ordinal > cursor)
      OBVIOUS
    <3>1. x.ordinal \in Nat /\ es[i].ordinal \in Nat /\ ~(es[i].ordinal > x.ordinal)
      BY <1>1, <1>4, <1>5
    <3> QED  BY <3>1
  <2>2. After(es, cursor) = <<>>
    BY <1>1, <2>1, AfterBounds
  <2> QED  BY <2>2
<1>7. late = Append(After(front, cursor), x) /\ After(front, cursor) \in Seq(RetainedEvent)
  <2>1. After(Append(front, x), cursor) = AfterStep(After(front, cursor), x, cursor)
    BY AfterGrow
  <2> QED  BY <1>3, <1>6, <2>1, AfterGrow DEF AfterStep
<1>8. late[Len(late)] = x
  BY <1>7, LenProperties, AppendProperties
<1>9. After(es, x.ordinal) = <<>>
  BY <1>1, <1>5, AfterBounds
<1>10. x.ordinal \in 0..b.ordinal
  BY <1>1, <1>4
<1> QED  BY <1>8, <1>9, <1>10

\* A kind committed is one that was there.
LEMMA DistinctOnly ==
    ASSUME NEW s \in Seq(Required), NEW k, Contains(Distinct(s), k)
    PROVE  Contains(s, k)
<1> DEFINE T == {u \in Seq(Required) : \A i \in 1..Len(Distinct(u)) : \E j \in 1..Len(u) : u[j] = Distinct(u)[i]}
<1>1. <<>> \in T
  BY DistinctGrow, EmptySeq
<1>2. ASSUME NEW u \in T, NEW e \in Required PROVE Append(u, e) \in T
  <2> DEFINE a == Append(u, e)
             n == Len(u)
             d == Distinct(u)
             da == Distinct(a)
  <2>1. n \in Nat /\ a \in Seq(Required) /\ Len(a) = n + 1 /\ a[n + 1] = e /\ \A i \in 1..n : a[i] = u[i]
    BY LenProperties, AppendProperties
  <2>2. da = DistinctStep(d, e) /\ d \in Seq(Required)
    BY DistinctGrow
  <2>3. \A i \in 1..Len(d) : \E j \in 1..n : u[j] = d[i]
    OBVIOUS
  <2> HIDE DEF a, n, d, da, T
  <2>4. \A i \in 1..Len(d) : \E j \in 1..(n + 1) : a[j] = d[i]
    <3> SUFFICES ASSUME NEW i \in 1..Len(d) PROVE \E j \in 1..(n + 1) : a[j] = d[i]
      OBVIOUS
    <3>1. PICK j \in 1..n : u[j] = d[i]
      BY <2>3
    <3>2. j \in 1..(n + 1) /\ a[j] = d[i]
      BY <2>1, <3>1
    <3> QED  BY <3>2
  <2>5. \A i \in 1..Len(da) : \E j \in 1..(n + 1) : a[j] = da[i]
    <3>1. CASE da = d
      BY <2>4, <3>1
    <3>2. CASE da = Append(d, e)
      <4>1. Len(d) \in Nat /\ Len(da) = Len(d) + 1 /\ da[Len(d) + 1] = e /\ \A i \in 1..Len(d) : da[i] = d[i]
        BY <2>2, <3>2, LenProperties, AppendProperties
      <4> SUFFICES ASSUME NEW i \in 1..Len(da) PROVE \E j \in 1..(n + 1) : a[j] = da[i]
        OBVIOUS
      <4>2. CASE i = Len(d) + 1
        <5>1. n + 1 \in 1..(n + 1)
          BY <2>1
        <5> QED  BY <2>1, <4>1, <4>2, <5>1
      <4>3. CASE i # Len(d) + 1
        <5>1. i \in 1..Len(d) /\ da[i] = d[i]
          BY <4>1, <4>3
        <5> QED  BY <2>4, <5>1
      <4> QED  BY <4>2, <4>3
    <3> QED  BY <2>2, <3>1, <3>2 DEF DistinctStep
  <2> QED  BY <2>1, <2>5 DEF a, da, T
<1>3. T \in SUBSET Seq(Required)
  OBVIOUS
<1>4. T = Seq(Required)
  <2> HIDE DEF T
  <2> QED  BY <1>1, <1>2, <1>3, SequencesGrow
<1>5. \E i \in 1..Len(Distinct(s)) : Distinct(s)[i] = k
  BY DEF Contains
<1> QED  BY <1>4, <1>5 DEF Contains

-----------------------------------------------------------------------------
(* The inductive invariant of an observed execution *)

Hosts == {"input", "starting", "streaming", "completed"} \cup HostOver
Results == {"none", "passed", "failed", "oversized", "fallback"}

HostTyped ==
    /\ plan \in Plans /\ host \in Hosts
    /\ cancelling \in {"no", "asked", "pending", "done", "failed"}
    /\ cut \in BOOLEAN /\ result \in {"none", "passed", "failed"}
    /\ logs \in 0..(2 * MaxLogs) /\ sent \in Seq(Required)

SupervisorTyped ==
    /\ Kept(buffer) /\ Len(buffer.events) <= MaxRetained
    /\ valid \in BOOLEAN /\ signalled \in BOOLEAN
    /\ terminalRecord \in [state : {"none", "writing", "published"}, events : Seq(RetainedEvent),
                           result : Results, confirmed : BOOLEAN]

StreamTyped ==
    /\ stream \in [phase : {"polling", "suspended"} \cup Ended, cursor : Nat, inbox : Seq(RetainedEvent),
                   last : BOOLEAN]
    /\ stream.cursor <= buffer.ordinal

DriveTyped ==
    /\ collection \in {"polling", "waiting", "resolved", "rejected"}
    /\ cancel \in {"none", "asked", "answered", "late"}
    /\ released \in BOOLEAN
    /\ drive \in {"driving", "draining", "stopping", "result", "stopped", "failed"}
    /\ taken \in [logs : Nat, required : Seq(Required)]

\* What the host sends, and when: it repeats only a usage summary.
HostSent ==
    /\ host \in {"input", "starting"} => sent = <<>>
    /\ host = "streaming" => \A i \in 1..Len(sent) : sent[i] # "completed"
    /\ host \in {"input", "starting", "streaming"} => NoSummary(buffer.events)
    /\ \A i, j \in 1..Len(sent) : i < j /\ sent[i] = sent[j] => sent[i] \in Usages

\* What the supervisor has kept and counted is what the host sent, as long as it can read it.
Accounted ==
    /\ Logs(buffer.events) + buffer.dropped <= logs
    /\ valid => Logs(buffer.events) + buffer.dropped = logs /\ RequiredOf(buffer.events) = sent

\* The terminal record is made of it, once the host is over.
RecordSound ==
    /\ terminalRecord.state = "none" => ~terminalRecord.confirmed
    /\ terminalRecord.state # "none" => host \in HostOver /\ buffer.dropped = 0
    /\ terminalRecord.confirmed =>
          /\ valid /\ host = "exited" /\ terminalRecord.events = buffer.events
          /\ terminalRecord.result = result \/ (plan = "command" /\ terminalRecord.result = "oversized")
    /\ collection \in {"waiting", "resolved"} => terminalRecord.confirmed

\* What a drive has committed, what it has polled and what it has not polled yet.
Seen(known) ==
    /\ taken.required = Distinct(known)
    /\ sent = (known \o RequiredOf(stream.inbox)) \o RequiredAfter(buffer.events, stream.cursor)

DriveSound ==
    valid /\ drive \in {"driving", "draining", "result"} =>
        /\ taken.logs + Logs(stream.inbox) + LogsAfter(buffer.events, stream.cursor) + buffer.dropped >= logs
        /\ \E known \in Seq(Required) : Seen(known)

\* A drive ends after all of it.
EndSound ==
    /\ stream.last => terminalRecord.state = "published" /\ Fresh = <<>>
    /\ stream.phase = "ended" => stream.last /\ stream.inbox = <<>>
    /\ drive \in {"draining", "result"} => stream.phase = "ended"
    /\ drive = "result" => collection = "resolved"

ObservationInv ==
    /\ HostTyped /\ SupervisorTyped /\ StreamTyped /\ DriveTyped
    /\ HostSent /\ Accounted /\ RecordSound /\ DriveSound /\ EndSound

\* The invariant says what the runs check.
LEMMA ObservationInvSays ==
    ASSUME ObservationInv
    PROVE  ObservationTypeOK /\ TerminalIsComplete /\ DriveIsComplete
<1> USE DEF ObservationInv
<1>1. ObservationTypeOK
  <2>1. /\ buffer \in Retained /\ buffer.ordinal \in Nat /\ Len(RequiredOf(buffer.events)) <= MaxRequired
        /\ Len(buffer.events) <= MaxRetained
    BY DEF SupervisorTyped, Kept, Retained
  <2>2. buffer.dropped \in 0..logs
    <3>1. buffer.dropped \in Nat /\ Logs(buffer.events) \in Nat /\ logs \in Nat
      BY <2>1, LogsGrow, ObservationConstants DEF Retained, HostTyped
    <3> DEFINE d == buffer.dropped
               l == Logs(buffer.events)
    <3>2. d \in Nat /\ l \in Nat /\ logs \in Nat /\ l + d <= logs
      BY <3>1 DEF Accounted
    <3> HIDE DEF d, l
    <3>3. d \in 0..logs
      BY <3>2
    <3> QED  BY <3>3 DEF d
  <2> QED  BY <2>1, <2>2 DEF ObservationTypeOK, HostTyped, SupervisorTyped, StreamTyped, DriveTyped, Hosts, Results
<1>2. TerminalIsComplete
  <2>1. ASSUME terminalRecord.confirmed
        PROVE  Logs(terminalRecord.events) = logs /\ RequiredOf(terminalRecord.events) = sent
    <3>1. terminalRecord.state # "none" /\ buffer.dropped = 0 /\ valid /\ terminalRecord.events = buffer.events
      BY <2>1 DEF RecordSound
    <3>2. Logs(buffer.events) + 0 = logs /\ RequiredOf(buffer.events) = sent
      BY <3>1 DEF Accounted
    <3>3. Logs(buffer.events) \in Nat
      BY LogsGrow DEF SupervisorTyped, Kept, Retained
    <3> QED  BY <3>1, <3>2, <3>3
  <2> QED  BY <2>1 DEF TerminalIsComplete, RecordSound
<1>3. DriveIsComplete
  <2> SUFFICES ASSUME drive = "result" PROVE taken.logs >= logs /\ taken.required = Distinct(sent)
    BY DEF DriveIsComplete
  <2>1. /\ stream.phase = "ended" /\ stream.last /\ stream.inbox = <<>> /\ Fresh = <<>>
        /\ collection = "resolved" /\ terminalRecord.confirmed /\ valid /\ buffer.dropped = 0
    BY DEF EndSound, RecordSound
  <2>2. /\ Logs(stream.inbox) = 0 /\ RequiredOf(stream.inbox) = <<>>
        /\ LogsAfter(buffer.events, stream.cursor) = 0 /\ RequiredAfter(buffer.events, stream.cursor) = <<>>
    BY <2>1, LogsGrow, RequiredGrow DEF Fresh, LogsAfter, RequiredAfter
  <2>3. taken.logs + 0 + 0 + 0 >= logs /\ taken.logs \in Nat
    BY <2>1, <2>2 DEF DriveSound, DriveTyped
  <2>4. PICK known \in Seq(Required) : Seen(known)
    BY <2>1 DEF DriveSound
  <2>5. sent = (known \o <<>>) \o <<>>
    BY <2>2, <2>4 DEF Seen
  <2>6. sent = known
    BY <2>5, ConcatEmptySeq
  <2>7. taken.logs >= logs
    BY <2>3
  <2> QED  BY <2>4, <2>6, <2>7 DEF Seen
<1> QED  BY <1>1, <1>2, <1>3

\* A host's event comes in: what is sent and what is kept go on together.
LEMMA EmitKeeps ==
    ASSUME ObservationInv, NEW e \in RetainedEvent, e.kind # "summary", e.kind = "log" => NoSummary(buffer.events),
           Emit(e)
    PROVE  /\ Kept(buffer') /\ Len(buffer'.events) <= MaxRetained /\ valid' \in BOOLEAN /\ (valid' => valid)
           /\ sent' = sent \o Kinds(e) /\ sent' \in Seq(Required) /\ logs' = logs + Worth(e)
           /\ Kinds(e) \in Seq(Required) /\ Worth(e) \in Nat
           /\ valid' => Passed(buffer, buffer', Worth(e), Kinds(e))
           /\ ~valid' => Passed(buffer, buffer', 0, <<>>)
           /\ e.kind # "completed" /\ NoSummary(buffer.events) => NoSummary(buffer'.events)
<1>1. /\ Kept(buffer) /\ Len(buffer.events) <= MaxRetained /\ valid \in BOOLEAN /\ buffer \in Retained
      /\ sent \in Seq(Required) /\ logs \in Nat
  BY ObservationConstants DEF ObservationInv, SupervisorTyped, HostTyped, Kept
<1>2. IsLog(e) <=> e.kind \notin Required
  BY DEF RetainedEvent, IsLog, Required, Usages
<1>3. Worth(e) \in Nat /\ (~IsLog(e) => Worth(e) = 0) /\ Kinds(e) \in Seq(Required)
  <2>1. Worth(e) \in Nat
    BY OneEvent
  <2>2. ~IsLog(e) => Worth(e) = 0
    BY <1>2 DEF RetainedEvent, Worth, IsLog
  <2>3. Kinds(e) \in Seq(Required)
    BY EmptySeq DEF Kinds
  <2> QED  BY <2>1, <2>2, <2>3
<1>4. sent' = sent \o Kinds(e) /\ sent' \in Seq(Required) /\ logs' = logs + Worth(e)
  <2>1. CASE IsLog(e)
    <3>1. Kinds(e) = <<>> /\ sent \o <<>> = sent
      BY <1>1, <1>2, <2>1, ConcatEmptySeq DEF Kinds
    <3> QED  BY <1>1, <2>1, <3>1 DEF Emit
  <2>2. CASE ~IsLog(e)
    <3>1. e.kind \in Required /\ Kinds(e) = <<e.kind>>
      BY <1>2, <2>2 DEF Kinds
    <3>2. Append(sent, e.kind) = sent \o <<e.kind>> /\ Append(sent, e.kind) \in Seq(Required)
      BY <1>1, <3>1, AppendIsConcat, AppendProperties
    <3>3. logs = logs + Worth(e)
      BY <1>1, <1>3, <2>2
    <3> QED  BY <2>2, <3>1, <3>2, <3>3 DEF Emit
  <2> QED  BY <2>1, <2>2
<1>5. CASE ~valid \/ TooManyRequired(buffer, e)
  <2>1. valid' = FALSE /\ (buffer' = FlushDropped(buffer) \/ buffer' = buffer)
        /\ (buffer' = FlushDropped(buffer) => buffer' = buffer \/ e.kind = "completed")
    BY <1>5 DEF Emit, Receive
  <2>2. CASE buffer' = buffer
    BY <1>1, <1>3, <1>4, <2>1, <2>2, PassedSelf
  <2>3. CASE buffer' # buffer
    <3>1. buffer' = FlushDropped(buffer) /\ e.kind = "completed"
      BY <2>1, <2>3
    <3> QED  BY <1>1, <1>3, <1>4, <2>1, <3>1, FlushKeeps
  <2> QED  BY <2>2, <2>3
<1>6. CASE ~(~valid \/ TooManyRequired(buffer, e))
  <2>1. valid' = valid /\ valid /\ buffer' = AppendEvent(buffer, e)
    BY <1>1, <1>6 DEF Emit, Receive
  <2>2. e.kind \in Required => Len(RequiredOf(buffer.events)) # MaxRequired
    BY <1>2, <1>6 DEF TooManyRequired
  <2>3. /\ Kept(AppendEvent(buffer, e)) /\ Len(AppendEvent(buffer, e).events) <= MaxRetained
        /\ Passed(buffer, AppendEvent(buffer, e), Worth(e), Kinds(e))
        /\ e.kind # "completed" /\ NoSummary(buffer.events) => NoSummary(AppendEvent(buffer, e).events)
    BY <1>1, <2>2, AppendKeeps
  <2> QED  BY <1>1, <1>3, <1>4, <2>1, <2>3
<1> QED  BY <1>5, <1>6

\* One sequence behind another, as one term.
Joined(a, b) == a \o b

\* Joining is associative.
LEMMA JoinedAgain ==
    ASSUME NEW a \in Seq(Required), NEW b \in Seq(Required), NEW c \in Seq(Required)
    PROVE  Joined(Joined(a, b), c) = Joined(a, Joined(b, c)) /\ Joined(a, b) \in Seq(Required)
  BY ConcatAssociative, ConcatProperties DEF Joined

\* Behind three parts is behind the last of them.
LEMMA LastGrows ==
    \A a, b, c, k \in Seq(Required) : Joined(Joined(Joined(a, b), c), k) = Joined(Joined(a, b), Joined(c, k))
  BY JoinedAgain

\* So it is for a drive.
LEMMA SeenGrows ==
    ASSUME NEW known \in Seq(Required), NEW k \in Seq(Required), Seen(known),
           RequiredOf(stream.inbox) \in Seq(Required),
           RequiredAfter(buffer.events, stream.cursor) \in Seq(Required),
           RequiredAfter(buffer'.events, stream.cursor) = RequiredAfter(buffer.events, stream.cursor) \o k,
           sent' = sent \o k, stream' = stream, taken' = taken
    PROVE  Seen(known)'
<1>1. sent = (known \o RequiredOf(stream.inbox)) \o RequiredAfter(buffer.events, stream.cursor)
  BY DEF Seen
<1>2. sent' = (known \o RequiredOf(stream.inbox)) \o RequiredAfter(buffer'.events, stream.cursor)
  <2>1. /\ sent = Joined(Joined(known, RequiredOf(stream.inbox)), RequiredAfter(buffer.events, stream.cursor))
        /\ sent' = Joined(sent, k)
        /\ RequiredAfter(buffer'.events, stream.cursor) = Joined(RequiredAfter(buffer.events, stream.cursor), k)
    BY <1>1 DEF Joined
  <2>2. sent' = Joined(Joined(known, RequiredOf(stream.inbox)), RequiredAfter(buffer'.events, stream.cursor))
    BY <2>1, LastGrows
  <2> QED  BY <2>2 DEF Joined
<1>3. taken'.required = Distinct(known)
  BY DEF Seen
<1>4. sent' = (known \o RequiredOf(stream'.inbox)) \o RequiredAfter(buffer'.events, stream'.cursor)
  BY <1>2
<1> QED  BY <1>3, <1>4 DEF Seen

\* Events that came in are accounted for, and still to be polled.
LEMMA PassKeeps ==
    ASSUME ObservationInv, NEW n \in Nat, NEW k \in Seq(Required), NEW m \in Nat, NEW l \in Seq(Required),
           Kept(buffer'), Passed(buffer, buffer', n, k), valid' => valid, n <= m, valid' => n = m /\ k = l,
           logs' = logs + m, sent' = sent \o l, stream' = stream, drive' = drive, taken' = taken
    PROVE  Accounted' /\ DriveSound' /\ StreamTyped'
<1>1. /\ Kept(buffer) /\ buffer \in Retained /\ buffer' \in Retained /\ logs \in Nat /\ sent \in Seq(Required)
      /\ buffer.ordinal \in Nat /\ buffer'.ordinal \in Nat /\ buffer.dropped \in Nat /\ buffer'.dropped \in Nat
      /\ buffer.events \in Seq(RetainedEvent) /\ buffer'.events \in Seq(RetainedEvent)
      /\ stream.cursor \in 0..buffer.ordinal /\ stream.inbox \in Seq(RetainedEvent)
      /\ taken.logs \in Nat /\ taken.required \in Seq(Required)
  BY ObservationConstants DEF ObservationInv, HostTyped, SupervisorTyped, StreamTyped, DriveTyped, Kept, Retained
<1>2. Accounted'
  <2>1. /\ Logs(buffer'.events) + buffer'.dropped = Logs(buffer.events) + buffer.dropped + n
        /\ RequiredOf(buffer'.events) = RequiredOf(buffer.events) \o k
        /\ Logs(buffer.events) \in Nat /\ Logs(buffer'.events) \in Nat
    BY <1>1, PassedWhole
  <2>2. /\ Logs(buffer.events) + buffer.dropped <= logs
        /\ valid => Logs(buffer.events) + buffer.dropped = logs /\ RequiredOf(buffer.events) = sent
    BY DEF ObservationInv, Accounted
  <2> DEFINE x == Logs(buffer.events)
             y == Logs(buffer'.events)
             dx == buffer.dropped
             dy == buffer'.dropped
             logsNow == logs'
             v == valid'
  <2>3. /\ x \in Nat /\ y \in Nat /\ dx \in Nat /\ dy \in Nat /\ logs \in Nat /\ y + dy = x + dx + n
        /\ x + dx <= logs /\ (v => x + dx = logs /\ n = m) /\ logsNow = logs + m /\ n <= m
    BY <1>1, <2>1, <2>2
  <2> HIDE DEF x, y, dx, dy, logsNow, v
  <2>4. y + dy <= logsNow /\ (v => y + dy = logsNow)
    BY <2>3
  <2>5. Logs(buffer'.events) + buffer'.dropped <= logs' /\ (valid' => Logs(buffer'.events) + buffer'.dropped = logs')
    BY <2>4 DEF y, dy, logsNow, v
  <2>6. valid' => RequiredOf(buffer'.events) = sent'
    BY <2>1, <2>2
  <2> QED  BY <2>5, <2>6 DEF Accounted
<1>3. /\ LogsAfter(buffer'.events, stream.cursor) + buffer'.dropped
           >= LogsAfter(buffer.events, stream.cursor) + buffer.dropped + n
      /\ RequiredAfter(buffer'.events, stream.cursor) = RequiredAfter(buffer.events, stream.cursor) \o k
      /\ buffer.ordinal <= buffer'.ordinal
  BY <1>1 DEF Passed
<1>4. DriveSound'
  <2> SUFFICES ASSUME valid', drive \in {"driving", "draining", "result"}
               PROVE  /\ taken.logs + Logs(stream.inbox) + LogsAfter(buffer'.events, stream.cursor) + buffer'.dropped
                           >= logs'
                      /\ \E known \in Seq(Required) : Seen(known)'
    BY DEF DriveSound
  <2>1. /\ taken.logs + Logs(stream.inbox) + LogsAfter(buffer.events, stream.cursor) + buffer.dropped >= logs
        /\ \E known \in Seq(Required) : Seen(known)
    BY DEF ObservationInv, DriveSound
  <2>2. /\ Logs(stream.inbox) \in Nat /\ LogsAfter(buffer.events, stream.cursor) \in Nat
        /\ LogsAfter(buffer'.events, stream.cursor) \in Nat /\ RequiredOf(stream.inbox) \in Seq(Required)
        /\ RequiredAfter(buffer.events, stream.cursor) \in Seq(Required)
    BY <1>1, LogsGrow, RequiredGrow, LateTypes
  <2>3. taken.logs + Logs(stream.inbox) + LogsAfter(buffer'.events, stream.cursor) + buffer'.dropped >= logs'
    <3> DEFINE t == taken.logs
               i == Logs(stream.inbox)
               a == LogsAfter(buffer.events, stream.cursor)
               b == LogsAfter(buffer'.events, stream.cursor)
               da == buffer.dropped
               db == buffer'.dropped
               logsNow == logs'
    <3>1. /\ t \in Nat /\ i \in Nat /\ a \in Nat /\ b \in Nat /\ da \in Nat /\ db \in Nat /\ logs \in Nat
          /\ t + i + a + da >= logs /\ b + db >= a + da + n /\ logsNow = logs + n
      BY <1>1, <1>3, <2>1, <2>2
    <3> HIDE DEF t, i, a, b, da, db, logsNow
    <3>2. t + i + b + db >= logsNow
      BY <3>1
    <3> QED  BY <3>2 DEF t, i, b, db, logsNow
  <2>4. PICK known \in Seq(Required) : Seen(known)
    BY <2>1
  <2>5. RequiredAfter(buffer'.events, stream.cursor) = RequiredAfter(buffer.events, stream.cursor) \o k
    BY <1>3
  <2>6. Seen(known)'
    <3>1. sent' = sent \o k
      OBVIOUS
    <3> QED  BY <2>2, <2>4, <2>5, <3>1, SeenGrows
  <2> QED  BY <2>3, <2>6
<1>5. StreamTyped'
  BY <1>1, <1>3 DEF ObservationInv, StreamTyped
<1> QED  BY <1>2, <1>4, <1>5

\* A frame that comes in keeps the invariant, as far as it says what was sent and what is polled.
LEMMA FrameKeeps ==
    ASSUME ObservationInv, NEW e \in RetainedEvent, e.kind # "summary", e.kind = "log" => NoSummary(buffer.events),
           Emit(e), host \notin HostOver, clientVars' = clientVars, signalled' = signalled,
           terminalRecord' = terminalRecord
    PROVE  /\ SupervisorTyped' /\ StreamTyped' /\ DriveTyped' /\ Accounted' /\ DriveSound' /\ EndSound' /\ RecordSound'
           /\ sent' = sent \o Kinds(e) /\ sent' \in Seq(Required) /\ logs' = logs + Worth(e) /\ Worth(e) \in Nat
           /\ e.kind # "completed" /\ NoSummary(buffer.events) => NoSummary(buffer'.events)
<1>1. /\ stream' = stream /\ collection' = collection /\ cancel' = cancel /\ released' = released
      /\ drive' = drive /\ taken' = taken
  BY DEF clientVars
<1>2. /\ Kept(buffer') /\ Len(buffer'.events) <= MaxRetained /\ valid' \in BOOLEAN /\ (valid' => valid)
      /\ sent' = sent \o Kinds(e) /\ sent' \in Seq(Required) /\ logs' = logs + Worth(e)
      /\ Kinds(e) \in Seq(Required) /\ Worth(e) \in Nat
      /\ valid' => Passed(buffer, buffer', Worth(e), Kinds(e))
      /\ ~valid' => Passed(buffer, buffer', 0, <<>>)
      /\ e.kind # "completed" /\ NoSummary(buffer.events) => NoSummary(buffer'.events)
  BY EmitKeeps
<1>3. SupervisorTyped'
  BY <1>2 DEF ObservationInv, SupervisorTyped
<1>4. Accounted' /\ DriveSound' /\ StreamTyped'
  <2>1. CASE valid'
    <3>1. Passed(buffer, buffer', Worth(e), Kinds(e)) /\ Worth(e) <= Worth(e)
      BY <1>2, <2>1
    <3> QED  BY <1>1, <1>2, <3>1, PassKeeps
  <2>2. CASE ~valid'
    <3>1. Passed(buffer, buffer', 0, <<>>) /\ 0 <= Worth(e) /\ <<>> \in Seq(Required) /\ 0 \in Nat
      BY <1>2, <2>2, EmptySeq
    <3> QED  BY <1>1, <1>2, <2>2, <3>1, PassKeeps
  <2> QED  BY <2>1, <2>2
<1>5. terminalRecord.state = "none" /\ ~terminalRecord.confirmed
  BY DEF ObservationInv, RecordSound
<1>6. RecordSound'
  BY <1>1, <1>5 DEF ObservationInv, RecordSound
<1>7. EndSound'
  BY <1>1, <1>5 DEF ObservationInv, EndSound
<1>8. DriveTyped'
  BY <1>1 DEF ObservationInv, DriveTyped
<1> QED  BY <1>2, <1>3, <1>4, <1>6, <1>7, <1>8

\* One more event sent, that was not sent before or may be repeated.
LEMMA SentOnce ==
    ASSUME NEW s \in Seq(Required), NEW e \in Required,
           \A i, j \in 1..Len(s) : i < j /\ s[i] = s[j] => s[i] \in Usages,
           e \notin Usages => \A i \in 1..Len(s) : s[i] # e
    PROVE  \A i, j \in 1..Len(s \o <<e>>) :
              i < j /\ (s \o <<e>>)[i] = (s \o <<e>>)[j] => (s \o <<e>>)[i] \in Usages
<1> DEFINE t == Append(s, e)
           n == Len(s)
<1>1. /\ n \in Nat /\ t = s \o <<e>> /\ Len(t) = n + 1 /\ t[n + 1] = e /\ \A i \in 1..n : t[i] = s[i]
  BY LenProperties, AppendProperties, AppendIsConcat
<1>2. \A i, j \in 1..n : i < j /\ s[i] = s[j] => s[i] \in Usages
  OBVIOUS
<1>3. e \notin Usages => \A i \in 1..n : s[i] # e
  OBVIOUS
<1> HIDE DEF t, n
<1>4. \A i, j \in 1..(n + 1) : i < j /\ t[i] = t[j] => t[i] \in Usages
  <2> SUFFICES ASSUME NEW i \in 1..(n + 1), NEW j \in 1..(n + 1), i < j, t[i] = t[j] PROVE t[i] \in Usages
    OBVIOUS
  <2>1. i \in 1..n
    BY <1>1
  <2>2. CASE j = n + 1
    BY <1>1, <1>3, <2>1, <2>2
  <2>3. CASE j # n + 1
    <3>1. j \in 1..n
      BY <1>1, <2>3
    <3> QED  BY <1>1, <1>2, <2>1, <3>1
  <2> QED  BY <2>2, <2>3
<1> QED  BY <1>1, <1>4

\* A host that is gone leaves what it sent.
LEMMA HostGone ==
    ASSUME ObservationInv, NEW how \in HostOver, Gone(how), host \notin HostOver, result' = result
    PROVE  ObservationInv'
<1> USE DEF ObservationInv
<1>1. /\ host' = how /\ plan' = plan /\ cancelling' = "no" /\ cut' = FALSE /\ result' = result
      /\ logs' = logs /\ sent' = sent /\ buffer' = buffer /\ valid' = valid /\ terminalRecord' = terminalRecord
      /\ signalled' = FALSE /\ stream' = stream /\ collection' = collection /\ cancel' = cancel
      /\ released' = released /\ drive' = drive /\ taken' = taken
  BY DEF Gone, supervisorVars, clientVars
<1>2. HostTyped' /\ SupervisorTyped' /\ StreamTyped' /\ DriveTyped'
  <2>1. HostTyped'
    BY <1>1 DEF HostTyped, Hosts
  <2>2. SupervisorTyped'
    BY <1>1 DEF SupervisorTyped
  <2>3. StreamTyped' /\ DriveTyped'
    BY <1>1 DEF StreamTyped, DriveTyped
  <2> QED  BY <2>1, <2>2, <2>3
<1>3. HostSent' /\ Accounted'
  <2>1. host' \notin {"input", "starting", "streaming"}
    BY <1>1 DEF HostOver
  <2> QED  BY <1>1, <2>1 DEF HostSent, Accounted
<1>4. RecordSound'
  <2>1. terminalRecord.state = "none" /\ ~terminalRecord.confirmed
    BY DEF RecordSound
  <2> QED  BY <1>1, <2>1 DEF RecordSound
<1>5. DriveSound' /\ EndSound'
  BY <1>1 DEF DriveSound, Seen, EndSound, Fresh
<1> QED  BY <1>2, <1>3, <1>4, <1>5

\* The host's actions.
LEMMA RuntimeHostSteps ==
    ASSUME ObservationInv, Host
    PROVE  ObservationInv'
<1> USE DEF ObservationInv
<1>1. /\ logs \in Nat /\ MaxLogs \in Nat /\ sent \in Seq(Required) /\ buffer \in Retained /\ "started" \in Required
      /\ "completed" \in Required /\ Usages \subseteq Required /\ "log" \notin Required
      /\ "started" \notin Usages /\ "completed" \notin Usages
  BY ObservationConstants DEF HostTyped, SupervisorTyped, Kept, Required, Usages
<1>2. \A kind \in Required : /\ Event(kind, 0) \in RetainedEvent /\ Event(kind, 0).kind = kind
                             /\ Kinds(Event(kind, 0)) = <<kind>> /\ Worth(Event(kind, 0)) = 0
  BY <1>1 DEF Event, RetainedEvent, Kinds, Worth
<1>3. \A dropped \in 0..1 : /\ Event("log", dropped) \in RetainedEvent /\ Event("log", dropped).kind = "log"
                            /\ Kinds(Event("log", dropped)) = <<>> /\ Worth(Event("log", dropped)) \in 0..2
  BY <1>1 DEF Event, RetainedEvent, Kinds, Worth
<1>4. ASSUME NEW kind \in Required, Emit(Event(kind, 0)), host \notin HostOver, clientVars' = clientVars,
             signalled' = signalled, terminalRecord' = terminalRecord,
             kind \notin Usages => \A i \in 1..Len(sent) : sent[i] # kind
      PROVE  /\ SupervisorTyped' /\ StreamTyped' /\ DriveTyped' /\ Accounted' /\ DriveSound' /\ EndSound' /\ RecordSound'
             /\ sent' = sent \o <<kind>> /\ sent' \in Seq(Required) /\ logs' = logs
             /\ kind # "completed" /\ NoSummary(buffer.events) => NoSummary(buffer'.events)
             /\ \A i, j \in 1..Len(sent') : i < j /\ sent'[i] = sent'[j] => sent'[i] \in Usages
  <2> DEFINE e == Event(kind, 0)
  <2>1. e \in RetainedEvent /\ e.kind = kind /\ Kinds(e) = <<kind>> /\ Worth(e) = 0 /\ Emit(e)
    BY <1>2, <1>4
  <2>2. kind # "summary" /\ kind # "log"
    BY DEF Required, Usages
  <2> HIDE DEF e
  <2>3. /\ SupervisorTyped' /\ StreamTyped' /\ DriveTyped' /\ Accounted' /\ DriveSound' /\ EndSound' /\ RecordSound'
        /\ sent' = sent \o Kinds(e) /\ sent' \in Seq(Required) /\ logs' = logs + Worth(e) /\ Worth(e) \in Nat
        /\ e.kind # "completed" /\ NoSummary(buffer.events) => NoSummary(buffer'.events)
    BY <1>4, <2>1, <2>2, FrameKeeps
  <2>4. logs' = logs
    BY <1>1, <2>1, <2>3
  <2>5. \A i, j \in 1..Len(sent) : i < j /\ sent[i] = sent[j] => sent[i] \in Usages
    BY DEF HostSent
  <2>6. \A i, j \in 1..Len(sent \o <<kind>>) :
            i < j /\ (sent \o <<kind>>)[i] = (sent \o <<kind>>)[j] => (sent \o <<kind>>)[i] \in Usages
    BY <1>1, <1>4, <2>5, SentOnce
  <2> QED  BY <2>1, <2>3, <2>4, <2>6
<1>5. ASSUME ReadInput PROVE ObservationInv'
  <2>1. /\ host = "input" /\ host' = (IF plan = "runtime" THEN "starting" ELSE "streaming") /\ sent = <<>>
        /\ host \notin HostOver /\ host' \in {"starting", "streaming"}
        /\ clientVars' = clientVars /\ signalled' = signalled /\ terminalRecord' = terminalRecord
        /\ plan' = plan /\ cancelling' = cancelling /\ cut' = cut /\ result' = result
    BY <1>5 DEF ReadInput, HostSent, HostOver
  <2>2. CASE plan = "command"
    <3>1. Emit(Event("started", 0)) /\ host' = "streaming"
      BY <1>5, <2>1, <2>2 DEF ReadInput
    <3>2. \A i \in 1..Len(sent) : sent[i] # "started"
      BY <2>1, EmptySeq
    <3>3. /\ SupervisorTyped' /\ StreamTyped' /\ DriveTyped' /\ Accounted' /\ DriveSound' /\ EndSound' /\ RecordSound'
          /\ sent' = sent \o <<"started">> /\ sent' \in Seq(Required) /\ logs' = logs
          /\ NoSummary(buffer.events) => NoSummary(buffer'.events)
          /\ \A i, j \in 1..Len(sent') : i < j /\ sent'[i] = sent'[j] => sent'[i] \in Usages
      BY <1>1, <1>4, <2>1, <3>1, <3>2
    <3>4. \A i \in 1..Len(sent') : sent'[i] # "completed"
      <4>1. sent \o <<"started">> = <<"started">>
        <5>1. <<"started">> \in Seq(Required)
          BY <1>1
        <5> QED  BY <2>1, <5>1, ConcatEmptySeq
      <4> QED  BY <3>3, <4>1
    <3>5. HostSent'
      BY <2>1, <3>1, <3>3, <3>4 DEF HostSent
    <3>6. HostTyped'
      BY <2>1, <3>1, <3>3 DEF HostTyped, Hosts
    <3> QED  BY <3>3, <3>5, <3>6
  <2>3. CASE plan # "command"
    <3>1. /\ buffer' = buffer /\ valid' = valid /\ logs' = logs /\ sent' = sent
          /\ stream' = stream /\ collection' = collection /\ cancel' = cancel /\ released' = released
          /\ drive' = drive /\ taken' = taken
      BY <1>5, <2>1, <2>3 DEF ReadInput, clientVars
    <3>2. HostTyped' /\ SupervisorTyped' /\ StreamTyped' /\ DriveTyped'
      BY <2>1, <3>1 DEF HostTyped, SupervisorTyped, StreamTyped, DriveTyped, Hosts
    <3>3. HostSent'
      BY <2>1, <3>1 DEF HostSent
    <3>4. Accounted' /\ DriveSound'
      BY <3>1 DEF Accounted, DriveSound, Seen
    <3>5. RecordSound' /\ EndSound'
      BY <2>1, <3>1 DEF RecordSound, EndSound, Fresh
    <3> QED  BY <3>2, <3>3, <3>4, <3>5
  <2> QED  BY <2>2, <2>3
<1>6. ASSUME StartRuntime PROVE ObservationInv'
  <2>1. /\ host = "starting" /\ host' = "streaming" /\ sent = <<>> /\ host \notin HostOver
        /\ clientVars' = clientVars /\ signalled' = signalled /\ terminalRecord' = terminalRecord
        /\ plan' = plan /\ cut' = cut /\ result' = result /\ cancelling' \in {cancelling, "pending"}
        /\ Emit(Event("started", 0))
    BY <1>6 DEF StartRuntime, HostSent, HostOver
  <2>2. \A i \in 1..Len(sent) : sent[i] # "started"
    BY <2>1, EmptySeq
  <2>3. /\ SupervisorTyped' /\ StreamTyped' /\ DriveTyped' /\ Accounted' /\ DriveSound' /\ EndSound' /\ RecordSound'
        /\ sent' = sent \o <<"started">> /\ sent' \in Seq(Required) /\ logs' = logs
        /\ NoSummary(buffer.events) => NoSummary(buffer'.events)
        /\ \A i, j \in 1..Len(sent') : i < j /\ sent'[i] = sent'[j] => sent'[i] \in Usages
    BY <1>1, <1>4, <2>1, <2>2
  <2>4. \A i \in 1..Len(sent') : sent'[i] # "completed"
    <3>1. sent \o <<"started">> = <<"started">>
      <4>1. <<"started">> \in Seq(Required)
        BY <1>1
      <4> QED  BY <2>1, <4>1, ConcatEmptySeq
    <3> QED  BY <2>3, <3>1
  <2>5. HostSent'
    BY <2>1, <2>3, <2>4 DEF HostSent
  <2>6. HostTyped'
    BY <2>1, <2>3 DEF HostTyped, Hosts
  <2> QED  BY <2>3, <2>5, <2>6
<1>7. ASSUME EmitLog PROVE ObservationInv'
  <2>1. /\ host = "streaming" /\ host' = host /\ logs < MaxLogs /\ host \notin HostOver
        /\ clientVars' = clientVars /\ signalled' = signalled /\ terminalRecord' = terminalRecord
        /\ plan' = plan /\ cut' = cut /\ result' = result /\ cancelling' = cancelling
    BY <1>7 DEF EmitLog, HostOver
  <2>2. PICK dropped \in 0..1 : Emit(Event("log", dropped))
    BY <1>7 DEF EmitLog
  <2> DEFINE e == Event("log", dropped)
  <2>3. e \in RetainedEvent /\ e.kind = "log" /\ Kinds(e) = <<>> /\ Worth(e) \in 0..2 /\ Emit(e)
    BY <1>3, <2>2
  <2>4. NoSummary(buffer.events)
    BY <2>1 DEF HostSent
  <2> HIDE DEF e
  <2>5. /\ SupervisorTyped' /\ StreamTyped' /\ DriveTyped' /\ Accounted' /\ DriveSound' /\ EndSound' /\ RecordSound'
        /\ sent' = sent \o Kinds(e) /\ sent' \in Seq(Required) /\ logs' = logs + Worth(e) /\ Worth(e) \in Nat
        /\ e.kind # "completed" /\ NoSummary(buffer.events) => NoSummary(buffer'.events)
    BY <2>1, <2>3, <2>4, FrameKeeps
  <2>6. sent' = sent
    BY <1>1, <2>3, <2>5, ConcatEmptySeq
  <2>7. logs' \in 0..(2 * MaxLogs)
    BY <1>1, <2>1, <2>3, <2>5
  <2>8. HostSent'
    BY <2>1, <2>3, <2>4, <2>5, <2>6 DEF HostSent
  <2>9. HostTyped'
    BY <2>1, <2>5, <2>7 DEF HostTyped
  <2> QED  BY <2>5, <2>8, <2>9
<1>8. ASSUME EmitUsage PROVE ObservationInv'
  <2>1. /\ host = "streaming" /\ host' = host /\ host \notin HostOver
        /\ clientVars' = clientVars /\ signalled' = signalled /\ terminalRecord' = terminalRecord
        /\ plan' = plan /\ cut' = cut /\ result' = result /\ cancelling' = cancelling
    BY <1>8 DEF EmitUsage, HostOver
  <2>2. PICK kind \in Usages : Emit(Event(kind, 0))
    BY <1>8 DEF EmitUsage, Usages
  <2>3. kind \in Required /\ kind # "completed"
    BY <1>1, <2>2
  <2>4. /\ SupervisorTyped' /\ StreamTyped' /\ DriveTyped' /\ Accounted' /\ DriveSound' /\ EndSound' /\ RecordSound'
        /\ sent' = sent \o <<kind>> /\ sent' \in Seq(Required) /\ logs' = logs
        /\ kind # "completed" /\ NoSummary(buffer.events) => NoSummary(buffer'.events)
        /\ \A i, j \in 1..Len(sent') : i < j /\ sent'[i] = sent'[j] => sent'[i] \in Usages
    BY <1>4, <2>1, <2>2, <2>3
  <2>5. \A i \in 1..Len(sent') : sent'[i] # "completed"
    <3>1. \A i \in 1..Len(sent) : sent[i] # "completed"
      BY <2>1 DEF HostSent
    <3>2. /\ Append(sent, kind) = sent \o <<kind>> /\ Len(sent) \in Nat /\ Len(Append(sent, kind)) = Len(sent) + 1
          /\ Append(sent, kind)[Len(sent) + 1] = kind /\ \A i \in 1..Len(sent) : Append(sent, kind)[i] = sent[i]
      BY <1>1, <2>3, LenProperties, AppendProperties, AppendIsConcat
    <3> DEFINE a == Append(sent, kind)
               n == Len(sent)
    <3>3. a = sent' /\ n \in Nat /\ Len(a) = n + 1 /\ a[n + 1] = kind /\ \A i \in 1..n : a[i] # "completed"
      BY <2>4, <3>1, <3>2
    <3> HIDE DEF a, n
    <3>4. \A i \in 1..(n + 1) : a[i] # "completed"
      <4> SUFFICES ASSUME NEW i \in 1..(n + 1) PROVE a[i] # "completed"
        OBVIOUS
      <4>1. i = n + 1 \/ i \in 1..n
        BY <3>3
      <4> QED  BY <2>3, <3>3, <4>1
    <3> QED  BY <3>3, <3>4
  <2>6. HostSent'
    BY <2>1, <2>3, <2>4, <2>5 DEF HostSent
  <2>7. HostTyped'
    BY <2>1, <2>4 DEF HostTyped
  <2> QED  BY <2>4, <2>6, <2>7
<1>9. ASSUME CommandTimesOut PROVE ObservationInv'
  <2>1. /\ cut' = TRUE /\ host' = host /\ plan' = plan /\ cancelling' = cancelling /\ result' = result
        /\ logs' = logs /\ sent' = sent /\ buffer' = buffer /\ valid' = valid /\ terminalRecord' = terminalRecord
        /\ signalled' = signalled /\ stream' = stream /\ collection' = collection /\ cancel' = cancel
        /\ released' = released /\ drive' = drive /\ taken' = taken
    BY <1>9 DEF CommandTimesOut, supervisorVars, clientVars
  <2>2. HostTyped' /\ SupervisorTyped' /\ StreamTyped' /\ DriveTyped'
    BY <2>1 DEF HostTyped, SupervisorTyped, StreamTyped, DriveTyped
  <2>3. HostSent' /\ Accounted' /\ RecordSound'
    BY <2>1 DEF HostSent, Accounted, RecordSound
  <2>4. DriveSound' /\ EndSound'
    BY <2>1 DEF DriveSound, Seen, EndSound, Fresh
  <2> QED  BY <2>2, <2>3, <2>4
<1>10. ASSUME Complete PROVE ObservationInv'
  <2>1. /\ host = "streaming" /\ host' = "completed" /\ host \notin HostOver
        /\ clientVars' = clientVars /\ signalled' = signalled /\ terminalRecord' = terminalRecord
        /\ plan' = plan /\ cut' = cut /\ cancelling' = cancelling /\ result' \in {"passed", "failed"}
        /\ Emit(Event("completed", 0))
    BY <1>10 DEF Complete, HostOver
  <2>2. \A i \in 1..Len(sent) : sent[i] # "completed"
    BY <2>1 DEF HostSent
  <2>3. /\ SupervisorTyped' /\ StreamTyped' /\ DriveTyped' /\ Accounted' /\ DriveSound' /\ EndSound' /\ RecordSound'
        /\ sent' = sent \o <<"completed">> /\ sent' \in Seq(Required) /\ logs' = logs
        /\ \A i, j \in 1..Len(sent') : i < j /\ sent'[i] = sent'[j] => sent'[i] \in Usages
    BY <1>1, <1>4, <2>1, <2>2
  <2>4. HostSent'
    BY <2>1, <2>3 DEF HostSent
  <2>5. HostTyped'
    BY <2>1, <2>3 DEF HostTyped, Hosts
  <2> QED  BY <2>3, <2>4, <2>5
<1>11. ASSUME EmitResult \/ HostFails PROVE ObservationInv'
  <2>1. CASE EmitResult
    <3>1. Gone("exited") /\ "exited" \in HostOver /\ host \notin HostOver /\ result' = result
      BY <2>1 DEF EmitResult, HostOver
    <3> QED  BY <3>1, HostGone
  <2>2. CASE HostFails
    <3>1. Gone("failed") /\ "failed" \in HostOver /\ host \notin HostOver /\ result' = result
      BY <2>2 DEF HostFails, HostOver
    <3> QED  BY <3>1, HostGone
  <2> QED  BY <1>11, <2>1, <2>2
<1>12. ASSUME CancellationSettles PROVE ObservationInv'
  <2>1. /\ cancelling' \in {"done", "failed"} /\ host' = host /\ plan' = plan /\ cut' = cut /\ result' = result
        /\ logs' = logs /\ sent' = sent /\ buffer' = buffer /\ valid' = valid /\ terminalRecord' = terminalRecord
        /\ signalled' = signalled /\ stream' = stream /\ collection' = collection /\ cancel' = cancel
        /\ released' = released /\ drive' = drive /\ taken' = taken
    BY <1>12 DEF CancellationSettles, supervisorVars, clientVars
  <2>2. HostTyped' /\ SupervisorTyped' /\ StreamTyped' /\ DriveTyped'
    BY <2>1 DEF HostTyped, SupervisorTyped, StreamTyped, DriveTyped
  <2>3. HostSent' /\ Accounted' /\ RecordSound'
    BY <2>1 DEF HostSent, Accounted, RecordSound
  <2>4. DriveSound' /\ EndSound'
    BY <2>1 DEF DriveSound, Seen, EndSound, Fresh
  <2> QED  BY <2>2, <2>3, <2>4
<1> QED  BY <1>5, <1>6, <1>7, <1>8, <1>9, <1>10, <1>11, <1>12 DEF Host

\* The supervisor's actions.
LEMMA SupervisorSteps ==
    ASSUME ObservationInv, Supervisor
    PROVE  ObservationInv'
<1> USE DEF ObservationInv
<1>1. ASSUME NEW kept \in Results, NEW confirmed \in BOOLEAN, Settled(kept, confirmed),
             host \in HostOver, terminalRecord.state = "none",
             confirmed => valid /\ host = "exited" /\ (kept = result \/ (plan = "command" /\ kept = "oversized"))
      PROVE  ObservationInv'
  <2>1. /\ buffer' = FlushDropped(buffer)
        /\ terminalRecord' = [state |-> "writing", events |-> buffer'.events, result |-> kept, confirmed |-> confirmed]
        /\ host' = host /\ plan' = plan /\ cancelling' = cancelling /\ cut' = cut /\ result' = result
        /\ logs' = logs /\ sent' = sent /\ valid' = valid
        /\ signalled' = signalled /\ stream' = stream /\ collection' = collection /\ cancel' = cancel
        /\ released' = released /\ drive' = drive /\ taken' = taken
    BY <1>1 DEF Settled, hostVars, clientVars
  <2>2. Kept(buffer) /\ Len(buffer.events) <= MaxRetained /\ sent \in Seq(Required) /\ logs \in Nat
    BY ObservationConstants DEF SupervisorTyped, HostTyped
  <2>3. /\ Kept(buffer') /\ Len(buffer'.events) <= MaxRetained /\ buffer'.dropped = 0
        /\ Passed(buffer, buffer', 0, <<>>)
    BY <2>1, <2>2, FlushKeeps
  <2>4. buffer'.events \in Seq(RetainedEvent)
    BY <2>3 DEF Kept, Retained
  <2>5. Accounted' /\ DriveSound' /\ StreamTyped'
    <3>1. sent' = sent \o <<>> /\ logs' = logs + 0 /\ 0 \in Nat /\ 0 <= 0 /\ <<>> \in Seq(Required)
      BY <2>1, <2>2, ConcatEmptySeq, EmptySeq
    <3> QED  BY <2>1, <2>3, <3>1, PassKeeps
  <2>6. HostTyped' /\ DriveTyped'
    BY <2>1 DEF HostTyped, DriveTyped
  <2>7. SupervisorTyped'
    BY <1>1, <2>1, <2>3, <2>4 DEF SupervisorTyped
  <2>8. HostSent'
    <3>1. host \notin {"input", "starting", "streaming"}
      BY <1>1 DEF HostOver
    <3> QED  BY <2>1, <3>1 DEF HostSent
  <2>9. ~terminalRecord.confirmed /\ collection \notin {"waiting", "resolved"} /\ ~stream.last
    BY <1>1 DEF RecordSound, EndSound
  <2>10. RecordSound'
    <3>1. /\ terminalRecord'.state = "writing" /\ terminalRecord'.events = buffer'.events
          /\ terminalRecord'.result = kept /\ terminalRecord'.confirmed = confirmed
      BY <2>1
    <3> QED  BY <1>1, <2>1, <2>3, <2>9, <3>1 DEF RecordSound
  <2>11. EndSound'
    BY <2>1, <2>9 DEF EndSound
  <2> QED  BY <2>5, <2>6, <2>7, <2>8, <2>10, <2>11
<1>2. ASSUME Settle PROVE ObservationInv'
  <2>1. host \in HostOver /\ terminalRecord.state = "none"
    BY <1>2 DEF Settle
  <2>2. PICK empty \in BOOLEAN, large \in BOOLEAN :
            IF ~valid \/ host = "failed" THEN Settled("fallback", FALSE)
            ELSE Settled(IF large /\ plan = "command" THEN "oversized" ELSE result, empty)
    BY <1>2 DEF Settle
  <2>3. CASE ~valid \/ host = "failed"
    <3>1. Settled("fallback", FALSE) /\ "fallback" \in Results
      BY <2>2, <2>3 DEF Results
    <3> QED  BY <1>1, <2>1, <3>1
  <2>4. CASE ~(~valid \/ host = "failed")
    <3> DEFINE kept == IF large /\ plan = "command" THEN "oversized" ELSE result
    <3>1. Settled(kept, empty) /\ kept \in Results /\ (kept = result \/ (plan = "command" /\ kept = "oversized"))
      BY <2>2, <2>4 DEF Results, HostTyped
    <3>2. valid /\ host = "exited"
      BY <2>1, <2>4 DEF HostOver, SupervisorTyped
    <3> HIDE DEF kept
    <3> QED  BY <1>1, <2>1, <3>1, <3>2
  <2> QED  BY <2>3, <2>4
<1>3. ASSUME Publish PROVE ObservationInv'
  <2>1. /\ terminalRecord.state = "writing" /\ terminalRecord' = [terminalRecord EXCEPT !.state = "published"]
        /\ host' = host /\ plan' = plan /\ cancelling' = cancelling /\ cut' = cut /\ result' = result
        /\ logs' = logs /\ sent' = sent /\ valid' = valid /\ buffer' = buffer
        /\ signalled' = signalled /\ stream' = stream /\ collection' = collection /\ cancel' = cancel
        /\ released' = released /\ drive' = drive /\ taken' = taken
    BY <1>3 DEF Publish, hostVars, clientVars
  <2>2. /\ terminalRecord' \in [state : {"none", "writing", "published"}, events : Seq(RetainedEvent),
                                result : Results, confirmed : BOOLEAN]
        /\ terminalRecord'.state = "published" /\ terminalRecord'.events = terminalRecord.events
        /\ terminalRecord'.result = terminalRecord.result /\ terminalRecord'.confirmed = terminalRecord.confirmed
    BY <2>1 DEF SupervisorTyped
  <2>3. HostTyped' /\ StreamTyped' /\ DriveTyped'
    BY <2>1 DEF HostTyped, StreamTyped, DriveTyped
  <2>4. SupervisorTyped'
    BY <2>1, <2>2 DEF SupervisorTyped
  <2>5. HostSent' /\ Accounted' /\ DriveSound'
    BY <2>1 DEF HostSent, Accounted, DriveSound, Seen
  <2>6. RecordSound'
    BY <2>1, <2>2 DEF RecordSound
  <2>7. EndSound'
    BY <2>1, <2>2 DEF EndSound, Fresh
  <2> QED  BY <2>3, <2>4, <2>5, <2>6, <2>7
<1>4. ASSUME Signal PROVE ObservationInv'
  <2>1. CASE host = "input"
    <3>1. Gone("failed") /\ "failed" \in HostOver /\ host \notin HostOver /\ result' = result
      BY <1>4, <2>1 DEF Signal, HostOver
    <3> QED  BY <3>1, HostGone
  <2>2. CASE host # "input"
    <3>1. /\ signalled' = TRUE /\ cancelling' \in {"asked", "pending"} /\ cut' \in BOOLEAN
          /\ host' = host /\ plan' = plan /\ result' = result
          /\ logs' = logs /\ sent' = sent /\ buffer' = buffer /\ valid' = valid /\ terminalRecord' = terminalRecord
          /\ stream' = stream /\ collection' = collection /\ cancel' = cancel
          /\ released' = released /\ drive' = drive /\ taken' = taken
      BY <1>4, <2>2 DEF Signal, supervisorVars, clientVars, HostTyped
    <3>2. HostTyped'
      BY <3>1 DEF HostTyped
    <3>3. SupervisorTyped'
      BY <3>1 DEF SupervisorTyped
    <3>4. StreamTyped' /\ DriveTyped'
      BY <3>1 DEF StreamTyped, DriveTyped
    <3>5. HostSent' /\ Accounted' /\ RecordSound'
      BY <3>1 DEF HostSent, Accounted, RecordSound
    <3>6. DriveSound' /\ EndSound'
      BY <3>1 DEF DriveSound, Seen, EndSound, Fresh
    <3> QED  BY <3>2, <3>3, <3>4, <3>5, <3>6
  <2> QED  BY <2>1, <2>2
<1> QED  BY <1>2, <1>3, <1>4 DEF Supervisor

\* What only the clients of a supervisor change.
LEMMA ClientsOnly ==
    ASSUME ObservationInv, hostVars' = hostVars, supervisorVars' = supervisorVars, signalled' = signalled
    PROVE  HostTyped' /\ SupervisorTyped' /\ HostSent' /\ Accounted'
<1>1. /\ host' = host /\ plan' = plan /\ cancelling' = cancelling /\ cut' = cut /\ result' = result
      /\ logs' = logs /\ sent' = sent /\ buffer' = buffer /\ valid' = valid /\ terminalRecord' = terminalRecord
  BY DEF hostVars, supervisorVars
<1>2. HostTyped'
  BY <1>1 DEF ObservationInv, HostTyped
<1>3. SupervisorTyped'
  BY <1>1 DEF ObservationInv, SupervisorTyped
<1>4. HostSent' /\ Accounted'
  BY <1>1 DEF ObservationInv, HostSent, Accounted
<1> QED  BY <1>2, <1>3, <1>4

\* A poll takes what is fresh, and leaves nothing behind its cursor.
LEMMA PollStep ==
    ASSUME ObservationInv, Poll
    PROVE  ObservationInv'
<1> USE DEF ObservationInv
<1>1. /\ stream.phase = "polling" /\ stream.inbox = <<>> /\ ~stream.last
      /\ host' = host /\ plan' = plan /\ result' = result /\ logs' = logs /\ sent' = sent /\ buffer' = buffer
      /\ valid' = valid /\ terminalRecord' = terminalRecord /\ collection' = collection /\ cancel' = cancel
      /\ released' = released /\ drive' = drive /\ taken' = taken
      /\ hostVars' = hostVars /\ supervisorVars' = supervisorVars /\ signalled' = signalled
  BY DEF Poll, hostVars, supervisorVars
<1>2. HostTyped' /\ SupervisorTyped' /\ HostSent' /\ Accounted'
  BY <1>1, ClientsOnly
<1>3. DriveTyped' /\ RecordSound'
  BY <1>1 DEF DriveTyped, RecordSound
<1>4. /\ stream \in [phase : {"polling", "suspended"} \cup Ended, cursor : Nat, inbox : Seq(RetainedEvent),
                     last : BOOLEAN]
      /\ stream.cursor <= buffer.ordinal /\ Kept(buffer) /\ buffer.events \in Seq(RetainedEvent)
      /\ buffer.ordinal \in Nat
  BY DEF StreamTyped, SupervisorTyped, Kept, Retained
<1>5. drive \notin {"draining", "result"}
  BY <1>1 DEF EndSound
<1>6. CASE drive = "failed" /\ Fresh # <<>>
  <2>1. stream' = [stream EXCEPT !.phase = "suspended"]
    BY <1>6 DEF Poll
  <2>2. /\ stream'.phase = "suspended" /\ stream'.cursor = stream.cursor /\ stream'.inbox = stream.inbox
        /\ stream'.last = stream.last
        /\ stream' \in [phase : {"polling", "suspended"} \cup Ended, cursor : Nat, inbox : Seq(RetainedEvent),
                        last : BOOLEAN]
    BY <1>4, <2>1
  <2>3. StreamTyped'
    BY <1>1, <1>4, <2>2 DEF StreamTyped
  <2>4. DriveSound' /\ EndSound'
    BY <1>1, <1>6, <2>2 DEF DriveSound, EndSound
  <2> QED  BY <1>2, <1>3, <2>3, <2>4
<1>7. CASE ~(drive = "failed" /\ Fresh # <<>>)
  <2> DEFINE cursor == LastOrdinal(Fresh)
  <2>1. stream' = [stream EXCEPT !.inbox = Fresh, !.cursor = cursor, !.last = (terminalRecord.state = "published")]
    BY <1>7 DEF Poll
  <2>2. Fresh \in Seq(RetainedEvent) /\ Fresh = After(buffer.events, stream.cursor)
    BY <1>4, AfterGrow DEF Fresh
  <2>3. cursor \in Nat /\ cursor <= buffer.ordinal /\ After(buffer.events, cursor) = <<>>
    <3>1. CASE Fresh = <<>>
      <4>1. cursor = stream.cursor
        BY <3>1 DEF LastOrdinal
      <4> QED  BY <1>4, <2>2, <3>1, <4>1
    <3>2. CASE Fresh # <<>>
      <4>1. cursor = Fresh[Len(Fresh)].ordinal
        BY <3>2 DEF LastOrdinal
      <4>2. /\ Fresh[Len(Fresh)].ordinal \in 0..buffer.ordinal
            /\ After(buffer.events, Fresh[Len(Fresh)].ordinal) = <<>>
        BY <1>4, <2>2, <3>2, NothingAfterLast
      <4> QED  BY <1>4, <4>1, <4>2
    <3> QED  BY <3>1, <3>2
  <2> HIDE DEF cursor
  <2>4. /\ stream'.phase = stream.phase /\ stream'.cursor = cursor /\ stream'.inbox = Fresh
        /\ stream'.last = (terminalRecord.state = "published")
        /\ stream' \in [phase : {"polling", "suspended"} \cup Ended, cursor : Nat, inbox : Seq(RetainedEvent),
                        last : BOOLEAN]
    BY <1>4, <2>1, <2>2, <2>3
  <2>5. StreamTyped'
    BY <1>1, <2>3, <2>4 DEF StreamTyped
  <2>6. Fresh' = <<>>
    BY <1>1, <2>3, <2>4 DEF Fresh
  <2>7. EndSound'
    BY <1>1, <1>5, <2>4, <2>6 DEF EndSound
  <2>8. DriveSound'
    <3> SUFFICES ASSUME valid, drive \in {"driving", "draining", "result"}
                 PROVE  /\ taken.logs + Logs(Fresh) + LogsAfter(buffer.events, cursor) + buffer.dropped >= logs
                        /\ \E known \in Seq(Required) : Seen(known)'
      BY <1>1, <2>4 DEF DriveSound
    <3>1. /\ taken.logs + Logs(stream.inbox) + LogsAfter(buffer.events, stream.cursor) + buffer.dropped >= logs
          /\ \E known \in Seq(Required) : Seen(known)
      BY DEF DriveSound
    <3>2. /\ Logs(stream.inbox) = 0 /\ RequiredOf(stream.inbox) = <<>>
          /\ LogsAfter(buffer.events, cursor) = 0 /\ RequiredAfter(buffer.events, cursor) = <<>>
          /\ LogsAfter(buffer.events, stream.cursor) = Logs(Fresh) /\ Logs(Fresh) \in Nat
          /\ RequiredAfter(buffer.events, stream.cursor) = RequiredOf(Fresh) /\ RequiredOf(Fresh) \in Seq(Required)
      BY <1>1, <2>2, <2>3, LogsGrow, RequiredGrow DEF LogsAfter, RequiredAfter
    <3>3. taken.logs + Logs(Fresh) + LogsAfter(buffer.events, cursor) + buffer.dropped >= logs
      <4>1. taken.logs \in Nat
        BY DEF DriveTyped
      <4>2. taken.logs + 0 + Logs(Fresh) + buffer.dropped = taken.logs + Logs(Fresh) + 0 + buffer.dropped
        BY <3>2, <4>1
      <4> QED  BY <3>1, <3>2, <4>2
    <3>4. PICK known \in Seq(Required) : Seen(known)
      BY <3>1
    <3>5. /\ sent = (known \o <<>>) \o RequiredOf(Fresh) /\ known \o <<>> = known
          /\ known \o RequiredOf(Fresh) \in Seq(Required)
      BY <3>2, <3>4, ConcatEmptySeq, ConcatProperties DEF Seen
    <3>6. sent = (known \o RequiredOf(Fresh)) \o <<>>
      BY <3>5, ConcatEmptySeq
    <3>7. taken'.required = Distinct(known) /\ sent' = (known \o RequiredOf(stream'.inbox)) \o RequiredAfter(buffer'.events, stream'.cursor)
      BY <1>1, <2>4, <3>2, <3>4, <3>6 DEF Seen
    <3>8. Seen(known)'
      BY <3>7 DEF Seen
    <3> QED  BY <3>3, <3>4, <3>8
  <2> QED  BY <1>2, <1>3, <2>5, <2>7, <2>8
<1> QED  BY <1>6, <1>7

\* The other actions of the execution host.
LEMMA ClientSteps ==
    ASSUME ObservationInv, Client
    PROVE  ObservationInv'
<1> USE DEF ObservationInv
<1>1. ASSUME StreamEnds PROVE ObservationInv'
  <2>1. /\ stream.phase = "polling" /\ stream.inbox = <<>> /\ (stream.last \/ released)
        /\ stream' = [stream EXCEPT !.phase = IF stream.last THEN "ended" ELSE "failed"]
        /\ sent' = sent /\ logs' = logs /\ buffer' = buffer /\ host' = host /\ plan' = plan /\ result' = result
        /\ valid' = valid /\ terminalRecord' = terminalRecord /\ collection' = collection /\ cancel' = cancel
        /\ released' = released /\ drive' = drive /\ taken' = taken
        /\ hostVars' = hostVars /\ supervisorVars' = supervisorVars /\ signalled' = signalled
    BY <1>1 DEF StreamEnds, hostVars, supervisorVars
  <2>2. HostTyped' /\ SupervisorTyped' /\ HostSent' /\ Accounted'
    BY <2>1, ClientsOnly
  <2>3. DriveTyped' /\ RecordSound'
    BY <2>1 DEF DriveTyped, RecordSound
  <2>4. /\ stream'.phase = (IF stream.last THEN "ended" ELSE "failed") /\ stream'.cursor = stream.cursor
        /\ stream'.inbox = stream.inbox /\ stream'.last = stream.last
        /\ stream' \in [phase : {"polling", "suspended"} \cup Ended, cursor : Nat, inbox : Seq(RetainedEvent),
                        last : BOOLEAN]
    BY <2>1 DEF StreamTyped, Ended
  <2>5. StreamTyped'
    BY <2>1, <2>4 DEF StreamTyped
  <2>6. DriveSound'
    BY <2>1, <2>4 DEF DriveSound, Seen
  <2>7. EndSound'
    BY <2>1, <2>4 DEF EndSound, Fresh
  <2> QED  BY <2>2, <2>3, <2>5, <2>6, <2>7
<1>2. ASSUME CollectPolls \/ CollectReleases \/ CancelAnswered \/ CancelLate PROVE ObservationInv'
  <2>1. /\ stream' = stream /\ drive' = drive /\ taken' = taken
        /\ sent' = sent /\ logs' = logs /\ buffer' = buffer /\ host' = host /\ plan' = plan /\ result' = result
        /\ valid' = valid /\ terminalRecord' = terminalRecord
        /\ hostVars' = hostVars /\ supervisorVars' = supervisorVars /\ signalled' = signalled
    BY <1>2 DEF CollectPolls, CollectReleases, CancelAnswered, CancelLate, hostVars, supervisorVars
  <2>2. HostTyped' /\ SupervisorTyped' /\ HostSent' /\ Accounted'
    BY <2>1, ClientsOnly
  <2>3. StreamTyped' /\ DriveSound'
    BY <2>1 DEF StreamTyped, DriveSound, Seen
  <2>4. /\ collection' \in {"polling", "waiting", "resolved", "rejected"} /\ released' \in BOOLEAN
        /\ cancel' \in {"none", "asked", "answered", "late"}
        /\ collection' \in {"waiting", "resolved"} => collection \in {"waiting", "resolved"} \/ terminalRecord.confirmed
        /\ collection = "resolved" => collection' = "resolved"
    BY <1>2 DEF CollectPolls, CollectReleases, CancelAnswered, CancelLate, DriveTyped
  <2>5. DriveTyped'
    BY <2>1, <2>4 DEF DriveTyped
  <2>6. RecordSound'
    BY <2>1, <2>4 DEF RecordSound
  <2>7. EndSound'
    BY <2>1, <2>4 DEF EndSound, Fresh
  <2> QED  BY <2>2, <2>3, <2>5, <2>6, <2>7
<1> QED  BY <1>1, <1>2, PollStep DEF Client

\* A drive that is no longer to come to a result has nothing to account for.
LEMMA DriveGivesUp ==
    ASSUME ObservationInv, NEW phase \in {"polling", "suspended"} \cup Ended, DriveFailed(phase),
           phase = "ended" => stream.phase = "ended"
    PROVE  ObservationInv'
<1> USE DEF ObservationInv
<1>1. /\ drive' = "failed" /\ cancel' = "asked" /\ stream' = [stream EXCEPT !.phase = phase, !.inbox = <<>>]
      /\ sent' = sent /\ logs' = logs /\ buffer' = buffer /\ host' = host /\ plan' = plan /\ result' = result
      /\ valid' = valid /\ terminalRecord' = terminalRecord /\ collection' = collection
      /\ released' = released /\ taken' = taken
      /\ hostVars' = hostVars /\ supervisorVars' = supervisorVars /\ signalled' = signalled
  BY DEF DriveFailed, hostVars, supervisorVars
<1>2. HostTyped' /\ SupervisorTyped' /\ HostSent' /\ Accounted'
  BY <1>1, ClientsOnly
<1>3. DriveTyped' /\ RecordSound'
  BY <1>1 DEF DriveTyped, RecordSound
<1>4. /\ stream'.phase = phase /\ stream'.cursor = stream.cursor
      /\ stream'.inbox = <<>> /\ stream'.last = stream.last
      /\ stream' \in [phase : {"polling", "suspended"} \cup Ended, cursor : Nat, inbox : Seq(RetainedEvent),
                      last : BOOLEAN]
  BY <1>1, EmptySeq DEF StreamTyped
<1>5. StreamTyped'
  BY <1>1, <1>4 DEF StreamTyped
<1>6. DriveSound'
  BY <1>1 DEF DriveSound
<1>7. EndSound'
  BY <1>1, <1>4 DEF EndSound, Fresh
<1> QED  BY <1>2, <1>3, <1>5, <1>6, <1>7

\* What a joined sequence holds, and where.
LEMMA JoinedParts ==
    ASSUME NEW a \in Seq(Required), NEW b \in Seq(Required)
    PROVE  /\ Len(Joined(a, b)) = Len(a) + Len(b)
           /\ \A j \in 1..(Len(a) + Len(b)) : Joined(a, b)[j] = IF j <= Len(a) THEN a[j] ELSE b[j - Len(a)]
<1>1. /\ Len(a \o b) = Len(a) + Len(b)
      /\ \A j \in 1..(Len(a) + Len(b)) : (a \o b)[j] = IF j <= Len(a) THEN a[j] ELSE b[j - Len(a)]
  BY ConcatProperties
<1> QED  BY <1>1 DEF Joined

\* Only a usage summary is required more than once.
OnceOnly(s) == \A i, j \in 1..Len(s) : i < j /\ s[i] = s[j] => s[i] \in Usages

\* A required event that is next was not committed before, unless it may be repeated.
LEMMA NextIsNew ==
    ASSUME NEW known \in Seq(Required), NEW kind \in Required, NEW rest \in Seq(Required), NEW s,
           s = Joined(Append(known, kind), rest),
           OnceOnly(s),
           Contains(Distinct(known), kind)
    PROVE  kind \in Usages
<1> DEFINE a == Append(known, kind)
           n == Len(known)
<1>1. PICK i \in 1..n : known[i] = kind
  BY DistinctOnly DEF Contains
<1>2. /\ n \in Nat /\ a \in Seq(Required) /\ Len(a) = n + 1 /\ a[n + 1] = kind /\ a[i] = known[i]
  BY LenProperties, AppendProperties
<1>3. Len(rest) \in Nat
  BY LenProperties
<1>4. s = Joined(a, rest)
  OBVIOUS
<1> HIDE DEF a, n
<1>5. Len(s) = n + 1 + Len(rest) /\ s[n + 1] = kind /\ s[i] = kind
  <2>1. /\ Len(s) = Len(a) + Len(rest)
        /\ \A j \in 1..(Len(a) + Len(rest)) : s[j] = IF j <= Len(a) THEN a[j] ELSE rest[j - Len(a)]
    BY <1>2, <1>4, JoinedParts
  <2>2. n + 1 \in 1..(Len(a) + Len(rest)) /\ i \in 1..(Len(a) + Len(rest)) /\ n + 1 <= Len(a) /\ i <= Len(a)
    BY <1>2, <1>3
  <2> QED  BY <1>1, <1>2, <2>1, <2>2
<1>6. i \in 1..Len(s) /\ n + 1 \in 1..Len(s) /\ i < n + 1
  BY <1>2, <1>3, <1>5
<1> QED  BY <1>5, <1>6 DEF OnceOnly

\* What is committed when an event is taken.
Committed(required, e) == IF IsLog(e) \/ (e.kind \in Usages /\ Contains(required, e.kind)) THEN required
                          ELSE Append(required, e.kind)

\* The event that is next is committed, or passed over when it was committed before.
LEMMA SeenNext ==
    ASSUME NEW s, NEW known \in Seq(Required), NEW e \in RetainedEvent, NEW rest \in Seq(Required),
           NEW late \in Seq(Required),
           s = Joined(Joined(known, Joined(Kinds(e), rest)), late), OnceOnly(s)
    PROVE  \E k \in Seq(Required) :
             Committed(Distinct(known), e) = Distinct(k) /\ s = Joined(Joined(k, rest), late)
<1> DEFINE now == Committed(Distinct(known), e)
<1>1. IsLog(e) <=> e.kind \notin Required
  BY DEF RetainedEvent, IsLog, Required, Usages
<1>2. CASE IsLog(e)
  <2>1. Kinds(e) = <<>> /\ Joined(<<>>, rest) = rest
    BY <1>1, <1>2, ConcatEmptySeq DEF Kinds, Joined
  <2>2. now = Distinct(known) /\ s = Joined(Joined(known, rest), late)
    BY <1>2, <2>1 DEF Committed
  <2> QED  BY <2>2
<1>3. CASE ~IsLog(e)
  <2> DEFINE kind == e.kind
             k == Append(known, kind)
             o == Kinds(e)
  <2>1. kind \in Required /\ o = <<kind>>
    BY <1>1, <1>3 DEF Kinds
  <2> HIDE DEF kind, o
  <2>2. k \in Seq(Required) /\ k = Joined(known, o) /\ o \in Seq(Required)
    BY <2>1, AppendProperties, AppendIsConcat DEF Joined
  <2>3. s = Joined(Joined(known, Joined(o, rest)), late)
    BY DEF o
  <2> HIDE DEF k
  <2>4. Joined(known, Joined(o, rest)) = Joined(k, rest)
    BY <2>2, JoinedAgain
  <2>5. s = Joined(Joined(k, rest), late) /\ s = Joined(k, Joined(rest, late)) /\ Joined(rest, late) \in Seq(Required)
    BY <2>2, <2>3, <2>4, JoinedAgain
  <2>6. Contains(Distinct(known), kind) => kind \in Usages
    <3>1. s = Joined(Append(known, kind), Joined(rest, late))
      BY <2>5 DEF k
    <3> QED  BY <2>1, <2>5, <3>1, NextIsNew
  <2>7. Distinct(k) = DistinctStep(Distinct(known), kind)
    BY <2>1, DistinctGrow DEF k
  <2>8. now = Distinct(k)
    <3>1. now = IF kind \in Usages /\ Contains(Distinct(known), kind) THEN Distinct(known)
                ELSE Append(Distinct(known), kind)
      BY <1>3 DEF kind, Committed
    <3> QED  BY <2>6, <2>7, <3>1 DEF DistinctStep
  <2> QED  BY <2>2, <2>5, <2>8
<1> QED  BY <1>2, <1>3

\* Take moves an event from what is polled to what is committed.
LEMMA TakeStep ==
    ASSUME ObservationInv, Take
    PROVE  ObservationInv'
<1> USE DEF ObservationInv
<1> DEFINE e == Head(stream.inbox)
           tail == Tail(stream.inbox)
<1>1. /\ stream \in [phase : {"polling", "suspended"} \cup Ended, cursor : Nat, inbox : Seq(RetainedEvent),
                     last : BOOLEAN]
      /\ stream.inbox \in Seq(RetainedEvent) /\ stream.inbox # <<>> /\ buffer.events \in Seq(RetainedEvent)
      /\ taken.logs \in Nat /\ taken.required \in Seq(Required) /\ stream.phase = "polling" /\ drive = "driving"
  BY DEF Take, StreamTyped, SupervisorTyped, DriveTyped, Kept, Retained
<1>2. e \in RetainedEvent /\ tail \in Seq(RetainedEvent) /\ stream.inbox = <<e>> \o tail
  BY <1>1, HeadTailProperties
<1>3. CASE Conflicting(e.kind) /\ ~Repeated(e.kind) /\ DriveFailed("suspended")
  BY <1>3, DriveGivesUp
<1>4. CASE /\ Repeated(e.kind) \/ ~Conflicting(e.kind)
           /\ taken' = [logs |-> taken.logs + Worth(e),
                        required |-> IF IsLog(e) \/ Repeated(e.kind) THEN taken.required
                                     ELSE Append(taken.required, e.kind)]
           /\ stream' = [stream EXCEPT !.inbox = Tail(@)]
           /\ UNCHANGED <<hostVars, supervisorVars, signalled, collection, cancel, released, drive>>
  <2>1. /\ sent' = sent /\ logs' = logs /\ buffer' = buffer /\ host' = host /\ plan' = plan /\ result' = result
        /\ valid' = valid /\ terminalRecord' = terminalRecord /\ collection' = collection
        /\ released' = released /\ cancel' = cancel /\ drive' = drive
        /\ hostVars' = hostVars /\ supervisorVars' = supervisorVars /\ signalled' = signalled
    BY <1>4 DEF hostVars, supervisorVars
  <2>2. HostTyped' /\ SupervisorTyped' /\ HostSent' /\ Accounted'
    BY <2>1, ClientsOnly
  <2>3. RecordSound'
    BY <2>1 DEF RecordSound
  <2>4. /\ stream'.phase = stream.phase /\ stream'.cursor = stream.cursor
        /\ stream'.inbox = tail /\ stream'.last = stream.last
        /\ stream' \in [phase : {"polling", "suspended"} \cup Ended, cursor : Nat, inbox : Seq(RetainedEvent),
                        last : BOOLEAN]
    BY <1>1, <1>2, <1>4
  <2>5. StreamTyped'
    BY <2>1, <2>4 DEF StreamTyped
  <2>6. EndSound'
    BY <1>1, <2>1, <2>4 DEF EndSound, Fresh
  <2>7. Worth(e) \in Nat /\ (IsLog(e) <=> e.kind \notin Required)
    BY <1>2, OneEvent DEF RetainedEvent, IsLog, Required, Usages
  <2> DEFINE now == IF IsLog(e) \/ Repeated(e.kind) THEN taken.required ELSE Append(taken.required, e.kind)
  <2>8. taken'.logs = taken.logs + Worth(e) /\ taken'.required = now /\ now \in Seq(Required)
        /\ taken' \in [logs : Nat, required : Seq(Required)]
    <3>1. now \in Seq(Required)
      BY <1>1, <2>7, AppendProperties
    <3>2. taken.logs + Worth(e) \in Nat
      BY <1>1, <2>7
    <3>3. taken' = [logs |-> taken.logs + Worth(e), required |-> now]
      BY <1>4
    <3> HIDE DEF now
    <3> QED  BY <3>1, <3>2, <3>3
  <2>9. DriveTyped'
    BY <2>1, <2>8 DEF DriveTyped
  <2>10. DriveSound'
    <3> SUFFICES ASSUME valid
                 PROVE  /\ taken'.logs + Logs(tail) + LogsAfter(buffer.events, stream.cursor) + buffer.dropped >= logs
                        /\ \E known \in Seq(Required) : Seen(known)'
      BY <2>1, <2>4 DEF DriveSound
    <3>1. /\ taken.logs + Logs(stream.inbox) + LogsAfter(buffer.events, stream.cursor) + buffer.dropped >= logs
          /\ \E known \in Seq(Required) : Seen(known)
      BY <1>1 DEF DriveSound
    <3>2. Logs(stream.inbox) = Worth(e) + Logs(tail) /\ Logs(tail) \in Nat
      <4>1. <<e>> \in Seq(RetainedEvent) /\ Logs(<<e>>) = Worth(e)
        BY <1>2, OneEvent
      <4>2. Logs(<<e>> \o tail) = Logs(<<e>>) + Logs(tail)
        BY <1>2, <4>1, LogsConcat
      <4> QED  BY <1>2, <4>1, <4>2, LogsGrow
    <3>3. taken'.logs + Logs(tail) = taken.logs + Logs(stream.inbox)
      <4> DEFINE w == Worth(e)
                 t == Logs(tail)
      <4>1. w \in Nat /\ t \in Nat /\ Logs(stream.inbox) = w + t /\ taken'.logs = taken.logs + w
        BY <2>7, <2>8, <3>2
      <4> HIDE DEF w, t
      <4>2. taken'.logs + t = taken.logs + Logs(stream.inbox)
        BY <1>1, <4>1
      <4> QED  BY <4>2 DEF t
    <3>4. PICK known \in Seq(Required) : Seen(known)
      BY <3>1
    <3>5. RequiredAfter(buffer.events, stream.cursor) \in Seq(Required)
      BY <1>1, LateTypes
    <3>6. /\ sent = Joined(Joined(known, Joined(Kinds(e), RequiredOf(tail))), RequiredAfter(buffer.events, stream.cursor))
          /\ taken.required = Distinct(known) /\ RequiredOf(tail) \in Seq(Required)
      <4>1. sent = (known \o RequiredOf(stream.inbox)) \o RequiredAfter(buffer.events, stream.cursor)
            /\ taken.required = Distinct(known)
        BY <3>4 DEF Seen
      <4>2. RequiredOf(stream.inbox) = Kinds(e) \o RequiredOf(tail) /\ RequiredOf(tail) \in Seq(Required)
        <5>1. /\ <<e>> \in Seq(RetainedEvent)
              /\ RequiredOf(<<e>>) = IF e.kind \in Required THEN <<e.kind>> ELSE <<>>
          BY <1>2, OneEvent
        <5>2. RequiredOf(<<e>> \o tail) = RequiredOf(<<e>>) \o RequiredOf(tail)
          BY <1>2, <5>1, RequiredConcat
        <5> QED  BY <1>2, <5>1, <5>2, RequiredGrow DEF Kinds
      <4> QED  BY <4>1, <4>2 DEF Joined
    <3>7. OnceOnly(sent)
      BY DEF HostSent, OnceOnly
    <3>8. now = Committed(Distinct(known), e)
      BY <3>6 DEF Committed, Repeated
    <3>9. PICK k \in Seq(Required) :
            now = Distinct(k) /\ sent = Joined(Joined(k, RequiredOf(tail)), RequiredAfter(buffer.events, stream.cursor))
      <4> DEFINE rest == RequiredOf(tail)
                 late == RequiredAfter(buffer.events, stream.cursor)
      <4>1. /\ rest \in Seq(Required) /\ late \in Seq(Required) /\ OnceOnly(sent) /\ e \in RetainedEvent
            /\ sent = Joined(Joined(known, Joined(Kinds(e), rest)), late)
        BY <1>2, <3>5, <3>6, <3>7
      <4> HIDE DEF e, rest, late, now
      <4>2. \E k \in Seq(Required) : Committed(Distinct(known), e) = Distinct(k) /\ sent = Joined(Joined(k, rest), late)
        BY <4>1, SeenNext
      <4> QED  BY <3>8, <4>2 DEF rest, late
    <3>10. Seen(k)'
      <4>1. /\ taken'.required = Distinct(k)
            /\ sent' = (k \o RequiredOf(stream'.inbox)) \o RequiredAfter(buffer'.events, stream'.cursor)
        BY <2>1, <2>4, <2>8, <3>9 DEF Joined
      <4> QED  BY <4>1 DEF Seen
    <3> QED  BY <3>1, <3>3, <3>10
  <2> QED  BY <2>2, <2>3, <2>5, <2>6, <2>9, <2>10
<1> QED  BY <1>3, <1>4 DEF Take

\* The other actions of the drive.
LEMMA DriveSteps ==
    ASSUME ObservationInv, Drive \/ DriveThrows \/ Stop
    PROVE  ObservationInv'
<1> USE DEF ObservationInv
<1>1. ASSUME DriveThrows \/ ConcludeFails PROVE ObservationInv'
  <2>1. PICK phase \in {"polling", "suspended", stream.phase} : DriveFailed(phase)
    BY <1>1 DEF DriveThrows, ConcludeFails
  <2>2. phase \in {"polling", "suspended"} \cup Ended /\ (phase = "ended" => stream.phase = "ended")
    BY <2>1 DEF StreamTyped
  <2> QED  BY <2>1, <2>2, DriveGivesUp
<1>2. ASSUME Drain \/ Conclude \/ Stop \/ Stopped PROVE ObservationInv'
  <2>1. /\ stream' = stream /\ taken' = taken /\ collection' = collection /\ released' = released
        /\ sent' = sent /\ logs' = logs /\ buffer' = buffer /\ host' = host /\ plan' = plan /\ result' = result
        /\ valid' = valid /\ terminalRecord' = terminalRecord
        /\ hostVars' = hostVars /\ supervisorVars' = supervisorVars /\ signalled' = signalled
        /\ cancel' \in {cancel, "asked"}
        /\ drive' \in {"draining", "result", "stopping", "stopped"}
        /\ drive' \in {"draining", "result"} => drive \in {"driving", "draining"} /\ stream.phase = "ended"
        /\ drive' = "result" => collection = "resolved"
    BY <1>2 DEF Drain, Conclude, Stop, Stopped, EndSound, hostVars, supervisorVars
  <2>2. HostTyped' /\ SupervisorTyped' /\ HostSent' /\ Accounted'
    BY <2>1, ClientsOnly
  <2>3. StreamTyped' /\ DriveTyped' /\ RecordSound'
    BY <2>1 DEF StreamTyped, DriveTyped, RecordSound
  <2>4. DriveSound'
    BY <2>1 DEF DriveSound, Seen
  <2>5. EndSound'
    BY <2>1 DEF EndSound, Fresh
  <2> QED  BY <2>2, <2>3, <2>4, <2>5
<1>3. ASSUME Return PROVE ObservationInv'
  <2>1. /\ stream' = [stream EXCEPT !.phase = "returned", !.inbox = <<>>] /\ drive = "stopping"
        /\ sent' = sent /\ logs' = logs /\ buffer' = buffer /\ host' = host /\ plan' = plan /\ result' = result
        /\ valid' = valid /\ terminalRecord' = terminalRecord /\ collection' = collection /\ cancel' = cancel
        /\ released' = released /\ drive' = drive /\ taken' = taken
        /\ hostVars' = hostVars /\ supervisorVars' = supervisorVars /\ signalled' = signalled
    BY <1>3 DEF Return, hostVars, supervisorVars
  <2>2. HostTyped' /\ SupervisorTyped' /\ HostSent' /\ Accounted'
    BY <2>1, ClientsOnly
  <2>3. DriveTyped' /\ RecordSound'
    BY <2>1 DEF DriveTyped, RecordSound
  <2>4. /\ stream'.phase = "returned" /\ stream'.cursor = stream.cursor
        /\ stream'.inbox = <<>> /\ stream'.last = stream.last
        /\ stream' \in [phase : {"polling", "suspended"} \cup Ended, cursor : Nat, inbox : Seq(RetainedEvent),
                        last : BOOLEAN]
    BY <2>1, EmptySeq DEF StreamTyped, Ended
  <2>5. StreamTyped'
    BY <2>1, <2>4 DEF StreamTyped
  <2>6. DriveSound'
    BY <2>1 DEF DriveSound
  <2>7. EndSound'
    BY <2>1, <2>4 DEF EndSound, Fresh
  <2> QED  BY <2>2, <2>3, <2>5, <2>6, <2>7
<1> QED  BY <1>1, <1>2, <1>3, TakeStep DEF Drive

\* The invariant holds initially.
LEMMA ObservationStarts ==
    ASSUME ObservationInit
    PROVE  ObservationInv
<1> USE DEF ObservationInit
<1>1. /\ <<>> \in Seq(Required) /\ <<>> \in Seq(RetainedEvent) /\ Len(<<>>) = 0 /\ 1..0 = {}
      /\ Logs(<<>>) = 0 /\ RequiredOf(<<>>) = <<>> /\ Distinct(<<>>) = <<>>
      /\ MaxLogs \in Nat /\ MaxRetained \in Nat /\ MaxRequired \in Nat
  BY EmptySeq, LogsGrow, RequiredGrow, DistinctGrow, ObservationConstants
<1>2. After(<<>>, 0) = <<>>
  BY AfterGrow
<1>3. HostTyped
  <2>1. 0 \in 0..(2 * MaxLogs)
    BY <1>1
  <2> QED  BY <1>1, <2>1 DEF HostTyped, Hosts
<1>4. SupervisorTyped
  <2>1. buffer \in Retained /\ buffer.events = <<>> /\ buffer.ordinal = 0 /\ buffer.dropped = 0
    BY <1>1 DEF Retained
  <2>2. Ascending(buffer) /\ SummaryLast(buffer)
    BY <1>1, <2>1 DEF Ascending, SummaryLast
  <2>3. Kept(buffer) /\ Len(buffer.events) <= MaxRetained
    BY <1>1, <2>1, <2>2 DEF Kept
  <2>4. terminalRecord \in [state : {"none", "writing", "published"}, events : Seq(RetainedEvent),
                            result : Results, confirmed : BOOLEAN]
    BY <1>1 DEF NoTerminal, Results
  <2> QED  BY <2>3, <2>4 DEF SupervisorTyped
<1>5. StreamTyped /\ DriveTyped
  <2>1. StreamTyped
    BY <1>1 DEF StreamTyped
  <2>2. DriveTyped
    BY <1>1 DEF DriveTyped
  <2> QED  BY <2>1, <2>2
<1>6. HostSent
  BY <1>1 DEF HostSent, NoSummary
<1>7. Accounted
  BY <1>1 DEF Accounted
<1>8. RecordSound
  BY DEF RecordSound, NoTerminal
<1>9. DriveSound
  <2>1. /\ Logs(stream.inbox) = 0 /\ LogsAfter(buffer.events, stream.cursor) = 0 /\ taken.logs = 0
        /\ buffer.dropped = 0 /\ logs = 0
    BY <1>1, <1>2 DEF LogsAfter
  <2>2. Seen(<<>>)
    <3>1. (<<>> \o <<>>) \o <<>> = <<>>
      BY <1>1, ConcatEmptySeq
    <3>2. /\ sent = <<>> /\ RequiredOf(stream.inbox) = <<>> /\ RequiredAfter(buffer.events, stream.cursor) = <<>>
          /\ taken.required = <<>>
      BY <1>1, <1>2 DEF RequiredAfter
    <3> QED  BY <1>1, <3>1, <3>2 DEF Seen
  <2>3. taken.logs + Logs(stream.inbox) + LogsAfter(buffer.events, stream.cursor) + buffer.dropped >= logs
    <3>1. 0 + 0 + 0 + 0 >= 0
      OBVIOUS
    <3> QED  BY <2>1, <3>1
  <2> QED  BY <1>1, <2>2, <2>3 DEF DriveSound
<1>10. EndSound
  BY DEF EndSound
<1> QED  BY <1>3, <1>4, <1>5, <1>6, <1>7, <1>8, <1>9, <1>10 DEF ObservationInv

\* The invariant is inductive.
LEMMA ObservationInvHolds == ObservationSpec => []ObservationInv
<1>1. ObservationInit => ObservationInv
  BY ObservationStarts
<1>2. ObservationInv /\ [ObservationNext]_observationVars => ObservationInv'
  <2> SUFFICES ASSUME ObservationInv, [ObservationNext]_observationVars PROVE ObservationInv'
    OBVIOUS
  <2>1. CASE ObservationNext
    BY <2>1, RuntimeHostSteps, SupervisorSteps, ClientSteps, DriveSteps DEF ObservationNext
  <2>2. CASE UNCHANGED observationVars
    <3>1. /\ hostVars' = hostVars /\ supervisorVars' = supervisorVars /\ signalled' = signalled
          /\ sent' = sent /\ logs' = logs /\ buffer' = buffer /\ host' = host /\ plan' = plan /\ result' = result
          /\ valid' = valid /\ terminalRecord' = terminalRecord /\ collection' = collection /\ cancel' = cancel
          /\ released' = released /\ drive' = drive /\ taken' = taken /\ stream' = stream
      BY <2>2 DEF observationVars, hostVars, supervisorVars, clientVars
    <3>2. HostTyped' /\ SupervisorTyped' /\ HostSent' /\ Accounted'
      BY <3>1, ClientsOnly
    <3>3. StreamTyped' /\ DriveTyped' /\ RecordSound'
      BY <3>1 DEF ObservationInv, StreamTyped, DriveTyped, RecordSound
    <3>4. DriveSound' /\ EndSound'
      BY <3>1 DEF ObservationInv, DriveSound, Seen, EndSound, Fresh
    <3> QED  BY <3>2, <3>3, <3>4 DEF ObservationInv
  <2> QED  BY <2>1, <2>2
<1> QED  BY <1>1, <1>2, PTL DEF ObservationSpec

-----------------------------------------------------------------------------
(* What the runs check of an observed execution *)

\* Every state of an execution, its supervisor, its polls and its drive is one the code's types allow,
\* and what the supervisor retains stays within its bounds.
THEOREM ObservationTypeCorrect == ObservationSpec => []ObservationTypeOK
<1>1. ObservationInv => ObservationTypeOK
  BY ObservationInvSays
<1> QED  BY <1>1, ObservationInvHolds, PTL

\* trimEvents, flushDroppedLogs, publishTerminal: a terminal record of a host that did its part holds
\* every required event and accounts for every log, and a collected result is the one the host emitted.
THEOREM TerminalsAreComplete == ObservationSpec => []TerminalIsComplete
<1>1. ObservationInv => TerminalIsComplete
  BY ObservationInvSays
<1> QED  BY <1>1, ObservationInvHolds, PTL

\* events(), PublicObservationFilter: a drive that came to a result committed every required event once
\* and in order, and no log is missing from what it committed without being counted.
THEOREM DrivesAreComplete == ObservationSpec => []DriveIsComplete
<1>1. ObservationInv => DriveIsComplete
  BY ObservationInvSays
<1> QED  BY <1>1, ObservationInvHolds, PTL
=============================================================================
