------------------------------ MODULE Observations ------------------------------
(***************************************************************************)
(* What a durable execution is observed to do, from the runtime host that  *)
(* emits it (execution-host/src/runtime-host.ts) through the events the    *)
(* supervisor retains (supervisor.ts) and the polls of the execution host  *)
(* (index.ts) to the coordinator that commits them (driveExecution).       *)
(*                                                                         *)
(* The host emits logs and required events, "completed" last, and then one *)
(* result. The supervisor keeps a bounded number of events and counts the  *)
(* logs it drops. The drive polls it by ordinal while a second loop polls  *)
(* for the terminal record, and a timeout or a control terminates it: the  *)
(* three share one supervisor, which is released once. The pipe between    *)
(* host and supervisor keeps its order, so a frame is appended as it is    *)
(* emitted. A terminate that crosses the end of the execution finds the    *)
(* supervisor gone. Crashes of the supervisor are in ExecutionSupervisor,  *)
(* those of the coordinator in DurableCoordinator.                         *)
(***************************************************************************)
EXTENDS Naturals, Sequences, FiniteSets, SequencesExt

CONSTANTS Plans,          \* the kinds of execution: "runtime", "command"
          MaxRetained,    \* events the supervisor keeps (256, or 512 KiB of them)
          MaxRequired,    \* required events it accepts (16)
          MaxLogs,        \* bound on the log events of an execution
          MaxUsages       \* bound on its usage events

\* With one event too many there is always a log to drop.
ASSUME ObservationConstants ==
    /\ Plans \subseteq {"runtime", "command"}
    /\ MaxRetained \in Nat /\ MaxRequired \in Nat /\ MaxRequired < MaxRetained
    /\ MaxLogs \in Nat /\ MaxUsages \in Nat

VARIABLES
    plan,        \* the kind of execution
    host,        \* where the runtime host is
    cancelling,  \* the cancellation inside the host
    cut,         \* the command was cancelled or timed out before it closed
    result,      \* the result the host emitted
    logs,        \* the logs emitted, those its adapter dropped included
    sent,        \* the required events emitted
    buffer,      \* the supervisor's events, their last ordinal and the logs dropped since
    valid,       \* the supervisor could read all the host sent
    signalled,   \* the supervisor is terminating the host's process group
    terminalRecord, \* the terminal record
    stream,      \* events(): the iterator of the drive
    collection,  \* collect(): the shared promise of the terminal record
    cancel,      \* the drive's request to terminate
    released,    \* the supervisor was released
    drive,       \* where driveExecution is
    taken        \* what it committed

hostVars == <<plan, host, cancelling, cut, result, logs, sent>>
supervisorVars == <<buffer, valid, terminalRecord>>
clientVars == <<stream, collection, cancel, released, drive, taken>>
observationVars == <<hostVars, supervisorVars, signalled, clientVars>>

Usages == {"usage", "conflicting"}
Required == {"started", "completed"} \cup Usages
Event(kind, dropped) == [kind |-> kind, dropped |-> dropped, ordinal |-> 0]
NoTerminal == [state |-> "none", events |-> <<>>, result |-> "none", confirmed |-> FALSE]
HostOver == {"exited", "failed"}
Ended == {"ended", "failed", "returned"}

IsLog(e) == e.kind \in {"log", "summary"}
\* The logs an event stands for: a summary is none itself.
Worth(e) == IF e.kind = "log" THEN e.dropped + 1 ELSE e.dropped
Logs(es) ==
    LET upTo[i \in 0..Len(es)] == IF i = 0 THEN 0 ELSE upTo[i - 1] + Worth(es[i])
    IN upTo[Len(es)]
RequiredOf(es) ==
    LET upTo[i \in 0..Len(es)] ==
            IF i = 0 THEN <<>> ELSE IF es[i].kind \in Required THEN Append(upTo[i - 1], es[i].kind) ELSE upTo[i - 1]
    IN upTo[Len(es)]
Distinct(kinds) ==
    LET upTo[i \in 0..Len(kinds)] ==
            IF i = 0 THEN <<>>
            ELSE IF Contains(upTo[i - 1], kinds[i]) THEN upTo[i - 1] ELSE Append(upTo[i - 1], kinds[i])
    IN upTo[Len(kinds)]

ObservationTypeOK ==
    /\ plan \in Plans
    /\ host \in {"input", "starting", "streaming", "completed"} \cup HostOver
    /\ cancelling \in {"no", "asked", "pending", "done", "failed"}
    /\ cut \in BOOLEAN /\ result \in {"none", "passed", "failed"}
    /\ logs \in 0..(2 * MaxLogs) /\ sent \in Seq(Required)
    /\ Len(buffer.events) <= MaxRetained /\ Len(RequiredOf(buffer.events)) <= MaxRequired
    /\ buffer.ordinal \in Nat /\ buffer.dropped \in 0..logs
    /\ valid \in BOOLEAN /\ signalled \in BOOLEAN
    /\ terminalRecord.state \in {"none", "writing", "published"} /\ terminalRecord.confirmed \in BOOLEAN
    /\ terminalRecord.result \in {"none", "passed", "failed", "oversized", "fallback"}
    /\ stream.phase \in {"polling", "suspended"} \cup Ended
    /\ stream.cursor <= buffer.ordinal /\ stream.last \in BOOLEAN
    /\ collection \in {"polling", "waiting", "resolved", "rejected"}
    /\ cancel \in {"none", "asked", "answered", "late"}
    /\ released \in BOOLEAN
    /\ drive \in {"driving", "draining", "stopping", "result", "stopped", "failed"}
    /\ taken.logs \in Nat /\ taken.required \in Seq(Required)

ObservationInit ==
    /\ plan \in Plans
    /\ host = "input" /\ cancelling = "no" /\ cut = FALSE /\ result = "none"
    /\ logs = 0 /\ sent = <<>>
    /\ buffer = [events |-> <<>>, ordinal |-> 0, dropped |-> 0]
    /\ valid = TRUE /\ signalled = FALSE /\ terminalRecord = NoTerminal
    /\ stream = [phase |-> "polling", cursor |-> 0, inbox |-> <<>>, last |-> FALSE]
    /\ collection = "polling" /\ cancel = "none" /\ released = FALSE
    /\ drive = "driving" /\ taken = [logs |-> 0, required |-> <<>>]

-----------------------------------------------------------------------------
\* The events the supervisor retains.

Numbered(b, e) ==
    [b EXCEPT !.ordinal = @ + 1, !.events = Append(@, [e EXCEPT !.ordinal = b.ordinal + 1])]

FirstLog(es) == CHOOSE i \in DOMAIN es : IsLog(es[i]) /\ \A j \in 1..(i - 1) : ~IsLog(es[j])

\* Mutant of TrimmedCount: the logs a trimmed log stood for are forgotten.
TrimmedCountOne(e) == 1

TrimmedCount(e) == e.dropped + 1

\* trimEvents, for one event too many: the first log goes, and is counted in the summary
\* already retained or until the next one.
Trim(b) ==
    IF Len(b.events) <= MaxRetained THEN b
    ELSE LET i == FirstLog(b.events)
             removed == TrimmedCount(b.events[i])
             rest == RemoveAt(b.events, i)
             summaries == {j \in DOMAIN rest : rest[j].kind = "summary"}
         IN IF summaries = {} THEN [b EXCEPT !.events = rest, !.dropped = @ + removed]
            ELSE [b EXCEPT !.events = [rest EXCEPT ![CHOOSE j \in summaries : TRUE].dropped = @ + removed]]

FlushDropped(b) ==
    IF b.dropped = 0 THEN b
    ELSE Trim([Numbered(b, Event("summary", b.dropped)) EXCEPT !.dropped = 0])

\* appendEvent: "completed" comes after a summary of what was dropped; a log takes the count along.
AppendEvent(b, e) ==
    IF e.kind = "completed" THEN Trim(Numbered(FlushDropped(b), e))
    ELSE IF e.kind = "log"
         THEN Trim([Numbered(b, [e EXCEPT !.dropped = @ + b.dropped]) EXCEPT !.dropped = 0])
         ELSE Trim(Numbered(b, e))

TooManyRequired(b, e) == ~IsLog(e) /\ Len(RequiredOf(b.events)) = MaxRequired

\* A host's frame: one required event too many makes the rest of the stream unreadable.
Receive(e) ==
    IF ~valid \/ TooManyRequired(buffer, e)
    THEN valid' = FALSE /\ buffer' = IF valid /\ e.kind = "completed" THEN FlushDropped(buffer) ELSE buffer
    ELSE buffer' = AppendEvent(buffer, e) /\ UNCHANGED valid

-----------------------------------------------------------------------------
\* The runtime host.

Emit(e) ==
    /\ Receive(e)
    /\ IF IsLog(e) THEN logs' = logs + Worth(e) /\ UNCHANGED sent
       ELSE sent' = Append(sent, e.kind) /\ UNCHANGED logs

\* The launch input is read, and with it the signal handlers are in place.
ReadInput ==
    /\ host = "input" /\ host' = IF plan = "runtime" THEN "starting" ELSE "streaming"
    /\ IF plan = "command" THEN Emit(Event("started", 0))
       ELSE UNCHANGED <<buffer, valid, logs, sent>>
    /\ UNCHANGED <<plan, cancelling, cut, result, signalled, terminalRecord, clientVars>>

\* executeRuntime up to setCancellation, which passes on a cancellation that was asked for meanwhile.
StartRuntime ==
    /\ host = "starting" /\ host' = "streaming"
    /\ cancelling' = IF cancelling = "asked" THEN "pending" ELSE cancelling
    /\ Emit(Event("started", 0))
    /\ UNCHANGED <<plan, cut, result, signalled, terminalRecord, clientVars>>

EmitLog ==
    /\ host = "streaming" /\ plan = "runtime" /\ logs < MaxLogs
    /\ \E dropped \in 0..1 : Emit(Event("log", dropped))
    /\ UNCHANGED <<plan, host, cancelling, cut, result, signalled, terminalRecord, clientVars>>

EmitUsage ==
    /\ host = "streaming" /\ plan = "runtime" /\ Len(sent) <= MaxUsages
    /\ \E kind \in {"usage"} \cup (IF Contains(sent, "usage") THEN {"conflicting"} ELSE {}) : Emit(Event(kind, 0))
    /\ UNCHANGED <<plan, host, cancelling, cut, result, signalled, terminalRecord, clientVars>>

\* The command's own deadline cancels it.
CommandTimesOut ==
    /\ host = "streaming" /\ plan = "command" /\ ~cut /\ cut' = TRUE
    /\ UNCHANGED <<plan, host, cancelling, result, logs, sent, supervisorVars, signalled, clientVars>>

\* "completed": an adapter's last event, or after a command was closed and its cancellation settled.
\* Nothing here depends on what an adapter's result says.
Complete ==
    /\ host = "streaming" /\ host' = "completed"
    /\ plan = "command" => cancelling \in {"no", "done"}
    /\ result' \in IF plan = "runtime" THEN {"passed"} ELSE IF cut THEN {"failed"} ELSE {"passed", "failed"}
    /\ Emit(Event("completed", 0))
    /\ UNCHANGED <<plan, cancelling, cut, signalled, terminalRecord, clientVars>>

\* Of a host that is gone only what it emitted remains, and nothing to signal.
Gone(how) ==
    /\ host' = how /\ cancelling' = "no" /\ cut' = FALSE /\ signalled' = FALSE
    /\ UNCHANGED <<plan, logs, sent, supervisorVars, clientVars>>

\* The result is emitted only once a cancellation under way settled.
EmitResult ==
    /\ host = "completed" /\ (plan = "runtime" => cancelling \in {"no", "done"})
    /\ Gone("exited") /\ UNCHANGED result

CancellationSettles ==
    /\ cancelling = "pending" /\ host \notin HostOver
    /\ \E outcome \in {"done", "failed"} : cancelling' = outcome
    /\ UNCHANGED <<plan, host, cut, result, logs, sent, supervisorVars, signalled, clientVars>>

\* The host rejects: no adapter, an event or result out of contract, a broken pipe, a cancellation
\* that could not be confirmed; or it is killed before its handlers are there, or after the grace.
\* A result may have been emitted before.
HostFails ==
    host \notin HostOver /\ Gone("failed") /\ UNCHANGED result

Killed == signalled /\ HostFails

Host ==
    \/ ReadInput \/ StartRuntime \/ EmitLog \/ EmitUsage \/ CommandTimesOut \/ Complete
    \/ EmitResult \/ CancellationSettles \/ HostFails

-----------------------------------------------------------------------------
\* The supervisor.

\* settleExecution and publishTerminal: the stream ended and the host is gone.
Settled(kept, confirmed) ==
    /\ buffer' = FlushDropped(buffer)
    /\ terminalRecord' = [state |-> "writing", events |-> buffer'.events, result |-> kept, confirmed |-> confirmed]
    /\ UNCHANGED <<hostVars, valid, signalled, clientVars>>

\* boundedTerminal: only a command's output can make a terminal too large.
Settle ==
    /\ host \in HostOver /\ terminalRecord.state = "none"
    /\ \E empty \in BOOLEAN, large \in BOOLEAN :
          IF ~valid \/ host = "failed" THEN Settled("fallback", FALSE)
          ELSE Settled(IF large /\ plan = "command" THEN "oversized" ELSE result, empty)

Publish ==
    /\ terminalRecord.state = "writing" /\ terminalRecord' = [terminalRecord EXCEPT !.state = "published"]
    /\ UNCHANGED <<hostVars, buffer, valid, signalled, clientVars>>

\* terminateExecution: SIGTERM reaches the host's handlers, or a host that has none yet.
Signal ==
    /\ cancel \in {"asked", "late"} /\ ~signalled /\ ~released /\ host \notin HostOver
    /\ IF host = "input" THEN Gone("failed") /\ UNCHANGED result
       ELSE /\ signalled' = TRUE
            /\ cancelling' = IF host = "starting" THEN "asked" ELSE "pending"
            /\ cut' = (cut \/ (plan = "command" /\ host = "streaming"))
            /\ UNCHANGED <<plan, host, result, logs, sent, supervisorVars, clientVars>>

Supervisor == Settle \/ Publish \/ Signal

-----------------------------------------------------------------------------
\* The execution host: three loops over one supervisor.

\* Mutant: the cursor counts the events delivered.
FreshByCount ==
    IF stream.cursor > Len(buffer.events) THEN <<>>
    ELSE SubSeq(buffer.events, stream.cursor + 1, Len(buffer.events))

After(es, cursor) ==
    LET upTo[i \in 0..Len(es)] ==
            IF i = 0 THEN <<>> ELSE IF es[i].ordinal > cursor THEN Append(upTo[i - 1], es[i]) ELSE upTo[i - 1]
    IN upTo[Len(es)]

\* The events after the cursor; a summary that grew since it was polled stays behind the cursor.
Fresh == After(buffer.events, stream.cursor)
LastOrdinal(es) == IF es = <<>> THEN stream.cursor ELSE es[Len(es)].ordinal

\* One answer carries the events and whether the terminal is there. What is polled for nobody
\* suspends the iterator at its yield.
Poll ==
    /\ stream.phase = "polling" /\ stream.inbox = <<>> /\ ~stream.last /\ ~released
    /\ stream' = IF drive = "failed" /\ Fresh # <<>> THEN [stream EXCEPT !.phase = "suspended"]
                 ELSE [stream EXCEPT !.inbox = Fresh, !.cursor = LastOrdinal(Fresh),
                                     !.last = (terminalRecord.state = "published")]
    /\ UNCHANGED <<hostVars, supervisorVars, signalled, collection, cancel, released, drive, taken>>

\* The iterator ends after the events of its last poll, or fails when the supervisor is gone.
StreamEnds ==
    /\ stream.phase = "polling" /\ stream.inbox = <<>> /\ (stream.last \/ released)
    /\ stream' = [stream EXCEPT !.phase = IF stream.last THEN "ended" ELSE "failed"]
    /\ UNCHANGED <<hostVars, supervisorVars, signalled, collection, cancel, released, drive, taken>>

\* collectTerminal: a poll that finds the terminal reads it; only a confirmed one is collected.
CollectPolls ==
    /\ collection = "polling" /\ (terminalRecord.state = "published" \/ released)
    /\ collection' = IF ~released /\ terminalRecord.confirmed THEN "waiting" ELSE "rejected"
    /\ UNCHANGED <<hostVars, supervisorVars, signalled, stream, cancel, released, drive, taken>>

\* The supervisor is released only after the iterator is done with it.
CollectReleases ==
    /\ collection = "waiting" /\ stream.phase \in Ended
    /\ released' = TRUE /\ collection' = IF released THEN "rejected" ELSE "resolved"
    /\ UNCHANGED <<hostVars, supervisorVars, signalled, stream, cancel, drive, taken>>

\* Mutant: the supervisor is not released.
CancelAnsweredOnly ==
    /\ cancel = "asked" /\ (terminalRecord.state = "published" \/ released)
    /\ cancel' = "answered"
    /\ UNCHANGED <<hostVars, supervisorVars, signalled, stream, collection, released, drive, taken>>

\* terminate: answered once the terminal is there, which releases the supervisor too; a supervisor
\* released meanwhile cannot be reached.
CancelAnswered ==
    /\ cancel = "asked" /\ (terminalRecord.state = "published" \/ released)
    /\ cancel' = "answered" /\ released' = TRUE
    /\ UNCHANGED <<hostVars, supervisorVars, signalled, stream, collection, drive, taken>>

\* The request gives up after five seconds; the supervisor does not.
CancelLate ==
    /\ cancel = "asked" /\ cancel' = "late"
    /\ UNCHANGED <<hostVars, supervisorVars, signalled, stream, collection, released, drive, taken>>

Client == Poll \/ StreamEnds \/ CollectPolls \/ CollectReleases \/ CancelAnswered \/ CancelLate

-----------------------------------------------------------------------------
\* driveExecution.

\* Whatever makes the drive throw, executeAttempt terminates the execution.
DriveFailed(phase) ==
    /\ drive' = "failed" /\ cancel' = "asked" /\ stream' = [stream EXCEPT !.phase = phase, !.inbox = <<>>]
    /\ UNCHANGED <<hostVars, supervisorVars, signalled, collection, released, taken>>

\* PublicObservationFilter
Repeated(kind) == kind \in Usages /\ Contains(taken.required, kind)
Conflicting(kind) == kind \in Usages /\ \E i \in DOMAIN taken.required : taken.required[i] \in Usages \ {kind}

Take ==
    /\ drive = "driving" /\ stream.phase = "polling" /\ stream.inbox # <<>>
    /\ LET e == Head(stream.inbox)
       IN \/ Conflicting(e.kind) /\ ~Repeated(e.kind) /\ DriveFailed("suspended")
          \/ /\ Repeated(e.kind) \/ ~Conflicting(e.kind)
             /\ taken' = [logs |-> taken.logs + Worth(e),
                          required |-> IF IsLog(e) \/ Repeated(e.kind) THEN taken.required
                                       ELSE Append(taken.required, e.kind)]
             /\ stream' = [stream EXCEPT !.inbox = Tail(@)]
             /\ UNCHANGED <<hostVars, supervisorVars, signalled, collection, cancel, released, drive>>

\* A commit that fails, or ownership lost while the drive waits.
DriveThrows ==
    \/ drive = "driving" /\ stream.phase = "polling"
       /\ DriveFailed(IF stream.inbox = <<>> THEN "polling" ELSE "suspended")
    \/ drive = "draining" /\ DriveFailed(stream.phase)

Drain ==
    /\ drive = "driving" /\ stream.phase = "ended" /\ drive' = "draining"
    /\ UNCHANGED <<hostVars, supervisorVars, signalled, stream, collection, cancel, released, taken>>

Conclude ==
    /\ drive = "draining" /\ collection = "resolved" /\ drive' = "result"
    /\ UNCHANGED <<hostVars, supervisorVars, signalled, stream, collection, cancel, released, taken>>

ConcludeFails == drive = "draining" /\ collection = "rejected" /\ DriveFailed(stream.phase)

\* A timeout or a control terminates the execution while the next event is awaited.
Stop ==
    /\ drive = "driving" /\ drive' = "stopping" /\ cancel' = "asked"
    /\ UNCHANGED <<hostVars, supervisorVars, signalled, stream, collection, released, taken>>

\* iterator.return waits for the next event under way, which is dropped with the rest.
Return ==
    /\ drive = "stopping" /\ stream.phase = "polling" /\ stream.inbox # <<>>
    /\ stream' = [stream EXCEPT !.phase = "returned", !.inbox = <<>>]
    /\ UNCHANGED <<hostVars, supervisorVars, signalled, collection, cancel, released, drive, taken>>

Stopped ==
    /\ drive = "stopping" /\ stream.phase \in Ended /\ cancel \in {"answered", "late"} /\ drive' = "stopped"
    /\ UNCHANGED <<hostVars, supervisorVars, signalled, stream, collection, cancel, released, taken>>

Drive == Take \/ Drain \/ Conclude \/ ConcludeFails \/ Return \/ Stopped

ObservationNext == Host \/ Supervisor \/ Client \/ Drive \/ DriveThrows \/ Stop

\* A host may run as long as it likes, until its group is killed. Everything else is code that runs.
ObservationSpec == ObservationInit /\ [][ObservationNext]_observationVars
FairObservationSpec ==
    /\ ObservationSpec
    /\ WF_observationVars(Killed) /\ WF_observationVars(Supervisor)
    /\ WF_observationVars(Poll) /\ WF_observationVars(StreamEnds)
    /\ WF_observationVars(CollectPolls) /\ WF_observationVars(CollectReleases)
    /\ WF_observationVars(CancelAnswered) /\ WF_observationVars(Drive)

-----------------------------------------------------------------------------
\* trimEvents, flushDroppedLogs, publishTerminal: the record of an execution whose host did its
\* part holds every required event, and its logs and drop counts add up to the logs emitted,
\* however often events were trimmed. A collected result is the one the host emitted before it
\* exited, never the supervisor's stand-in; only an oversized command result is replaced.
TerminalIsComplete ==
    /\ terminalRecord.confirmed => Logs(terminalRecord.events) = logs /\ RequiredOf(terminalRecord.events) = sent
    /\ collection = "resolved" =>
          /\ host = "exited" /\ valid
          /\ terminalRecord.result = result \/ (plan = "command" /\ terminalRecord.result = "oversized")

\* events(), PublicObservationFilter: a drive that came to a result committed every required event
\* once, in order, and no log is missing from what it committed without being counted. A log can
\* be counted again: one that was polled and trimmed later.
DriveIsComplete ==
    drive = "result" => taken.logs >= logs /\ taken.required = Distinct(sent)

\* Once the host is gone or its termination was asked for, the drive comes to an end and no
\* supervisor is left behind, unless the request to terminate it gave up waiting.
EndsAndReleases ==
    (host \in HostOver \/ cancel # "none") ~>
        (drive \in {"result", "stopped", "failed"} /\ (released \/ cancel = "late"))

=============================================================================
