----------------------------- MODULE RuntimeAdapter -----------------------------
(***************************************************************************)
(* One execution of a runtime adapter: runtime-codex and                   *)
(* runtime-claude-code, which own a detached process group, runtime-pi,    *)
(* which owns a session, and runtime-fake, which replays a script. kind    *)
(* says which one it is and never changes.                                 *)
(*                                                                         *)
(* An adapter answers on four channels: start resolves or is refused,      *)
(* events drains a bounded queue, collect returns the result, cancel       *)
(* resolves or rejects. A step is what the adapter does between two        *)
(* awaits. The group's processes, the frames the leader prints and the     *)
(* verdict of every check before the spawn belong to the environment. A    *)
(* process outside the group that holds the leader's output is left out.   *)
(***************************************************************************)
EXTENDS Naturals, Sequences, FiniteSets, SequencesExt

CONSTANTS Kinds,        \* the adapters an execution may run on
          Capacity,     \* queued events above which a log is dropped (254)
          MaxFrames     \* bound on the frames, or session logs, of an execution

\* started, two metadata and usage are never logs: with fewer places a required event would not fit.
ASSUME AdapterConstants ==
    /\ Kinds \subseteq {"codex", "claude", "pi", "fake"}
    /\ Capacity \in Nat /\ Capacity >= 4
    /\ MaxFrames \in Nat

VARIABLES
    kind,       \* the adapter
    at,         \* where start, or run, is
    members,    \* live processes of the group
    exit,       \* how the leader exited
    native,     \* NativeTurn, ClaudeNativeTurn
    told,       \* what the frames the leader printed amount to
    printed,    \* how many frames, or session logs
    box,        \* the queue, and what happened to the logs
    memo,       \* the shared cancellation
    answer,     \* the last answer of a cancel
    session,    \* the Pi session
    aborted,    \* the shared abort of the session
    files,      \* the private files of the attempt
    reader,     \* the process that read the effective policy
    result,     \* the result, or what an error will make of it
    collected   \* what collect returned

worker == <<members, exit, native, told, printed>>
cancelling == <<memo, answer>>
pi == <<session, aborted>>
private == <<files, reader>>
adapterVars == <<kind, at, worker, box, cancelling, pi, private, result, collected>>

Preflight == {"new", "executable", "auth", "environment", "profile", "skills", "managed", "policy"}
\* streaming: frames are read; exiting: the output ended; clearing: the catch.
Running == {"streaming", "exiting", "terminating", "clearing", "disposing", "creating", "aborting", "prompting",
            "ready"}
Places == Preflight \cup {"refused", "done"} \cup Running

CodexFrames == {"thread", "turn", "tool", "report", "junk", "completed", "failed", "error", "malformed"}
ClaudeFrames == {"init", "foreign", "tool", "result", "badresult", "failed", "malformed"}

\* unsafe: the failure whose message says that a retry is unsafe.
Failures == {"model", "schema", "policy", "unavailable", "unsafe"}
Results == {"none", "succeeded", "cancelled"} \cup Failures
Status(r) == IF r \in Failures THEN "failed" ELSE r

Event(type) == [type |-> type, dropped |-> 0, status |-> "none"]
EmptyBox == [queue |-> <<>>, dropped |-> 0, emitted |-> 0, delivered |-> 0, admitted |-> 0, seen |-> "none"]

AdapterTypeOK ==
    /\ kind \in Kinds /\ at \in Places
    /\ members \subseteq {"leader", "helper"} /\ exit \in {"none", "zero", "nonzero"}
    /\ native \in [started : BOOLEAN, turn : BOOLEAN, completed : BOOLEAN, failed : BOOLEAN,
                   report : {"none", "good", "bad"}]
    /\ told \subseteq {"failure", "completion"} /\ printed \in 0..MaxFrames
    /\ kind # "fake" => Len(box.queue) <= Capacity + 2
    /\ memo \in {"none", "terminating", "awaiting", "resolved", "rejected"}
    /\ answer \in {"nothing", "resolved", "rejected"}
    /\ session \in {"none", "open", "closed", "leaked", "abandoned"}
    /\ aborted \in {"none", "pending", "resolved", "rejected"}
    /\ files \in {"none", "made", "removed"} /\ reader \in {"none", "live", "gone"}
    /\ result \in Results /\ collected \in Results

AdapterInit ==
    /\ kind \in Kinds /\ at = "new"
    /\ members = {} /\ exit = "none"
    /\ native = [started |-> FALSE, turn |-> FALSE, completed |-> FALSE, failed |-> FALSE, report |-> "none"]
    /\ told = {} /\ printed = 0
    /\ box = EmptyBox
    /\ memo = "none" /\ answer = "nothing"
    /\ session = "none" /\ aborted = "none"
    /\ files = "none" /\ reader = "none"
    /\ result = "none" /\ collected = "none"

Cancelled == memo # "none"

-----------------------------------------------------------------------------
\* push, and the stream.

IsLog(e) == e.type = "log"
Full(b) == Len(b.queue) >= Capacity
\* A required event that finds no log to displace is an error.
Overflows(b, e) == Full(b) /\ ~IsLog(e) /\ ~\E i \in DOMAIN b.queue : IsLog(b.queue[i])

Push(b, e) ==
    LET oldest == SelectInSeq(b.queue, IsLog)
    IN [b EXCEPT !.emitted = @ + (IF IsLog(e) THEN 1 ELSE 0),
                 !.dropped = @ + (IF Full(b) THEN 1 ELSE 0),
                 !.queue = IF ~Full(b) THEN Append(@, e)
                           ELSE IF oldest > 0 THEN Append(RemoveAt(@, oldest), e)
                           ELSE @]

\* The end of run: the two last events need no room. With them the execution is finished.
Publish(b, r) ==
    /\ at' = "done" /\ result' = r
    /\ box' = [b EXCEPT !.queue =
                  @ \o (IF b.dropped > 0 THEN <<[Event("summary") EXCEPT !.dropped = b.dropped]>> ELSE <<>>)
                    \o <<[Event("completed") EXCEPT !.status = Status(r)]>>]

\* events: the consumer takes the next one.
Consume ==
    /\ kind # "fake" /\ at \notin Preflight /\ box.queue # <<>>
    /\ LET e == Head(box.queue)
       IN box' = [box EXCEPT !.queue = Tail(@),
                             !.delivered = @ + (IF IsLog(e) THEN 1 ELSE 0),
                             !.admitted = @ + e.dropped,
                             !.seen = IF e.type = "completed" THEN e.status ELSE @]
    /\ UNCHANGED <<kind, at, worker, cancelling, pi, private, result, collected>>

Collect ==
    /\ kind # "fake" /\ at = "done"
    /\ collected' = result
    /\ UNCHANGED <<kind, at, worker, box, cancelling, pi, private, result>>

-----------------------------------------------------------------------------
\* start of the Codex adapter.

Refuse == at' = "refused"
BeforeRun == UNCHANGED <<kind, cancelling, pi, result, collected>>

\* resolveCodexExecutable, or the injected one.
CodexExecutable ==
    /\ kind = "codex" /\ at = "new"
    /\ at' = "auth" \/ Refuse
    /\ BeforeRun /\ UNCHANGED <<worker, box, private>>

\* resolveAuthFile
CodexAuth ==
    /\ kind = "codex" /\ at = "auth"
    /\ at' = "profile" \/ Refuse
    /\ BeforeRun /\ UNCHANGED <<worker, box, private>>

\* Removing private files may fail.
Dispose == files' \in {"removed", files}

\* createCodexProfile: a failure after the directory was made removes it.
CodexProfile ==
    /\ kind = "codex" /\ at = "profile"
    /\ \/ at' = "skills" /\ files' = "made"
       \/ Refuse /\ files' \in {"none", "made", "removed"}
    /\ BeforeRun /\ UNCHANGED <<worker, box, reader>>

\* disabledSkillPaths, its last step: an inventory that is incomplete or too large is a failure.
CodexSkills ==
    /\ kind = "codex" /\ at = "skills"
    /\ \/ at' = "policy" /\ UNCHANGED files
       \/ Refuse /\ Dispose
    /\ BeforeRun /\ UNCHANGED <<worker, box, reader>>

\* run up to its first await. A spawn that fails leaves no process, and is found out later.
Spawn ==
    /\ at' = "streaming"
    /\ members' \in {{}, {"leader"}}
    /\ box' = Push(Push(box, Event("started")), Event("metadata"))
    /\ UNCHANGED <<exit, native, told, printed>>

\* inspectCodexPolicy: the reader answers or not, and is terminated in either case.
CodexPolicy ==
    /\ kind = "codex" /\ at = "policy"
    /\ \/ reader' = "gone" /\ Spawn /\ files' = files
       \/ reader' \in {"gone", "live"} /\ Refuse /\ Dispose /\ UNCHANGED <<worker, box>>
    /\ BeforeRun

\* start of the Claude Code adapter.

\* createClaudeCodeProfile, and resolveClaudeCodeExecutable after it.
ClaudeProfile ==
    /\ kind = "claude" /\ at = "new"
    /\ at' = "executable" \/ Refuse
    /\ BeforeRun /\ UNCHANGED <<worker, box, private>>

ClaudeExecutable ==
    /\ kind = "claude" /\ at = "executable"
    /\ at' = "environment" \/ Refuse
    /\ BeforeRun /\ UNCHANGED <<worker, box, private>>

\* claudeProcessEnvironment
ClaudeEnvironment ==
    /\ kind = "claude" /\ at = "environment"
    /\ at' = "managed" \/ Refuse
    /\ BeforeRun /\ UNCHANGED <<worker, box, private>>

\* inspectClaudeManagedPolicy
ClaudeManagedPolicy ==
    /\ kind = "claude" /\ at = "managed"
    /\ at' = "auth" \/ Refuse
    /\ BeforeRun /\ UNCHANGED <<worker, box, private>>

\* inspectClaudeAuthentication
ClaudeAuthentication ==
    /\ kind = "claude" /\ at = "auth"
    /\ \/ Spawn
       \/ Refuse /\ UNCHANGED <<worker, box>>
    /\ BeforeRun /\ UNCHANGED private

-----------------------------------------------------------------------------
\* Frames, in the order the leader prints them.

Emit(f) ==
    /\ told' = told \cup (IF f \in {"failed", "error", "malformed", "foreign"} THEN {"failure"} ELSE {})
                    \cup (IF f \in {"completed", "result"} THEN {"completion"} ELSE {})
    /\ printed' = printed + 1

\* Whether NativeTurn takes a frame, and what becomes of it.
CodexTakes(n, f) ==
    /\ f # "malformed"
    /\ f = "thread" => ~n.started
    /\ f = "turn" => n.started /\ ~n.completed /\ ~n.turn
    /\ f = "completed" => n.started /\ n.turn /\ ~n.completed /\ ~n.failed
    /\ f = "failed" => n.started /\ n.turn /\ ~n.completed

CodexTurn(n, f) ==
    [started   |-> n.started \/ f = "thread",
     turn      |-> n.turn \/ f = "turn",
     completed |-> n.completed \/ f = "completed",
     failed    |-> n.failed \/ f \in {"failed", "error"},
     report    |-> CASE f = "report" -> "good" [] f = "junk" -> "bad" [] OTHER -> n.report]

CodexResult(n) ==
    IF n.completed /\ n.failed THEN "policy"
    ELSE IF n.failed \/ exit # "zero" THEN "model"
    ELSE IF ~n.completed THEN "unavailable"
    ELSE IF n.report = "good" THEN "succeeded" ELSE "schema"

\* ClaudeNativeTurn: the identity comes first and must be the selected one, and nothing follows a result.
ClaudeTakes(n, f) ==
    /\ f \notin {"malformed", "foreign"} /\ ~n.completed
    /\ f = "init" => ~n.started
    /\ f \in {"tool", "result", "badresult", "failed"} => n.started

ClaudeTurn(n, f) ==
    [n EXCEPT !.started = @ \/ f = "init",
              !.completed = f \in {"result", "badresult", "failed"},
              !.failed = @ \/ f = "failed",
              !.report = CASE f = "result" -> "good" [] f = "badresult" -> "bad" [] OTHER -> @]

ClaudeResult(n) ==
    IF n.failed \/ exit # "zero" THEN "model"
    ELSE IF ~n.started \/ ~n.completed THEN "unavailable"
    ELSE IF n.report = "good" THEN "succeeded" ELSE "schema"

\* An error inside the try of run, and what classifyFailure makes of it.
Throw(r) == at' = "clearing" /\ result' = r

\* One frame of a chunk, decoded and observed. What arrives after a cancellation is dropped unread.
Observe(f, takes, turn, observation, failure) ==
    /\ at = "streaming" /\ ~Cancelled /\ printed < MaxFrames
    /\ Emit(f)
    /\ IF ~takes THEN /\ \E r \in IF f = "malformed" THEN {"schema", "unavailable"} ELSE {failure} : Throw(r)
                      /\ UNCHANGED <<native, box>>
       ELSE /\ native' = turn
            /\ IF observation = {} THEN UNCHANGED <<at, box, result>>
               ELSE \E e \in observation :
                       IF Overflows(box, e) THEN Throw("unavailable") /\ box' = box
                       ELSE box' = Push(box, e) /\ UNCHANGED <<at, result>>
    /\ UNCHANGED <<kind, members, exit, cancelling, pi, private, collected>>

CodexFrame(f) ==
    /\ kind = "codex"
    /\ Observe(f, CodexTakes(native, f), CodexTurn(native, f),
               IF f = "tool" THEN {Event("log")} ELSE {}, "unavailable")

ClaudeFrame(f) ==
    /\ kind = "claude"
    /\ Observe(f, ClaudeTakes(native, f), ClaudeTurn(native, f),
               CASE f = "tool" -> {Event("log")} [] f = "init" -> {Event("metadata")} [] OTHER -> {}, "schema")

\* The total byte limit holds for cancelled executions too.
ClaudeLimit ==
    /\ kind = "claude" /\ at = "streaming"
    /\ Throw("schema")
    /\ UNCHANGED <<kind, worker, box, cancelling, pi, private, collected>>

-----------------------------------------------------------------------------
\* The end of a process group.

Owned == {"codex", "claude"}

\* A process of the group ends, by itself or by a signal.
MemberEnds(m) ==
    /\ m \in members /\ members' = members \ {m}
    /\ exit' \in IF m = "leader" THEN {"zero", "nonzero"} ELSE {exit}
    /\ UNCHANGED <<kind, at, native, told, printed, box, cancelling, pi, private, result, collected>>

\* The leader starts a process that stays in its group.
HelperStarts ==
    /\ members = {"leader"} /\ members' = members \cup {"helper"}
    /\ UNCHANGED <<kind, at, exit, native, told, printed, box, cancelling, pi, private, result, collected>>

\* terminateOwnedGroup: confirmed once the group is empty and the exit of the leader was observed;
\* otherwise, or when the group cannot be inspected, it rejects after a second at the latest.
Confirmed == members = {}
Unconfirmed == TRUE

\* The output ends, and the decoder finds a whole last frame or not.
OutputEnds ==
    /\ at = "streaming"
    /\ \/ at' = "exiting" /\ UNCHANGED result
       \/ \E r \in {"schema", "unavailable"} : Throw(r)
    /\ UNCHANGED <<kind, worker, box, cancelling, pi, private, collected>>

\* exited: the leader's exit, or the error of a spawn that failed.
LeaderExits ==
    /\ at = "exiting" /\ "leader" \notin members
    /\ IF exit = "none" THEN Throw("unavailable") ELSE at' = "terminating" /\ UNCHANGED result
    /\ UNCHANGED <<kind, worker, box, cancelling, pi, private, collected>>

\* What is left of the try when the group is gone; over is what follows it.
Ending(turnResult, usage, over(_, _)) ==
    LET used == IF usage THEN Push(box, Event("usage")) ELSE box
    IN \E noisy \in BOOLEAN :
           over(IF noisy THEN Push(used, Event("log")) ELSE used,
                IF Cancelled THEN "cancelled" ELSE turnResult)

\* The finally of the Codex adapter comes before the end of run.
Disposing(b, r) == at' = "disposing" /\ box' = b /\ result' = r

CodexEnds ==
    /\ kind = "codex" /\ at = "terminating" /\ Confirmed
    /\ Ending(CodexResult(native), ~Cancelled /\ native.completed, Disposing)
    /\ UNCHANGED <<kind, worker, cancelling, pi, private, collected>>

ClaudeEnds ==
    /\ kind = "claude" /\ at = "terminating" /\ Confirmed
    /\ Ending(ClaudeResult(native), ~Cancelled /\ native.completed /\ ~native.failed, Publish)
    /\ UNCHANGED <<kind, worker, cancelling, pi, private, collected>>

\* The group did not end: an error like any other, so that it is terminated once more.
EndUnconfirmed ==
    /\ kind \in Owned /\ at = "terminating" /\ Unconfirmed
    /\ Throw("unavailable")
    /\ UNCHANGED <<kind, worker, box, cancelling, pi, private, collected>>

\* Mutant of Cleared: a cancelled execution is over whatever became of its group.
ClearedWhenCancelled(confirmed) ==
    IF Cancelled THEN "cancelled" ELSE IF confirmed THEN result ELSE "unsafe"

\* The catch: the error counts only when the group is known to be gone.
Cleared(confirmed) == IF ~confirmed THEN "unsafe" ELSE IF Cancelled THEN "cancelled" ELSE result

CodexClears ==
    /\ kind = "codex" /\ at = "clearing"
    /\ \/ Confirmed /\ Disposing(box, Cleared(TRUE))
       \/ Unconfirmed /\ Disposing(box, Cleared(FALSE))
    /\ UNCHANGED <<kind, worker, cancelling, pi, private, collected>>

ClaudeClears ==
    /\ kind = "claude" /\ at = "clearing"
    /\ \/ Confirmed /\ Publish(box, Cleared(TRUE))
       \/ Unconfirmed /\ Publish(box, Cleared(FALSE))
    /\ UNCHANGED <<kind, worker, cancelling, pi, private, collected>>

CodexDisposes ==
    /\ kind = "codex" /\ at = "disposing"
    /\ Dispose /\ Publish(box, IF files' = "removed" THEN result ELSE "unsafe")
    /\ UNCHANGED <<kind, worker, cancelling, pi, reader, collected>>

-----------------------------------------------------------------------------
\* The Pi adapter: start registers the execution, and its session is made afterwards.

PiStart ==
    /\ kind = "pi" /\ at = "new"
    /\ at' = "creating" \/ Refuse
    /\ BeforeRun /\ UNCHANGED <<worker, box, private>>

PiSettled(r) == IF Cancelled THEN "cancelled" ELSE r

\* The finally of run and what follows: a session that cannot be disposed is worth the unsafe failure,
\* which a failing usage report replaces.
PiConcludes(r) ==
    IF session # "open" THEN session' = session /\ Publish(box, r)
    ELSE \E disposed \in BOOLEAN, usage \in BOOLEAN :
            /\ session' = IF disposed THEN "closed" ELSE "leaked"
            /\ IF usage THEN Publish(Push(box, Event("usage")), IF disposed THEN r ELSE "unsafe")
               ELSE Publish(box, "unavailable")

\* The session is ready: prompted, or given up because the execution was cancelled meanwhile.
SessionMade ==
    /\ kind = "pi" /\ at = "creating" /\ session' = "open"
    /\ IF Cancelled
       THEN at' = "aborting" /\ aborted' = "pending" /\ UNCHANGED box
       ELSE /\ at' = "prompting" /\ UNCHANGED aborted
            /\ box' = Push(Push(box, Event("started")), Event("metadata"))
    /\ UNCHANGED <<kind, worker, cancelling, private, result, collected>>

\* createSession: fails, perhaps at the abort or the disposal of a session it made and that is of no
\* use, because the execution is cancelled or no model is available. That session is nobody's.
SessionFails ==
    /\ kind = "pi" /\ at = "creating"
    /\ session' \in {"none", "abandoned"}
    /\ Publish(box, PiSettled("model"))
    /\ UNCHANGED <<kind, worker, cancelling, aborted, private, collected>>

SessionLog ==
    /\ kind = "pi" /\ at = "prompting" /\ printed < MaxFrames
    /\ printed' = printed + 1
    /\ box' = Push(box, Event("log"))
    /\ UNCHANGED <<kind, at, members, exit, native, told, cancelling, pi, private, result, collected>>

\* session.abort, whoever asked for it first.
AbortSettles ==
    /\ aborted = "pending" /\ aborted' \in {"resolved", "rejected"}
    /\ UNCHANGED <<kind, at, worker, box, cancelling, session, private, result, collected>>

\* A session made for a cancelled execution: whether it could be aborted or not, it was never prompted.
PiGivesUp ==
    /\ kind = "pi" /\ at = "aborting" /\ aborted \in {"resolved", "rejected"}
    /\ PiConcludes("cancelled")
    /\ UNCHANGED <<kind, worker, cancelling, aborted, private, collected>>

\* The prompt resolves and finalResult reads the last message, or it rejects.
PromptEnds ==
    /\ kind = "pi" /\ at = "prompting"
    /\ \E r \in {"succeeded", "model", "cancelled", "schema"} : PiConcludes(PiSettled(r))
    /\ UNCHANGED <<kind, worker, cancelling, aborted, private, collected>>

-----------------------------------------------------------------------------
\* cancel, for the three adapters that run something.

Registered == kind # "fake" /\ at \notin Preflight \cup {"refused"}

\* The first cancel of a running execution; later ones share its promise.
Cancel ==
    /\ Registered /\ at # "done" /\ memo = "none"
    /\ IF kind = "pi" /\ session = "none"
       THEN memo' = "awaiting" /\ UNCHANGED aborted
       ELSE memo' = "terminating" /\ aborted' = IF kind = "pi" THEN "pending" ELSE aborted
    /\ UNCHANGED <<kind, at, worker, box, answer, session, private, result, collected>>

\* The execution was over: cancel returns at once, whatever an earlier cancel was told.
CancelFinished ==
    /\ Registered /\ at = "done" /\ memo \notin {"terminating", "awaiting"}
    /\ answer' = "resolved"
    /\ UNCHANGED <<kind, at, worker, box, memo, pi, private, result, collected>>

\* cancelPending: the group, or the session, is stopped first, and then the result awaited.
CancelStops ==
    /\ memo = "terminating"
    /\ IF kind = "pi" THEN aborted = "resolved" ELSE Confirmed
    /\ memo' = "awaiting"
    /\ UNCHANGED <<kind, at, worker, box, answer, pi, private, result, collected>>

\* Mutant of CancelRejects: the result is awaited although the group goes on.
CancelWaitsOn ==
    /\ memo = "terminating"
    /\ IF kind = "pi" THEN aborted = "rejected" ELSE Unconfirmed
    /\ memo' = "awaiting"
    /\ UNCHANGED <<kind, at, worker, box, answer, pi, private, result, collected>>

CancelRejects ==
    /\ memo = "terminating"
    /\ IF kind = "pi" THEN aborted = "rejected" ELSE Unconfirmed
    /\ memo' = "rejected" /\ answer' = "rejected"
    /\ UNCHANGED <<kind, at, worker, box, pi, private, result, collected>>

CancelResolves ==
    /\ memo = "awaiting" /\ at = "done"
    /\ memo' = "resolved" /\ answer' = "resolved"
    /\ UNCHANGED <<kind, at, worker, box, pi, private, result, collected>>

-----------------------------------------------------------------------------
\* The fake adapter: no queue, and finished is set by whoever reads the result first.

\* loadFakeScenario
FakeScenario ==
    /\ kind = "fake" /\ at = "new"
    /\ at' = "profile" \/ Refuse
    /\ BeforeRun /\ UNCHANGED <<worker, box, private>>

\* applyFileChanges, which may fail halfway.
FakeFiles ==
    /\ kind = "fake" /\ at = "profile"
    /\ at' = "policy" \/ Refuse
    /\ BeforeRun /\ UNCHANGED <<worker, box, private>>

\* normalizeAttempt: the script has some logs and one result.
FakeStart ==
    /\ kind = "fake" /\ at = "policy" /\ at' = "ready"
    /\ result' \in {"succeeded", "model", "unavailable", "cancelled"}
    /\ \E n \in 0..MaxFrames :
          /\ printed' = n
          /\ box' = [box EXCEPT !.queue = <<Event("started")>> \o [i \in 1..n |-> Event("log")],
                               !.emitted = n]
    /\ UNCHANGED <<kind, members, exit, native, told, cancelling, pi, private, collected>>

\* Mutant of FakeEvents: the end of the stream does not finish the execution.
FakeEventsUnfinished ==
    /\ kind = "fake" /\ at \in {"ready", "done"} /\ box.seen = "none"
    /\ IF box.queue # <<>>
       THEN box' = [box EXCEPT !.queue = Tail(@),
                               !.delivered = @ + (IF IsLog(Head(box.queue)) THEN 1 ELSE 0)]
       ELSE box' = [box EXCEPT !.seen = Status(result)]
    /\ UNCHANGED <<kind, at, worker, cancelling, pi, private, result, collected>>

FakeEvents ==
    /\ kind = "fake" /\ at \in {"ready", "done"} /\ box.seen = "none"
    /\ IF box.queue # <<>>
       THEN /\ box' = [box EXCEPT !.queue = Tail(@),
                                  !.delivered = @ + (IF IsLog(Head(box.queue)) THEN 1 ELSE 0)]
            /\ UNCHANGED at
       ELSE at' = "done" /\ box' = [box EXCEPT !.seen = Status(result)]
    /\ UNCHANGED <<kind, worker, cancelling, pi, private, result, collected>>

FakeCollect ==
    /\ kind = "fake" /\ at \in {"ready", "done"}
    /\ at' = "done" /\ collected' = result
    /\ UNCHANGED <<kind, worker, box, cancelling, pi, private, result>>

FakeCancel ==
    /\ kind = "fake" /\ at \in {"ready", "done"}
    /\ result' = IF at = "done" THEN result ELSE "cancelled"
    /\ answer' = "resolved"
    /\ UNCHANGED <<kind, at, worker, box, memo, pi, private, collected>>

-----------------------------------------------------------------------------
Starts ==
    \/ CodexExecutable \/ CodexAuth \/ CodexProfile \/ CodexSkills \/ CodexPolicy
    \/ ClaudeProfile \/ ClaudeExecutable \/ ClaudeEnvironment \/ ClaudeManagedPolicy \/ ClaudeAuthentication
    \/ PiStart \/ FakeScenario \/ FakeFiles \/ FakeStart

\* What run does once it is resumed.
Ends ==
    \/ LeaderExits \/ CodexEnds \/ ClaudeEnds \/ EndUnconfirmed \/ CodexClears \/ ClaudeClears \/ CodexDisposes

Cancels == CancelStops \/ CancelRejects \/ CancelResolves

AdapterNext ==
    \/ Starts \/ Ends \/ Cancels
    \/ Consume \/ Collect \/ Cancel \/ CancelFinished
    \/ \E f \in CodexFrames : CodexFrame(f)
    \/ \E f \in ClaudeFrames : ClaudeFrame(f)
    \/ ClaudeLimit \/ OutputEnds
    \/ \E m \in {"leader", "helper"} : MemberEnds(m)
    \/ HelperStarts
    \/ SessionMade \/ SessionFails \/ SessionLog \/ AbortSettles \/ PiGivesUp \/ PromptEnds
    \/ FakeEvents \/ FakeCollect \/ FakeCancel

AdapterSpec == AdapterInit /\ [][AdapterNext]_adapterVars

\* The output ends when nobody is left to write to it. A Pi session settles once it is cancelled.
Fairness ==
    /\ WF_adapterVars(members = {} /\ OutputEnds) /\ WF_adapterVars(Ends) /\ WF_adapterVars(Cancels)
    /\ WF_adapterVars(AbortSettles) /\ WF_adapterVars(PiGivesUp)
    /\ WF_adapterVars(Cancelled /\ (SessionMade \/ SessionFails)) /\ WF_adapterVars(Cancelled /\ PromptEnds)

FairAdapterSpec == AdapterSpec /\ Fairness

-----------------------------------------------------------------------------
\* What may still be running, a session that was not disposed, and the private files in use.
MayRun == members # {} \/ session \in {"leaked", "abandoned"} \/ files = "made"

(* A finished execution that may have left a worker, a session or private files behind says that a
   retry is unsafe, however it was cancelled, with two exceptions of the Pi adapter. A usage report
   that fails hides what became of the session (index.ts:449). And a session that createSession made
   and could not abort or dispose (index.ts:181) is not spoken of: the result is an ordinary failure
   or cancellation, never a success. Nor is success said of a worker that was seen to fail, printed
   what the adapter rejects or went on after its result. *)
ResultIsHonest ==
    at = "done" =>
        /\ MayRun => \/ result = "unsafe"
                     \/ session = "leaked" /\ result = "unavailable"
                     \/ session = "abandoned" /\ result \in {"cancelled", "model"}
        /\ kind \in Owned /\ result = "succeeded" => told = {"completion"} /\ exit = "zero"

(* The stream of a drained execution and collect agree on how it ended, though a cancellation,
   the disposal of files and the final usage may each change the result late. Its consumer can
   account for every log the adapter pushed: delivered, or in the count of the dropped ones, though
   logs are dropped at both ends of the queue. *)
StreamAgreesWithResult ==
    box.seen # "none" =>
        /\ collected # "none" => box.seen = Status(collected)
        /\ box.emitted = box.delivered + box.admitted /\ box.queue = <<>>

(* A cancellation is answered, whatever the group, the session and the disposal do: it resolves once
   the result is there, or rejects. *)
CancelIsAnswered == Cancelled ~> answer # "nothing"

-----------------------------------------------------------------------------
=============================================================================
