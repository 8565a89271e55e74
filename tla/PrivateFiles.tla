------------------------------ MODULE PrivateFiles ------------------------------
(***************************************************************************)
(* One private record (path-policy/src/private-path-root.ts) and those who *)
(* write and read it: a mutable record replaced by rename, an immutable    *)
(* one published by a hard link, or an artifact, whose name holds the      *)
(* digest of its content (persistence/src/artifacts.ts). A system call is  *)
(* one step. A process may die between any two, a call may fail, and the   *)
(* machine may lose power: then unsynced bytes are lost, and an unsynced   *)
(* directory entry may be.                                                 *)
(*                                                                         *)
(* The directory itself is taken to outlive a power loss, although         *)
(* ensureDirectory never syncs its parent.                                 *)
(***************************************************************************)
EXTENDS Naturals, Sequences, FiniteSets, Functions

CONSTANTS Writers, Readers,
          Values,        \* contents
          Modes,         \* kinds of records: "atomic", "exclusive", "artifact"
          MaxInodes,     \* bound on the temporary files created
          MaxPowerLosses \* bound on power losses

ASSUME FileConstants ==
    /\ Writers \cap Readers = {} /\ "partial" \notin Values
    /\ Modes \subseteq {"atomic", "exclusive", "artifact"}
    /\ MaxInodes \in Nat /\ MaxPowerLosses \in Nat

VARIABLES
    mode,        \* the kind of record
    value,       \* what each writer writes
    dir,         \* the directory: absent, open (as the umask made it), private
    inodes,      \* the files written, in order of creation
    record,      \* the file that the record's name leads to, or 0
    kept,        \* the file it leads to on disk, or 0
    pc,          \* the next system call of each process
    mine,        \* the file of each writer's temporary, or 0
    publisher,   \* the writers whose own file became the record
    seen,        \* what lstat said of the record, by process
    opened,      \* the file each process has open
    published,   \* the files that became the record, in order
    acked,       \* the files whose publisher returned
    accepted,    \* the contents returned to somebody since the last power loss
    losses       \* power losses so far

fileVars == <<inodes, record, kept, published>>
procVars == <<pc, mine, publisher, seen, opened>>
pastVars == <<acked, accepted, losses>>
vars == <<mode, value, dir, fileVars, procVars, pastVars>>

Procs == Writers \cup Readers
Steps == {"idle", "chmod", "temporary", "write", "publish", "unlink", "sync",
          "stat", "open", "check", "ok", "failed"}
\* sameIdentity: the inode and its change time; the bytes of a file never change once it has a name.
Identity(i) == <<i, inodes[i].time>>

\* The first conjunct is about a write that ended by itself: it leaves no temporary.
TypeOK ==
    /\ \A w \in Writers : pc[w] \in {"ok", "failed"} /\ mine[w] # 0 => ~inodes[mine[w]].temporary
    /\ pc \in [Procs -> Steps] /\ mine \in [Writers -> 0..MaxInodes]
    /\ mode \in Modes /\ value \in [Writers -> Values] /\ dir \in {"absent", "open", "private"}
    /\ inodes \in Seq([bytes : Values \cup {"partial"}, durable : BOOLEAN, time : 0..2, temporary : BOOLEAN])
    /\ Len(inodes) <= MaxInodes /\ {record, kept} \subseteq 0..Len(inodes)
    /\ publisher \subseteq Writers /\ losses \in 0..MaxPowerLosses

Init ==
    /\ mode \in Modes
    /\ value \in {v \in [Writers -> Values] : mode = "artifact" => Cardinality(Range(v)) = 1}
    /\ dir = "absent" /\ inodes = <<>> /\ record = 0 /\ kept = 0
    /\ pc = [p \in Procs |-> "idle"] /\ mine = [w \in Writers |-> 0]
    /\ publisher = {} /\ seen = [p \in Procs |-> <<0, 0>>] /\ opened = [p \in Procs |-> 0]
    /\ published = <<>> /\ acked = {} /\ accepted = {} /\ losses = 0

Goto(p, step) == pc' = [pc EXCEPT ![p] = step]

-----------------------------------------------------------------------------
\* ensurePrivatePathRoot, ensureDirectory.

\* The umask decides what mkdir makes; a directory that its maker has not tightened yet is refused.
Mkdir(w) ==
    /\ pc[w] = "idle"
    /\ IF dir = "absent" THEN dir' \in {"open", "private"} /\ Goto(w, "chmod")
       ELSE UNCHANGED dir /\ Goto(w, IF dir = "private" THEN "temporary" ELSE "failed")
    /\ UNCHANGED <<mode, value, fileVars, mine, publisher, seen, opened, pastVars>>

Chmod(w) ==
    /\ pc[w] = "chmod" /\ dir' = "private" /\ Goto(w, "temporary")
    /\ UNCHANGED <<mode, value, fileVars, mine, publisher, seen, opened, pastVars>>

-----------------------------------------------------------------------------
\* writeFileAtomic, writeFileExclusive.

OpenTemporary(w) ==
    /\ pc[w] = "temporary" /\ Len(inodes) < MaxInodes
    /\ inodes' = Append(inodes, [bytes |-> "partial", durable |-> FALSE, time |-> 0, temporary |-> TRUE])
    /\ mine' = [mine EXCEPT ![w] = Len(inodes')] /\ Goto(w, "write")
    /\ UNCHANGED <<mode, value, dir, record, kept, published, publisher, seen, opened, pastVars>>

\* Mutant: the file is not synced before it gets its name.
WriteUnsynced(w) ==
    /\ pc[w] = "write" /\ Goto(w, "publish")
    /\ inodes' = [inodes EXCEPT ![mine[w]].bytes = value[w]]
    /\ UNCHANGED <<mode, value, dir, record, kept, published, mine, publisher, seen, opened, pastVars>>

\* writeFile, chmod, sync.
WriteTemporary(w) ==
    /\ pc[w] = "write" /\ Goto(w, "publish")
    /\ inodes' = [inodes EXCEPT ![mine[w]].bytes = value[w], ![mine[w]].durable = TRUE]
    /\ UNCHANGED <<mode, value, dir, record, kept, published, mine, publisher, seen, opened, pastVars>>

\* Links, unlinks and renames move the change time; the clock may not have ticked since the link.

\* link: an existing record stays.
Link(w) ==
    /\ pc[w] = "publish" /\ mode # "atomic" /\ Goto(w, "unlink")
    /\ IF record = 0
       THEN /\ record' = mine[w] /\ publisher' = publisher \cup {w} /\ published' = Append(published, mine[w])
            /\ inodes' = [inodes EXCEPT ![mine[w]].time = @ + 1]
       ELSE UNCHANGED <<record, publisher, published, inodes>>
    /\ UNCHANGED <<mode, value, dir, kept, mine, seen, opened, pastVars>>

Unlink(w) ==
    /\ pc[w] = "unlink" /\ Goto(w, IF w \in publisher THEN "sync" ELSE "stat")
    /\ \E t \in {0, 1} : inodes' = [inodes EXCEPT ![mine[w]].time = @ + t, ![mine[w]].temporary = FALSE]
    /\ UNCHANGED <<mode, value, dir, record, kept, published, mine, publisher, seen, opened, pastVars>>

\* rename: whatever the record was is replaced.
Rename(w) ==
    /\ pc[w] = "publish" /\ mode = "atomic" /\ Goto(w, "sync")
    /\ record' = mine[w] /\ publisher' = publisher \cup {w} /\ published' = Append(published, mine[w])
    /\ inodes' = [inodes EXCEPT ![mine[w]].time = @ + 1, ![mine[w]].temporary = FALSE]
    /\ UNCHANGED <<mode, value, dir, kept, mine, seen, opened, pastVars>>

\* Mutant: no sync of the directory.
SyncNothing(w) ==
    /\ pc[w] = "sync" /\ Goto(w, "stat")
    /\ UNCHANGED <<mode, value, dir, fileVars, mine, publisher, seen, opened, pastVars>>

SyncDirectory(w) ==
    /\ pc[w] = "sync" /\ kept' = record /\ Goto(w, "stat")
    /\ UNCHANGED <<mode, value, dir, inodes, record, published, mine, publisher, seen, opened, pastVars>>

\* A call failed: the temporary goes, and what was published stays.
Fail(w) ==
    /\ pc[w] \in {"write", "publish", "unlink", "sync"} /\ Goto(w, "failed")
    /\ inodes' = [inodes EXCEPT ![mine[w]].temporary = FALSE]
    /\ UNCHANGED <<mode, value, dir, record, kept, published, mine, publisher, seen, opened, pastVars>>

-----------------------------------------------------------------------------
\* boundedDescriptorRead, of a reader or of a writer that verifies what it published.

Stat(p) ==
    /\ record # 0 /\ pc[p] = (IF p \in Readers THEN "idle" ELSE "stat")
    /\ seen' = [seen EXCEPT ![p] = Identity(record)] /\ Goto(p, "open")
    /\ UNCHANGED <<mode, value, dir, fileVars, mine, publisher, opened, pastVars>>

\* A process has its answer; a reader may read again.
Answered(p, step) ==
    /\ Goto(p, IF p \in Readers THEN "idle" ELSE step)
    /\ seen' = [seen EXCEPT ![p] = <<0, 0>>] /\ opened' = [opened EXCEPT ![p] = 0]

\* An artifact is read without a look at its identity.
Unchecked(p) == mode = "artifact" /\ p \in Readers

Open(p) ==
    /\ pc[p] = "open"
    /\ IF seen[p] = Identity(record) \/ Unchecked(p)
       THEN opened' = [opened EXCEPT ![p] = record] /\ Goto(p, "check") /\ UNCHANGED seen
       ELSE Answered(p, "failed")
    /\ UNCHANGED <<mode, value, dir, fileVars, mine, publisher, pastVars>>

\* The last looks at the descriptor and at the name.
Stable(p) == seen[p] = Identity(opened[p]) /\ seen[p] = Identity(record)
\* Mutant: an existing record is accepted whatever it says.
AnyContent(p) == TRUE

\* A writer is told that its own bytes are there: it wants those, and a reader of
\* an artifact those of its digest.
Expected(p) ==
    LET bytes == inodes[opened[p]].bytes IN
    (p \in Writers => bytes = value[p]) /\ (Unchecked(p) => bytes \in Range(value))

Check(p) ==
    /\ pc[p] = "check"
    /\ IF (Stable(p) \/ Unchecked(p)) /\ Expected(p)
       THEN /\ Answered(p, "ok")
            /\ accepted' = accepted \cup {inodes[opened[p]].bytes} \cup (IF p \in Writers THEN {value[p]} ELSE {})
            /\ acked' = IF p \in publisher THEN acked \cup {mine[p]} ELSE acked
       ELSE Answered(p, "failed") /\ UNCHANGED <<accepted, acked>>
    /\ UNCHANGED <<mode, value, dir, fileVars, mine, publisher, losses>>

-----------------------------------------------------------------------------
Restarted(p) ==
    /\ Goto(p, "idle") /\ mine' = [w \in Writers |-> IF w = p THEN 0 ELSE mine[w]]
    /\ publisher' = publisher \ {p} /\ seen' = [seen EXCEPT ![p] = <<0, 0>>] /\ opened' = [opened EXCEPT ![p] = 0]
    /\ UNCHANGED <<mode, value, dir, fileVars, pastVars>>

\* A process dies, and may come back with the same write; its temporary stays for good.
Crash(p) == pc[p] \notin {"idle", "ok", "failed"} /\ Restarted(p)

\* The same write again.
Again(w) == pc[w] = "failed" /\ Restarted(w)

PowerLoss ==
    /\ losses < MaxPowerLosses /\ losses' = losses + 1
    /\ record' \in {record, kept} /\ kept' = record'
    /\ inodes' = [i \in DOMAIN inodes |-> IF inodes[i].durable THEN inodes[i] ELSE [inodes[i] EXCEPT !.bytes = "partial"]]
    /\ pc' = [p \in Procs |-> "idle"] /\ mine' = [w \in Writers |-> 0] /\ publisher' = {}
    /\ seen' = [p \in Procs |-> <<0, 0>>] /\ opened' = [p \in Procs |-> 0] /\ accepted' = {}
    /\ UNCHANGED <<mode, value, dir, published, acked>>

Next ==
    \/ \E w \in Writers :
        \/ Mkdir(w) \/ Chmod(w)
        \/ OpenTemporary(w) \/ WriteTemporary(w) \/ Link(w) \/ Unlink(w) \/ Rename(w) \/ SyncDirectory(w) \/ Fail(w) \/ Again(w)
    \/ \E p \in Procs : Stat(p) \/ Open(p) \/ Check(p) \/ Crash(p)
    \/ PowerLoss

Spec == Init /\ [][Next]_vars

-----------------------------------------------------------------------------
\* writeFileExclusive: an immutable record says one thing to everybody who was told that it is
\* there, whoever raced to publish it and whatever failed between the link and the answer; a power
\* loss can take back only what its publisher had not answered for.
ImmutableRecord ==
    mode # "atomic" => Cardinality(accepted \cup {inodes[i].bytes : i \in acked}) <= 1

\* writeTemporary: whoever reads finds one complete write, never a file that is being written, and
\* what the name leads to after a power loss is complete too.
RecordIsWhole == "partial" \notin accepted /\ (record # 0 => inodes[record].bytes # "partial")

\* writeFileAtomic, writeFileExclusive: once its publisher has returned, a record stays, or one
\* published later does, even when the machine loses power.
AcknowledgedSurvives ==
    \A k \in DOMAIN published : published[k] \in acked =>
        \E l \in k..Len(published) : published[l] = record

=============================================================================
