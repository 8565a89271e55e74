------------------------------- MODULE Workspaces -------------------------------
(***************************************************************************)
(* A run's Git workspace (workspaces/src/index.ts, checkpoint.ts): how it  *)
(* is created and owned, how a checkpoint of it is captured while someone  *)
(* may be editing it, what a comparison of two checkpoints says, and how   *)
(* its worktree is cleaned up. Git itself is external: a Git command is    *)
(* one step.                                                               *)
(*                                                                         *)
(* The content of a workspace is a version for each part that the code     *)
(* reads on its own. An editor (the worker, its leftovers, an operator)    *)
(* only moves a version on: content that returns to what it was between    *)
(* two reads cannot be told from content nobody touched.                   *)
(***************************************************************************)
EXTENDS Naturals, Sequences, FiniteSets

CONSTANTS Modes,          \* kinds of workspaces: "readonly", "isolated"
          MaxEdits,       \* bound on the edits of a workspace
          MaxCaptures,    \* bound on the checkpoints taken
          MaxCrashes      \* bound on operations cut short

ASSUME WorkspaceConstants ==
    /\ Modes \subseteq {"readonly", "isolated"}
    /\ MaxEdits \in Nat /\ MaxCaptures \in Nat /\ MaxCrashes \in Nat

VARIABLES
    mode,        \* readonly or isolated
    made,        \* what create came to
    worktree,    \* the checkout: absent, present, removed
    branch,      \* the run's branch exists
    committed,   \* it has commits that are nowhere else
    manifest,    \* the ownership manifest is published
    tree,        \* the version of each part of the checkout
    saved,       \* the content of the commit that is checked out
    job,         \* the operation under way, and its step
    reads,       \* what the capture under way has read
    moments,     \* the contents the checkout had during that capture
    taken,       \* the checkpoints captured, with those moments and the last of them
    edits,       \* edits so far
    crashes      \* operations cut short so far

gitVars == <<worktree, branch, committed, saved>>
captureVars == <<reads, moments, taken>>
vars == <<mode, made, manifest, tree, gitVars, job, captureVars, edits, crashes>>

\* tracked and new are the content that a diff shows; owner is the branch, the registration and
\* the paths that make the workspace the run's own.
Content == {"tracked", "new"}
Parts == Content \cup {"head", "ignored", "owner"}
Jobs == {"idle", "manifest", "capture", "owned", "base", "remove", "list"}
ContentOf(t) == [p \in Content |-> t[p]]

\* collectOwnership, then twice what capture (ownership again, the files and HEAD) and
\* ignoredFingerprint read, then collectOwnership.
Capture == <<"owner", "tracked", "new", "head", "ignored">>
Plan == <<"owner",
          "owner", "tracked", "new", "head", "ignored",
          "owner", "tracked", "new", "head", "ignored",
          "owner">>

TypeOK ==
    /\ mode \in Modes
    /\ made \in {"no", "yes", "refused", "orphan"}
    /\ worktree \in {"absent", "present", "removed"}
    /\ branch \in BOOLEAN /\ committed \in BOOLEAN /\ manifest \in BOOLEAN
    /\ tree \in [Parts -> 0..MaxEdits] /\ saved \in [Content -> 0..MaxEdits]
    /\ job \in Jobs /\ (job # "capture" => reads = <<>> /\ moments = {})
    /\ Len(reads) <= Len(Plan) /\ moments \subseteq [Parts -> 0..MaxEdits]
    /\ Len(taken) <= MaxCaptures
    /\ edits \in 0..MaxEdits /\ crashes \in 0..MaxCrashes

Init ==
    /\ mode \in Modes /\ made = "no" /\ manifest = FALSE
    /\ worktree = IF mode = "readonly" THEN "present" ELSE "absent"
    /\ branch = FALSE /\ committed = FALSE
    /\ tree = [p \in Parts |-> 0] /\ saved = ContentOf(tree)
    /\ job = "idle" /\ reads = <<>> /\ moments = {} /\ taken = <<>>
    /\ edits = 0 /\ crashes = 0

-----------------------------------------------------------------------------
\* The editor.

Edited(part) ==
    /\ worktree = "present" /\ edits < MaxEdits
    /\ edits' = edits + 1 /\ tree' = [tree EXCEPT ![part] = edits']
    /\ moments' = IF job = "capture" THEN moments \cup {tree'} ELSE moments
    /\ UNCHANGED <<mode, made, manifest, worktree, job, reads, taken, crashes>>

\* Files, ignored files, or another branch checked out.
Edit(part) == part # "head" /\ Edited(part) /\ UNCHANGED <<branch, committed, saved>>

\* A commit, on the run's branch unless another one is checked out.
Commit ==
    /\ Edited("head") /\ saved' = ContentOf(tree)
    /\ committed' = (committed \/ (branch /\ tree["owner"] = 0)) /\ UNCHANGED branch

-----------------------------------------------------------------------------
\* create.

Dirty == ContentOf(tree) # saved

\* A readonly workspace is the source checkout, which must be clean; an isolated one is a worktree
\* on a branch of the run.
Create ==
    /\ job = "idle" /\ made = "no"
    /\ IF mode = "readonly"
       THEN /\ IF Dirty THEN made' = "refused" /\ UNCHANGED job ELSE job' = "manifest" /\ UNCHANGED made
            /\ UNCHANGED <<worktree, branch>>
       ELSE worktree' = "present" /\ branch' = TRUE /\ job' = "manifest" /\ UNCHANGED made
    /\ UNCHANGED <<mode, manifest, tree, committed, saved, captureVars, edits, crashes>>

WriteManifest ==
    /\ job = "manifest" /\ manifest' = TRUE /\ made' = "yes" /\ job' = "idle"
    /\ UNCHANGED <<mode, tree, gitVars, captureVars, edits, crashes>>

-----------------------------------------------------------------------------
\* captureWorkspaceCheckpoint.

\* The temporary index goes with the capture.
Throw ==
    /\ job' = "idle" /\ reads' = <<>> /\ moments' = {}
    /\ UNCHANGED <<mode, made, manifest, tree, gitVars, taken, edits, crashes>>

BeginCapture ==
    /\ job = "idle" /\ manifest /\ Len(taken) < MaxCaptures
    /\ job' = "capture" /\ moments' = {tree}
    /\ UNCHANGED <<mode, made, manifest, tree, gitVars, reads, taken, edits, crashes>>

NextPart == Plan[Len(reads) + 1]

\* assertOwned, collectOwnership: an isolated workspace on another branch, or gone, is refused.
Refused == worktree # "present" \/ (NextPart = "owner" /\ mode = "isolated" /\ tree["owner"] # 0)

Read ==
    /\ job = "capture" /\ Len(reads) < Len(Plan) /\ ~Refused
    /\ reads' = Append(reads, tree[NextPart])
    /\ UNCHANGED <<mode, made, manifest, tree, gitVars, job, moments, taken, edits, crashes>>

\* Not the run's own, over the limits of ignored content, of a type or encoding without a
\* fingerprint, or changed between two looks at one entry.
CaptureThrows ==
    /\ job = "capture" /\ Len(reads) < Len(Plan) /\ (Refused \/ NextPart \in Content \cup {"ignored"})
    /\ Throw

Place(p) == CHOOSE k \in DOMAIN Capture : Capture[k] = p

\* What one round of reads found; the owner is what the look before them found.
Round(i) ==
    [p \in Parts |-> IF p = "owner" THEN reads[1] ELSE reads[1 + i * Len(Capture) + Place(p)]]

\* Mutant: the two rounds are not compared.
AnyRounds == TRUE

Stable == Round(0) = Round(1) /\ reads[1] = reads[Len(Plan)]

\* Both rounds and both looks at the ownership agree, or the capture is refused.
Decide ==
    /\ job = "capture" /\ Len(reads) = Len(Plan)
    /\ IF Stable
       THEN /\ taken' = Append(taken, [parts |-> Round(0), moments |-> moments, last |-> tree])
            /\ job' = "idle" /\ reads' = <<>> /\ moments' = {}
            /\ UNCHANGED <<mode, made, manifest, tree, gitVars, edits, crashes>>
       ELSE Throw

\* Mutant: ignored content does not count.
DifferencesOfContent(c, d) == {p \in Parts \ {"ignored"} : c.parts[p] # d.parts[p]}

\* compareWorkspaceCheckpoints: the parts that keep a replacement from being authorized.
Differences(c, d) == {p \in Parts : c.parts[p] # d.parts[p]}

-----------------------------------------------------------------------------
\* cleanup.

\* assertManifest; a checkout that is gone already leaves the branch.
BeginCleanup ==
    /\ job = "idle" /\ manifest /\ mode = "isolated"
    /\ job' = IF worktree = "present" THEN "owned" ELSE "list"
    /\ UNCHANGED <<mode, made, manifest, tree, gitVars, captureVars, edits, crashes>>

CleanupStep(from, refused, to) ==
    /\ job = from /\ job' = IF refused THEN "idle" ELSE to
    /\ UNCHANGED <<mode, made, manifest, tree, captureVars, edits, crashes>>

CleanupOwned == CleanupStep("owned", tree["owner"] # 0, "base") /\ UNCHANGED gitVars
CleanupBase == CleanupStep("base", tree["head"] # 0, "remove") /\ UNCHANGED gitVars

\* Mutant: with --force.
RemoveWorktreeForced ==
    /\ CleanupStep("remove", FALSE, "list") /\ UNCHANGED <<branch, committed, saved>>
    /\ worktree' = "removed"

\* git worktree remove, without --force: it refuses changed and new files, and takes ignored ones along.
RemoveWorktree ==
    /\ CleanupStep("remove", Dirty, "list") /\ UNCHANGED <<branch, committed, saved>>
    /\ worktree' = IF Dirty THEN worktree ELSE "removed"

\* git branch -d: it refuses a branch whose commits are nowhere else.
DeleteBranch ==
    /\ CleanupStep("list", FALSE, "idle") /\ UNCHANGED <<worktree, committed, saved>>
    /\ branch' = (branch /\ committed)

\* Any operation may be cut short; a worktree without its manifest belongs to nobody.
Crash ==
    /\ job # "idle" /\ crashes < MaxCrashes /\ crashes' = crashes + 1
    /\ job' = "idle" /\ reads' = <<>> /\ moments' = {}
    /\ made' = IF job = "manifest" THEN "orphan" ELSE made
    /\ UNCHANGED <<mode, manifest, tree, gitVars, taken, edits>>

Next ==
    \/ \E p \in Parts : Edit(p)
    \/ Commit \/ Create \/ WriteManifest
    \/ BeginCapture \/ Read \/ CaptureThrows \/ Decide
    \/ BeginCleanup \/ CleanupOwned \/ CleanupBase \/ RemoveWorktree \/ DeleteBranch
    \/ Crash

Spec == Init /\ [][Next]_vars

-----------------------------------------------------------------------------
\* captureWorkspaceCheckpoint reads the parts one after the other: a checkpoint it accepts is
\* still what the whole workspace was at one moment of the capture.
CheckpointIsAMoment == \A i \in DOMAIN taken : taken[i].parts \in taken[i].moments

\* compareWorkspaceCheckpoints: two checkpoints with no difference say that nothing was edited
\* between them, not even in ignored content or behind the reads of the earlier capture: what the
\* later one found is what the workspace was when the earlier one ended. (Versions never recur.)
MatchMeansUntouched ==
    \A i, j \in DOMAIN taken :
        i < j /\ Differences(taken[i], taken[j]) = {} => taken[i].last = taken[j].parts

\* cleanup: what a worker edited or committed on the run's branch survives a cleanup, whatever is
\* edited between its checks and wherever an earlier cleanup was cut short.
NothingIsDiscarded ==
    worktree = "removed" => ~Dirty /\ (~branch => ~committed)

=============================================================================
