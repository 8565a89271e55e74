-------------------------- MODULE WorkspacesProofs --------------------------
(***************************************************************************)
(* Checkpoints, comparisons and cleanups hold for any number of edits,     *)
(* captures and crashes.                                                   *)
(*                                                                         *)
(* A checkpoint is a double collect: versions only grow, so two equal      *)
(* rounds of reads pin every part at the moment between them. IInv keeps   *)
(* that moment (Between) while the second round is read.                   *)
(***************************************************************************)
EXTENDS Workspaces, SequenceTheorems, TLAPS

\* The moment after the first look at the ownership and the first round.
Middle == 1 + Len(Capture)

\* One content of the checkout is at least as old as another.
AtMost(t, u) == \A p \in Parts : t[p] <= u[p]

ContentsTyped ==
    /\ tree \in [Parts -> Nat] /\ moments \subseteq [Parts -> Nat] /\ reads \in Seq(Nat) /\ edits \in Nat
    /\ Len(reads) <= Len(Plan)
    /\ taken \in Seq([parts : [Parts -> Nat], moments : SUBSET [Parts -> Nat], last : [Parts -> Nat]])
    /\ \A p \in Parts : tree[p] <= edits
    /\ job # "capture" => reads = <<>>

\* A moment of the capture that the first round does not postdate and the second does not predate.
Between(m) ==
    \A i \in 1..Len(reads) :
        IF i <= Middle THEN reads[i] <= m[Plan[i]] ELSE m[Plan[i]] <= reads[i]

CaptureSound ==
    job = "capture" =>
        /\ tree \in moments /\ \A m \in moments : AtMost(m, tree)
        /\ \A i \in 1..Len(reads) : reads[i] <= tree[Plan[i]]
        /\ Len(reads) >= Middle => \E m \in moments : Between(m)
        /\ \A k \in 1..Len(taken), i \in 1..Len(reads) : taken[k].last[Plan[i]] <= reads[i]

TakenSound ==
    \A k \in 1..Len(taken) :
        /\ taken[k].parts \in taken[k].moments
        /\ AtMost(taken[k].parts, taken[k].last) /\ AtMost(taken[k].last, tree)
        /\ \A l \in 1..(k - 1) : AtMost(taken[l].last, taken[k].parts)

\* A branch whose commits are nowhere else stays, and nothing is edited once the checkout is gone.
CleanupSound ==
    /\ branch \in BOOLEAN /\ committed \in BOOLEAN
    /\ committed => branch
    /\ worktree = "removed" => ~Dirty

IInv == ContentsTyped /\ CaptureSound /\ TakenSound /\ CleanupSound

-----------------------------------------------------------------------------
\* Which part each read looks at.
LEMMA PlanOfReads ==
    /\ Len(Capture) = 5 /\ Middle = 6 /\ Len(Plan) = 12
    /\ \A i \in 1..12 : Plan[i] \in Parts
    /\ Plan[1] = "owner" /\ Plan[12] = "owner"
    /\ \A k \in 1..5 : Plan[k + 1] = Capture[k] /\ Plan[k + 6] = Capture[k]
<1>1. Len(Capture) = 5 /\ Len(Plan) = 12
  BY DEF Capture, Plan
<1>2. \A i \in 1..12 : Plan[i] \in Parts
  BY DEF Plan, Parts, Content
<1>3. Plan[1] = "owner" /\ Plan[12] = "owner"
  BY DEF Plan
<1>4. \A k \in 1..5 : Plan[k + 1] = Capture[k] /\ Plan[k + 6] = Capture[k]
  BY DEF Capture, Plan
<1> QED  BY <1>1, <1>2, <1>3, <1>4 DEF Middle

\* Every part but the owner has its place in a round after it.
LEMMA Places ==
    \A p \in Parts \ {"owner"} : Place(p) \in 2..5 /\ Capture[Place(p)] = p
<1> SUFFICES ASSUME NEW p \in Parts \ {"owner"}
             PROVE  Place(p) \in 2..5 /\ Capture[Place(p)] = p
  OBVIOUS
<1>1. DOMAIN Capture = 1..5 /\ Capture[1] = "owner" /\ \E k \in 1..5 : Capture[k] = p
  BY DEF Capture, Parts, Content
<1>2. Place(p) \in 1..5 /\ Capture[Place(p)] = p
  BY <1>1 DEF Place
<1> QED  BY <1>1, <1>2

\* Contents are ordered by age.
LEMMA AtMostTransitive ==
    ASSUME NEW t \in [Parts -> Nat], NEW u \in [Parts -> Nat], NEW v \in [Parts -> Nat],
           AtMost(t, u), AtMost(u, v)
    PROVE  AtMost(t, v)
BY DEF AtMost

\* What is read and captured is versions.
LEMMA Versions ==
    ASSUME IInv
    PROVE  /\ Len(reads) \in 0..12 /\ \A i \in 1..Len(reads) : reads[i] \in Nat /\ Plan[i] \in Parts
           /\ Len(taken) \in Nat
           /\ \A k \in 1..Len(taken) : taken[k].last \in [Parts -> Nat] /\ taken[k].parts \in [Parts -> Nat]
<1>0. reads \in Seq(Nat) /\ Len(reads) <= Len(Plan)
  BY DEF IInv, ContentsTyped
<1>1. Len(reads) \in Nat /\ \A i \in 1..Len(reads) : reads[i] \in Nat
  BY <1>0, ElementOfSeq, LenProperties
<1> DEFINE n == Len(reads)
<1> HIDE DEF n
<1>2. n \in 0..12 /\ \A i \in 1..n : Plan[i] \in Parts
  <2>1. n \in Nat
    BY <1>1 DEF n
  <2>2. n <= 12
    BY <1>0, PlanOfReads DEF n
  <2> QED  BY <2>1, <2>2, PlanOfReads
<1>3. \A k \in 1..Len(taken) : taken[k] \in [parts : [Parts -> Nat], moments : SUBSET [Parts -> Nat], last : [Parts -> Nat]]
  BY ElementOfSeq DEF IInv, ContentsTyped
<1>4. \A k \in 1..Len(taken) : taken[k].last \in [Parts -> Nat] /\ taken[k].parts \in [Parts -> Nat]
  BY <1>3
<1>5. Len(taken) \in Nat
  BY DEF IInv, ContentsTyped
<1> QED  BY <1>1, <1>2, <1>4, <1>5 DEF n

\* An edit, by whomever and at any moment, makes the checkout younger.
LEMMA EditedStep ==
    ASSUME IInv, NEW part \in Parts, Edited(part)
    PROVE  ContentsTyped' /\ CaptureSound' /\ TakenSound' /\ worktree' # "removed"
<1>1. /\ tree' \in [Parts -> Nat] /\ edits' \in Nat /\ AtMost(tree, tree')
      /\ \A p \in Parts : tree'[p] <= edits'
  BY DEF IInv, ContentsTyped, Edited, AtMost
<1>2. /\ UNCHANGED <<job, reads, taken, worktree>> /\ worktree = "present"
      /\ moments' = IF job = "capture" THEN moments \cup {tree'} ELSE moments
  BY DEF Edited
<1>3. ContentsTyped'
  BY <1>1, <1>2 DEF IInv, ContentsTyped
<1>4. CaptureSound'
  <2> SUFFICES ASSUME job = "capture" PROVE CaptureSound'
    BY <1>2 DEF CaptureSound
  <2>1. \A i \in 1..Len(reads) : Plan[i] \in Parts /\ reads[i] \in Nat
    BY Versions
  <2>2. \A i \in 1..Len(reads) : reads[i] <= tree'[Plan[i]]
    BY <1>1, <2>1 DEF IInv, ContentsTyped, CaptureSound, AtMost
  <2>3. Len(reads) >= Middle => \E m \in moments' : Between(m)'
    BY <1>2 DEF IInv, CaptureSound, Between
  <2>4. \A m \in moments' : AtMost(m, tree')
    BY <1>1, <1>2, AtMostTransitive DEF IInv, CaptureSound, ContentsTyped, AtMost
  <2> QED  BY <1>2, <2>2, <2>3, <2>4 DEF IInv, CaptureSound
<1>5. TakenSound'
  <2> SUFFICES ASSUME NEW k \in 1..Len(taken) PROVE AtMost(taken[k].last, tree')
    BY <1>2 DEF IInv, TakenSound
  <2>1. taken[k].last \in [Parts -> Nat] /\ AtMost(taken[k].last, tree)
    BY Versions DEF IInv, TakenSound
  <2> QED  BY <1>1, <2>1, AtMostTransitive DEF IInv, ContentsTyped
<1> QED  BY <1>2, <1>3, <1>4, <1>5

\* A commit keeps what it takes on a branch that stays.
LEMMA EditStep ==
    ASSUME IInv, \/ \E part \in Parts : Edit(part)
                 \/ Commit
    PROVE  IInv'
<1>1. PICK part \in Parts : Edited(part)
  BY DEF Edit, Commit, Parts
<1>2. ContentsTyped' /\ CaptureSound' /\ TakenSound' /\ worktree' # "removed"
  BY <1>1, EditedStep
<1>3. CleanupSound'
  BY <1>2 DEF IInv, CleanupSound, Edit, Commit
<1> QED  BY <1>2, <1>3 DEF IInv

\* Whatever ends a capture without a checkpoint leaves the checkpoints as they are.
LEMMA AbandonedStep ==
    ASSUME IInv, UNCHANGED <<tree, taken, edits, worktree, branch, committed, saved>>,
           job' # "capture", reads' = <<>>, moments' = {}
    PROVE  IInv'
<1>1. ContentsTyped'
  BY PlanOfReads DEF IInv, ContentsTyped
<1>2. CaptureSound' /\ TakenSound' /\ CleanupSound'
  BY DEF IInv, CaptureSound, TakenSound, CleanupSound, Dirty
<1> QED  BY <1>1, <1>2 DEF IInv

\* Nothing is read yet.
LEMMA BeginCaptureStep ==
    ASSUME IInv, BeginCapture
    PROVE  IInv'
<1> USE DEF BeginCapture, gitVars
<1>1. ContentsTyped'
  BY DEF IInv, ContentsTyped
<1>2. CaptureSound'
  <2>1. reads' = <<>> /\ Len(reads') = 0 /\ tree' \in moments' /\ \A m \in moments' : AtMost(m, tree')
    BY DEF IInv, ContentsTyped, AtMost
  <2> QED  BY <2>1, PlanOfReads DEF CaptureSound
<1>3. TakenSound' /\ CleanupSound'
  BY DEF IInv, TakenSound, CleanupSound, Dirty
<1> QED  BY <1>1, <1>2, <1>3 DEF IInv

\* The last read of the first round finds the moment between the rounds; later ones find
\* nothing older.
LEMMA ReadStep ==
    ASSUME IInv, Read
    PROVE  IInv'
<1> DEFINE n == Len(reads)
<1>1. /\ job = "capture" /\ n \in 0..11 /\ reads' = Append(reads, tree[Plan[n + 1]])
      /\ UNCHANGED <<tree, job, moments, taken, edits, worktree, branch, committed, saved>>
  <2>1. n \in 0..12 /\ n < Len(Plan)
    BY Versions DEF Read
  <2> HIDE DEF n
  <2>2. n \in 0..11
    BY <2>1, PlanOfReads
  <2> QED  BY <2>2 DEF Read, gitVars, NextPart, n
<1> HIDE DEF n
<1>2. Plan[n + 1] \in Parts /\ tree[Plan[n + 1]] \in Nat
  <2>1. n + 1 \in 1..12
    BY <1>1
  <2> QED  BY <2>1, PlanOfReads DEF IInv, ContentsTyped
<1>3. /\ reads' \in Seq(Nat) /\ Len(reads') = n + 1 /\ reads'[n + 1] = tree[Plan[n + 1]]
      /\ \A i \in 1..n : reads'[i] = reads[i]
  BY <1>1, <1>2 DEF IInv, ContentsTyped, n
<1>4. ContentsTyped'
  <2>1. Len(reads') <= 12
    BY <1>1, <1>3
  <2>2. Len(reads') <= Len(Plan)
    BY <2>1, PlanOfReads
  <2> QED  BY <1>1, <1>3, <2>2 DEF IInv, ContentsTyped
<1>5. \A i \in 1..n : reads[i] <= tree[Plan[i]] /\ reads[i] \in Nat /\ Plan[i] \in Parts
  BY <1>1, Versions DEF IInv, CaptureSound, n
<1>6. \A i \in 1..(n + 1) : reads'[i] <= tree[Plan[i]]
  BY <1>1, <1>2, <1>3, <1>5
<1>7. n + 1 >= Middle => \E m \in moments : Between(m)'
  <2>1. CASE n + 1 < Middle
    BY <2>1, <1>1, PlanOfReads
  <2>2. CASE n + 1 = Middle
    <3>1. Between(tree)'
      <4>1. n + 1 = 6 /\ Middle = 6
        BY <2>2, PlanOfReads
      <4>2. Len(reads') = 6 /\ tree' = tree /\ \A i \in 1..6 : reads'[i] <= tree[Plan[i]] /\ i <= 6
        BY <4>1, <1>1, <1>3, <1>6
      <4>3. Plan' = Plan /\ Middle' = Middle
        BY DEF Plan, Middle, Capture
      <4> QED  BY <4>1, <4>2, <4>3 DEF Between
    <3> QED  BY <3>1, <1>1 DEF IInv, CaptureSound
  <2>3. CASE n + 1 > Middle
    <3>1. PICK m \in moments : Between(m)
      BY <2>3, <1>1, PlanOfReads DEF IInv, CaptureSound, n
    <3>2. m[Plan[n + 1]] <= tree[Plan[n + 1]]
      BY <1>1, <1>2, <3>1 DEF IInv, CaptureSound, AtMost
    <3>3. ASSUME NEW i \in 1..(n + 1)
          PROVE  IF i <= Middle THEN reads'[i] <= m[Plan[i]] ELSE m[Plan[i]] <= reads'[i]
      <4>1. CASE i \in 1..n
        BY <4>1, <1>3, <3>1 DEF Between, n
      <4>2. CASE i = n + 1
        <5>1. ~(i <= Middle)
          BY <4>2, <2>3, <1>1, PlanOfReads
        <5>2. m[Plan[i]] <= reads'[i]
          BY <4>2, <1>3, <3>2
        <5> QED  BY <5>1, <5>2
      <4>3. n \in Int
        BY <1>1
      <4>4. i \in 1..n \/ i = n + 1
        BY <4>3
      <4> QED  BY <4>1, <4>2, <4>4
    <3> QED  BY <1>3, <3>3 DEF Between
  <2> QED  BY <1>1, <2>1, <2>2, <2>3, PlanOfReads
<1>8. \A k \in 1..Len(taken), i \in 1..(n + 1) : taken[k].last[Plan[i]] <= reads'[i]
  <2>1. \A k \in 1..Len(taken) : taken[k].last[Plan[n + 1]] <= tree[Plan[n + 1]]
    BY <1>2 DEF IInv, TakenSound, AtMost
  <2> QED  BY <2>1, <1>1, <1>3 DEF IInv, CaptureSound, n
<1>9. CaptureSound'
  BY <1>1, <1>3, <1>6, <1>7, <1>8 DEF IInv, CaptureSound
<1>10. TakenSound' /\ CleanupSound'
  BY <1>1 DEF IInv, TakenSound, CleanupSound, Dirty
<1> QED  BY <1>4, <1>9, <1>10 DEF IInv

\* Two equal rounds with the moment between them: no part changed from the one read to the other.
LEMMA RoundIsAMoment ==
    ASSUME IInv, job = "capture", Len(reads) = Len(Plan), Stable
    PROVE  /\ Round(0) \in moments /\ Round(0) \in [Parts -> Nat] /\ AtMost(Round(0), tree)
           /\ \A k \in 1..Len(taken) : AtMost(taken[k].last, Round(0))
<1>1. Len(reads) = 12 /\ Middle = 6
  BY PlanOfReads
<1>2. PICK m \in moments : Between(m)
  BY <1>1 DEF IInv, CaptureSound
<1>3. m \in [Parts -> Nat] /\ AtMost(m, tree)
  BY DEF IInv, ContentsTyped, CaptureSound
<1>4. \A i \in 1..12 : reads[i] \in Nat
  BY <1>1, Versions
<1>5. \A i \in 1..6 : reads[i] <= m[Plan[i]]
  BY <1>1, <1>2 DEF Between
<1>6. \A i \in 7..12 : m[Plan[i]] <= reads[i]
  BY <1>1, <1>2 DEF Between
\* The read of the first round that found each part.
<1>7. \A p \in Parts : \E i \in 1..6 : Plan[i] = p /\ Round(0)[p] = reads[i] /\ reads[i] = m[p]
  <2> SUFFICES ASSUME NEW p \in Parts
               PROVE  \E i \in 1..6 : Plan[i] = p /\ Round(0)[p] = reads[i] /\ reads[i] = m[p]
    OBVIOUS
  <2>1. CASE p = "owner"
    <3>1. Round(0)[p] = reads[1] /\ Plan[1] = p /\ Plan[12] = p
      BY <2>1, PlanOfReads DEF Round
    <3>2. reads[1] = reads[12]
      BY PlanOfReads DEF Stable
    <3>3. reads[1] <= m[p] /\ m[p] <= reads[12]
      BY <3>1, <1>5, <1>6
    <3>4. reads[1] = m[p]
      BY <3>2, <3>3, <1>3, <1>4
    <3> QED  BY <3>1, <3>4
  <2>2. CASE p # "owner"
    <3> DEFINE k == Place(p)
    <3>1. k \in 2..5 /\ Capture[k] = p
      BY <2>2, Places
    <3> HIDE DEF k
    <3>2. Plan[k + 1] = p /\ Plan[k + 6] = p
      BY <3>1, PlanOfReads
    <3>3. Round(0)[p] = reads[k + 1] /\ Round(1)[p] = reads[k + 6]
      <4>1. 1 + 0 * Len(Capture) + k = k + 1 /\ 1 + 1 * Len(Capture) + k = k + 6
        BY <3>1, PlanOfReads
      <4> QED  BY <2>2, <4>1 DEF Round, k
    <3>4. reads[k + 1] = reads[k + 6]
      BY <3>3 DEF Stable
    <3>5. k + 1 \in 1..6 /\ k + 6 \in 7..12
      BY <3>1
    <3>6. reads[k + 1] <= m[p] /\ m[p] <= reads[k + 6]
      BY <3>2, <3>5, <1>5, <1>6
    <3>7. reads[k + 1] = m[p]
      <4>1. reads[k + 1] \in Nat /\ m[p] \in Nat
        <5>1. k + 1 \in 1..12
          BY <3>1
        <5>2. m[p] \in Nat
          BY <1>3
        <5> QED  BY <5>1, <5>2, <1>4
      <4> QED  BY <4>1, <3>4, <3>6
    <3> QED  BY <3>2, <3>3, <3>5, <3>7
  <2> QED  BY <2>1, <2>2
<1>8. Round(0) = m
  BY <1>3, <1>7 DEF Round
<1>9. \A k \in 1..Len(taken) : AtMost(taken[k].last, Round(0))
  BY <1>1, <1>7 DEF AtMost, IInv, CaptureSound
<1> QED  BY <1>3, <1>8, <1>9

\* A capture ends with a checkpoint of one moment, or without one.
LEMMA DecideStep ==
    ASSUME IInv, Decide
    PROVE  IInv'
<1>1. CASE ~Stable
  BY <1>1, AbandonedStep DEF Decide, Throw, gitVars
<1>2. CASE Stable
  <2> DEFINE c == [parts |-> Round(0), moments |-> moments, last |-> tree]
  <2>1. /\ taken' = Append(taken, c) /\ job' = "idle" /\ reads' = <<>> /\ moments' = {}
        /\ UNCHANGED <<tree, edits, worktree, branch, committed, saved>>
    BY <1>2 DEF Decide, gitVars
  <2>2. /\ Round(0) \in moments /\ Round(0) \in [Parts -> Nat] /\ AtMost(Round(0), tree)
        /\ \A k \in 1..Len(taken) : AtMost(taken[k].last, Round(0))
    BY <1>2, RoundIsAMoment DEF Decide
  <2>3. c \in [parts : [Parts -> Nat], moments : SUBSET [Parts -> Nat], last : [Parts -> Nat]]
    BY <2>2 DEF IInv, ContentsTyped
  <2>4. /\ taken' \in Seq([parts : [Parts -> Nat], moments : SUBSET [Parts -> Nat], last : [Parts -> Nat]])
        /\ Len(taken') = Len(taken) + 1 /\ taken'[Len(taken) + 1] = c
        /\ \A k \in 1..Len(taken) : taken'[k] = taken[k]
    BY <2>1, <2>3, AppendProperties DEF IInv, ContentsTyped
  <2>5. ContentsTyped'
    <3>1. reads' \in Seq(Nat) /\ Len(reads') <= Len(Plan)
      BY <2>1, PlanOfReads
    <3>2. moments' \subseteq [Parts -> Nat] /\ (job' # "capture" => reads' = <<>>)
      BY <2>1
    <3> HIDE DEF c
    <3> QED  BY <2>1, <2>4, <3>1, <3>2 DEF IInv, ContentsTyped
  <2>6. c.parts = Round(0) /\ c.moments = moments /\ c.last = tree
    OBVIOUS
  <2> HIDE DEF c
  <2>7. TakenSound'
    <3> SUFFICES ASSUME NEW k \in 1..(Len(taken) + 1)
                 PROVE  /\ taken'[k].parts \in taken'[k].moments
                        /\ AtMost(taken'[k].parts, taken'[k].last) /\ AtMost(taken'[k].last, tree)
                        /\ \A l \in 1..(k - 1) : AtMost(taken'[l].last, taken'[k].parts)
      BY <2>1, <2>4 DEF TakenSound, AtMost
    <3>1. CASE k \in 1..Len(taken)
      <4>1. \A l \in 1..(k - 1) : l \in 1..Len(taken)
        BY <3>1, Versions
      <4> QED  BY <3>1, <4>1, <2>4 DEF IInv, TakenSound
    <3>2. CASE k = Len(taken) + 1
      <4>1. \A l \in 1..(k - 1) : l \in 1..Len(taken)
        BY <3>2, Versions
      <4>2. AtMost(tree, tree)
        BY DEF AtMost, IInv, ContentsTyped
      <4> QED  BY <3>2, <4>1, <4>2, <2>2, <2>4, <2>6
    <3> QED  BY <3>1, <3>2, Versions
  <2>8. CaptureSound' /\ CleanupSound'
    BY <2>1 DEF IInv, CaptureSound, CleanupSound, Dirty
  <2> QED  BY <2>5, <2>7, <2>8 DEF IInv
<1> QED  BY <1>1, <1>2

\* create, the manifest and the steps of cleanup touch no content and no checkpoint; the worktree
\* goes only when it is clean, and a branch only when its commits are elsewhere too.
LEMMA UnreadStep ==
    ASSUME IInv,
           \/ Create \/ WriteManifest \/ BeginCleanup \/ CleanupOwned \/ CleanupBase
           \/ RemoveWorktree \/ DeleteBranch
    PROVE  IInv'
<1> USE DEF Create, WriteManifest, BeginCleanup, CleanupOwned, CleanupBase,
            RemoveWorktree, DeleteBranch, CleanupStep, captureVars, gitVars
<1>1. UNCHANGED <<tree, reads, moments, taken, edits, saved, committed>> /\ job # "capture" /\ job' # "capture"
  OBVIOUS
<1>2. ContentsTyped'
  BY <1>1 DEF IInv, ContentsTyped
<1>3. CaptureSound' /\ TakenSound'
  BY <1>1 DEF IInv, CaptureSound, TakenSound
<1>4. CleanupSound'
  BY <1>1 DEF IInv, CleanupSound, Dirty
<1> QED  BY <1>2, <1>3, <1>4 DEF IInv

-----------------------------------------------------------------------------
\* The invariant holds at first.
LEMMA Initially == Init => IInv
<1> SUFFICES ASSUME Init PROVE IInv
  OBVIOUS
<1> USE DEF Init
<1>1. ContentsTyped
  BY PlanOfReads DEF ContentsTyped
<1>2. CaptureSound /\ TakenSound
  BY DEF CaptureSound, TakenSound
<1>3. CleanupSound
  BY DEF CleanupSound
<1> QED  BY <1>1, <1>2, <1>3 DEF IInv

\* Every edit, every step of an operation and every crash keeps it.
LEMMA Inductive == IInv /\ [Next]_vars => IInv'
<1> SUFFICES ASSUME IInv, [Next]_vars PROVE IInv'
  OBVIOUS
<1>1. CASE (\E p \in Parts : Edit(p)) \/ Commit
  BY <1>1, EditStep
<1>2. CASE Create \/ WriteManifest \/ BeginCleanup \/ CleanupOwned \/ CleanupBase \/ RemoveWorktree \/ DeleteBranch
  BY <1>2, UnreadStep
<1>3. CASE BeginCapture \/ Read \/ Decide
  BY <1>3, BeginCaptureStep, ReadStep, DecideStep
<1>4. CASE CaptureThrows \/ Crash
  BY <1>4, AbandonedStep DEF CaptureThrows, Throw, Crash, gitVars
<1>5. CASE UNCHANGED vars
  <2> USE <1>5 DEF vars, gitVars, captureVars
  <2>1. ContentsTyped'
    BY DEF IInv, ContentsTyped
  <2>2. CaptureSound' /\ TakenSound' /\ CleanupSound'
    BY DEF IInv, CaptureSound, TakenSound, CleanupSound, Dirty, Between
  <2> QED  BY <2>1, <2>2 DEF IInv
<1> QED  BY <1>1, <1>2, <1>3, <1>4, <1>5 DEF Next

\* IInv holds in every state.
LEMMA Invariance == Spec => []IInv
BY Initially, Inductive, PTL DEF Spec

-----------------------------------------------------------------------------
\* captureWorkspaceCheckpoint: whoever edits what between its reads, an accepted checkpoint is what
\* the whole workspace was at one moment.
THEOREM CheckpointsAreMoments == Spec => []CheckpointIsAMoment
<1>1. IInv => CheckpointIsAMoment
  <2> SUFFICES ASSUME IInv, NEW i \in DOMAIN taken PROVE taken[i].parts \in taken[i].moments
    BY DEF CheckpointIsAMoment
  <2>1. i \in 1..Len(taken)
    BY DEF IInv, ContentsTyped
  <2> QED  BY <2>1 DEF IInv, TakenSound
<1> QED  BY <1>1, Invariance, PTL

\* compareWorkspaceCheckpoints: no difference means that nothing was edited since the earlier
\* capture ended.
THEOREM MatchesMeanUntouched == Spec => []MatchMeansUntouched
<1>1. IInv => MatchMeansUntouched
  <2> SUFFICES ASSUME IInv, NEW i \in DOMAIN taken, NEW j \in DOMAIN taken, i < j,
                      Differences(taken[i], taken[j]) = {}
               PROVE  taken[i].last = taken[j].parts
    BY DEF MatchMeansUntouched
  <2>1. i \in 1..Len(taken) /\ j \in 1..Len(taken) /\ i \in 1..(j - 1)
    BY DEF IInv, ContentsTyped
  <2>2. /\ taken[i].last \in [Parts -> Nat] /\ taken[i].parts \in [Parts -> Nat]
        /\ taken[j].parts \in [Parts -> Nat]
    BY <2>1, Versions
  <2>3. AtMost(taken[i].parts, taken[i].last) /\ AtMost(taken[i].last, taken[j].parts)
    BY <2>1 DEF IInv, TakenSound
  <2>4. \A p \in Parts : taken[i].parts[p] = taken[j].parts[p]
    BY DEF Differences
  <2>5. \A p \in Parts : taken[i].last[p] = taken[j].parts[p]
    BY <2>2, <2>3, <2>4 DEF AtMost
  <2> QED  BY <2>2, <2>5
<1> QED  BY <1>1, Invariance, PTL

\* cleanup: what was edited or committed survives it.
THEOREM CleanupDiscardsNothing == Spec => []NothingIsDiscarded
<1>1. IInv => NothingIsDiscarded
  BY DEF IInv, CleanupSound, NothingIsDiscarded
<1> QED  BY <1>1, Invariance, PTL
=============================================================================
