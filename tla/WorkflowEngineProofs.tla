-------------------------- MODULE WorkflowEngineProofs --------------------------
(***************************************************************************)
(* What is proved of the in-process engine for every workflow, any budgets *)
(* and any number of callers.                                              *)
(*                                                                         *)
(* A batch of events is materialized one by one; what every event of it    *)
(* preserves, the batch preserves (BatchPreserves), shown by the least     *)
(* number of events where it were not. The lemmas on batches say what the  *)
(* few kinds of batches that the engine appends make of a run.             *)
(*                                                                         *)
(* The invariant says what a caller knows of its operation at each place   *)
(* of the code (PlaceSound) and, while nobody else appended, of the run    *)
(* (Current). Without an overlap or a failed append one attempt is not     *)
(* concluded, and only that has a worker (OneAttempt): this is what makes  *)
(* OneWorker inductive, as a caller may start the next attempt only where  *)
(* the run says that there is none.                                        *)
(*                                                                         *)
(* What the reducer rejects takes the other direction: a batch is accepted *)
(* if each of its events is, by what is known after the one before         *)
(* (BatchAccepted). While nothing went wrong a caller knows enough of the  *)
(* run for all of them (ReducerInv), so that the reducer rejects none.     *)
(***************************************************************************)
EXTENDS WorkflowEngine, WellFoundedInduction, TLAPS

-----------------------------------------------------------------------------
(* Batches *)

\* Numbers are well founded.
LEMMA LeastNumber ==
    ASSUME NEW S \in SUBSET Nat, S # {}
    PROVE  \E n \in S : \A m \in S : n <= m
<1>1. PICK n \in S : \A m \in S : <<m, n>> \notin OpToRel(<, Nat)
  BY WFMin, NatLessThanWellFounded, Zenon
<1>2. \A m \in S : ~(m < n)
  BY <1>1, Zenon DEF OpToRel
<1> QED  BY <1>2

\* The runs after each event of a batch.
Steps(f, r, batch, n) ==
    f = [i \in 0..n |-> IF i = 0 THEN {r} ELSE UNION {Applied(s, batch[i]) : s \in f[i - 1]}]

\* There are such runs for every batch: the least one without could do with one event less.
LEMMA StepsExist ==
    ASSUME NEW r, NEW batch, NEW n \in Nat
    PROVE  \E f : Steps(f, r, batch, n)
<1> DEFINE T == {k \in Nat : ~ \E f : Steps(f, r, batch, k)}
<1> SUFFICES ASSUME T # {} PROVE FALSE
  OBVIOUS
<1>1. PICK k \in T : \A m \in T : k <= m
  BY LeastNumber
<1>2. CASE k = 0
  <2> DEFINE f == [i \in 0..0 |-> {r}]
  <2>1. Steps(f, r, batch, 0)
    BY DEF Steps
  <2> QED  BY <1>1, <1>2, <2>1
<1>3. CASE k # 0
  <2>1. k - 1 \in Nat /\ k - 1 \notin T
    BY <1>1, <1>3
  <2>2. PICK g : Steps(g, r, batch, k - 1)
    BY <2>1
  <2> DEFINE f == [i \in 0..k |-> IF i = k THEN UNION {Applied(s, batch[k]) : s \in g[k - 1]}
                                  ELSE g[i]]
  <2>3. Steps(f, r, batch, k)
    <3> SUFFICES ASSUME NEW i \in 0..k
                 PROVE  f[i] = IF i = 0 THEN {r} ELSE UNION {Applied(s, batch[i]) : s \in f[i - 1]}
      BY DEF Steps
    <3>1. CASE i = k
      <4>1. f[k] = UNION {Applied(s, batch[k]) : s \in g[k - 1]}
        OBVIOUS
      <4>2. k - 1 \in 0..k /\ k - 1 # k
        BY <2>1
      <4>3. f[k - 1] = g[k - 1]
        BY <4>2
      <4> QED  BY <1>3, <3>1, <4>1, <4>3
    <3>2. CASE i # k
      <4>1. i \in 0..(k - 1) /\ f[i] = g[i]
        BY <3>2
      <4>2. g[i] = IF i = 0 THEN {r} ELSE UNION {Applied(s, batch[i]) : s \in g[i - 1]}
        BY <2>2, <4>1, Zenon DEF Steps
      <4>3. i # 0 => i - 1 \in 0..k /\ i - 1 # k
        BY <4>1
      <4>4. i # 0 => f[i - 1] = g[i - 1]
        BY <4>3
      <4> QED  BY <4>1, <4>2, <4>4
    <3> QED  BY <3>1, <3>2
  <2> QED  BY <1>1, <2>3
<1> QED  BY <1>2, <1>3

\* materialize returns the last of them.
LEMMA MaterializedSteps ==
    ASSUME NEW r, NEW batch, Len(batch) \in Nat
    PROVE  \E f : Steps(f, r, batch, Len(batch)) /\ Materialized(r, batch) = f[Len(batch)]
<1> DEFINE f == CHOOSE f : Steps(f, r, batch, Len(batch))
<1>1. Steps(f, r, batch, Len(batch))
  BY StepsExist, Zenon
<1>2. Materialized(r, batch) = f[Len(batch)]
  BY Zenon DEF Materialized, Steps
<1> QED BY <1>1, <1>2

\* What every event of a batch preserves holds after each of them.
LEMMA StepsPreserve ==
    ASSUME NEW r, NEW batch, Len(batch) \in Nat, NEW S, r \in S, NEW f,
           \A i \in 1..Len(batch) : \A s \in S : Applied(s, batch[i]) \subseteq S,
           Steps(f, r, batch, Len(batch))
    PROVE  \A k \in 0..Len(batch) : f[k] \subseteq S
<1> DEFINE T == {k \in Nat : k <= Len(batch) /\ ~(f[k] \subseteq S)}
<1> SUFFICES ASSUME T # {} PROVE FALSE
  OBVIOUS
<1>1. PICK k \in T : \A m \in T : k <= m
  BY LeastNumber
<1>2. k \in 0..Len(batch)
  OBVIOUS
<1>3. f[k] = IF k = 0 THEN {r} ELSE UNION {Applied(s, batch[k]) : s \in f[k - 1]}
  BY <1>2, Zenon DEF Steps
<1>4. CASE k = 0
  BY <1>1, <1>3, <1>4
<1>5. CASE k # 0
  <2>1. k - 1 \in Nat /\ k - 1 <= Len(batch) /\ k - 1 \notin T
    BY <1>1, <1>5
  <2>2. k \in 1..Len(batch) /\ f[k - 1] \subseteq S
    BY <1>5, <2>1
  <2> QED  BY <1>1, <1>3, <1>5, <2>2
<1> QED  BY <1>4, <1>5

\* So it holds of what the batch makes of the run, and the last event made that.
LEMMA BatchPreserves ==
    ASSUME NEW r, NEW batch, Len(batch) \in Nat, NEW S, r \in S,
           \A i \in 1..Len(batch) : \A s \in S : Applied(s, batch[i]) \subseteq S
    PROVE  /\ Materialized(r, batch) \subseteq S
           /\ Len(batch) # 0 => \A t \in Materialized(r, batch) :
                                  \E s \in S : t \in Applied(s, batch[Len(batch)])
<1> DEFINE n == Len(batch)
<1>1. PICK f : Steps(f, r, batch, n) /\ Materialized(r, batch) = f[n]
  BY MaterializedSteps, Zenon
<1>2. \A k \in 0..n : f[k] \subseteq S
  BY <1>1, StepsPreserve
<1>3. n \in 0..n /\ (n # 0 => n - 1 \in 0..n)
  OBVIOUS
<1>4. n # 0 => f[n] = UNION {Applied(s, batch[n]) : s \in f[n - 1]}
  BY <1>1, <1>3, Zenon DEF Steps
<1> QED  BY <1>1, <1>2, <1>3, <1>4

-----------------------------------------------------------------------------
(* Nodes in authored order *)

\* The nodes of a set up to a position of the authored order.
Among(f, S, n) ==
    f = [i \in 0..n |-> IF i = 0 THEN <<>>
                        ELSE IF Order[i] \in S THEN Append(f[i - 1], Order[i]) ELSE f[i - 1]]

\* There is one for every length.
LEMMA AmongExists ==
    ASSUME NEW S, NEW n \in Nat
    PROVE  \E f : Among(f, S, n)
<1> DEFINE T == {k \in Nat : ~ \E f : Among(f, S, k)}
<1> SUFFICES ASSUME T # {} PROVE FALSE
  OBVIOUS
<1>1. PICK k \in T : \A m \in T : k <= m
  BY LeastNumber
<1>2. CASE k = 0
  <2>1. Among([i \in 0..0 |-> <<>>], S, 0)
    BY DEF Among
  <2> QED  BY <1>1, <1>2, <2>1
<1>3. CASE k # 0
  <2>1. k - 1 \in Nat /\ k - 1 \notin T
    BY <1>1, <1>3
  <2>2. PICK g : Among(g, S, k - 1)
    BY <2>1
  <2> DEFINE next == IF Order[k] \in S THEN Append(g[k - 1], Order[k]) ELSE g[k - 1]
             f == [i \in 0..k |-> IF i = k THEN next ELSE g[i]]
  <2>3. Among(f, S, k)
    <3> SUFFICES ASSUME NEW i \in 0..k
                 PROVE  f[i] = IF i = 0 THEN <<>>
                               ELSE IF Order[i] \in S THEN Append(f[i - 1], Order[i]) ELSE f[i - 1]
      BY Zenon DEF Among
    <3>1. CASE i = k
      <4>1. k \in 0..k /\ k - 1 \in 0..k /\ k - 1 # k
        BY <2>1
      <4>2. f[k] = next /\ f[k - 1] = g[k - 1]
        BY <4>1, Zenon
      <4> QED  BY <1>3, <3>1, <4>2, Zenon
    <3>2. CASE i # k
      <4>1. i \in 0..(k - 1) /\ f[i] = g[i]
        BY <3>2
      <4>2. g[i] = IF i = 0 THEN <<>>
                   ELSE IF Order[i] \in S THEN Append(g[i - 1], Order[i]) ELSE g[i - 1]
        BY <2>2, <4>1, Zenon DEF Among
      <4>3. i # 0 => i - 1 \in 0..k /\ i - 1 # k
        BY <4>1
      <4>4. i # 0 => f[i - 1] = g[i - 1]
        BY <4>3
      <4> QED  BY <4>1, <4>2, <4>4, Zenon
    <3> QED  BY <3>1, <3>2
  <2> QED  BY <1>1, <2>3
<1> QED  BY <1>2, <1>3

\* The nodes of a set in authored order are nodes of that set.
LEMMA InOrderMembers ==
    ASSUME NEW S
    PROVE  InOrder(S) \in Seq(S)
<1> DEFINE n == Len(Order)
           f == CHOOSE f : Among(f, S, n)
<1>1. n \in Nat
  BY EngineConstants
<1>2. Among(f, S, n)
  BY <1>1, AmongExists, Zenon
<1>3. InOrder(S) = f[n]
  BY Zenon DEF InOrder, Among
<1> HIDE DEF f, n
<1> DEFINE Good(k) == f[k] \in Seq(S)
           T == {k \in Nat : k <= n /\ ~Good(k)}
<1>4. Good(0)
  <2>1. 0 \in 0..n
    BY <1>1
  <2>2. f[0] = <<>>
    BY <1>2, <2>1, Zenon DEF Among
  <2> QED  BY <2>2
<1>5. ASSUME NEW k \in 1..n, Good(k - 1) PROVE Good(k)
  <2>1. k \in 0..n /\ k # 0
    BY <1>1
  <2>2. f[k] = IF Order[k] \in S THEN Append(f[k - 1], Order[k]) ELSE f[k - 1]
    BY <1>2, <2>1, Zenon DEF Among
  <2>3. Order[k] \in S => Append(f[k - 1], Order[k]) \in Seq(S)
    BY <1>5
  <2> QED  BY <1>5, <2>2, <2>3, Zenon
<1> HIDE DEF Good
<1>6. ASSUME T # {} PROVE FALSE
  <2>1. PICK k \in T : \A m \in T : k <= m
    BY <1>6, LeastNumber
  <2>2. k # 0
    BY <1>4
  <2>3. k \in 1..n /\ k - 1 \in Nat /\ k - 1 <= n /\ k - 1 \notin T
    BY <1>1, <2>1, <2>2
  <2> QED  BY <1>5, <2>3
<1> QED  BY <1>1, <1>3, <1>6 DEF Good
\* The first node of a set is one of its nodes.
LEMMA FirstMember ==
    ASSUME NEW S \in SUBSET Node, S # {}
    PROVE  First(S) \in S
<1> DEFINE T == {i \in Nat : i \in DOMAIN Order /\ Order[i] \in S}
<1>1. PICK n \in S : TRUE
  OBVIOUS
<1>2. PICK i \in DOMAIN Order : Order[i] = n
  BY <1>1, EngineConstants
<1>3. T \in SUBSET Nat /\ i \in T
  BY <1>1, <1>2, EngineConstants
<1>4. PICK k \in T : \A m \in T : k <= m
  BY <1>3, LeastNumber
<1>5. ASSUME NEW j \in 1..(k - 1) PROVE Order[j] \notin S
  <2>1. j \in Nat /\ j < k /\ j \in DOMAIN Order
    BY <1>4, EngineConstants
  <2> QED  BY <1>4, <2>1
<1>6. k \in DOMAIN Order /\ Order[k] \in S /\ \A j \in 1..(k - 1) : Order[j] \notin S
  BY <1>4, <1>5
<1> QED  BY <1>6, Zenon DEF First

\* A batch of one event, and of two.
LEMMA OneEvent == ASSUME NEW r, NEW e PROVE Materialized(r, <<e>>) = Applied(r, e)
<1>1. Len(<<e>>) = 1 /\ <<e>>[1] = e
  OBVIOUS
<1>2. PICK f : Steps(f, r, <<e>>, 1) /\ Materialized(r, <<e>>) = f[1]
  BY <1>1, MaterializedSteps
<1>3. 0 \in 0..1 /\ 1 \in 0..1 /\ 1 # 0 /\ 1 - 1 = 0
  OBVIOUS
<1>4. f[0] = {r} /\ f[1] = UNION {Applied(s, <<e>>[1]) : s \in f[1 - 1]}
  BY <1>2, <1>3, Zenon DEF Steps
<1>5. f[1] = UNION {Applied(s, e) : s \in {r}}
  BY <1>1, <1>3, <1>4, Zenon
<1> QED  BY <1>2, <1>5

\* A batch of two is the one event and then the other.
LEMMA TwoEvents ==
    ASSUME NEW r, NEW e, NEW g
    PROVE  Materialized(r, <<e, g>>) = UNION {Applied(s, g) : s \in Applied(r, e)}
<1>1. Len(<<e, g>>) = 2 /\ <<e, g>>[1] = e /\ <<e, g>>[2] = g
  OBVIOUS
<1>2. PICK f : Steps(f, r, <<e, g>>, 2) /\ Materialized(r, <<e, g>>) = f[2]
  BY <1>1, MaterializedSteps
<1>3. 0 \in 0..2 /\ 1 \in 0..2 /\ 2 \in 0..2 /\ 1 # 0 /\ 2 # 0 /\ 1 - 1 = 0 /\ 2 - 1 = 1
  OBVIOUS
<1>4. /\ f[0] = {r} /\ f[1] = UNION {Applied(s, <<e, g>>[1]) : s \in f[1 - 1]}
      /\ f[2] = UNION {Applied(s, <<e, g>>[2]) : s \in f[2 - 1]}
  BY <1>2, <1>3, Zenon DEF Steps
<1>5. f[1] = UNION {Applied(s, e) : s \in {r}}
  BY <1>1, <1>3, <1>4, Zenon
<1>6. f[1] = Applied(r, e)
  BY <1>5
<1>7. f[2] = UNION {Applied(s, g) : s \in f[1]}
  BY <1>1, <1>3, <1>4, Zenon
<1> QED  BY <1>2, <1>6, <1>7

-----------------------------------------------------------------------------
(* Events *)

\* An update of a node keeps the run's own fields and the other nodes.
LEMMA UpdatedRun ==
    ASSUME NEW r \in Run, NEW e, e.node \in Node, NEW node \in NodeState
    PROVE  /\ Updated(r, e, node) \in Run
           /\ Updated(r, e, node).status = r.status /\ Updated(r, e, node).configured = r.configured
           /\ \A n \in Node : Updated(r, e, node).nodes[n] = IF n = e.node THEN node ELSE r.nodes[n]
BY DEF Updated, Run

\* Events of the run, and events that end an attempt or make a node wait, stop or ready.
EasingRun == {"RunBlocked", "RunCancelled", "RunCompleted", "RuntimeNegotiated", "WorkspaceAssigned"}
EasingNode == {"AttemptBlocked", "AttemptCancelled", "AttemptSucceeded", "NodeBlocked", "NodeCancelled",
               "NodeSucceeded", "NodeReady"}

Easing(e) ==
    /\ e.type \in EasingRun \cup EasingNode
    /\ e.type \in EasingNode => e.node \in Node
    /\ e.type = "NodeReady" => e.reason = "dependencies-satisfied"
    /\ e.type = "RunCompleted" => e.outcome \in {"succeeded", "failed"}

\* What they may make of a node: nothing starts, and nothing goes back.
NodeEases(a, b) ==
    /\ b.attempts = a.attempts
    /\ b.status \in {"running", "failed", "pending"} => a.status = b.status
    /\ b.status = "ready" => a.status \in {"ready", "pending"}

Eases(r, t) ==
    /\ t \in Run /\ t.configured = r.configured
    /\ \A n \in Node : NodeEases(r.nodes[n], t.nodes[n])

\* Such an event of the run leaves its nodes alone.
LEMMA RunEvent ==
    ASSUME NEW s \in Run, NEW e, Easing(e), e.type \in EasingRun, NEW t \in Applied(s, e)
    PROVE  /\ t \in Run /\ t.nodes = s.nodes /\ t.configured = s.configured
           /\ e.type \in {"RuntimeNegotiated", "WorkspaceAssigned"} => t.status = s.status
<1> USE DEF When, Run, RunStatus
<1>1. CASE e.type = "RunBlocked"
  BY <1>1 DEF Applied, RunBlocked
<1>2. CASE e.type = "RunCancelled"
  BY <1>2 DEF Applied, RunCancelled
<1>3. CASE e.type = "RunCompleted"
  BY <1>3 DEF Applied, RunCompleted, Easing
<1>4. CASE e.type = "RuntimeNegotiated"
  BY <1>4 DEF Applied, RuntimeNegotiated
<1>5. CASE e.type = "WorkspaceAssigned"
  BY <1>5 DEF Applied, WorkspaceAssigned
<1> QED  BY <1>1, <1>2, <1>3, <1>4, <1>5 DEF EasingRun

\* One about a node leaves the others alone.
LEMMA NodeEvents ==
    ASSUME NEW s \in Run, NEW e, Easing(e), e.type \in EasingNode, NEW t \in Applied(s, e)
    PROVE  /\ t \in Run /\ t.status = s.status /\ t.configured = s.configured
           /\ NodeEases(s.nodes[e.node], t.nodes[e.node])
           /\ \A n \in Node : n # e.node => t.nodes[n] = s.nodes[n]
<1> DEFINE old == NodeOf(s, e)
<1>1. e.node \in Node /\ old \in NodeState /\ old.last \in Attempt /\ old = s.nodes[e.node]
  BY DEF Easing, NodeOf, Run, NodeState
<1>2. ASSUME NEW node \in NodeState, t = Updated(s, e, node), NodeEases(old, node)
      PROVE  /\ t \in Run /\ t.status = s.status /\ t.configured = s.configured
             /\ NodeEases(s.nodes[e.node], t.nodes[e.node])
             /\ \A n \in Node : n # e.node => t.nodes[n] = s.nodes[n]
  BY <1>1, <1>2, UpdatedRun
<1>3. CASE e.type \in {"AttemptBlocked", "AttemptCancelled", "AttemptSucceeded"}
  <2>1. PICK status \in AttemptStatus :
          t = AttemptBecomes(s, e, [old.last EXCEPT !.status = status])
    BY <1>3 DEF Applied, AttemptEnded, When, AttemptStatus
  <2>2. PICK a : a = [old.last EXCEPT !.status = status]
    OBVIOUS
  <2>3. a \in Attempt
    BY <1>1, <2>2 DEF Attempt
  <2>4. PICK node : node = [old EXCEPT !.last = a]
    OBVIOUS
  <2>5. node \in NodeState /\ node.attempts = old.attempts /\ node.status = old.status
    BY <1>1, <2>3, <2>4 DEF NodeState
  <2>6. t = Updated(s, e, node)
    BY <2>1, <2>2, <2>4 DEF AttemptBecomes
  <2>7. NodeEases(old, node)
    BY <2>5 DEF NodeEases
  <2> QED  BY <1>2, <2>5, <2>6, <2>7
<1>4. CASE e.type = "NodeReady"
  <2>1. PICK node : node = [old EXCEPT !.status = "ready", !.pause = "none"]
    OBVIOUS
  <2>2. t = Updated(s, e, node) /\ old.status = "pending"
    BY <1>4, <2>1 DEF Applied, NodeReady, When, Easing, NodeIn
  <2>3. node \in NodeState /\ node.attempts = old.attempts /\ node.status = "ready"
    BY <1>1, <2>1 DEF NodeState, NodeStatus
  <2>4. NodeEases(old, node)
    BY <2>2, <2>3 DEF NodeEases
  <2> QED  BY <1>2, <2>2, <2>3, <2>4
<1>5. CASE e.type \in {"NodeBlocked", "NodeCancelled", "NodeSucceeded"}
  <2>1. PICK status \in {"blocked", "cancelled", "succeeded"} : t = NodeBecomes(s, e, status)
    BY <1>5 DEF Applied, NodeBlocked, NodeCancelled, NodeEnded, When
  <2>2. PICK node : node = [old EXCEPT !.status = status]
    OBVIOUS
  <2>3. node \in NodeState /\ node.attempts = old.attempts /\ node.status = status
    BY <1>1, <2>1, <2>2 DEF NodeState, NodeStatus
  <2>4. t = Updated(s, e, node)
    BY <2>1, <2>2 DEF NodeBecomes
  <2>5. NodeEases(old, node)
    BY <2>1, <2>3 DEF NodeEases
  <2> QED  BY <1>2, <2>3, <2>4, <2>5
<1> QED  BY <1>3, <1>4, <1>5 DEF EasingNode

\* A batch of such events that leaves some of the nodes alone.
EasingBatch(batch, spared) ==
    /\ \E S : batch \in Seq(S)
    /\ \A i \in 1..Len(batch) :
          Easing(batch[i]) /\ (batch[i].type \in EasingNode => batch[i].node \notin spared)

\* A batch of easing events eases, and leaves alone the nodes that none of its events names.
LEMMA BatchEases ==
    ASSUME NEW r \in Run, NEW batch, NEW spared \in SUBSET Node, EasingBatch(batch, spared),
           NEW t \in Materialized(r, batch)
    PROVE  Eases(r, t) /\ \A n \in spared : t.nodes[n] = r.nodes[n]
<1> DEFINE S == {s \in Run : Eases(r, s) /\ \A n \in spared : s.nodes[n] = r.nodes[n]}
<1>1. r \in S
  BY DEF Eases, NodeEases
<1>2. ASSUME NEW i \in 1..Len(batch), NEW s \in S, NEW u \in Applied(s, batch[i]) PROVE u \in S
  <2> PICK e : e = batch[i]
    OBVIOUS
  <2>1. Easing(e) /\ (e.type \in EasingNode => e.node \notin spared /\ e.node \in Node) /\ u \in Applied(s, e)
    BY DEF EasingBatch, Easing
  <2>2. CASE e.type \in EasingRun
    BY <2>1, <2>2, RunEvent DEF Eases
  <2>3. CASE e.type \in EasingNode
    <3>1. /\ u \in Run /\ u.configured = s.configured
          /\ NodeEases(s.nodes[e.node], u.nodes[e.node])
          /\ \A n \in Node : n # e.node => u.nodes[n] = s.nodes[n]
      BY <2>1, <2>3, NodeEvents
    <3>2. \A n \in spared : u.nodes[n] = r.nodes[n]
      BY <2>1, <2>3, <3>1
    <3>3. \A n \in Node : NodeEases(r.nodes[n], s.nodes[n])
      BY DEF Eases
    <3>4. ASSUME NEW n \in Node PROVE NodeEases(r.nodes[n], u.nodes[n])
      BY <3>1, <3>3 DEF NodeEases
    <3>5. Eases(r, u)
      BY <3>1, <3>4 DEF Eases
    <3> QED  BY <3>1, <3>2, <3>5
  <2> QED  BY <2>1, <2>2, <2>3 DEF Easing
<1>3. Len(batch) \in Nat
  BY DEF EasingBatch
<1> HIDE DEF S
<1>4. Materialized(r, batch) \subseteq S
  BY <1>1, <1>2, <1>3, BatchPreserves
<1> QED  BY <1>4 DEF S

\* Batches of one event, and one after another.
LEMMA EasingOne ==
    ASSUME NEW e, NEW spared, Easing(e), e.type \in EasingNode => e.node \notin spared
    PROVE  EasingBatch(<<e>>, spared)
<1> PICK b : b = <<e>>
  OBVIOUS
<1>1. b \in Seq({e}) /\ Len(b) = 1 /\ b[1] = e
  OBVIOUS
<1>2. \A i \in 1..Len(b) : b[i] = e
  BY <1>1
<1> QED  BY <1>1, <1>2 DEF EasingBatch

\* Two easing batches make one.
LEMMA EasingJoined ==
    ASSUME NEW a, NEW b, NEW spared, EasingBatch(a, spared), EasingBatch(b, spared)
    PROVE  EasingBatch(a \o b, spared)
<1>1. PICK S, T : a \in Seq(S) /\ b \in Seq(T)
  BY DEF EasingBatch
<1>2. Len(a) \in Nat /\ Len(b) \in Nat /\ Len(a \o b) = Len(a) + Len(b)
  BY <1>1
<1>3. ASSUME NEW i \in 1..Len(a \o b)
      PROVE  \/ i \in 1..Len(a) /\ (a \o b)[i] = a[i]
             \/ i - Len(a) \in 1..Len(b) /\ (a \o b)[i] = b[i - Len(a)]
  BY <1>1, <1>2
<1> PICK c : c = a \o b
  OBVIOUS
<1>4. ASSUME NEW i \in 1..Len(c)
      PROVE  Easing(c[i]) /\ (c[i].type \in EasingNode => c[i].node \notin spared)
  <2>1. (i \in 1..Len(a) /\ c[i] = a[i]) \/ (i - Len(a) \in 1..Len(b) /\ c[i] = b[i - Len(a)])
    BY <1>3
  <2> QED  BY <2>1, Zenon DEF EasingBatch
<1>5. c \in Seq(S \cup T)
  <2>1. a \in Seq(S \cup T) /\ b \in Seq(S \cup T)
    BY <1>1
  <2> QED  BY <2>1
<1> QED  BY <1>4, <1>5 DEF EasingBatch

\* An event for each of some nodes.
LEMMA EasingNodes ==
    ASSUME NEW S \in SUBSET Node, NEW b, NEW spared, S \cap spared = {}, NEW type \in EasingNode,
           DOMAIN b = DOMAIN InOrder(S), b = [i \in DOMAIN InOrder(S) |-> b[i]],
           \A i \in DOMAIN InOrder(S) : /\ b[i].type = type /\ b[i].node = InOrder(S)[i]
                                        /\ type = "NodeReady" => b[i].reason = "dependencies-satisfied"
    PROVE  EasingBatch(b, spared)
<1>1. InOrder(S) \in Seq(S)
  BY InOrderMembers
<1>2. Len(InOrder(S)) \in Nat /\ DOMAIN InOrder(S) = 1..Len(InOrder(S))
  BY <1>1
<1>3. b \in Seq({b[i] : i \in DOMAIN InOrder(S)})
  BY <1>2
<1>4. Len(b) = Len(InOrder(S))
  <2>1. Len(b) \in Nat /\ DOMAIN b = 1..Len(b)
    BY <1>3
  <2> QED  BY <1>2, <2>1
<1>5. ASSUME NEW i \in 1..Len(b)
      PROVE  Easing(b[i]) /\ (b[i].type \in EasingNode => b[i].node \notin spared)
  <2>1. i \in DOMAIN InOrder(S) /\ InOrder(S)[i] \in S
    BY <1>1, <1>2, <1>4
  <2>2. b[i].type = type /\ b[i].node \in S /\ (type = "NodeReady" => b[i].reason = "dependencies-satisfied")
    BY <2>1
  <2> QED  BY <2>2 DEF Easing, EasingNode
<1> QED  BY <1>3, <1>5 DEF EasingBatch

\* Blocking or cancelling the other nodes eases and leaves the one alone; so does readying some of them.
LEMMA EasingForNodes ==
    ASSUME NEW v, NEW n
    PROVE  /\ EasingBatch(BlockOthers(v, n), {n})
           /\ EasingBatch(CancelOthers(v, n), {n})
           /\ \A S \in SUBSET Node : \A spared : S \cap spared = {} =>
                 EasingBatch(ReadyBatch(S, "dependencies-satisfied"), spared)
<1>1. EasingBatch(BlockOthers(v, n), {n})
  <2>1. PICK S : S = {m \in Node \ {n} : v.nodes[m].status \in {"pending", "ready"}}
    OBVIOUS
  <2>2. PICK b : b = BlockOthers(v, n)
    OBVIOUS
  <2>3. b = [i \in DOMAIN InOrder(S) |-> NodeEvent("NodeBlocked", InOrder(S)[i])]
    BY <2>1, <2>2 DEF BlockOthers, ForNodes
  <2>4. PICK type : type = "NodeBlocked"
    OBVIOUS
  <2>5. \A i \in DOMAIN InOrder(S) : /\ b[i].type = type /\ b[i].node = InOrder(S)[i]
                                     /\ type = "NodeReady" => b[i].reason = "dependencies-satisfied"
    <3> SUFFICES ASSUME NEW i \in DOMAIN InOrder(S)
                 PROVE  b[i].type = type /\ b[i].node = InOrder(S)[i]
      BY <2>4
    <3>1. b[i] = NodeEvent("NodeBlocked", InOrder(S)[i])
      BY <2>3
    <3> QED  BY <2>4, <3>1 DEF NodeEvent
  <2>6. b = [i \in DOMAIN InOrder(S) |-> b[i]] /\ DOMAIN b = DOMAIN InOrder(S)
    BY <2>3
  <2>7. PICK spared : spared = {n}
    OBVIOUS
  <2>8. S \in SUBSET Node /\ S \cap spared = {}
    BY <2>1, <2>7
  <2>9. type \in EasingNode
    BY <2>4 DEF EasingNode
  <2>10. EasingBatch(b, spared)
    BY <2>5, <2>6, <2>8, <2>9, EasingNodes
  <2> QED  BY <2>10, <2>2, <2>7
<1>2. EasingBatch(CancelOthers(v, n), {n})
  <2>1. PICK S : S = {m \in Node \ {n} : v.nodes[m].status \notin {"succeeded", "failed"}}
    OBVIOUS
  <2>2. PICK b : b = CancelOthers(v, n)
    OBVIOUS
  <2>3. b = [i \in DOMAIN InOrder(S) |-> NodeEvent("NodeCancelled", InOrder(S)[i])]
    BY <2>1, <2>2 DEF CancelOthers, ForNodes
  <2>4. PICK type : type = "NodeCancelled"
    OBVIOUS
  <2>5. \A i \in DOMAIN InOrder(S) : /\ b[i].type = type /\ b[i].node = InOrder(S)[i]
                                     /\ type = "NodeReady" => b[i].reason = "dependencies-satisfied"
    <3> SUFFICES ASSUME NEW i \in DOMAIN InOrder(S)
                 PROVE  b[i].type = type /\ b[i].node = InOrder(S)[i]
      BY <2>4
    <3>1. b[i] = NodeEvent("NodeCancelled", InOrder(S)[i])
      BY <2>3
    <3> QED  BY <2>4, <3>1 DEF NodeEvent
  <2>6. b = [i \in DOMAIN InOrder(S) |-> b[i]] /\ DOMAIN b = DOMAIN InOrder(S)
    BY <2>3
  <2>7. PICK spared : spared = {n}
    OBVIOUS
  <2>8. S \in SUBSET Node /\ S \cap spared = {}
    BY <2>1, <2>7
  <2>9. type \in EasingNode
    BY <2>4 DEF EasingNode
  <2>10. EasingBatch(b, spared)
    BY <2>5, <2>6, <2>8, <2>9, EasingNodes
  <2> QED  BY <2>10, <2>2, <2>7
<1>3. ASSUME NEW S \in SUBSET Node, NEW spared, S \cap spared = {}
      PROVE  EasingBatch(ReadyBatch(S, "dependencies-satisfied"), spared)
  <2> DEFINE ready == "dependencies-satisfied"
  <2> PICK b : b = ReadyBatch(S, ready)
    OBVIOUS
  <2>1. b = [i \in DOMAIN InOrder(S) |-> [type |-> "NodeReady", node |-> InOrder(S)[i], reason |-> ready]]
    BY DEF ReadyBatch, ForNodes
  <2>2. \A i \in DOMAIN InOrder(S) : /\ b[i].type = "NodeReady" /\ b[i].node = InOrder(S)[i]
                                     /\ b[i].reason = ready
    BY <2>1
  <2>3. b = [i \in DOMAIN InOrder(S) |-> b[i]] /\ DOMAIN b = DOMAIN InOrder(S)
    BY <2>1
  <2> QED  BY <1>3, <2>2, <2>3, EasingNodes DEF EasingNode
<1> QED  BY <1>1, <1>2, <1>3

\* A run of which one node differs.
OnlyNode(r, t, n) ==
    /\ t \in Run /\ t.status = r.status /\ t.configured = r.configured
    /\ \A m \in Node : m # n => t.nodes[m] = r.nodes[m]

\* An update of a node is no more than that.
LEMMA OneUpdated ==
    ASSUME NEW r \in Run, NEW e, e.node \in Node, NEW node \in NodeState, NEW t, t = Updated(r, e, node)
    PROVE  OnlyNode(r, t, e.node) /\ t.nodes[e.node] = node
BY UpdatedRun DEF OnlyNode

\* Evidence changes nothing.
LEMMA EvidenceEvents ==
    ASSUME NEW r, NEW e, e.type \in {"ArtifactProduced", "WorkspaceObserved", "CommandCompleted"}
    PROVE  Applied(r, e) \subseteq {r}
BY DEF Applied, ArtifactProduced, ResultEvidence, When

\* Nor do one or two of them in a batch.
LEMMA EvidenceBatches ==
    ASSUME NEW r, NEW e,
           NEW type \in {"ArtifactProduced", "WorkspaceObserved", "CommandCompleted"},
           NEW other \in {"ArtifactProduced", "WorkspaceObserved", "CommandCompleted"}
    PROVE  /\ Materialized(r, <<AttemptEvent(type, e)>>) \subseteq {r}
           /\ Materialized(r, <<AttemptEvent(type, e), AttemptEvent(other, e)>>) \subseteq {r}
<1> PICK a, b : a = AttemptEvent(type, e) /\ b = AttemptEvent(other, e)
  OBVIOUS
<1>1. a.type = type /\ b.type = other
  BY DEF AttemptEvent
<1>2. Applied(r, a) \subseteq {r} /\ Applied(r, b) \subseteq {r}
  BY <1>1, EvidenceEvents
<1>3. Materialized(r, <<a>>) = Applied(r, a)
  BY OneEvent
<1>4. Materialized(r, <<a, b>>) = UNION {Applied(s, b) : s \in Applied(r, a)}
  BY TwoEvents
<1> QED  BY <1>2, <1>3, <1>4

\* Scheduling and starting an attempt of a ready node.
LEMMA ScheduleEffect ==
    ASSUME NEW r \in Run, NEW e \in Execution,
           NEW t \in Materialized(r, <<AttemptEvent("AttemptScheduled", e), AttemptEvent("AttemptStarted", e)>>)
    PROVE  /\ OnlyNode(r, t, e[1])
           /\ r.nodes[e[1]].status = "ready" /\ e[2] = r.nodes[e[1]].attempts + 1
           /\ t.nodes[e[1]].status = "running" /\ t.nodes[e[1]].attempts = e[2]
           /\ t.nodes[e[1]].last = [NoAttempt EXCEPT !.status = "running"]
<1> PICK a, b : a = AttemptEvent("AttemptScheduled", e) /\ b = AttemptEvent("AttemptStarted", e)
  OBVIOUS
<1>1. /\ a.type = "AttemptScheduled" /\ a.node = e[1] /\ a.attempt = e[2]
      /\ b.type = "AttemptStarted" /\ b.node = e[1] /\ b.attempt = e[2]
  BY DEF AttemptEvent
<1>2. PICK s \in Applied(r, a) : t \in Applied(s, b)
  BY TwoEvents
<1>3. e[1] \in Node /\ e[2] \in Nat
  BY EngineConstants DEF Execution
<1>4. PICK x : x = [NoAttempt EXCEPT !.status = "scheduled"]
  OBVIOUS
<1>5. x \in Attempt /\ [x EXCEPT !.status = "running"] = [NoAttempt EXCEPT !.status = "running"]
      /\ [x EXCEPT !.status = "running"] \in Attempt
  BY <1>4 DEF Attempt, AttemptStatus, NoAttempt
<1>6. PICK node : node = [r.nodes[e[1]] EXCEPT !.attempts = e[2], !.last = x]
  OBVIOUS
<1>7. r.nodes[e[1]] \in NodeState
  BY <1>3 DEF Run
<1>8. /\ s = Updated(r, a, node) /\ r.nodes[e[1]].status = "ready" /\ e[2] = r.nodes[e[1]].attempts + 1
  BY <1>1, <1>2, <1>4, <1>6 DEF Applied, AttemptScheduled, When, NodeIn, NodeOf
<1>9. node \in NodeState /\ node.status = "ready" /\ node.attempts = e[2] /\ node.last = x
  BY <1>3, <1>5, <1>6, <1>7, <1>8 DEF NodeState
<1>10. OnlyNode(r, s, e[1]) /\ s.nodes[e[1]] = node
  BY <1>1, <1>3, <1>8, <1>9, OneUpdated
<1>11. PICK next : next = [node EXCEPT !.status = "running", !.last = [x EXCEPT !.status = "running"]]
  OBVIOUS
<1>12. t = Updated(s, b, next)
  BY <1>1, <1>2, <1>9, <1>10, <1>11 DEF Applied, AttemptStarted, Started, When, NodeOf
<1>13. /\ next \in NodeState /\ next.status = "running" /\ next.attempts = e[2]
       /\ next.last = [x EXCEPT !.status = "running"]
  BY <1>5, <1>9, <1>11 DEF NodeState, NodeStatus
<1>14. OnlyNode(s, t, e[1]) /\ t.nodes[e[1]] = next
  BY <1>1, <1>3, <1>10, <1>12, <1>13, OneUpdated DEF OnlyNode
<1> QED  BY <1>5, <1>8, <1>10, <1>13, <1>14 DEF OnlyNode

\* An attempt changes and its node stays as it is.
AttemptChanged(r, t, n, last) ==
    /\ OnlyNode(r, t, n)
    /\ t.nodes[n].status = r.nodes[n].status /\ t.nodes[n].attempts = r.nodes[n].attempts
    /\ t.nodes[n].last = last

\* What the event leads to when only the attempt becomes another.
LEMMA AttemptUpdated ==
    ASSUME NEW r \in Run, NEW a, a.node \in Node, NEW x \in Attempt, NEW t, t = AttemptBecomes(r, a, x)
    PROVE  AttemptChanged(r, t, a.node, x)
<1>1. r.nodes[a.node] \in NodeState
  BY DEF Run
<1>2. PICK node : node = [r.nodes[a.node] EXCEPT !.last = x]
  OBVIOUS
<1>3. /\ node \in NodeState /\ node.status = r.nodes[a.node].status /\ node.last = x
      /\ node.attempts = r.nodes[a.node].attempts
  BY <1>1, <1>2 DEF NodeState
<1>4. t = Updated(r, a, node)
  BY <1>2 DEF AttemptBecomes, NodeOf
<1> QED  BY <1>3, <1>4, OneUpdated DEF AttemptChanged

\* The current attempt of a running node, in a run that is not over.
Runs(r, e) ==
    /\ r.status \notin TerminalRun
    /\ r.nodes[e[1]].status = "running" /\ r.nodes[e[1]].attempts = e[2]
    /\ r.nodes[e[1]].last.status = "running"

\* A timeout is requested of an attempt that runs and has none.
LEMMA TimeoutEffect ==
    ASSUME NEW r \in Run, NEW e \in Execution
    PROVE  LET batch == <<AttemptEvent("AttemptTimeoutRequested", e)>>
           IN /\ \A t \in Materialized(r, batch) :
                    AttemptChanged(r, t, e[1], [r.nodes[e[1]].last EXCEPT !.timeout = "requested"])
              /\ Runs(r, e) /\ r.nodes[e[1]].last.timeout = "none" => Materialized(r, batch) # {}
<1>1. PICK a : a = AttemptEvent("AttemptTimeoutRequested", e)
  OBVIOUS
<1>2. a.type = "AttemptTimeoutRequested" /\ a.node = e[1] /\ a.attempt = e[2]
  BY <1>1 DEF AttemptEvent
<1>3. e[1] \in Node /\ r.nodes[e[1]].last \in Attempt
  BY DEF Execution, Run, NodeState
<1>4. PICK x : x = [r.nodes[e[1]].last EXCEPT !.timeout = "requested"]
  OBVIOUS
<1>5. x \in Attempt
  BY <1>3, <1>4 DEF Attempt
<1>6. Materialized(r, <<a>>) = Applied(r, a)
  BY OneEvent
<1>7. ASSUME NEW t \in Applied(r, a) PROVE AttemptChanged(r, t, e[1], x)
  <2>1. t = AttemptBecomes(r, a, x)
    BY <1>2, <1>4 DEF Applied, AttemptTimeoutRequested, When, NodeOf
  <2> QED  BY <1>2, <1>3, <1>5, <2>1, AttemptUpdated
<1>8. Runs(r, e) /\ r.nodes[e[1]].last.timeout = "none" => Applied(r, a) # {}
  BY <1>2 DEF Runs, Applied, AttemptTimeoutRequested, When, NodeOf, NodeIn, CurrentAttempt
<1> QED  BY <1>1, <1>4, <1>6, <1>7, <1>8

\* Its cancellation ends.
LEMMA CancellationEffect ==
    ASSUME NEW r \in Run, NEW e \in Execution, NEW answer \in CancellationOutcome
    PROVE  LET batch == <<[type |-> "AttemptCancellationCompleted", node |-> e[1], attempt |-> e[2],
                           outcome |-> answer]>>
           IN /\ \A t \in Materialized(r, batch) :
                    AttemptChanged(r, t, e[1], [r.nodes[e[1]].last EXCEPT !.timeout = answer])
              /\ Runs(r, e) /\ r.nodes[e[1]].last.timeout = "requested" => Materialized(r, batch) # {}
<1>1. PICK a : a = [type |-> "AttemptCancellationCompleted", node |-> e[1], attempt |-> e[2], outcome |-> answer]
  OBVIOUS
<1>2. a.type = "AttemptCancellationCompleted" /\ a.node = e[1] /\ a.attempt = e[2] /\ a.outcome = answer
  BY <1>1
<1>3. e[1] \in Node /\ r.nodes[e[1]].last \in Attempt
  BY DEF Execution, Run, NodeState
<1>4. PICK x : x = [r.nodes[e[1]].last EXCEPT !.timeout = answer]
  OBVIOUS
<1>5. x \in Attempt
  BY <1>3, <1>4 DEF Attempt
<1>6. Materialized(r, <<a>>) = Applied(r, a)
  BY OneEvent
<1>7. ASSUME NEW t \in Applied(r, a) PROVE AttemptChanged(r, t, e[1], x)
  <2>1. t = AttemptBecomes(r, a, x)
    BY <1>2, <1>4 DEF Applied, AttemptCancellationCompleted, When, NodeOf
  <2> QED  BY <1>2, <1>3, <1>5, <2>1, AttemptUpdated
<1>8. Runs(r, e) /\ r.nodes[e[1]].last.timeout = "requested" => Applied(r, a) # {}
  BY <1>2 DEF Runs, Applied, AttemptCancellationCompleted, When, NodeOf, CurrentAttempt
<1> QED  BY <1>1, <1>4, <1>6, <1>7, <1>8

\* A late result, and an event of the runtime, are only recorded.
LEMMA RecordedEffect ==
    ASSUME NEW r \in Run, NEW e \in Execution
    PROVE  /\ \A t \in Materialized(r, <<[type |-> "LateResultObserved", node |-> e[1], attempt |-> e[2]]>>) :
                 AttemptChanged(r, t, e[1], [r.nodes[e[1]].last EXCEPT !.late = TRUE])
           /\ \A usage \in BOOLEAN :
                 \A t \in Materialized(r, <<[type |-> "RuntimeEventObserved", node |-> e[1], attempt |-> e[2],
                                             usage |-> usage]>>) :
                    AttemptChanged(r, t, e[1], [r.nodes[e[1]].last EXCEPT !.usage = @ \/ usage])
<1>1. e[1] \in Node /\ r.nodes[e[1]].last \in Attempt
  BY DEF Execution, Run, NodeState
<1>2. ASSUME NEW t \in Materialized(r, <<[type |-> "LateResultObserved", node |-> e[1], attempt |-> e[2]]>>)
      PROVE  AttemptChanged(r, t, e[1], [r.nodes[e[1]].last EXCEPT !.late = TRUE])
  <2>1. PICK a : a = [type |-> "LateResultObserved", node |-> e[1], attempt |-> e[2]]
    OBVIOUS
  <2>2. a.type = "LateResultObserved" /\ a.node = e[1] /\ a.attempt = e[2]
    BY <2>1
  <2>3. PICK x : x = [r.nodes[e[1]].last EXCEPT !.late = TRUE]
    OBVIOUS
  <2>4. x \in Attempt
    BY <1>1, <2>3 DEF Attempt
  <2>5. t \in Applied(r, a)
    BY <1>2, <2>1, OneEvent
  <2>6. t = AttemptBecomes(r, a, x)
    BY <2>2, <2>3, <2>5 DEF Applied, LateResultObserved, When, NodeOf
  <2> QED  BY <1>1, <2>2, <2>3, <2>4, <2>6, AttemptUpdated
<1>3. ASSUME NEW usage \in BOOLEAN,
             NEW t \in Materialized(r, <<[type |-> "RuntimeEventObserved", node |-> e[1], attempt |-> e[2],
                                          usage |-> usage]>>)
      PROVE  AttemptChanged(r, t, e[1], [r.nodes[e[1]].last EXCEPT !.usage = @ \/ usage])
  <2>1. PICK a : a = [type |-> "RuntimeEventObserved", node |-> e[1], attempt |-> e[2], usage |-> usage]
    OBVIOUS
  <2>2. a.type = "RuntimeEventObserved" /\ a.node = e[1] /\ a.attempt = e[2] /\ a.usage = usage
    BY <2>1
  <2>3. PICK x : x = [r.nodes[e[1]].last EXCEPT !.usage = @ \/ usage]
    OBVIOUS
  <2>4. x \in Attempt
    BY <1>1, <2>3 DEF Attempt
  <2>5. t \in Applied(r, a)
    BY <1>3, <2>1, OneEvent
  <2>6. t = AttemptBecomes(r, a, x)
    BY <2>2, <2>3, <2>5 DEF Applied, RuntimeEventObserved, When, NodeOf
  <2> QED  BY <1>1, <2>2, <2>3, <2>4, <2>6, AttemptUpdated
<1> QED  BY <1>2, <1>3

\* A failed attempt; its node still runs.
LEMMA FailedEffect ==
    ASSUME NEW r \in Run, NEW e \in Execution, NEW exhausted,
           NEW t \in Materialized(r, <<[type |-> "AttemptFailed", node |-> e[1], attempt |-> e[2],
                                        exhausted |-> exhausted]>>)
    PROVE  /\ AttemptChanged(r, t, e[1], [r.nodes[e[1]].last EXCEPT !.status = "failed"])
           /\ r.nodes[e[1]].last.timeout # "none" => exhausted
<1>1. e[1] \in Node /\ r.nodes[e[1]].last \in Attempt
  BY DEF Execution, Run, NodeState
<1>2. PICK a : a = [type |-> "AttemptFailed", node |-> e[1], attempt |-> e[2], exhausted |-> exhausted]
  OBVIOUS
<1>3. a.type = "AttemptFailed" /\ a.node = e[1] /\ a.exhausted = exhausted
  BY <1>2
<1>4. PICK x : x = [r.nodes[e[1]].last EXCEPT !.status = "failed"]
  OBVIOUS
<1>5. x \in Attempt
  BY <1>1, <1>4 DEF Attempt, AttemptStatus
<1>6. t \in Applied(r, a)
  BY <1>2, OneEvent
<1>7. t = AttemptBecomes(r, a, x) /\ (r.nodes[e[1]].last.timeout # "none" => exhausted)
  BY <1>3, <1>4, <1>6 DEF Applied, AttemptFailed, When, NodeOf
<1> QED  BY <1>1, <1>3, <1>4, <1>5, <1>7, AttemptUpdated

\* The node of a failed attempt has failed as well.
LEMMA NodeFailedEffect ==
    ASSUME NEW r \in Run, NEW n \in Node,
           NEW t \in Materialized(r, <<NodeEvent("NodeFailed", n)>>)
    PROVE  /\ OnlyNode(r, t, n) /\ r.nodes[n].status = "running"
           /\ t.nodes[n].status = "failed" /\ t.nodes[n].attempts = r.nodes[n].attempts
<1>1. r.nodes[n] \in NodeState
  BY DEF Run
<1>2. PICK a : a = NodeEvent("NodeFailed", n)
  OBVIOUS
<1>3. a.type = "NodeFailed" /\ a.node = n
  BY <1>2 DEF NodeEvent
<1>4. PICK node : node = [r.nodes[n] EXCEPT !.status = "failed"]
  OBVIOUS
<1>5. node \in NodeState /\ node.status = "failed" /\ node.attempts = r.nodes[n].attempts
  BY <1>1, <1>4 DEF NodeState, NodeStatus
<1>6. t \in Applied(r, a)
  BY <1>2, OneEvent
<1>7. t = Updated(r, a, node) /\ r.nodes[n].status = "running"
  BY <1>3, <1>4, <1>6 DEF Applied, NodeEnded, When, NodeBecomes, NodeOf, NodeIn
<1> QED  BY <1>3, <1>5, <1>7, OneUpdated

-----------------------------------------------------------------------------
(* The batches of the engine *)

\* Two events are a batch, and what spares some nodes spares none of none.
LEMMA EasingTwo ==
    ASSUME NEW e, NEW g, NEW spared, Easing(e), Easing(g),
           e.type \in EasingNode => e.node \notin spared, g.type \in EasingNode => g.node \notin spared
    PROVE  EasingBatch(<<e, g>>, spared)
<1> PICK b : b = <<e, g>>
  OBVIOUS
<1>1. b \in Seq({e, g}) /\ Len(b) = 2 /\ b[1] = e /\ b[2] = g
  OBVIOUS
<1>2. \A i \in 1..Len(b) : b[i] = e \/ b[i] = g
  BY <1>1
<1> QED  BY <1>1, <1>2 DEF EasingBatch

\* What spares some nodes spares none in particular.
LEMMA EasingFewer ==
    ASSUME NEW b, NEW spared, EasingBatch(b, spared)
    PROVE  EasingBatch(b, {})
BY DEF EasingBatch

\* What makes nodes ready, and the events that precede it in a new run.
Readying(e) ==
    /\ Easing(e)
    /\ e.type \in {"RuntimeNegotiated", "WorkspaceAssigned", "NodeReady"}

NodeReadied(a, b) == b = a \/ (a.status = "pending" /\ b.status = "ready" /\ b.attempts = a.attempts)

Readied(r, t) ==
    /\ t \in Run /\ t.status = r.status /\ t.configured = r.configured
    /\ \A n \in Node : NodeReadied(r.nodes[n], t.nodes[n])

\* A batch of NodeReady events readies nodes.
LEMMA BatchReadies ==
    ASSUME NEW r \in Run, NEW batch, Len(batch) \in Nat, \A i \in 1..Len(batch) : Readying(batch[i]),
           NEW t \in Materialized(r, batch)
    PROVE  Readied(r, t)
<1> DEFINE S == {s \in Run : Readied(r, s)}
<1>1. r \in S
  BY DEF Readied, NodeReadied
<1>2. ASSUME NEW i \in 1..Len(batch), NEW s \in S, NEW u \in Applied(s, batch[i]) PROVE u \in S
  <2>1. PICK e : e = batch[i]
    OBVIOUS
  <2>2. Readying(e) /\ Easing(e) /\ u \in Applied(s, e)
    BY <1>2, <2>1 DEF Readying
  <2>3. CASE e.type \in {"RuntimeNegotiated", "WorkspaceAssigned"}
    BY <2>2, <2>3, RunEvent DEF EasingRun, Readied
  <2>4. CASE e.type = "NodeReady"
    <3>1. PICK old : old = NodeOf(s, e)
      OBVIOUS
    <3>2. e.node \in Node /\ old \in NodeState /\ old = s.nodes[e.node]
      BY <2>2, <2>4, <3>1 DEF Easing, EasingNode, NodeOf, Run
    <3>3. PICK node : node = [old EXCEPT !.status = "ready", !.pause = "none"]
      OBVIOUS
    <3>4. u = Updated(s, e, node) /\ old.status = "pending"
      BY <2>2, <2>4, <3>1, <3>3 DEF Applied, NodeReady, When, Easing, NodeIn
    <3>5. node \in NodeState /\ node.attempts = old.attempts /\ node.status = "ready"
      BY <3>2, <3>3 DEF NodeState, NodeStatus
    <3>6. OnlyNode(s, u, e.node) /\ u.nodes[e.node] = node
      BY <3>2, <3>4, <3>5, OneUpdated
    <3>7. \A n \in Node : NodeReadied(r.nodes[n], s.nodes[n])
      BY DEF Readied
    <3>8. ASSUME NEW n \in Node PROVE NodeReadied(r.nodes[n], u.nodes[n])
      BY <3>2, <3>4, <3>5, <3>6, <3>7 DEF NodeReadied, OnlyNode
    <3> QED  BY <3>6, <3>8 DEF Readied, OnlyNode
  <2> QED  BY <2>2, <2>3, <2>4 DEF Readying
<1> HIDE DEF S
<1>3. Materialized(r, batch) \subseteq S
  BY <1>1, <1>2, BatchPreserves
<1> QED  BY <1>3 DEF S

\* The events of ReadyBatch.
LEMMA ReadyBatchEvents ==
    ASSUME NEW S \in SUBSET Node, NEW reason, NEW b, b = ReadyBatch(S, reason)
    PROVE  /\ Len(b) \in Nat /\ Len(b) = Len(InOrder(S))
           /\ \E T : b \in Seq(T)
           /\ \A i \in 1..Len(b) : /\ b[i].type = "NodeReady" /\ b[i].reason = reason
                                   /\ b[i].node = InOrder(S)[i] /\ b[i].node \in S
<1>1. b = [i \in DOMAIN InOrder(S) |-> [type |-> "NodeReady", node |-> InOrder(S)[i], reason |-> reason]]
  BY DEF ReadyBatch, ForNodes
<1>2. InOrder(S) \in Seq(S) /\ Len(InOrder(S)) \in Nat /\ DOMAIN InOrder(S) = 1..Len(InOrder(S))
  BY InOrderMembers
<1>3. b \in Seq({b[i] : i \in DOMAIN InOrder(S)}) /\ DOMAIN b = DOMAIN InOrder(S)
  BY <1>1, <1>2
<1>4. Len(b) \in Nat /\ DOMAIN b = 1..Len(b) /\ Len(b) = Len(InOrder(S))
  BY <1>2, <1>3
<1>5. ASSUME NEW i \in 1..Len(b)
      PROVE  /\ b[i].type = "NodeReady" /\ b[i].reason = reason
             /\ b[i].node = InOrder(S)[i] /\ b[i].node \in S
  <2>1. InOrder(S)[i] \in S
    BY <1>2, <1>4
  <2>2. b[i] = [type |-> "NodeReady", node |-> InOrder(S)[i], reason |-> reason]
    BY <1>1, <1>2, <1>4
  <2> QED  BY <2>1, <2>2
<1> QED  BY <1>3, <1>4, <1>5

\* So does what findExecutableNodes has appended.
LEMMA ReadyEffect ==
    ASSUME NEW r \in Run, NEW S \in SUBSET Node,
           NEW t \in Materialized(r, ReadyBatch(S, "dependencies-satisfied"))
    PROVE  Readied(r, t)
<1>1. PICK b : b = ReadyBatch(S, "dependencies-satisfied")
  OBVIOUS
<1>2. /\ Len(b) \in Nat
      /\ \A i \in 1..Len(b) : /\ b[i].type = "NodeReady" /\ b[i].reason = "dependencies-satisfied"
                              /\ b[i].node \in S
  BY <1>1, ReadyBatchEvents
<1>3. ASSUME NEW i \in 1..Len(b) PROVE Readying(b[i])
  BY <1>2 DEF Readying, Easing, EasingNode
<1> QED  BY <1>1, <1>2, <1>3, BatchReadies

\* The first batch of a run.
LEMMA CreatedEffect ==
    ASSUME NEW r \in Run, NEW S \in SUBSET Node, NEW x, NEW y, NEW a, NEW b,
           x.type = "RuntimeNegotiated", y.type = "WorkspaceAssigned",
           a = <<x, y>>, b = ReadyBatch(S, "dependencies-satisfied"), NEW t \in Materialized(r, a \o b)
    PROVE  Readied(r, t)
<1>2. /\ Len(b) \in Nat
      /\ \E T : b \in Seq(T)
      /\ \A i \in 1..Len(b) : /\ b[i].type = "NodeReady" /\ b[i].reason = "dependencies-satisfied"
                              /\ b[i].node \in S
  BY ReadyBatchEvents
<1>3. ASSUME NEW i \in 1..Len(b) PROVE Readying(b[i])
  BY <1>2 DEF Readying, Easing, EasingNode
<1>4. a \in Seq({x, y}) /\ Len(a) = 2 /\ a[1] = x /\ a[2] = y /\ Readying(x) /\ Readying(y)
  BY DEF Readying, Easing, EasingRun, EasingNode
<1>5. PICK U : a \in Seq(U) /\ b \in Seq(U)
  <2>1. PICK T : b \in Seq(T)
    BY <1>2
  <2>2. a \in Seq(T \cup {x, y}) /\ b \in Seq(T \cup {x, y})
    BY <1>4, <2>1
  <2> QED  BY <2>2
<1>6. PICK c : c = a \o b
  OBVIOUS
<1>7. Len(c) = 2 + Len(b)
  BY <1>2, <1>4, <1>5, <1>6
<1>8. ASSUME NEW i \in 1..Len(c) PROVE Readying(c[i])
  <2>1. (i = 1 /\ c[i] = a[1]) \/ (i = 2 /\ c[i] = a[2]) \/ (i - 2 \in 1..Len(b) /\ c[i] = b[i - 2])
    BY <1>2, <1>4, <1>5, <1>6, <1>7
  <2> QED  BY <1>3, <1>4, <2>1
<1>9. Len(c) \in Nat
  BY <1>2, <1>7
<1> QED  BY <1>6, <1>8, <1>9, BatchReadies

\* A retry: its node may become ready, and nothing else happens.
LEMMA RetryEffect ==
    ASSUME NEW r \in Run, NEW n \in Node, NEW t \in Materialized(r, ReadyBatch({n}, "retry"))
    PROVE  /\ OnlyNode(r, t, n) /\ t.nodes[n].attempts = r.nodes[n].attempts
           /\ t.nodes[n].status \in {r.nodes[n].status, "ready"}
<1> DEFINE S == {s \in Run : /\ OnlyNode(r, s, n) /\ s.nodes[n].attempts = r.nodes[n].attempts
                             /\ s.nodes[n].status \in {r.nodes[n].status, "ready"}}
<1>1. PICK b : b = ReadyBatch({n}, "retry")
  OBVIOUS
<1>2. /\ Len(b) \in Nat
      /\ \A i \in 1..Len(b) : b[i].type = "NodeReady" /\ b[i].node = n
  <2>1. PICK N : N = {n}
    OBVIOUS
  <2>2. N \in SUBSET Node /\ b = ReadyBatch(N, "retry")
    BY <1>1, <2>1
  <2>3. Len(b) \in Nat /\ \A i \in 1..Len(b) : b[i].type = "NodeReady" /\ b[i].node \in N
    BY <2>2, ReadyBatchEvents
  <2> QED  BY <2>1, <2>3
<1>3. r \in S
  BY DEF OnlyNode
<1>4. ASSUME NEW i \in 1..Len(b), NEW s \in S, NEW u \in Applied(s, b[i]) PROVE u \in S
  <2>1. PICK e : e = b[i]
    OBVIOUS
  <2>2. e.type = "NodeReady" /\ e.node = n /\ u \in Applied(s, e)
    BY <1>2, <1>4, <2>1
  <2>3. PICK node : node = [s.nodes[n] EXCEPT !.status = "ready", !.pause = "none"]
    OBVIOUS
  <2>4. u = Updated(s, e, node)
    BY <2>2, <2>3 DEF Applied, NodeReady, When, NodeOf
  <2>5. s.nodes[n] \in NodeState
    BY DEF Run
  <2>6. node \in NodeState /\ node.attempts = s.nodes[n].attempts /\ node.status = "ready"
    BY <2>3, <2>5 DEF NodeState, NodeStatus
  <2>7. OnlyNode(s, u, n) /\ u.nodes[n] = node
    BY <2>2, <2>4, <2>6, OneUpdated
  <2> QED  BY <2>6, <2>7 DEF OnlyNode
<1> HIDE DEF S
<1>5. Materialized(r, b) \subseteq S
  BY <1>2, <1>3, <1>4, BatchPreserves
<1> QED  BY <1>1, <1>5 DEF S

\* An event, and an event about a node, that ease.
LEMMA EasingEvents ==
    ASSUME NEW e \in Execution, NEW n \in Node
    PROVE  /\ \A type \in {"AttemptBlocked", "AttemptCancelled", "AttemptSucceeded"} :
                 /\ Easing(AttemptEvent(type, e)) /\ AttemptEvent(type, e).type = type
                 /\ AttemptEvent(type, e).node = e[1]
           /\ \A type \in {"NodeBlocked", "NodeCancelled", "NodeSucceeded"} :
                 /\ Easing(NodeEvent(type, n)) /\ NodeEvent(type, n).type = type
                 /\ NodeEvent(type, n).node = n
           /\ \A type \in {"RunBlocked"} : Easing([type |-> type])
           /\ Easing([type |-> "RunCancelled", durable |-> FALSE])
           /\ \A o \in {"succeeded", "failed"} : Easing([type |-> "RunCompleted", outcome |-> o])
<1>1. e[1] \in Node
  BY DEF Execution
<1>2. ASSUME NEW type \in {"AttemptBlocked", "AttemptCancelled", "AttemptSucceeded"}
      PROVE  Easing(AttemptEvent(type, e)) /\ AttemptEvent(type, e).type = type
             /\ AttemptEvent(type, e).node = e[1]
  BY <1>1 DEF Easing, EasingNode, EasingRun, AttemptEvent
<1>3. ASSUME NEW type \in {"NodeBlocked", "NodeCancelled", "NodeSucceeded"}
      PROVE  Easing(NodeEvent(type, n)) /\ NodeEvent(type, n).type = type /\ NodeEvent(type, n).node = n
  BY DEF Easing, EasingNode, EasingRun, NodeEvent
<1>4. \A type \in {"RunBlocked"} : Easing([type |-> type])
  BY DEF Easing, EasingNode, EasingRun
<1>5. Easing([type |-> "RunCancelled", durable |-> FALSE])
  BY DEF Easing, EasingNode, EasingRun
<1>6. \A o \in {"succeeded", "failed"} : Easing([type |-> "RunCompleted", outcome |-> o])
  BY DEF Easing, EasingNode, EasingRun
<1> QED  BY <1>2, <1>3, <1>4, <1>5, <1>6

\* Three batches one after the other.
LEMMA EasingThree ==
    ASSUME NEW a, NEW b, NEW c, NEW spared,
           EasingBatch(a, spared), EasingBatch(b, spared), EasingBatch(c, spared)
    PROVE  EasingBatch(a \o b \o c, spared)
<1>1. EasingBatch(a \o b, spared)
  BY EasingJoined
<1> QED  BY <1>1, EasingJoined

\* What ends a run, or an attempt with success.
LEMMA EndingBatches ==
    ASSUME NEW v, NEW e \in Execution
    PROVE  /\ EasingBatch(<<AttemptEvent("AttemptBlocked", e), NodeEvent("NodeBlocked", e[1])>>
                          \o BlockOthers(v, e[1]) \o <<[type |-> "RunBlocked"]>>, {})
           /\ EasingBatch(<<AttemptEvent("AttemptCancelled", e), NodeEvent("NodeCancelled", e[1])>>
                          \o CancelOthers(v, e[1]) \o <<[type |-> "RunCancelled", durable |-> FALSE]>>, {})
           /\ EasingBatch(BlockOthers(v, e[1]) \o <<[type |-> "RunCompleted", outcome |-> "failed"]>>, {e[1]})
           /\ EasingBatch(<<[type |-> "RunCompleted", outcome |-> "succeeded"]>>, Node)
           /\ EasingBatch(<<AttemptEvent("AttemptSucceeded", e), NodeEvent("NodeSucceeded", e[1])>>, {})
<1>1. e[1] \in Node
  BY DEF Execution
<1>2. EasingBatch(BlockOthers(v, e[1]), {e[1]}) /\ EasingBatch(CancelOthers(v, e[1]), {e[1]})
  BY EasingForNodes
<1>3. EasingBatch(BlockOthers(v, e[1]), {}) /\ EasingBatch(CancelOthers(v, e[1]), {})
  BY <1>2, EasingFewer
<1>4. /\ EasingBatch(<<AttemptEvent("AttemptBlocked", e), NodeEvent("NodeBlocked", e[1])>>, {})
      /\ EasingBatch(<<AttemptEvent("AttemptCancelled", e), NodeEvent("NodeCancelled", e[1])>>, {})
      /\ EasingBatch(<<AttemptEvent("AttemptSucceeded", e), NodeEvent("NodeSucceeded", e[1])>>, {})
  <2>1. \A a, b : Easing(a) /\ Easing(b) => EasingBatch(<<a, b>>, {})
    BY EasingTwo
  <2> QED  BY <1>1, <2>1, EasingEvents
<1>5. EasingBatch(<<[type |-> "RunBlocked"]>>, {})
  <2>1. PICK a : a = [type |-> "RunBlocked"]
    OBVIOUS
  <2>2. Easing(a) /\ a.type = "RunBlocked"
    BY <2>1 DEF Easing, EasingRun, EasingNode
  <2>3. EasingBatch(<<a>>, {})
    BY <2>2, EasingOne
  <2> QED  BY <2>1, <2>3
<1>6. EasingBatch(<<[type |-> "RunCancelled", durable |-> FALSE]>>, {})
  <2>1. PICK a : a = [type |-> "RunCancelled", durable |-> FALSE]
    OBVIOUS
  <2>2. Easing(a) /\ a.type = "RunCancelled"
    BY <2>1 DEF Easing, EasingRun, EasingNode
  <2>3. EasingBatch(<<a>>, {})
    BY <2>2, EasingOne
  <2> QED  BY <2>1, <2>3
<1>7. ASSUME NEW o \in {"succeeded", "failed"}, NEW spared
      PROVE  EasingBatch(<<[type |-> "RunCompleted", outcome |-> o]>>, spared)
  <2>1. PICK a : a = [type |-> "RunCompleted", outcome |-> o]
    OBVIOUS
  <2>2. Easing(a) /\ a.type = "RunCompleted"
    BY <2>1 DEF Easing, EasingRun, EasingNode
  <2>3. a.type \notin EasingNode
    BY <2>2 DEF EasingNode
  <2>4. EasingBatch(<<a>>, spared)
    BY <2>2, <2>3, EasingOne
  <2> QED  BY <2>1, <2>4
<1>8. EasingBatch(<<AttemptEvent("AttemptBlocked", e), NodeEvent("NodeBlocked", e[1])>>
                  \o BlockOthers(v, e[1]) \o <<[type |-> "RunBlocked"]>>, {})
  BY <1>3, <1>4, <1>5, EasingThree, Zenon
<1>9. EasingBatch(<<AttemptEvent("AttemptCancelled", e), NodeEvent("NodeCancelled", e[1])>>
                  \o CancelOthers(v, e[1]) \o <<[type |-> "RunCancelled", durable |-> FALSE]>>, {})
  BY <1>3, <1>4, <1>6, EasingThree, Zenon
<1>10. EasingBatch(BlockOthers(v, e[1]) \o <<[type |-> "RunCompleted", outcome |-> "failed"]>>, {e[1]})
  <2>1. EasingBatch(<<[type |-> "RunCompleted", outcome |-> "failed"]>>, {e[1]})
    BY <1>7
  <2> QED  BY <1>2, <2>1, EasingJoined, Zenon
<1>11. EasingBatch(<<[type |-> "RunCompleted", outcome |-> "succeeded"]>>, Node)
  BY <1>7
<1> QED  BY <1>4, <1>8, <1>9, <1>10, <1>11

\* Attempt and node succeed, and no other node changes.
LEMMA SucceededNode ==
    ASSUME NEW r \in Run, NEW e \in Execution,
           NEW t \in Materialized(r, <<AttemptEvent("AttemptSucceeded", e), NodeEvent("NodeSucceeded", e[1])>>)
    PROVE  OnlyNode(r, t, e[1]) /\ t.nodes[e[1]].status = "succeeded"
<1>1. e[1] \in Node
  BY DEF Execution
<1>2. PICK a, b : a = AttemptEvent("AttemptSucceeded", e) /\ b = NodeEvent("NodeSucceeded", e[1])
  OBVIOUS
<1>3. /\ Easing(a) /\ a.type = "AttemptSucceeded" /\ a.node = e[1]
      /\ Easing(b) /\ b.type = "NodeSucceeded" /\ b.node = e[1]
  BY <1>1, <1>2, EasingEvents
<1>4. PICK s \in Applied(r, a) : t \in Applied(s, b)
  BY <1>2, TwoEvents
<1>5. OnlyNode(r, s, e[1])
  BY <1>3, <1>4, NodeEvents DEF EasingNode, OnlyNode
<1>6. OnlyNode(s, t, e[1])
  BY <1>3, <1>4, <1>5, NodeEvents DEF EasingNode, OnlyNode
<1>7. t.nodes[e[1]].status = "succeeded"
  <2>1. t = NodeBecomes(s, b, "succeeded")
    BY <1>3, <1>4 DEF Applied, NodeEnded, When
  <2>2. PICK node : node = [s.nodes[e[1]] EXCEPT !.status = "succeeded"]
    OBVIOUS
  <2>3. s \in Run /\ s.nodes[e[1]] \in NodeState
    BY <1>1, <1>5 DEF OnlyNode, Run
  <2>4. node \in NodeState /\ node.status = "succeeded"
    BY <2>2, <2>3 DEF NodeState, NodeStatus
  <2>5. t = Updated(s, b, node)
    BY <1>3, <2>1, <2>2 DEF NodeBecomes, NodeOf
  <2> QED  BY <1>1, <1>3, <2>3, <2>4, <2>5, OneUpdated
<1> QED  BY <1>5, <1>6, <1>7 DEF OnlyNode

-----------------------------------------------------------------------------
(* The invariant *)

\* Nobody started an attempt next to another, and no append failed.
Clean == faults \cap {"overlap", "append"} = {}

\* A node has an attempt that is not concluded.
Busy == {n \in Node : run.nodes[n].status \in {"running", "failed"}}

\* An execution has a worker, or may get one.
Threat(e) == worker[e] \in Running \/ op[e] = "starting"

Untouched(e) ==
    /\ op[e] = "none" /\ worker[e] = "none" /\ outcome[e] = "none" /\ cancelled[e] = "none"
    /\ ~expired[e]

\* A caller has an attempt, waits for its operation, or knows its result.
Holding == InAttempt \cup {"finish", "retry", "exhausted", "failing"}
Waiting == {"running", "expired", "requested", "cancelling", "late"}
Reporting == {"evidence", "capture", "diff", "finish"}
Outside == {"idle", "tick", "schedule"}

NodeAt(c) == run.nodes[at[c][1]]

RunSound ==
    /\ ~run.configured
    /\ \A n \in Node :
          /\ run.nodes[n].attempts <= Budget[n]
          /\ run.nodes[n].status = "pending" => run.nodes[n].attempts = 0
          /\ run.nodes[n].status = "ready" => run.nodes[n].attempts < Budget[n]

\* Only an attempt that was started has an operation.
ExecutionSound(e) ==
    /\ e[2] > run.nodes[e[1]].attempts => Untouched(e)
    /\ op[e] = "none" => Untouched(e)
    /\ op[e] = "starting" => worker[e] = "none" /\ cancelled[e] = "none"
    /\ cancelled[e] = "succeeded" => worker[e] = "stopped"

\* What a caller knows of its execution.
PlaceSound(c) ==
    LET e == at[c]
    IN /\ pc[c] \in {"context", "launch"} => op[e] = "none"
       /\ pc[c] = "command" => op[e] \in {"spawned", "terminated", "killed", "done"}
       /\ pc[c] \in {"command", "report"} /\ op[e] = "done" =>
             outcome[e] \in Results /\ worker[e] = "stopped"
       /\ pc[c] = "report" => op[e] = "done"
       /\ pc[c] \in Waiting => op[e] \notin {"none", "spawned", "terminated", "killed"}
       /\ pc[c] = "running" => ~expired[e] /\ op[e] \notin {"stopping", "returning"}
       /\ pc[c] = "running" /\ op[e] = "done" =>
             outcome[e] = "errored" \/ (outcome[e] \in Results /\ worker[e] = "stopped")
       /\ pc[c] = "cancelling" => cancelled[e] # "none"
       /\ pc[c] \in Reporting /\ unsafe[c] => result[c] \in {"failed", "exhausted"}
       /\ pc[c] \in {"schedule"} \cup (InAttempt \ Reporting) => ~unsafe[c] /\ result[c] = "failed"
       /\ pc[c] = "retry" => e[2] < Budget[e[1]]

TimeoutBy(c) ==
    LET t == NodeAt(c).last.timeout
    IN /\ pc[c] \in {"context", "launch", "command", "report", "running", "expired"} => t = "none"
       /\ pc[c] \in {"requested", "cancelling"} => t = "requested"
       /\ pc[c] = "late" => /\ t \in CancellationOutcome
                            /\ t = "succeeded" => cancelled[at[c]] = "succeeded"

\* And of the run, as long as nobody else appended.
Current(c) ==
    /\ pc[c] = "schedule" =>
          /\ run.status = "running" /\ NodeAt(c).status = "ready" /\ at[c][2] = NodeAt(c).attempts + 1
    /\ pc[c] \in Holding \cup {"advance", "complete"} => run.status = "running"
    /\ pc[c] \in Holding =>
          /\ NodeAt(c).attempts = at[c][2]
          /\ NodeAt(c).status = IF pc[c] = "failing" THEN "failed" ELSE "running"
          /\ pc[c] # "failing" =>
                NodeAt(c).last.status = IF pc[c] \in {"retry", "exhausted"} THEN "failed" ELSE "running"
          /\ TimeoutBy(c)

CallerSound(c) ==
    /\ pc[c] \in Holding => at[c][2] <= NodeAt(c).attempts
    /\ PlaceSound(c)
    /\ fresh[c] => Current(c)

Apart ==
    \A c, d \in Caller : pc[c] \in Holding /\ pc[d] \in Holding /\ at[c] = at[d] => c = d

NotCreated ==
    ~created => run = CreatedRun /\ \A c \in Caller : pc[c] = "idle"

\* Without a fault of either kind at most one attempt is not concluded, a worker belongs to it, and
\* so does the one caller that knows the run. What that caller reports as safe has no worker.
OneBusy == \A n, m \in Busy : n = m
Threatened == \A e \in Execution : Threat(e) => e[1] \in Busy /\ e[2] = run.nodes[e[1]].attempts
\* The error of a late start's collect is the one report of a timed out attempt that says nothing
\* of its worker.
Escaped(c) == pc[c] = "finish" /\ result[c] = "failed" /\ NodeAt(c).last.timeout # "none"
Sole(c) ==
    /\ fresh[c]
    /\ \A d \in Caller : fresh[d] /\ pc[d] \notin Outside => d = c
    /\ (pc[c] \in Reporting /\ ~unsafe[c] /\ ~Escaped(c)) \/ pc[c] = "retry" => ~Threat(at[c])

OneAttempt ==
    Clean => OneBusy /\ Threatened /\ \A c \in Caller : pc[c] \in Holding => Sole(c)

IInv ==
    /\ TypeOK /\ RunSound
    /\ \A e \in Execution : ExecutionSound(e)
    /\ \A c \in Caller : CallerSound(c)
    /\ Apart /\ NotCreated /\ OneAttempt

\* The invariant implies the property: a busy node is one, and its worker that of its latest attempt.
LEMMA OneWorkerOfInvariant == IInv => OneWorker
<1> SUFFICES ASSUME IInv, NEW e \in Execution, NEW f \in Execution, MayWork(e), MayWork(f), e # f, Clean
             PROVE  FALSE
  BY DEF OneWorker, Clean
<1>1. Threat(e) /\ Threat(f)
  BY DEF MayWork, Threat
<1>2. OneBusy /\ Threatened
  BY DEF IInv, OneAttempt
<1>3. e[1] = f[1] /\ e[2] = f[2]
  BY <1>1, <1>2 DEF OneBusy, Threatened
<1>4. e = <<e[1], e[2]>> /\ f = <<f[1], f[2]>>
  BY DEF Execution
<1> QED  BY <1>3, <1>4

\* An execution is a node and an attempt within its budget.
LEMMA ExecutionParts ==
    /\ \A e \in Execution : e = <<e[1], e[2]>> /\ e[1] \in Node /\ e[2] \in Nat /\ e[2] # 0 /\ e[2] <= Budget[e[1]]
    /\ \A n \in Node : \A k \in Nat : k # 0 /\ k <= Budget[n] => <<n, k>> \in Execution
    /\ \E e \in Execution : TRUE
<1>1. \A n \in Node : Budget[n] \in Nat /\ Budget[n] # 0
  BY EngineConstants
<1>2. \A n \in Node : \A k \in Nat : k # 0 /\ k <= Budget[n] => <<n, k>> \in Execution
  BY <1>1 DEF Execution
<1>3. ASSUME NEW e \in Execution
      PROVE  e = <<e[1], e[2]>> /\ e[1] \in Node /\ e[2] \in Nat /\ e[2] # 0 /\ e[2] <= Budget[e[1]]
  BY <1>1 DEF Execution
<1>4. PICK n \in Node : TRUE
  BY EngineConstants
<1>5. <<n, Budget[n]>> \in Execution
  BY <1>1, <1>2
<1> QED  BY <1>2, <1>3, <1>5

\* The types of what a run keeps of a node.
LEMMA RunParts ==
    ASSUME NEW r \in Run, NEW n \in Node
    PROVE  /\ r.nodes[n] \in NodeState /\ r.nodes[n].attempts \in Nat /\ r.nodes[n].status \in NodeStatus
           /\ r.nodes[n].last \in Attempt /\ r.status \in RunStatus
BY DEF Run, NodeState

\* Initially nothing has happened.
LEMMA Initially == Init => IInv
<1> SUFFICES ASSUME Init PROVE IInv
  OBVIOUS
<1>1. PICK f : f \in Execution
  BY ExecutionParts
<1>2. (CHOOSE e \in Execution : TRUE) \in Execution
  BY <1>1
<1>3. run \in Run
  BY DEF Init, CreatedRun, Run, NodeState, NoAttempt, Attempt, RunStatus, NodeStatus
<1>4. TypeOK
  <2>1. /\ pc \in [Caller -> Places] /\ fresh \in [Caller -> BOOLEAN]
        /\ result \in [Caller -> Results] /\ unsafe \in [Caller -> BOOLEAN]
    BY DEF Init, Places, Results
  <2>2. at \in [Caller -> Execution]
    BY <1>2 DEF Init
  <2>3. /\ op \in [Execution -> Ops] /\ outcome \in [Execution -> Outcomes]
        /\ expired \in [Execution -> BOOLEAN]
        /\ cancelled \in [Execution -> {"none", "pending", "succeeded", "failed"}]
        /\ worker \in [Execution -> Workers]
    BY DEF Init, Ops, Outcomes, Workers
  <2>4. created \in BOOLEAN /\ faults \subseteq Faults
    BY DEF Init
  <2>5. events \in 0..MaxEvents
    <3>1. events = 0 /\ MaxEvents \in Nat
      BY EngineConstants DEF Init
    <3> QED  BY <3>1
  <2> QED  BY <1>3, <2>1, <2>2, <2>3, <2>4, <2>5 DEF TypeOK
<1>5. \A n \in Node : run.nodes[n].attempts = 0 /\ run.nodes[n].status = "pending"
  BY DEF Init, CreatedRun
<1>6. RunSound
  BY <1>5, EngineConstants DEF Init, RunSound, CreatedRun
<1>7. \A e \in Execution : Untouched(e) /\ ~Threat(e)
  BY DEF Init, Untouched, Threat, Running
<1>8. \A e \in Execution : ExecutionSound(e)
  BY <1>7 DEF ExecutionSound, Untouched
<1>9. \A c \in Caller : pc[c] = "idle" /\ ~fresh[c]
  BY DEF Init
<1>10. \A c \in Caller : CallerSound(c)
  BY <1>9 DEF CallerSound, PlaceSound, Holding, InAttempt, Waiting, Reporting
<1>11. Apart /\ NotCreated
  BY <1>9 DEF Apart, NotCreated, Holding, InAttempt, Init
<1>12. Busy = {}
  BY <1>5 DEF Busy
<1>13. OneAttempt
  BY <1>7, <1>9, <1>12 DEF OneAttempt, OneBusy, Threatened, Holding, InAttempt
<1> QED  BY <1>4, <1>6, <1>8, <1>10, <1>11, <1>13 DEF IInv

-----------------------------------------------------------------------------
(* Steps of one caller, and of one execution *)

SameExecution(e) ==
    /\ op'[e] = op[e] /\ outcome'[e] = outcome[e] /\ expired'[e] = expired[e]
    /\ cancelled'[e] = cancelled[e] /\ worker'[e] = worker[e]

SameCaller(d) ==
    pc'[d] = pc[d] /\ at'[d] = at[d] /\ result'[d] = result[d] /\ unsafe'[d] = unsafe[d]

\* A caller moves: the others stay where they are, and their view of the run gets old if it appends;
\* executions change only if it holds one.
Moves(c) ==
    /\ created /\ created'
    /\ \A d \in Caller : d # c => SameCaller(d) /\ (fresh'[d] => fresh[d] /\ run' = run)
    /\ \A e \in Execution : (e # at[c] \/ pc[c] \notin Holding) => SameExecution(e)
    /\ \A n \in Node : run.nodes[n].attempts <= run'.nodes[n].attempts
    /\ faults \subseteq faults'
    /\ pc'[c] \in Holding =>
          /\ at'[c] = at[c]
          /\ pc[c] \in Holding \/ at[c][2] > run.nodes[at[c][1]].attempts

\* What is known of an execution that stays the same.
LEMMA SameSound ==
    ASSUME IInv, TypeOK', NEW e \in Execution, SameExecution(e),
           \A n \in Node : run.nodes[n].attempts <= run'.nodes[n].attempts
    PROVE  ExecutionSound(e)' /\ (Threat(e)' <=> Threat(e)) /\ (Untouched(e)' <=> Untouched(e))
<1>1. ExecutionSound(e) /\ TypeOK
  BY DEF IInv
<1>2. (Threat(e)' <=> Threat(e)) /\ (Untouched(e)' <=> Untouched(e))
  BY DEF SameExecution, Threat, Untouched
<1>3. e[1] \in Node /\ e[2] \in Nat
  BY ExecutionParts
<1>4. run.nodes[e[1]].attempts \in Nat /\ run'.nodes[e[1]].attempts \in Nat
  BY <1>1, <1>3, RunParts DEF TypeOK
<1>5. e[2] > run'.nodes[e[1]].attempts => e[2] > run.nodes[e[1]].attempts
  BY <1>3, <1>4
<1>6. op'[e] = op[e] /\ worker'[e] = worker[e] /\ cancelled'[e] = cancelled[e]
  BY DEF SameExecution
<1> QED  BY <1>1, <1>2, <1>5, <1>6 DEF ExecutionSound

\* So the others' part of the invariant holds after a move.
LEMMA OthersSound ==
    ASSUME IInv, TypeOK', NEW c \in Caller, Moves(c)
    PROVE  /\ \A d \in Caller : d # c => CallerSound(d)'
           /\ \A e \in Execution : e # at[c] \/ pc[c] \notin Holding => ExecutionSound(e)'
           /\ Apart' /\ NotCreated'
<1>1. TypeOK /\ Apart /\ \A d \in Caller : CallerSound(d)
  BY DEF IInv
<1>2. ASSUME NEW d \in Caller, d # c PROVE CallerSound(d)'
  <2>1. SameCaller(d) /\ (fresh'[d] => fresh[d] /\ run' = run)
    BY <1>2 DEF Moves
  <2>2. pc'[d] = pc[d] /\ at'[d] = at[d] /\ result'[d] = result[d] /\ unsafe'[d] = unsafe[d]
    BY <2>1 DEF SameCaller
  <2>3. at[d] \in Execution /\ at[d][1] \in Node /\ at[d][2] \in Nat
    BY <1>1, ExecutionParts DEF TypeOK
  <2>4. pc[d] \in Holding => SameExecution(at[d])
    BY <1>1, <1>2, <2>3 DEF Moves, Apart
  <2>5. PlaceSound(d)'
    <3>1. PlaceSound(d)
      BY <1>1 DEF CallerSound
    <3>2. CASE pc[d] \in Holding
      <4>1. /\ op'[at[d]] = op[at[d]] /\ outcome'[at[d]] = outcome[at[d]]
            /\ cancelled'[at[d]] = cancelled[at[d]] /\ worker'[at[d]] = worker[at[d]]
            /\ expired'[at[d]] = expired[at[d]]
        BY <2>4, <3>2 DEF SameExecution
      <4> QED  BY <2>2, <3>1, <4>1 DEF PlaceSound
    <3>3. CASE pc[d] \notin Holding
      BY <2>2, <3>1, <3>3 DEF PlaceSound, Holding, InAttempt, Waiting, Reporting
    <3> QED  BY <3>2, <3>3
  <2>6. pc'[d] \in Holding => at'[d][2] <= NodeAt(d)'.attempts
    <3>1. run.nodes[at[d][1]].attempts \in Nat /\ run'.nodes[at[d][1]].attempts \in Nat
      BY <1>1, <2>3, RunParts DEF TypeOK
    <3>2. run.nodes[at[d][1]].attempts <= run'.nodes[at[d][1]].attempts
      BY <2>3 DEF Moves
    <3>3. pc[d] \in Holding => at[d][2] <= run.nodes[at[d][1]].attempts
      BY <1>1 DEF CallerSound, NodeAt
    <3> QED  BY <2>2, <2>3, <3>1, <3>2, <3>3 DEF NodeAt
  <2>7. ASSUME fresh'[d] PROVE Current(d)'
    <3>1. Current(d) /\ run' = run
      BY <1>1, <2>1, <2>7 DEF CallerSound
    <3>2. pc[d] = "late" => cancelled'[at[d]] = cancelled[at[d]]
      BY <2>4 DEF Holding, InAttempt, SameExecution
    <3>3. NodeAt(d)' = NodeAt(d)
      BY <2>2, <3>1 DEF NodeAt
    <3>4. pc[d] \in Holding => TimeoutBy(d)'
      BY <2>2, <3>1, <3>2, <3>3 DEF Current, TimeoutBy
    <3> QED  BY <2>2, <3>1, <3>3, <3>4 DEF Current
  <2> QED  BY <2>5, <2>6, <2>7 DEF CallerSound
<1>3. ASSUME NEW e \in Execution, e # at[c] \/ pc[c] \notin Holding PROVE ExecutionSound(e)'
  BY <1>3, SameSound DEF Moves
<1>4. Apart'
  <2>1. ASSUME NEW d \in Caller, d # c, pc'[c] \in Holding, pc'[d] \in Holding, at'[c] = at'[d]
        PROVE  FALSE
    <3>1. pc[d] \in Holding /\ at[c] = at[d]
      BY <2>1 DEF Moves, SameCaller
    <3>2. pc[c] \notin Holding
      BY <1>1, <2>1, <3>1 DEF Apart
    <3>3. at[c][2] > run.nodes[at[c][1]].attempts
      BY <2>1, <3>2 DEF Moves
    <3>4. at[d][2] <= run.nodes[at[d][1]].attempts
      BY <1>1, <3>1 DEF CallerSound, NodeAt
    <3>5. at[d][1] \in Node /\ at[d][2] \in Nat /\ run.nodes[at[d][1]].attempts \in Nat
      BY <1>1, ExecutionParts, RunParts DEF TypeOK
    <3> QED  BY <3>1, <3>3, <3>4, <3>5
  <2>2. ASSUME NEW d \in Caller, NEW b \in Caller, d # c, b # c, pc'[d] \in Holding, pc'[b] \in Holding,
               at'[d] = at'[b]
        PROVE  d = b
    BY <1>1, <2>2 DEF Moves, SameCaller, Apart
  <2> QED  BY <2>1, <2>2 DEF Apart
<1>5. NotCreated'
  BY DEF Moves, NotCreated
<1> QED  BY <1>2, <1>3, <1>4, <1>5

\* A caller that holds an attempt moves.
LEMMA HolderMoves ==
    ASSUME IInv, TypeOK', RunSound', NEW c \in Caller, pc[c] \in Holding, Moves(c),
           NEW h \in Execution, h = at[c], ExecutionSound(h)', CallerSound(c)',
           Clean => Busy' \subseteq Busy,
           Clean' => /\ Threat(h)' => h[1] \in Busy' /\ h[2] = run'.nodes[h[1]].attempts
                     /\ pc'[c] \in Holding =>
                           /\ fresh'[c]
                           /\ (pc'[c] \in Reporting /\ ~unsafe'[c] /\ ~Escaped(c)') \/ pc'[c] = "retry" =>
                                 ~Threat(h)'
    PROVE  IInv'
<1>1. /\ \A d \in Caller : d # c => CallerSound(d)'
      /\ \A e \in Execution : e # h => ExecutionSound(e)'
      /\ Apart' /\ NotCreated'
  BY OthersSound
<1>2. OneAttempt'
  <2> SUFFICES ASSUME Clean'
               PROVE  OneBusy' /\ Threatened' /\ \A d \in Caller : pc'[d] \in Holding => Sole(d)'
    BY DEF OneAttempt, Holding, InAttempt
  <2>1. Clean
    BY DEF Clean, Moves
  <2>2. OneBusy /\ Threatened /\ Sole(c)
    BY <2>1 DEF IInv, OneAttempt
  <2>3. OneBusy'
    BY <2>1, <2>2 DEF OneBusy
  <2>4. h[1] \in Node /\ h[2] \in Nat
    BY ExecutionParts DEF IInv, TypeOK
  <2>5. h[1] \in Busy /\ h[2] = run.nodes[h[1]].attempts
    <3>1. Current(c)
      BY <2>2 DEF IInv, CallerSound, Sole
    <3> QED  BY <2>4, <3>1 DEF Current, NodeAt, Busy
  <2>6. ASSUME NEW e \in Execution, Threat(e) PROVE e = h
    <3>1. e[1] \in Busy /\ e[2] = run.nodes[e[1]].attempts
      BY <2>2, <2>6 DEF Threatened
    <3>2. e[1] = h[1]
      BY <2>2, <2>5, <3>1 DEF OneBusy
    <3>3. e = <<e[1], e[2]>> /\ h = <<h[1], h[2]>>
      BY <2>4, ExecutionParts
    <3> QED  BY <2>5, <3>1, <3>2, <3>3
  <2>7. ASSUME NEW e \in Execution, Threat(e)' PROVE e = h
    <3>1. CASE e # h
      <4>1. SameExecution(e)
        BY <3>1 DEF Moves
      <4>2. Threat(e)
        BY <2>7, <4>1 DEF SameExecution, Threat
      <4> QED  BY <2>6, <4>2
    <3> QED  BY <3>1
  <2>8. Threatened'
    BY <2>7 DEF Threatened
  <2>9. ASSUME NEW d \in Caller, pc'[d] \in Holding PROVE Sole(d)'
    <3>1. d = c
      <4> SUFFICES ASSUME d # c PROVE FALSE
        OBVIOUS
      <4>1. pc[d] \in Holding
        BY <2>9 DEF Moves, SameCaller
      <4>2. Sole(d) /\ pc[c] \notin Outside
        BY <2>1, <4>1 DEF IInv, OneAttempt, Holding, InAttempt, Outside
      <4> QED  BY <2>2, <4>2 DEF Sole
    <3>2. at'[c] = h
      BY <2>9, <3>1 DEF Moves
    <3>3. ASSUME NEW b \in Caller, fresh'[b], pc'[b] \notin Outside, b # c PROVE FALSE
      <4>1. fresh[b] /\ pc[b] \notin Outside
        BY <3>3 DEF Moves, SameCaller
      <4> QED  BY <2>2, <3>3, <4>1 DEF Sole
    <3> QED  BY <2>9, <3>1, <3>2, <3>3 DEF Sole, Escaped, NodeAt
  <2> QED  BY <2>3, <2>8, <2>9
<1>3. (\A e \in Execution : ExecutionSound(e)') /\ (\A d \in Caller : CallerSound(d)')
  BY <1>1
<1> QED  BY <1>1, <1>2, <1>3 DEF IInv

\* A caller that holds none moves, and leaves every execution as it is.
LEMMA OtherMoves ==
    ASSUME IInv, TypeOK', RunSound', NEW c \in Caller, pc[c] \notin Holding, pc'[c] \notin Holding, Moves(c),
           CallerSound(c)',
           Clean' => \/ /\ run' = run /\ \A d \in Caller : d # c => fresh'[d] = fresh[d]
                        /\ (pc'[c] \in Outside \/ (pc[c] \notin Outside /\ (fresh'[c] => fresh[c])))
                     \/ /\ fresh[c] /\ pc[c] \notin Outside
                        /\ Busy' = Busy /\ \A n \in Busy : run'.nodes[n].attempts = run.nodes[n].attempts
    PROVE  IInv'
<1>1. /\ \A d \in Caller : d # c => CallerSound(d)'
      /\ \A e \in Execution : ExecutionSound(e)'
      /\ Apart' /\ NotCreated'
  BY OthersSound
<1>2. OneAttempt'
  <2> SUFFICES ASSUME Clean'
               PROVE  OneBusy' /\ Threatened' /\ \A d \in Caller : pc'[d] \in Holding => Sole(d)'
    BY DEF OneAttempt, Holding, InAttempt
  <2>1. Clean
    BY DEF Clean, Moves
  <2>2. OneBusy /\ Threatened /\ \A d \in Caller : pc[d] \in Holding => Sole(d)
    BY <2>1 DEF IInv, OneAttempt
  <2>3. \A e \in Execution : SameExecution(e)
    BY DEF Moves
  <2>4. \A e \in Execution : Threat(e)' <=> Threat(e)
    BY <2>3 DEF SameExecution, Threat
  <2>5. Busy' = Busy /\ \A n \in Busy : run'.nodes[n].attempts = run.nodes[n].attempts
    BY <2>1 DEF Busy
  <2>6. OneBusy' /\ Threatened'
    BY <2>2, <2>4, <2>5 DEF OneBusy, Threatened
  <2>7. ASSUME NEW d \in Caller, pc'[d] \in Holding PROVE Sole(d)'
    <3>1. d # c /\ pc[d] \in Holding /\ at'[d] = at[d] /\ pc'[d] = pc[d] /\ unsafe'[d] = unsafe[d]
      BY <2>7 DEF Moves, SameCaller
    <3>2. Sole(d) /\ at[d] \in Execution
      BY <2>2, <3>1 DEF IInv, TypeOK
    <3>3. ~(fresh[c] /\ pc[c] \notin Outside)
      BY <3>1, <3>2 DEF Sole
    <3>4. run' = run /\ (pc'[c] \in Outside \/ (pc[c] \notin Outside /\ (fresh'[c] => fresh[c])))
      BY <3>3
    <3>5. fresh'[d]
      BY <3>1, <3>2, <3>3 DEF Sole
    <3> QED  BY <2>4, <3>1, <3>2, <3>3, <3>4, <3>5 DEF Sole, Escaped, NodeAt, Moves, SameCaller
  <2> QED  BY <2>6, <2>7
<1> QED  BY <1>1, <1>2 DEF IInv

\* An operation moves without its caller.
LEMMA ExecutionMoves ==
    ASSUME IInv, TypeOK', NEW h \in Execution,
           UNCHANGED <<created, run, callers, attempt, faults>>,
           \A e \in Execution : e # h => SameExecution(e),
           ExecutionSound(h)', Threat(h)' => Threat(h),
           \A c \in Caller : pc[c] \in Holding /\ at[c] = h =>
              /\ PlaceSound(c)'
              /\ cancelled[h] = "succeeded" => cancelled'[h] = "succeeded"
    PROVE  IInv'
<1> USE DEF callers, attempt
<1>1. TypeOK /\ RunSound /\ Apart /\ NotCreated /\ OneAttempt
      /\ (\A e \in Execution : ExecutionSound(e)) /\ (\A c \in Caller : CallerSound(c))
  BY DEF IInv
<1>2. RunSound' /\ Apart' /\ NotCreated'
  BY <1>1 DEF RunSound, Apart, NotCreated
<1>3. \A n \in Node : run.nodes[n].attempts <= run'.nodes[n].attempts
  <2> SUFFICES ASSUME NEW n \in Node PROVE run.nodes[n].attempts <= run'.nodes[n].attempts
    OBVIOUS
  <2>1. run.nodes[n].attempts \in Nat
    BY <1>1, RunParts DEF TypeOK
  <2> QED  BY <2>1
<1>4. ASSUME NEW e \in Execution PROVE ExecutionSound(e)' /\ (Threat(e)' => Threat(e))
  <2>1. CASE e = h
    BY <2>1
  <2>2. CASE e # h
    BY <1>3, <2>2, SameSound
  <2> QED  BY <2>1, <2>2
<1>5. ASSUME NEW c \in Caller PROVE CallerSound(c)'
  <2>1. CallerSound(c) /\ at[c] \in Execution
    BY <1>1 DEF TypeOK
  <2>2. pc[c] \in Holding =>
           PlaceSound(c)' /\ (cancelled[at[c]] = "succeeded" => cancelled'[at[c]] = "succeeded")
    <3>1. CASE at[c] = h
      BY <3>1
    <3>2. CASE at[c] # h
      <4>1. SameExecution(at[c])
        BY <2>1, <3>2
      <4> QED  BY <2>1, <4>1 DEF SameExecution, CallerSound, PlaceSound
    <3> QED  BY <3>1, <3>2
  <2>3. PlaceSound(c)'
    <3>1. CASE pc[c] \notin Holding
      BY <2>1, <3>1 DEF CallerSound, PlaceSound, Holding, InAttempt, Waiting, Reporting
    <3> QED  BY <2>2, <3>1
  <2>4. ASSUME fresh[c] PROVE Current(c)'
    <3>1. Current(c)
      BY <2>1, <2>4 DEF CallerSound
    <3>2. pc[c] \in Holding => TimeoutBy(c)'
      BY <2>2, <3>1 DEF Current, TimeoutBy, NodeAt
    <3> QED  BY <3>1, <3>2 DEF Current, NodeAt
  <2> QED  BY <2>1, <2>3, <2>4 DEF CallerSound, NodeAt
<1>6. OneAttempt'
  <2> SUFFICES ASSUME Clean
               PROVE  OneBusy' /\ Threatened' /\ \A d \in Caller : pc[d] \in Holding => Sole(d)'
    BY DEF OneAttempt, Clean
  <2>1. OneBusy /\ Threatened /\ \A d \in Caller : pc[d] \in Holding => Sole(d)
    BY <1>1 DEF OneAttempt
  <2>2. OneBusy' /\ Threatened'
    BY <1>4, <2>1 DEF OneBusy, Threatened, Busy
  <2>3. ASSUME NEW d \in Caller, pc[d] \in Holding PROVE Sole(d)'
    <3>1. PICK g \in Execution : g = at[d]
      BY <1>1 DEF TypeOK
    <3>2. Threat(g)' => Threat(g)
      BY <1>4
    <3> QED  BY <2>1, <2>3, <3>1, <3>2 DEF Sole, Escaped, NodeAt
  <2> QED  BY <2>2, <2>3
<1> QED  BY <1>2, <1>4, <1>5, <1>6 DEF IInv

\* The actions of an operation, one by one.
LEMMA StartResolvesStep == ASSUME IInv, NEW h \in Execution, StartResolves(h) PROVE IInv'
<1>1. TypeOK /\ ExecutionSound(h)
  BY DEF IInv
<1>2. /\ op[h] = "starting" /\ op'[h] \in {"stopping", "streaming"} /\ worker'[h] = "running"
      /\ cancelled'[h] \in {cancelled[h], "pending"} /\ outcome' = outcome /\ expired' = expired
      /\ op'[h] = "stopping" => expired[h]
      /\ \A e \in Execution : e # h => SameExecution(e)
      /\ op' \in [Execution -> Ops] /\ worker' \in [Execution -> Workers]
      /\ cancelled' \in [Execution -> {"none", "pending", "succeeded", "failed"}]
      /\ UNCHANGED <<created, run, callers, attempt, events, faults>>
  BY <1>1 DEF StartResolves, Cancelling, OpOnly, TypeOK, SameExecution, Ops, Workers
<1>3. TypeOK'
  BY <1>1, <1>2 DEF TypeOK, callers, attempt
<1>4. ExecutionSound(h)' /\ Threat(h)
  BY <1>1, <1>2 DEF ExecutionSound, Threat, Untouched
<1>5. \A c \in Caller : pc[c] \in Holding /\ at[c] = h => PlaceSound(c)'
  <2> SUFFICES ASSUME NEW c \in Caller, at[c] = h PROVE PlaceSound(c)'
    OBVIOUS
  <2>1. PlaceSound(c)
    BY DEF IInv, CallerSound
  <2> QED  BY <1>2, <2>1 DEF PlaceSound, callers, attempt
<1> QED  BY <1>1, <1>2, <1>3, <1>4, <1>5, ExecutionMoves DEF ExecutionSound

\* runtime.start rejects.
LEMMA StartRejectsStep == ASSUME IInv, NEW h \in Execution, StartRejects(h) PROVE IInv'
<1>1. TypeOK /\ ExecutionSound(h)
  BY DEF IInv
<1>2. /\ op[h] = "starting" /\ op'[h] = "done" /\ cancelled' = cancelled /\ expired' = expired
      /\ worker'[h] \in {"none", "leaked"} /\ outcome'[h] \in {"errored", "none"}
      /\ (\E c \in Caller : at[c] = h /\ pc[c] \in Waiting) => outcome'[h] = "errored"
      /\ \A e \in Execution : e # h => SameExecution(e)
      /\ UNCHANGED <<created, run, callers, attempt, faults>>
  BY <1>1 DEF StartRejects, Returns, Awaited, OpOnly, Waiting, TypeOK, SameExecution
<1>3. TypeOK'
  BY <1>1 DEF StartRejects, Returns, Awaited, OpOnly, Waiting, TypeOK, callers, attempt, Ops, Workers, Outcomes, Results
<1>4. ExecutionSound(h)' /\ (Threat(h)' => Threat(h))
  BY <1>1, <1>2 DEF ExecutionSound, Threat, Untouched, Running
<1>5. ASSUME NEW c \in Caller, pc[c] \in Holding, at[c] = h
      PROVE  PlaceSound(c)' /\ (cancelled[h] = "succeeded" => cancelled'[h] = "succeeded")
  <2>1. PlaceSound(c) /\ TypeOK
    BY DEF IInv, CallerSound
  <2> QED  BY <1>2, <1>5, <2>1 DEF PlaceSound, callers, attempt, Waiting
<1> QED  BY <1>1, <1>2, <1>3, <1>4, <1>5, ExecutionMoves

\* The runtime fails while it streams or collects.
LEMMA RuntimeErrsStep == ASSUME IInv, NEW h \in Execution, RuntimeErrs(h) PROVE IInv'
<1>1. TypeOK /\ ExecutionSound(h)
  BY DEF IInv
<1>2. /\ op[h] \in {"streaming", "collecting"} /\ op'[h] = "done" /\ expired' = expired
      /\ worker' = worker /\ outcome'[h] \in {"errored", "none"}
      /\ cancelled'[h] \in {cancelled[h], "pending"} /\ (cancelled[h] # "none" => cancelled'[h] = cancelled[h])
      /\ (\E c \in Caller : at[c] = h /\ pc[c] \in Waiting) => outcome'[h] = "errored"
      /\ \A e \in Execution : e # h => SameExecution(e)
      /\ UNCHANGED <<created, run, callers, attempt, faults>>
  BY <1>1 DEF RuntimeErrs, Errored, Cancelling, Returns, Awaited, OpOnly, Waiting, TypeOK, SameExecution
<1>3. TypeOK'
  BY <1>1 DEF RuntimeErrs, Errored, Cancelling, Returns, Awaited, OpOnly, Waiting, TypeOK, callers, attempt, Ops, Workers, Outcomes, Results
<1>4. ExecutionSound(h)' /\ (Threat(h)' => Threat(h))
  BY <1>1, <1>2 DEF ExecutionSound, Threat, Untouched, Running
<1>5. ASSUME NEW c \in Caller, pc[c] \in Holding, at[c] = h
      PROVE  PlaceSound(c)' /\ (cancelled[h] = "succeeded" => cancelled'[h] = "succeeded")
  <2>1. PlaceSound(c) /\ TypeOK
    BY DEF IInv, CallerSound
  <2> QED  BY <1>2, <1>5, <2>1 DEF PlaceSound, callers, attempt, Waiting
<1> QED  BY <1>1, <1>2, <1>3, <1>4, <1>5, ExecutionMoves

\* The event stream ends, and the result is asked for.
LEMMA StreamEndsStep == ASSUME IInv, NEW h \in Execution, StreamEnds(h) PROVE IInv'
<1>1. TypeOK /\ ExecutionSound(h)
  BY DEF IInv
<1>2. /\ op[h] = "streaming" /\ op'[h] = "collecting" /\ cancelled' = cancelled /\ expired' = expired
      /\ worker' = worker /\ outcome' = outcome
      /\ \A e \in Execution : e # h => SameExecution(e)
      /\ UNCHANGED <<created, run, callers, attempt, faults>>
  BY <1>1 DEF StreamEnds, OpOnly, TypeOK, SameExecution
<1>3. TypeOK'
  BY <1>1 DEF StreamEnds, OpOnly, TypeOK, callers, attempt, Ops, Workers, Outcomes, Results
<1>4. ExecutionSound(h)' /\ (Threat(h)' => Threat(h))
  BY <1>1, <1>2 DEF ExecutionSound, Threat, Untouched, Running
<1>5. ASSUME NEW c \in Caller, pc[c] \in Holding, at[c] = h
      PROVE  PlaceSound(c)' /\ (cancelled[h] = "succeeded" => cancelled'[h] = "succeeded")
  <2>1. PlaceSound(c) /\ TypeOK
    BY DEF IInv, CallerSound
  <2> QED  BY <1>2, <1>5, <2>1 DEF PlaceSound, callers, attempt, Waiting
<1> QED  BY <1>1, <1>2, <1>3, <1>4, <1>5, ExecutionMoves

\* A worker that started after the deadline is collected once its cancellation was answered.
LEMMA LateStartCollectsStep == ASSUME IInv, NEW h \in Execution, LateStartCollects(h) PROVE IInv'
<1>1. TypeOK /\ ExecutionSound(h)
  BY DEF IInv
<1>2. /\ op[h] = "stopping" /\ op'[h] = "returning" /\ cancelled' = cancelled /\ expired' = expired
      /\ worker' = worker /\ outcome' = outcome
      /\ \A e \in Execution : e # h => SameExecution(e)
      /\ UNCHANGED <<created, run, callers, attempt, faults>>
  BY <1>1 DEF LateStartCollects, OpOnly, TypeOK, SameExecution
<1>3. TypeOK'
  BY <1>1 DEF LateStartCollects, OpOnly, TypeOK, callers, attempt, Ops, Workers, Outcomes, Results
<1>4. ExecutionSound(h)' /\ (Threat(h)' => Threat(h))
  BY <1>1, <1>2 DEF ExecutionSound, Threat, Untouched, Running
<1>5. ASSUME NEW c \in Caller, pc[c] \in Holding, at[c] = h
      PROVE  PlaceSound(c)' /\ (cancelled[h] = "succeeded" => cancelled'[h] = "succeeded")
  <2>1. PlaceSound(c) /\ TypeOK
    BY DEF IInv, CallerSound
  <2> QED  BY <1>2, <1>5, <2>1 DEF PlaceSound, callers, attempt, Waiting
<1> QED  BY <1>1, <1>2, <1>3, <1>4, <1>5, ExecutionMoves

\* What a late start collects is an error.
LEMMA LateCollectRejectsStep == ASSUME IInv, NEW h \in Execution, LateCollectRejects(h) PROVE IInv'
<1>1. TypeOK /\ ExecutionSound(h)
  BY DEF IInv
<1>2. /\ op[h] = "returning" /\ op'[h] = "done" /\ cancelled' = cancelled /\ expired' = expired
      /\ worker' = worker
      /\ \A e \in Execution : e # h => SameExecution(e)
      /\ UNCHANGED <<created, run, callers, attempt, faults>>
  BY <1>1 DEF LateCollectRejects, Returns, OpOnly, TypeOK, SameExecution
<1>3. TypeOK'
  BY <1>1 DEF LateCollectRejects, Returns, OpOnly, TypeOK, callers, attempt, Ops, Outcomes
<1>4. ExecutionSound(h)' /\ (Threat(h)' => Threat(h))
  BY <1>1, <1>2 DEF ExecutionSound, Threat, Untouched, Running
<1>5. ASSUME NEW c \in Caller, pc[c] \in Holding, at[c] = h
      PROVE  PlaceSound(c)' /\ (cancelled[h] = "succeeded" => cancelled'[h] = "succeeded")
  <2>1. PlaceSound(c) /\ TypeOK
    BY DEF IInv, CallerSound
  <2> QED  BY <1>2, <1>5, <2>1 DEF PlaceSound, callers, attempt, Waiting
<1> QED  BY <1>1, <1>2, <1>3, <1>4, <1>5, ExecutionMoves

\* The result is in.
LEMMA CollectedStep == ASSUME IInv, NEW h \in Execution, Collected(h) PROVE IInv'
<1>1. TypeOK /\ ExecutionSound(h)
  BY DEF IInv
<1>2. /\ op[h] \in {"collecting", "returning"} /\ op'[h] = "done" /\ cancelled' = cancelled /\ expired' = expired
      /\ worker'[h] = "stopped" /\ outcome'[h] \in Results \cup {"none"}
      /\ (\E c \in Caller : at[c] = h /\ pc[c] \in Waiting) => outcome'[h] \in Results
      /\ \A e \in Execution : e # h => SameExecution(e)
      /\ UNCHANGED <<created, run, callers, attempt, faults>>
  BY <1>1 DEF Collected, Returns, Awaited, OpOnly, Waiting, Results, TypeOK, SameExecution
<1>3. TypeOK'
  BY <1>1 DEF Collected, Returns, Awaited, OpOnly, Waiting, Results, TypeOK, callers, attempt, Ops, Workers, Outcomes, Results
<1>4. ExecutionSound(h)' /\ (Threat(h)' => Threat(h))
  BY <1>1, <1>2 DEF ExecutionSound, Threat, Untouched, Running
<1>5. ASSUME NEW c \in Caller, pc[c] \in Holding, at[c] = h
      PROVE  PlaceSound(c)' /\ (cancelled[h] = "succeeded" => cancelled'[h] = "succeeded")
  <2>1. PlaceSound(c) /\ TypeOK
    BY DEF IInv, CallerSound
  <2> QED  BY <1>2, <1>5, <2>1 DEF PlaceSound, callers, attempt, Waiting
<1> QED  BY <1>1, <1>2, <1>3, <1>4, <1>5, ExecutionMoves

\* The adapter answers the cancellation.
LEMMA CancelAnswersStep == ASSUME IInv, NEW h \in Execution, CancelAnswers(h) PROVE IInv'
<1>1. TypeOK /\ ExecutionSound(h)
  BY DEF IInv
<1>2. /\ cancelled[h] = "pending" /\ cancelled'[h] \in {"succeeded", "failed"} /\ op' = op
      /\ worker'[h] \in {worker[h], "stopped"} /\ (cancelled'[h] = "succeeded" => worker'[h] = "stopped")
      /\ outcome' = outcome /\ expired' = expired
      /\ \A e \in Execution : e # h => SameExecution(e)
      /\ UNCHANGED <<created, run, callers, attempt, faults>>
  BY <1>1 DEF CancelAnswers, OpOnly, TypeOK, SameExecution
<1>3. TypeOK'
  BY <1>1 DEF CancelAnswers, OpOnly, TypeOK, callers, attempt, Ops, Workers, Outcomes, Results
<1>4. ExecutionSound(h)' /\ (Threat(h)' => Threat(h))
  BY <1>1, <1>2 DEF ExecutionSound, Threat, Untouched, Running
<1>5. ASSUME NEW c \in Caller, pc[c] \in Holding, at[c] = h
      PROVE  PlaceSound(c)' /\ (cancelled[h] = "succeeded" => cancelled'[h] = "succeeded")
  <2>1. PlaceSound(c) /\ TypeOK
    BY DEF IInv, CallerSound
  <2> QED  BY <1>2, <1>5, <2>1 DEF PlaceSound, callers, attempt, Waiting
<1> QED  BY <1>1, <1>2, <1>3, <1>4, <1>5, ExecutionMoves

\* The deadline of a command sends its signals.
LEMMA CommandTimeoutStep == ASSUME IInv, NEW h \in Execution, CommandTimeout(h) PROVE IInv'
<1>1. TypeOK /\ ExecutionSound(h)
  BY DEF IInv
<1>2. /\ op[h] \in {"spawned", "terminated"} /\ op'[h] \in {"terminated", "killed"}
      /\ worker' = worker /\ cancelled' = cancelled /\ outcome' = outcome
      /\ \A e \in Execution : e # h => SameExecution(e)
      /\ UNCHANGED <<created, run, callers, attempt, faults>>
  BY <1>1 DEF CommandTimeout, callers, TypeOK, SameExecution
<1>3. TypeOK'
  BY <1>1 DEF CommandTimeout, callers, TypeOK, callers, attempt, Ops, Workers, Outcomes, Results
<1>4. ExecutionSound(h)' /\ (Threat(h)' => Threat(h))
  BY <1>1, <1>2 DEF ExecutionSound, Threat, Untouched, Running
<1>5. ASSUME NEW c \in Caller, pc[c] \in Holding, at[c] = h
      PROVE  PlaceSound(c)' /\ (cancelled[h] = "succeeded" => cancelled'[h] = "succeeded")
  <2>1. PlaceSound(c) /\ TypeOK
    BY DEF IInv, CallerSound
  <2> QED  BY <1>2, <1>5, <2>1 DEF PlaceSound, callers, attempt, Waiting
<1> QED  BY <1>1, <1>2, <1>3, <1>4, <1>5, ExecutionMoves

\* A command has exited.
LEMMA CommandCloseStep == ASSUME IInv, NEW h \in Execution, CommandClose(h) PROVE IInv'
<1>1. TypeOK /\ ExecutionSound(h)
  BY DEF IInv
<1>2. /\ op[h] \in {"spawned", "terminated", "killed"} /\ op'[h] = "done" /\ cancelled' = cancelled
      /\ worker'[h] = "stopped" /\ outcome'[h] \in Results \cup {"none"}
      /\ (\E c \in Caller : at[c] = h /\ pc[c] \in Waiting \cup {"command"}) => outcome'[h] \in Results
      /\ \A e \in Execution : e # h => SameExecution(e)
      /\ UNCHANGED <<created, run, callers, attempt, faults>>
  BY <1>1 DEF CommandClose, Returns, Awaited, Waiting, Results, TypeOK, SameExecution
<1>3. TypeOK'
  BY <1>1 DEF CommandClose, Returns, Awaited, Waiting, Results, TypeOK, callers, attempt, Ops, Workers, Outcomes, Results
<1>4. ExecutionSound(h)' /\ (Threat(h)' => Threat(h))
  BY <1>1, <1>2 DEF ExecutionSound, Threat, Untouched, Running
<1>5. ASSUME NEW c \in Caller, pc[c] \in Holding, at[c] = h
      PROVE  PlaceSound(c)' /\ (cancelled[h] = "succeeded" => cancelled'[h] = "succeeded")
  <2>1. PlaceSound(c) /\ TypeOK
    BY DEF IInv, CallerSound
  <2> QED  BY <1>2, <1>5, <2>1 DEF PlaceSound, callers, attempt, Waiting
<1> QED  BY <1>1, <1>2, <1>3, <1>4, <1>5, ExecutionMoves

\* Whatever an operation does on its own.
LEMMA OperationStep ==
    ASSUME IInv, NEW e \in Execution, Operation(e) \/ CommandTimeout(e) \/ CommandClose(e)
    PROVE  IInv'
BY StartResolvesStep, StartRejectsStep, RuntimeErrsStep, StreamEndsStep, LateStartCollectsStep,
   LateCollectRejectsStep, CollectedStep, CancelAnswersStep, CommandTimeoutStep, CommandCloseStep DEF Operation

\* An event of the runtime arrives.
LEMMA EventArrivesStep == ASSUME IInv, NEW c \in Caller, EventArrives(c) PROVE IInv'
<1>1. TypeOK
  BY DEF IInv
<1>2. PICK h \in Execution : h = at[c]
  BY <1>1 DEF TypeOK
<1>3. ExecutionSound(h)
  BY DEF IInv
<1>4. /\ op[h] = "streaming" /\ op'[h] = "observing" /\ worker' = worker /\ outcome' = outcome
      /\ cancelled' = cancelled /\ expired' = expired
      /\ \A e \in Execution : e # h => SameExecution(e)
      /\ UNCHANGED <<created, run, callers, attempt, faults>>
  BY <1>1, <1>2 DEF EventArrives, TypeOK, SameExecution
<1>5. TypeOK'
  <2>1. events' \in 0..MaxEvents
    BY <1>1, EngineConstants DEF EventArrives, TypeOK
  <2>2. op' \in [Execution -> Ops]
    BY <1>1 DEF EventArrives, TypeOK, Ops
  <2> QED  BY <1>1, <2>1, <2>2 DEF EventArrives, TypeOK, callers, attempt
<1>6. ExecutionSound(h)' /\ (Threat(h)' => Threat(h))
  BY <1>3, <1>4 DEF ExecutionSound, Threat, Untouched, Running
<1>7. ASSUME NEW d \in Caller, at[d] = h PROVE PlaceSound(d)' /\ cancelled'[h] = cancelled[h]
  <2>1. PlaceSound(d)
    BY DEF IInv, CallerSound
  <2> QED  BY <1>4, <1>7, <2>1 DEF PlaceSound, callers, attempt, Waiting
<1> QED  BY <1>4, <1>5, <1>6, <1>7, ExecutionMoves

\* The process of the callers dies.
LEMMA CrashStep == ASSUME IInv, Crash PROVE IInv'
<1>1. TypeOK /\ RunSound /\ NotCreated /\ OneAttempt /\ \A e \in Execution : ExecutionSound(e)
  BY DEF IInv
<1>2. faults' = faults \cup {"crash"} /\ UNCHANGED <<created, run, events>>
  BY DEF Crash, Breaks
<1>3. \A c \in Caller : pc'[c] = "idle" /\ ~fresh'[c]
  BY DEF Crash
<1>4. PICK w \in {"none", "leaked"} : worker' = [e \in Execution |-> IF op[e] = "starting" THEN w ELSE worker[e]]
  BY DEF Crash
<1>5. \A e \in Execution :
         /\ op'[e] = IF op[e] = "none" THEN "none" ELSE "done"
         /\ worker'[e] = IF op[e] = "starting" THEN w ELSE worker[e]
         /\ outcome'[e] = "none" /\ ~expired'[e] /\ cancelled'[e] = "none"
  BY <1>4 DEF Crash
<1>6. TypeOK'
  <2>1. (CHOOSE e \in Execution : TRUE) \in Execution
    BY ExecutionParts
  <2>2. /\ pc' \in [Caller -> Places] /\ fresh' \in [Caller -> BOOLEAN]
        /\ result' \in [Caller -> Results] /\ unsafe' \in [Caller -> BOOLEAN]
    BY DEF Crash, Places, Results
  <2>3. at' \in [Caller -> Execution]
    BY <2>1 DEF Crash
  <2>4. /\ op' \in [Execution -> Ops] /\ outcome' \in [Execution -> Outcomes]
        /\ expired' \in [Execution -> BOOLEAN]
        /\ cancelled' \in [Execution -> {"none", "pending", "succeeded", "failed"}]
    BY DEF Crash, Ops, Outcomes
  <2>5. worker' \in [Execution -> Workers]
    BY <1>1, <1>4 DEF TypeOK, Workers
  <2>6. faults' \subseteq Faults
    BY <1>1, <1>2 DEF TypeOK, Faults
  <2> QED  BY <1>1, <1>2, <2>2, <2>3, <2>4, <2>5, <2>6 DEF TypeOK
<1>7. RunSound'
  BY <1>1, <1>2 DEF RunSound
<1>8. ASSUME NEW e \in Execution PROVE ExecutionSound(e)' /\ (Threat(e)' => Threat(e))
  BY <1>1, <1>2, <1>5 DEF ExecutionSound, Threat, Untouched, Running
<1>9. \A c \in Caller : CallerSound(c)'
  BY <1>3 DEF CallerSound, PlaceSound, Holding, InAttempt, Waiting, Reporting
<1>10. Apart' /\ NotCreated'
  BY <1>1, <1>2, <1>3 DEF Apart, NotCreated, Holding, InAttempt
<1>11. OneAttempt'
  <2>1. Clean' => Clean
    BY <1>2 DEF Clean
  <2>2. Busy' = Busy
    BY <1>2 DEF Busy
  <2> QED  BY <1>1, <1>2, <1>3, <1>8, <2>1, <2>2 DEF OneAttempt, OneBusy, Threatened, Holding, InAttempt
<1> QED  BY <1>6, <1>7, <1>8, <1>9, <1>10, <1>11 DEF IInv

\* Callers that are not in the loop, or go back to it.
LEMMA AwaySound ==
    ASSUME NEW c \in Caller, pc'[c] \in {"idle", "tick"}
    PROVE  CallerSound(c)' /\ pc'[c] \notin Holding /\ pc'[c] \in Outside
BY DEF CallerSound, PlaceSound, Current, Holding, InAttempt, Waiting, Reporting, Outside

\* The run is created with its first nodes ready.
LEMMA CreateRunStep == ASSUME IInv, NEW c \in Caller, CreateRun(c) PROVE IInv'
<1>1. /\ TypeOK /\ RunSound /\ OneAttempt /\ run = CreatedRun /\ \A d \in Caller : pc[d] = "idle"
      /\ \A e \in Execution : ExecutionSound(e)
  BY DEF IInv, CreateRun, NotCreated
<1>2. PICK r \in Materialized(CreatedRun, <<[type |-> "RuntimeNegotiated"], [type |-> "WorkspaceAssigned"]>>
                                         \o ReadyBatch(Executable(CreatedRun), "dependencies-satisfied")) :
         Stored(c, r) /\ Goes(c, Continues(r))
  BY DEF CreateRun
<1>3. Readied(run, r)
  <2>1. PICK x, y : x = [type |-> "RuntimeNegotiated"] /\ y = [type |-> "WorkspaceAssigned"]
    OBVIOUS
  <2>2. x.type = "RuntimeNegotiated" /\ y.type = "WorkspaceAssigned"
    BY <2>1
  <2>3. PICK a : a = <<x, y>>
    OBVIOUS
  <2>4. PICK b : b = ReadyBatch(Executable(CreatedRun), "dependencies-satisfied")
    OBVIOUS
  <2>5. r \in Materialized(run, a \o b)
    BY <1>1, <1>2, <2>1, <2>3, <2>4
  <2>6. Executable(CreatedRun) \in SUBSET Node
    BY DEF Executable
  <2>7. run \in Run
    BY <1>1 DEF TypeOK
  <2> QED  BY <2>2, <2>3, <2>4, <2>5, <2>6, <2>7, CreatedEffect
<1>4. /\ run' = r /\ created' /\ UNCHANGED <<attempt, executions, events, faults>>
      /\ pc' = [pc EXCEPT ![c] = Continues(r)] /\ fresh' = [d \in Caller |-> d = c]
  BY <1>2 DEF CreateRun, Stored, Goes
<1>5. \A d \in Caller : pc'[d] \in {"idle", "tick"}
  BY <1>1, <1>4 DEF Continues, TypeOK
<1>6. TypeOK'
  <2>1. pc' \in [Caller -> Places] /\ fresh' \in [Caller -> BOOLEAN]
    BY <1>1, <1>4 DEF TypeOK, Continues, Places
  <2> QED  BY <1>1, <1>3, <1>4, <2>1 DEF TypeOK, Readied, attempt, executions
<1>7. \A n \in Node : run.nodes[n].attempts = 0 /\ run.nodes[n].status = "pending"
  BY <1>1 DEF CreatedRun
<1>8. \A n \in Node : run'.nodes[n].attempts = 0 /\ run'.nodes[n].status \in {"pending", "ready"}
  BY <1>3, <1>4, <1>7 DEF Readied, NodeReadied
<1>9. RunSound'
  <2>1. \A n \in Node : Budget[n] \in Nat /\ Budget[n] # 0
    BY EngineConstants
  <2>2. ~run'.configured
    BY <1>1, <1>3, <1>4 DEF Readied, RunSound
  <2> QED  BY <1>8, <2>1, <2>2 DEF RunSound
<1>10. \A e \in Execution : ExecutionSound(e)' /\ (Threat(e)' <=> Threat(e))
  <2>1. \A n \in Node : run.nodes[n].attempts <= run'.nodes[n].attempts
    BY <1>7, <1>8
  <2>2. \A e \in Execution : SameExecution(e)
    BY <1>4 DEF SameExecution, executions
  <2> QED  BY <1>6, <2>1, <2>2, SameSound
<1>11. \A d \in Caller : CallerSound(d)' /\ pc'[d] \notin Holding
  BY <1>5, AwaySound
<1>12. Apart' /\ NotCreated'
  BY <1>4, <1>11 DEF Apart, NotCreated
<1>13. OneAttempt'
  <2>1. Clean' => Clean
    BY <1>4 DEF Clean
  <2>2. Busy = {} /\ Busy' = {}
    BY <1>7, <1>8 DEF Busy
  <2> QED  BY <1>1, <1>10, <1>11, <2>1, <2>2 DEF OneAttempt, OneBusy, Threatened
<1> QED  BY <1>6, <1>9, <1>10, <1>11, <1>12, <1>13 DEF IInv

\* Only callers of a run that was created are anywhere.
LEMMA CreatedFirst == ASSUME IInv, NEW c \in Caller, pc[c] # "idle" PROVE created
BY DEF IInv, NotCreated, TypeOK

\* resume, and the loop of runToCompletion.
LEMMA ResumeStep == ASSUME IInv, NEW c \in Caller, Resume(c) PROVE IInv'
<1>1. TypeOK /\ RunSound
  BY DEF IInv
<1>2. /\ pc[c] = "idle" /\ created /\ pc' = [pc EXCEPT ![c] = "tick"]
      /\ UNCHANGED <<created, run, fresh, attempt, executions, events, faults>>
  BY DEF Resume, Goes
<1>3. pc'[c] = "tick" /\ pc' \in [Caller -> Places] /\ \A d \in Caller : d # c => pc'[d] = pc[d]
  BY <1>1, <1>2 DEF TypeOK, Places
<1>4. TypeOK' /\ RunSound'
  BY <1>1, <1>2, <1>3 DEF TypeOK, RunSound, attempt, executions
<1>5. CallerSound(c)' /\ pc'[c] \notin Holding /\ pc'[c] \in Outside
  BY <1>3, AwaySound
<1>6. \A n \in Node : run.nodes[n].attempts <= run.nodes[n].attempts
  BY <1>1, RunParts DEF TypeOK
<1>7. Moves(c)
  BY <1>2, <1>3, <1>5, <1>6 DEF Moves, SameCaller, SameExecution, attempt, executions
<1>8. pc[c] \notin Holding
  BY <1>2 DEF Holding, InAttempt
<1> QED  BY <1>2, <1>4, <1>5, <1>7, <1>8, OtherMoves

\* A caller loads the run and takes its first ready node.
LEMMA TickStep == ASSUME IInv, NEW c \in Caller, Tick(c) PROVE IInv'
<1>1. TypeOK /\ RunSound
  BY DEF IInv
<1>2. /\ pc[c] = "tick" /\ fresh' = [fresh EXCEPT ![c] = TRUE]
      /\ UNCHANGED <<created, run, executions, events, faults>>
      /\ result' = [result EXCEPT ![c] = "failed"] /\ unsafe' = [unsafe EXCEPT ![c] = FALSE]
  BY DEF Tick
<1>3. \/ pc' = [pc EXCEPT ![c] = "idle"] /\ at' = at
      \/ /\ pc' = [pc EXCEPT ![c] = "schedule"] /\ run.status = "running"
         /\ \E n \in Ready(run) : at' = [at EXCEPT ![c] = <<n, run.nodes[n].attempts + 1>>]
  <2>1. CASE Continues(run) # "tick"
    BY <2>1 DEF Tick, Goes
  <2>2. CASE Continues(run) = "tick"
    <3>1. run.status = "running" /\ Ready(run) # {} /\ Ready(run) \in SUBSET Node
      BY <2>2 DEF Continues, Ready
    <3>2. First(Ready(run)) \in Ready(run)
      BY <3>1, FirstMember
    <3> QED  BY <2>2, <3>1, <3>2 DEF Tick, Goes
  <2> QED  BY <2>1, <2>2
<1>4. \A d \in Caller : d # c => SameCaller(d) /\ fresh'[d] = fresh[d]
  BY <1>1, <1>2, <1>3 DEF TypeOK, SameCaller
<1>5. /\ at' \in [Caller -> Execution]
      /\ \/ pc'[c] = "idle"
         \/ /\ pc'[c] = "schedule" /\ run.status = "running"
            /\ run.nodes[at'[c][1]].status = "ready" /\ at'[c][2] = run.nodes[at'[c][1]].attempts + 1
  <2>1. CASE pc' = [pc EXCEPT ![c] = "idle"] /\ at' = at
    BY <1>1, <2>1 DEF TypeOK
  <2>2. CASE /\ pc' = [pc EXCEPT ![c] = "schedule"] /\ run.status = "running"
             /\ \E n \in Ready(run) : at' = [at EXCEPT ![c] = <<n, run.nodes[n].attempts + 1>>]
    <3>1. PICK n \in Ready(run) : at' = [at EXCEPT ![c] = <<n, run.nodes[n].attempts + 1>>]
      BY <2>2
    <3>2. n \in Node /\ run.nodes[n].status = "ready" /\ run.nodes[n].attempts < Budget[n]
      BY <1>1 DEF Ready, RunSound
    <3>3. run.nodes[n].attempts \in Nat /\ Budget[n] \in Nat
      BY <1>1, <3>2, RunParts, EngineConstants DEF TypeOK
    <3>4. PICK e : e = <<n, run.nodes[n].attempts + 1>>
      OBVIOUS
    <3>5. e \in Execution /\ e[1] = n /\ e[2] = run.nodes[n].attempts + 1
      BY <3>2, <3>3, <3>4, ExecutionParts
    <3>6. at'[c] = e /\ at' \in [Caller -> Execution]
      BY <1>1, <3>1, <3>4, <3>5 DEF TypeOK
    <3>7. pc'[c] = "schedule"
      BY <1>1, <2>2 DEF TypeOK
    <3> QED  BY <2>2, <3>2, <3>5, <3>6, <3>7
  <2> QED  BY <1>3, <2>1, <2>2
<1>6. TypeOK'
  <2>1. pc' \in [Caller -> Places] /\ fresh' \in [Caller -> BOOLEAN]
    BY <1>1, <1>2, <1>3 DEF TypeOK, Places
  <2>2. result' \in [Caller -> Results] /\ unsafe' \in [Caller -> BOOLEAN]
    BY <1>1, <1>2 DEF TypeOK, Results
  <2> QED  BY <1>1, <1>2, <1>5, <2>1, <2>2 DEF TypeOK, executions
<1>7. RunSound'
  BY <1>1, <1>2 DEF RunSound
<1>8. pc[c] \notin Holding /\ pc'[c] \notin Holding /\ pc'[c] \in Outside
  BY <1>2, <1>5 DEF Holding, InAttempt, Outside
<1>9. CallerSound(c)'
  <2>1. PlaceSound(c)'
    <3>1. ~unsafe'[c] /\ result'[c] = "failed"
      BY <1>1, <1>2 DEF TypeOK
    <3> QED  BY <1>5, <3>1 DEF PlaceSound, InAttempt, Waiting, Reporting
  <2>2. Current(c)'
    BY <1>2, <1>5, <1>8 DEF Current, NodeAt
  <2> QED  BY <1>8, <2>1, <2>2 DEF CallerSound
<1>10. Moves(c)
  <2>1. \A n \in Node : run.nodes[n].attempts <= run.nodes[n].attempts
    BY <1>1, RunParts DEF TypeOK
  <2>2. created
    BY <1>2, CreatedFirst
  <2> QED  BY <1>2, <1>4, <1>8, <2>1, <2>2 DEF Moves, SameExecution, executions
<1> QED  BY <1>2, <1>4, <1>6, <1>7, <1>8, <1>9, <1>10, OtherMoves

\* What a holder knows as long as nothing went wrong.
LEMMA HolderKnows ==
    ASSUME IInv, NEW c \in Caller, pc[c] \in Holding, Clean, NEW h \in Execution, h = at[c]
    PROVE  /\ fresh[c] /\ Sole(c) /\ Current(c)
           /\ h[1] \in Busy /\ h[2] = run.nodes[h[1]].attempts
<1>1. Sole(c)
  BY DEF IInv, OneAttempt
<1>2. fresh[c] /\ Current(c)
  BY <1>1 DEF Sole, IInv, CallerSound
<1>3. h[1] \in Node
  BY ExecutionParts
<1> QED  BY <1>1, <1>2, <1>3 DEF Current, NodeAt, Busy

\* The append of a caller is refused.
Refused(c) ==
    /\ Fails(c) /\ faults \subseteq faults' /\ faults' \subseteq Faults
    /\ unsafe' \in [Caller -> BOOLEAN]
    /\ \A d \in Caller : d # c \/ pc[c] \in InAttempt => unsafe'[d] = unsafe[d]
    /\ UNCHANGED <<created, run, fresh, at, events>>

\* An append that is refused leaves the run alone; its caller goes on without it.
LEMMA RefusedStep ==
    ASSUME IInv, NEW c \in Caller, pc[c] # "idle", Refused(c), UNCHANGED executions,
           \A h \in Execution : h = at[c] /\ pc[c] \in InAttempt /\ Clean' => unsafe[c] \/ ~Threat(h)
    PROVE  IInv'
<1>1. TypeOK /\ RunSound /\ CallerSound(c)
  BY DEF IInv
<1>2. PICK h \in Execution : h = at[c]
  BY <1>1 DEF TypeOK
<1>3. UNCHANGED <<created, run, fresh, at, executions, events>>
  BY DEF Refused
<1>4. /\ pc'[c] = (IF pc[c] \in InAttempt THEN "finish" ELSE "idle") /\ pc' \in [Caller -> Places]
      /\ result' \in [Caller -> Results]
      /\ \A d \in Caller : d # c => SameCaller(d)
      /\ pc[c] \in InAttempt => result'[c] \in {"failed", "exhausted"}
  BY <1>1 DEF Refused, Fails, Goes, Caught, TypeOK, Places, Results, SameCaller, InFinish
<1>5. TypeOK'
  BY <1>1, <1>3, <1>4 DEF TypeOK, Refused, executions
<1>6. RunSound'
  BY <1>1, <1>3 DEF RunSound
<1>7. \A e \in Execution : SameExecution(e) /\ (Threat(e)' <=> Threat(e)) /\ (ExecutionSound(e) => ExecutionSound(e)')
  BY <1>3 DEF SameExecution, executions, Threat, ExecutionSound, Untouched
<1>8. Moves(c)
  <2>1. \A n \in Node : run.nodes[n].attempts <= run.nodes[n].attempts
    BY <1>1, RunParts DEF TypeOK
  <2>2. created
    BY CreatedFirst
  <2> QED  BY <1>3, <1>4, <1>7, <2>1, <2>2 DEF Moves, Refused, Holding, InAttempt
<1>9. Clean' => Clean
  BY DEF Clean, Refused
<1>10. Busy' = Busy
  BY <1>3 DEF Busy
<1>11. CASE pc[c] \in InAttempt
  <2>1. pc'[c] = "finish" /\ unsafe'[c] = unsafe[c] /\ pc[c] \in Holding
    BY <1>4, <1>11 DEF Refused, Holding
  <2>2. PlaceSound(c)'
    BY <1>4, <1>11, <2>1 DEF PlaceSound, InAttempt, Waiting, Reporting
  <2>3. ASSUME fresh[c] PROVE Current(c)'
    BY <1>1, <1>3, <1>11, <2>1, <2>3 DEF CallerSound, Current, NodeAt, TimeoutBy, Holding, InAttempt
  <2>4. CallerSound(c)'
    BY <1>1, <1>3, <2>1, <2>2, <2>3 DEF CallerSound, NodeAt
  <2>5. ASSUME Clean'
        PROVE  /\ fresh'[c] /\ (~unsafe'[c] => ~Threat(h)')
               /\ h[1] \in Busy' /\ h[2] = run'.nodes[h[1]].attempts
    <3>1. fresh[c] /\ h[1] \in Busy /\ h[2] = run.nodes[h[1]].attempts
      BY <1>2, <1>9, <2>1, <2>5, HolderKnows
    <3>2. unsafe[c] \/ ~Threat(h)
      BY <1>2, <1>11, <2>5
    <3> QED  BY <1>3, <1>7, <1>10, <2>1, <3>1, <3>2
  <2>6. ExecutionSound(h)'
    BY <1>7 DEF IInv
  <2> QED  BY <1>2, <1>5, <1>6, <1>8, <1>10, <2>1, <2>4, <2>5, <2>6, HolderMoves
<1>12. CASE pc[c] \notin InAttempt
  <2>1. pc'[c] = "idle"
    BY <1>4, <1>12
  <2>2. CallerSound(c)' /\ pc'[c] \notin Holding /\ pc'[c] \in Outside
    BY <2>1, AwaySound
  <2>3. CASE pc[c] \in Holding
    <3>1. ExecutionSound(h)'
      BY <1>7 DEF IInv
    <3>2. ASSUME Clean' PROVE h[1] \in Busy' /\ h[2] = run'.nodes[h[1]].attempts
      BY <1>2, <1>3, <1>9, <1>10, <2>3, <3>2, HolderKnows
    <3> QED  BY <1>2, <1>5, <1>6, <1>8, <1>10, <2>2, <2>3, <3>1, <3>2, HolderMoves
  <2>4. CASE pc[c] \notin Holding
    BY <1>3, <1>5, <1>6, <1>8, <2>2, <2>4, OtherMoves
  <2> QED  BY <2>3, <2>4
<1> QED  BY <1>11, <1>12

-----------------------------------------------------------------------------
(* The appends of a caller *)

CommitRefused(c, batch) ==
    /\ batch # <<>>
    /\ \/ fresh[c] /\ Materialized(run, batch) = {} /\ faults' = faults \cup {"reducer"}
       \/ (fresh[c] => Materialized(run, batch) # {}) /\ AppendFails(c)
    /\ Fails(c)
    /\ UNCHANGED <<run, fresh>>

CommitAppended(c, batch, place) ==
    /\ batch # <<>> /\ fresh[c]
    /\ run' \in Materialized(run, batch) /\ fresh' = [d \in Caller |-> d = c]
    /\ pc' = [pc EXCEPT ![c] = place]
    /\ faults' = faults \cup Overlapping(c)
    /\ UNCHANGED result

\* What a refused append leaves: if the caller knows the run, the reducer refused or the store failed.
LEMMA RefusedFacts ==
    ASSUME TypeOK, NEW c \in Caller, NEW batch, CommitRefused(c, batch), UNCHANGED <<created, at, events>>,
           unsafe' \in [Caller -> BOOLEAN],
           \A d \in Caller : d # c \/ pc[c] \in InAttempt => unsafe'[d] = unsafe[d]
    PROVE  /\ Refused(c)
           /\ fresh[c] /\ Clean' => Materialized(run, batch) = {} /\ "reducer" \in faults'
<1>1. AppendFails(c) => faults \subseteq faults' /\ faults' \subseteq Faults
                        /\ (fresh[c] => "append" \in faults')
  BY DEF AppendFails, Breaks, Faults, TypeOK
<1>2. faults \subseteq faults' /\ faults' \subseteq Faults
  BY <1>1 DEF CommitRefused, Faults, TypeOK
<1> QED  BY <1>1, <1>2 DEF CommitRefused, Refused, Clean

\* A caller that knows the run appends what concerns its own node, or eases the others.
LEMMA HolderAppends ==
    ASSUME IInv, TypeOK', NEW c \in Caller, pc[c] \in Holding, NEW h \in Execution, h = at[c],
           fresh[c], fresh' = [d \in Caller |-> d = c],
           UNCHANGED <<created, at>>, faults' = faults, ~run'.configured,
           \A d \in Caller : d # c => SameCaller(d),
           \A e \in Execution : e # h => SameExecution(e),
           ExecutionSound(h)',
           \A n \in Node : n # h[1] => NodeEases(run.nodes[n], run'.nodes[n]),
           run'.nodes[h[1]].attempts = run.nodes[h[1]].attempts, run'.nodes[h[1]].status # "pending",
           run'.nodes[h[1]].status = "ready" => run'.nodes[h[1]].attempts < Budget[h[1]],
           PlaceSound(c)', Current(c)',
           Clean => /\ Threat(h)' => run'.nodes[h[1]].status \in {"running", "failed"}
                    /\ (pc'[c] \in Reporting /\ ~unsafe'[c]) \/ pc'[c] = "retry" => ~Threat(h)'
    PROVE  IInv'
<1>1. TypeOK /\ RunSound /\ CallerSound(c) /\ Current(c)
  BY DEF IInv, CallerSound
<1>2. h[1] \in Node /\ h[2] \in Nat
  BY ExecutionParts
<1>3. run.nodes[h[1]].status \in {"running", "failed"} /\ h[2] = run.nodes[h[1]].attempts
  BY <1>1 DEF Current, NodeAt
<1>4. \A n \in Node : run'.nodes[n].attempts = run.nodes[n].attempts
  BY DEF NodeEases
<1>5. RunSound'
  <2>1. ASSUME NEW n \in Node
        PROVE  /\ run'.nodes[n].attempts <= Budget[n]
               /\ run'.nodes[n].status = "pending" => run'.nodes[n].attempts = 0
               /\ run'.nodes[n].status = "ready" => run'.nodes[n].attempts < Budget[n]
    <3>1. /\ run.nodes[n].attempts <= Budget[n]
          /\ run.nodes[n].status = "pending" => run.nodes[n].attempts = 0
          /\ run.nodes[n].status = "ready" => run.nodes[n].attempts < Budget[n]
      BY <1>1 DEF RunSound
    <3>2. CASE n = h[1]
      BY <1>4, <3>1, <3>2
    <3>3. CASE n # h[1]
      <4>1. run.nodes[n].status = "pending" => run.nodes[n].attempts < Budget[n]
        <5>1. Budget[n] \in Nat /\ Budget[n] # 0
          BY EngineConstants
        <5> QED  BY <3>1, <5>1
      <4> QED  BY <3>1, <3>3, <4>1 DEF NodeEases
    <3> QED  BY <3>2, <3>3
  <2> QED  BY <2>1 DEF RunSound
<1>6. Busy' \subseteq Busy
  <2> SUFFICES ASSUME NEW n \in Node, run'.nodes[n].status \in {"running", "failed"}
               PROVE  run.nodes[n].status \in {"running", "failed"}
    BY DEF Busy
  <2>1. CASE n = h[1]
    BY <1>3, <2>1
  <2>2. CASE n # h[1]
    BY <2>2 DEF NodeEases
  <2> QED  BY <2>1, <2>2
<1>7. Moves(c)
  <2>1. \A n \in Node : run.nodes[n].attempts <= run'.nodes[n].attempts
    <3> SUFFICES ASSUME NEW n \in Node PROVE run.nodes[n].attempts <= run'.nodes[n].attempts
      OBVIOUS
    <3>1. run.nodes[n].attempts \in Nat
      BY <1>1, RunParts DEF TypeOK
    <3> QED  BY <1>4, <3>1
  <2>2. created
    BY CreatedFirst DEF Holding, InAttempt
  <2> QED  BY <2>1, <2>2 DEF Moves
<1>8. CallerSound(c)'
  <2>1. at'[c][2] <= NodeAt(c)'.attempts
    BY <1>2, <1>3, <1>4 DEF NodeAt
  <2> QED  BY <2>1 DEF CallerSound
<1>9. run'.nodes[h[1]].status \in {"running", "failed"} => h[1] \in Busy'
  BY <1>2 DEF Busy
<1>10. Clean' => Clean /\ fresh'[c]
  BY DEF Clean
<1> QED  BY <1>3, <1>4, <1>5, <1>6, <1>7, <1>8, <1>9, <1>10, HolderMoves

\* What is the same on every append of a holder that leaves the executions alone.
LEMMA AppendedFacts ==
    ASSUME IInv, NEW c \in Caller, NEW batch, NEW place \in Places, CommitAppended(c, batch, place),
           pc[c] # "schedule", run' \in Run, unsafe' \in [Caller -> BOOLEAN],
           UNCHANGED <<created, at, executions, events>>,
           \A d \in Caller : d # c => unsafe'[d] = unsafe[d]
    PROVE  /\ TypeOK' /\ fresh[c] /\ fresh' = [d \in Caller |-> d = c] /\ faults' = faults
           /\ pc'[c] = place /\ \A d \in Caller : d # c => SameCaller(d)
           /\ \A e \in Execution : SameExecution(e) /\ (Threat(e)' <=> Threat(e))
           /\ \A e \in Execution : (\A n \in Node : run.nodes[n].attempts <= run'.nodes[n].attempts) =>
                 ExecutionSound(e)'
<1>1. TypeOK
  BY DEF IInv
<1>2. fresh[c] /\ fresh' = [d \in Caller |-> d = c] /\ faults' = faults /\ result' = result
      /\ pc' = [pc EXCEPT ![c] = place]
  BY DEF CommitAppended, Overlapping
<1>3. TypeOK'
  <2>1. pc' \in [Caller -> Places] /\ fresh' \in [Caller -> BOOLEAN]
    BY <1>1, <1>2 DEF TypeOK
  <2> QED  BY <1>1, <1>2, <2>1 DEF TypeOK, executions
<1>4. pc'[c] = place /\ \A d \in Caller : d # c => SameCaller(d)
  BY <1>1, <1>2 DEF TypeOK, SameCaller
<1>5. \A e \in Execution : SameExecution(e) /\ (Threat(e)' <=> Threat(e))
  BY DEF SameExecution, executions, Threat
<1>6. ASSUME NEW e \in Execution, \A n \in Node : run.nodes[n].attempts <= run'.nodes[n].attempts
      PROVE  ExecutionSound(e)'
  BY <1>3, <1>5, <1>6, SameSound
<1> QED  BY <1>2, <1>3, <1>4, <1>5, <1>6

\* The node of the holder.
LEMMA HolderFacts ==
    ASSUME IInv, NEW c \in Caller, pc[c] \in Holding, fresh[c]
    PROVE  \E h \in Execution :
              /\ h = at[c] /\ h = <<h[1], h[2]>> /\ h[1] \in Node /\ h[2] \in Nat /\ h[2] <= Budget[h[1]]
              /\ run \in Run /\ run.status = "running" /\ ~run.configured
              /\ run.nodes[h[1]].attempts = h[2] /\ run.nodes[h[1]].attempts \in Nat
              /\ run.nodes[h[1]].status = IF pc[c] = "failing" THEN "failed" ELSE "running"
              /\ pc[c] # "failing" =>
                    run.nodes[h[1]].last.status = IF pc[c] \in {"retry", "exhausted"} THEN "failed" ELSE "running"
              /\ Current(c) /\ PlaceSound(c) /\ ExecutionSound(h) /\ op[h] \in Ops
<1>1. PICK h \in Execution : h = at[c]
  BY DEF IInv, TypeOK
<1>2. Current(c) /\ PlaceSound(c) /\ ExecutionSound(h) /\ ~run.configured /\ run \in Run /\ op[h] \in Ops
  BY DEF IInv, CallerSound, RunSound, TypeOK
<1>3. h = <<h[1], h[2]>> /\ h[1] \in Node /\ h[2] \in Nat /\ h[2] <= Budget[h[1]]
  BY ExecutionParts
<1>4. run.nodes[h[1]].attempts \in Nat
  BY <1>2, <1>3, RunParts
<1> QED  BY <1>1, <1>2, <1>3, <1>4 DEF Current, NodeAt

\* Evidence that is kept: the run stays the same.
LEMMA EvidenceKept ==
    ASSUME IInv, NEW c \in Caller, NEW batch, NEW place, CommitAppended(c, batch, place), run' = run,
           UNCHANGED <<created, at, unsafe, executions, events>>,
           \/ pc[c] = "context" /\ place = "launch"
           \/ pc[c] = "command" /\ place = "report" /\ op[at[c]] = "done"
           \/ pc[c] = "evidence" /\ place = IF unsafe[c] THEN "finish" ELSE "capture"
           \/ pc[c] = "diff" /\ place = "finish"
    PROVE  IInv'
<1>1. pc[c] \in Holding /\ fresh[c] /\ result' = result /\ pc[c] # "schedule" /\ place \in Places
  BY DEF CommitAppended, Holding, InAttempt, Places, InFinish
<1>2. PICK h \in Execution :
              /\ h = at[c] /\ h[1] \in Node
              /\ run \in Run /\ run.status = "running" /\ ~run.configured
              /\ run.nodes[h[1]].attempts = h[2] /\ run.nodes[h[1]].attempts \in Nat
              /\ run.nodes[h[1]].status = "running"
              /\ run.nodes[h[1]].last.status = "running"
              /\ Current(c) /\ PlaceSound(c)
  <2>1. pc[c] \notin {"failing", "retry", "exhausted"}
    BY DEF Holding
  <2> QED  BY <1>1, <2>1, HolderFacts
<1>3. TypeOK' /\ pc'[c] = place /\ fresh' = [d \in Caller |-> d = c] /\ faults' = faults
      /\ (\A d \in Caller : d # c => SameCaller(d))
      /\ (\A e \in Execution : SameExecution(e) /\ (Threat(e)' <=> Threat(e)))
      /\ \A e \in Execution : (\A n \in Node : run.nodes[n].attempts <= run'.nodes[n].attempts) =>
            ExecutionSound(e)'
  <2>1. unsafe' \in [Caller -> BOOLEAN] /\ \A d \in Caller : d # c => unsafe'[d] = unsafe[d]
    BY DEF IInv, TypeOK
  <2> QED  BY <1>1, <1>2, <2>1, AppendedFacts
<1>4. \A n \in Node : run.nodes[n].attempts <= run'.nodes[n].attempts
  <2> SUFFICES ASSUME NEW n \in Node PROVE run.nodes[n].attempts <= run.nodes[n].attempts
    OBVIOUS
  <2>1. run.nodes[n].attempts \in Nat
    BY <1>2, RunParts
  <2> QED  BY <2>1
<1>5. PlaceSound(c)'
  BY <1>1, <1>2, <1>3 DEF PlaceSound, Waiting, Reporting, InAttempt, executions
<1>6. Current(c)'
  BY <1>1, <1>2, <1>3 DEF Current, NodeAt, TimeoutBy, Holding, InAttempt
<1>7. ASSUME Clean, pc'[c] \in Reporting, ~unsafe'[c] PROVE ~Threat(h)'
  <2>1. pc[c] \in Reporting /\ ~unsafe[c] /\ pc[c] # "finish"
    BY <1>3, <1>7 DEF Reporting
  <2>2. ~Threat(h)
    BY <1>1, <1>2, <1>7, <2>1, HolderKnows DEF Sole, Escaped
  <2> QED  BY <1>3, <2>2
<1>8. \A n \in Node : NodeEases(run.nodes[n], run'.nodes[n])
  BY DEF NodeEases
<1>9. pc'[c] # "retry"
  BY <1>3
<1>10. UNCHANGED <<created, at>>
  OBVIOUS
<1> QED  BY <1>1, <1>2, <1>3, <1>4, <1>5, <1>6, <1>7, <1>8, <1>9, <1>10, HolderAppends

\* Evidence that is refused ends the attempt, whose worker is gone or not safe.
LEMMA EvidenceRefused ==
    ASSUME IInv, NEW c \in Caller, Refused(c), UNCHANGED executions,
           \/ pc[c] \in {"context", "evidence", "capture", "diff"}
           \/ pc[c] = "command" /\ op[at[c]] = "done"
    PROVE  IInv'
<1>1. pc[c] \in Holding /\ pc[c] # "idle"
  BY DEF Holding, InAttempt
<1>2. ASSUME NEW h \in Execution, h = at[c], Clean' PROVE unsafe[c] \/ ~Threat(h)
  <2>1. Clean
    BY <1>2 DEF Clean, Refused
  <2>2. ExecutionSound(h) /\ PlaceSound(c)
    BY DEF IInv, CallerSound
  <2>3. CASE pc[c] \in {"evidence", "capture", "diff"}
    BY <1>1, <1>2, <2>1, <2>3, HolderKnows DEF Sole, Escaped, Reporting
  <2>4. CASE pc[c] = "context"
    BY <1>2, <2>2, <2>4 DEF PlaceSound, ExecutionSound, Untouched, Threat, Running
  <2>5. CASE pc[c] = "command" /\ op[at[c]] = "done"
    BY <1>2, <2>2, <2>5 DEF PlaceSound, Threat, Running
  <2> QED  BY <2>3, <2>4, <2>5
<1> QED  BY <1>1, <1>2, RefusedStep

\* An artifact cannot be written.
LEMMA EvidenceFailsStep == ASSUME IInv, NEW c \in Caller, EvidenceFails(c) PROVE IInv'
<1>1. TypeOK
  BY DEF IInv
<1>2. Refused(c)
  BY <1>1 DEF EvidenceFails, Refused, Breaks, TypeOK, Faults
<1> QED  BY <1>2, EvidenceRefused DEF EvidenceFails

\* The context of the attempt is recorded.
LEMMA RecordContextStep == ASSUME IInv, NEW c \in Caller, RecordContext(c) PROVE IInv'
<1>1. PICK b : b = <<AttemptEvent("ArtifactProduced", at[c])>>
  OBVIOUS
<1>2. pc[c] = "context" /\ b # <<>> /\ UNCHANGED <<created, at, unsafe, executions, events>>
  BY <1>1 DEF RecordContext
<1>3. CommitRefused(c, b) \/ CommitAppended(c, b, "launch")
  BY <1>1, <1>2, Zenon DEF RecordContext, Commit, CommitRefused, CommitAppended, Stored, Goes
<1>4. CASE CommitRefused(c, b)
  BY <1>2, <1>4, RefusedFacts, EvidenceRefused DEF IInv, TypeOK
<1>5. CASE CommitAppended(c, b, "launch")
  <2>1. run' = run
    BY <1>1, <1>5, EvidenceBatches DEF CommitAppended
  <2> QED  BY <1>2, <1>5, <2>1, EvidenceKept
<1> QED  BY <1>3, <1>4, <1>5

\* The report of a command is recorded.
LEMMA CommandReportedStep == ASSUME IInv, NEW c \in Caller, CommandReported(c) PROVE IInv'
<1>1. PICK b : b = <<AttemptEvent("ArtifactProduced", at[c]), AttemptEvent("CommandCompleted", at[c])>>
  OBVIOUS
<1>2. pc[c] = "command" /\ op[at[c]] = "done" /\ b # <<>> /\ UNCHANGED <<created, at, unsafe, executions, events>>
  BY <1>1 DEF CommandReported
<1>3. CommitRefused(c, b) \/ CommitAppended(c, b, "report")
  BY <1>1, <1>2, Zenon DEF CommandReported, Commit, CommitRefused, CommitAppended, Stored, Goes
<1>4. CASE CommitRefused(c, b)
  BY <1>2, <1>4, RefusedFacts, EvidenceRefused DEF IInv, TypeOK
<1>5. CASE CommitAppended(c, b, "report")
  <2>1. run' = run
    BY <1>1, <1>5, EvidenceBatches DEF CommitAppended
  <2> QED  BY <1>2, <1>5, <2>1, EvidenceKept
<1> QED  BY <1>3, <1>4, <1>5

\* The evidence of the attempt is recorded.
LEMMA RecordEvidenceStep == ASSUME IInv, NEW c \in Caller, RecordEvidence(c) PROVE IInv'
<1>1. PICK b : b = <<AttemptEvent("ArtifactProduced", at[c])>>
  OBVIOUS
<1>2. pc[c] = "evidence" /\ b # <<>> /\ UNCHANGED <<created, at, unsafe, executions, events>>
  BY <1>1 DEF RecordEvidence
<1>3. PICK place : place = IF unsafe[c] THEN "finish" ELSE "capture"
  OBVIOUS
<1>4. CommitRefused(c, b) \/ CommitAppended(c, b, place)
  BY <1>1, <1>2, <1>3, Zenon DEF RecordEvidence, Commit, CommitRefused, CommitAppended, Stored, Goes
<1>5. CASE CommitRefused(c, b)
  BY <1>2, <1>5, RefusedFacts, EvidenceRefused DEF IInv, TypeOK
<1>6. CASE CommitAppended(c, b, place)
  <2>1. run' = run
    BY <1>1, <1>6, EvidenceBatches DEF CommitAppended
  <2> QED  BY <1>2, <1>3, <1>6, <2>1, EvidenceKept
<1> QED  BY <1>4, <1>5, <1>6

\* What was captured is recorded.
LEMMA RecordDiffStep == ASSUME IInv, NEW c \in Caller, RecordDiff(c) PROVE IInv'
<1>1. PICK b : b = <<AttemptEvent("ArtifactProduced", at[c]), AttemptEvent("WorkspaceObserved", at[c])>>
  OBVIOUS
<1>2. pc[c] = "diff" /\ b # <<>> /\ UNCHANGED <<created, at, unsafe, executions, events>>
  BY <1>1 DEF RecordDiff
<1>3. CommitRefused(c, b) \/ CommitAppended(c, b, "finish")
  BY <1>1, <1>2, Zenon DEF RecordDiff, Commit, CommitRefused, CommitAppended, Stored, Goes
<1>4. CASE CommitRefused(c, b)
  BY <1>2, <1>4, RefusedFacts, EvidenceRefused DEF IInv, TypeOK
<1>5. CASE CommitAppended(c, b, "finish")
  <2>1. run' = run
    BY <1>1, <1>5, EvidenceBatches DEF CommitAppended
  <2> QED  BY <1>2, <1>5, <2>1, EvidenceKept
<1> QED  BY <1>3, <1>4, <1>5

\* The deadline: its request is recorded, and how the cancellation ended.
LEMMA TimeoutKept ==
    ASSUME IInv, NEW c \in Caller, NEW batch, NEW place, NEW t, CommitAppended(c, batch, place),
           UNCHANGED <<created, at, unsafe, executions, events>>, NEW h \in Execution, h = at[c],
           AttemptChanged(run, run', h[1], [run.nodes[h[1]].last EXCEPT !.timeout = t]),
           \/ pc[c] = "expired" /\ place = "requested" /\ t = "requested"
           \/ /\ pc[c] \in {"requested", "cancelling"} /\ place = "late" /\ t \in CancellationOutcome
              /\ t = "succeeded" => cancelled[h] = "succeeded"
    PROVE  IInv'
<1>1. /\ pc[c] \in Holding /\ fresh[c] /\ result' = result /\ pc[c] # "schedule" /\ place \in Places
      /\ place \in Holding /\ place \notin Reporting
  BY DEF CommitAppended, Holding, InAttempt, Places, InFinish, Reporting
<1>2. /\ h[1] \in Node /\ run \in Run /\ run.status = "running" /\ ~run.configured
      /\ run.nodes[h[1]].attempts = h[2] /\ run.nodes[h[1]].attempts \in Nat
      /\ run.nodes[h[1]].status = "running" /\ run.nodes[h[1]].last.status = "running"
      /\ Current(c) /\ PlaceSound(c)
  <2>1. pc[c] \notin {"failing", "retry", "exhausted"}
    OBVIOUS
  <2> QED  BY <1>1, <2>1, HolderFacts
<1>3. /\ run' \in Run /\ run'.status = "running" /\ ~run'.configured
      /\ \A m \in Node : m # h[1] => run'.nodes[m] = run.nodes[m]
      /\ run'.nodes[h[1]].status = "running" /\ run'.nodes[h[1]].attempts = h[2]
      /\ run'.nodes[h[1]].last = [run.nodes[h[1]].last EXCEPT !.timeout = t]
  BY <1>2 DEF AttemptChanged, OnlyNode
<1>4. run'.nodes[h[1]].last.status = "running" /\ run'.nodes[h[1]].last.timeout = t
  <2>1. run.nodes[h[1]].last \in Attempt
    BY <1>2, RunParts
  <2> QED  BY <1>2, <1>3, <2>1 DEF Attempt
<1>5. TypeOK' /\ pc'[c] = place /\ fresh' = [d \in Caller |-> d = c] /\ faults' = faults
      /\ (\A d \in Caller : d # c => SameCaller(d))
      /\ (\A e \in Execution : SameExecution(e) /\ (Threat(e)' <=> Threat(e)))
      /\ \A e \in Execution : (\A n \in Node : run.nodes[n].attempts <= run'.nodes[n].attempts) =>
            ExecutionSound(e)'
  <2>1. unsafe' \in [Caller -> BOOLEAN] /\ \A d \in Caller : d # c => unsafe'[d] = unsafe[d]
    BY DEF IInv, TypeOK
  <2> QED  BY <1>1, <1>3, <2>1, AppendedFacts
<1>6. \A n \in Node : run.nodes[n].attempts <= run'.nodes[n].attempts
  <2> SUFFICES ASSUME NEW n \in Node PROVE run.nodes[n].attempts <= run'.nodes[n].attempts
    OBVIOUS
  <2>1. run.nodes[n].attempts \in Nat /\ run'.nodes[n].attempts = run.nodes[n].attempts
    BY <1>2, <1>3, RunParts
  <2> QED  BY <2>1
<1>7. PlaceSound(c)'
  BY <1>1, <1>2, <1>5 DEF PlaceSound, Waiting, Reporting, InAttempt, executions
<1>8. Current(c)'
  <2>1. TimeoutBy(c)'
    BY <1>4, <1>5 DEF TimeoutBy, NodeAt, executions
  <2> QED  BY <1>1, <1>3, <1>4, <1>5, <2>1 DEF Current, NodeAt
<1>9. \A n \in Node : n # h[1] => NodeEases(run.nodes[n], run'.nodes[n])
  BY <1>3 DEF NodeEases
<1>10. pc'[c] # "retry" /\ pc'[c] \notin Reporting
  BY <1>1, <1>5
<1>11. UNCHANGED <<created, at>>
  OBVIOUS
<1> QED  BY <1>1, <1>2, <1>3, <1>5, <1>6, <1>7, <1>8, <1>9, <1>10, <1>11, HolderAppends

\* The reducer accepts what the holder of a running attempt records of its deadline.
LEMMA TimeoutRefused ==
    ASSUME IInv, NEW c \in Caller, pc[c] \in Waiting, NEW batch, CommitRefused(c, batch),
           UNCHANGED <<created, at, unsafe, executions, events>>, NEW h \in Execution, h = at[c],
           Runs(run, h) /\ TimeoutBy(c) => Materialized(run, batch) # {}
    PROVE  IInv'
<1>1. pc[c] \in Holding /\ pc[c] \in InAttempt /\ pc[c] # "idle"
  BY DEF Waiting, Holding, InAttempt
<1>2. Refused(c) /\ (fresh[c] /\ Clean' => Materialized(run, batch) = {})
  BY RefusedFacts DEF IInv, TypeOK
<1>3. ASSUME Clean' PROVE FALSE
  <2>1. Clean
    BY <1>2, <1>3 DEF Clean, Refused
  <2>2. fresh[c] /\ Current(c)
    BY <1>1, <2>1, HolderKnows
  <2>3. Runs(run, h) /\ TimeoutBy(c)
    BY <1>1, <2>2 DEF Current, Runs, NodeAt, TerminalRun, Waiting
  <2> QED  BY <1>2, <1>3, <2>2, <2>3
<1> QED  BY <1>1, <1>2, <1>3, RefusedStep

\* The timeout is recorded: from here the cancellation must be confirmed.
LEMMA RecordTimeoutStep == ASSUME IInv, NEW c \in Caller, RecordTimeout(c) PROVE IInv'
<1>1. PICK h \in Execution : h = at[c]
  BY DEF IInv, TypeOK
<1>2. run \in Run /\ pc[c] = "expired"
  BY DEF IInv, TypeOK, RecordTimeout
<1>3. PICK b : b = <<AttemptEvent("AttemptTimeoutRequested", h)>>
  OBVIOUS
<1>4. b # <<>> /\ UNCHANGED <<created, at, unsafe, executions, events>>
  BY <1>3 DEF RecordTimeout
<1>5. CommitRefused(c, b) \/ CommitAppended(c, b, "requested")
  BY <1>1, <1>3, <1>4, Zenon DEF RecordTimeout, Commit, CommitRefused, CommitAppended, Stored, Goes
<1>6. /\ \A t \in Materialized(run, b) :
            AttemptChanged(run, t, h[1], [run.nodes[h[1]].last EXCEPT !.timeout = "requested"])
      /\ Runs(run, h) /\ run.nodes[h[1]].last.timeout = "none" => Materialized(run, b) # {}
  BY <1>2, <1>3, TimeoutEffect
<1>7. CASE CommitRefused(c, b)
  <2>1. TimeoutBy(c) => run.nodes[h[1]].last.timeout = "none"
    BY <1>1, <1>2 DEF TimeoutBy, NodeAt
  <2> QED  BY <1>1, <1>2, <1>4, <1>6, <1>7, <2>1, TimeoutRefused DEF Waiting
<1>8. CASE CommitAppended(c, b, "requested")
  <2>1. AttemptChanged(run, run', h[1], [run.nodes[h[1]].last EXCEPT !.timeout = "requested"])
    BY <1>6, <1>8 DEF CommitAppended
  <2> QED  BY <1>1, <1>2, <1>4, <1>8, <2>1, TimeoutKept
<1> QED  BY <1>5, <1>7, <1>8

\* The answer to a cancellation is recorded; only a success is taken for a confirmed termination.
LEMMA CancelledStep ==
    ASSUME IInv, NEW c \in Caller, pc[c] \in {"requested", "cancelling"}, NEW answer \in CancellationOutcome,
           answer = "succeeded" => cancelled[at[c]] = "succeeded",
           Commit(c, CancellationCompleted(c, answer), LAMBDA v : "late"),
           UNCHANGED <<created, at, unsafe, executions, events>>
    PROVE  IInv'
<1>1. PICK h \in Execution : h = at[c]
  BY DEF IInv, TypeOK
<1>2. run \in Run
  BY DEF IInv, TypeOK
<1>3. PICK b : b = <<[type |-> "AttemptCancellationCompleted", node |-> h[1], attempt |-> h[2],
                      outcome |-> answer]>>
  OBVIOUS
<1>4. b # <<>> /\ b = CancellationCompleted(c, answer)
  BY <1>1, <1>3 DEF CancellationCompleted
<1>5. CommitRefused(c, b) \/ CommitAppended(c, b, "late")
  BY <1>4, Zenon DEF Commit, CommitRefused, CommitAppended, Stored, Goes
<1>6. /\ \A t \in Materialized(run, b) :
            AttemptChanged(run, t, h[1], [run.nodes[h[1]].last EXCEPT !.timeout = answer])
      /\ Runs(run, h) /\ run.nodes[h[1]].last.timeout = "requested" => Materialized(run, b) # {}
  BY <1>2, <1>3, CancellationEffect
<1>7. CASE CommitRefused(c, b)
  <2>1. TimeoutBy(c) => run.nodes[h[1]].last.timeout = "requested"
    BY <1>1 DEF TimeoutBy, NodeAt
  <2> QED  BY <1>1, <1>6, <1>7, <2>1, TimeoutRefused DEF Waiting
<1>8. CASE CommitAppended(c, b, "late")
  <2>1. AttemptChanged(run, run', h[1], [run.nodes[h[1]].last EXCEPT !.timeout = answer])
    BY <1>6, <1>8 DEF CommitAppended
  <2> QED  BY <1>1, <1>8, <2>1, TimeoutKept
<1> QED  BY <1>5, <1>7, <1>8

\* A cancellation that no operation answers, or that is answered already.
LEMMA CancelSteps == ASSUME IInv, NEW c \in Caller, CancelUnavailable(c) \/ CancelKnown(c) PROVE IInv'
<1>1. CASE CancelUnavailable(c)
  <2>1. "unavailable" \in CancellationOutcome /\ pc[c] \in {"requested", "cancelling"}
        /\ Commit(c, CancellationCompleted(c, "unavailable"), LAMBDA v : "late")
        /\ UNCHANGED <<created, at, unsafe, executions, events>>
    BY <1>1, Zenon DEF CancelUnavailable, CancellationOutcome
  <2> QED  BY <2>1, CancelledStep
<1>2. CASE CancelKnown(c)
  <2>1. PICK answer : answer = IF cancelled[at[c]] = "pending" THEN "failed" ELSE cancelled[at[c]]
    OBVIOUS
  <2>2. /\ pc[c] = "cancelling" /\ Commit(c, CancellationCompleted(c, answer), LAMBDA v : "late")
        /\ UNCHANGED <<created, at, unsafe, executions, events>>
    BY <1>2, <2>1, Zenon DEF CancelKnown
  <2>3. cancelled[at[c]] \in {"pending", "succeeded", "failed"}
    BY <2>2 DEF IInv, TypeOK, CallerSound, PlaceSound
  <2>4. answer \in CancellationOutcome /\ (answer = "succeeded" => cancelled[at[c]] = "succeeded")
    BY <2>1, <2>3 DEF CancellationOutcome
  <2> QED  BY <2>2, <2>4, CancelledStep
<1> QED  BY <1>1, <1>2

-----------------------------------------------------------------------------
(* The other steps of a caller with an attempt *)

\* A caller goes on with its attempt, and the run is as it was.
LEMMA HolderGoesOn ==
    ASSUME IInv, TypeOK', NEW c \in Caller, pc[c] \in Holding, pc'[c] \in Holding,
           NEW h \in Execution, h = at[c],
           UNCHANGED <<created, run, fresh, at>>, faults \subseteq faults',
           \A d \in Caller : d # c => SameCaller(d),
           \A e \in Execution : e # h => SameExecution(e),
           ExecutionSound(h)', PlaceSound(c)', fresh[c] => Current(c)',
           Clean /\ Clean' /\ ((pc'[c] \in Reporting /\ ~unsafe'[c] /\ ~Escaped(c)') \/ pc'[c] = "retry") =>
              ~Threat(h)'
    PROVE  IInv'
<1>1. TypeOK /\ RunSound /\ CallerSound(c)
  BY DEF IInv
<1>2. RunSound'
  BY <1>1 DEF RunSound
<1>3. Moves(c)
  <2>1. \A n \in Node : run.nodes[n].attempts <= run'.nodes[n].attempts
    <3> SUFFICES ASSUME NEW n \in Node PROVE run.nodes[n].attempts <= run.nodes[n].attempts
      OBVIOUS
    <3>1. run.nodes[n].attempts \in Nat
      BY <1>1, RunParts DEF TypeOK
    <3> QED  BY <3>1
  <2>2. created
    BY CreatedFirst DEF Holding, InAttempt
  <2> QED  BY <2>1, <2>2 DEF Moves
<1>4. CallerSound(c)'
  BY <1>1 DEF CallerSound, NodeAt
<1>5. Busy' = Busy
  BY DEF Busy
<1>6. Clean' => Clean /\ fresh'[c] /\ h[1] \in Busy' /\ h[2] = run'.nodes[h[1]].attempts
  <2>1. Clean' => Clean
    BY DEF Clean
  <2> QED  BY <1>5, <2>1, HolderKnows
<1> QED  BY <1>2, <1>3, <1>4, <1>5, <1>6, HolderMoves

\* The worker of an attempt is launched.
LEMMA LaunchStep == ASSUME IInv, NEW c \in Caller, Launch(c) PROVE IInv'
<1>1. TypeOK /\ CallerSound(c)
  BY DEF IInv
<1>2. PICK h \in Execution : h = at[c]
  BY <1>1 DEF TypeOK
<1>3. ExecutionSound(h) /\ h[1] \in Node /\ h[2] \in Nat
  BY ExecutionParts DEF IInv
<1>4. /\ pc[c] = "launch" /\ UNCHANGED <<created, run, fresh, attempt, outcome, expired, cancelled, events, faults>>
      /\ \/ pc'[c] = "command" /\ op'[h] = "spawned" /\ worker'[h] = "running"
         \/ pc'[c] = "running" /\ op'[h] = "starting" /\ worker'[h] = "none"
      /\ \A d \in Caller : d # c => SameCaller(d)
      /\ \A e \in Execution : e # h => SameExecution(e)
  BY <1>1, <1>2 DEF Launch, Goes, TypeOK, SameCaller, SameExecution, attempt
<1>5. TypeOK'
  <2>1. pc' \in [Caller -> Places] /\ op' \in [Execution -> Ops] /\ worker' \in [Execution -> Workers]
    BY <1>1 DEF Launch, Goes, TypeOK, Places, InAttempt, Ops, Workers
  <2> QED  BY <1>1, <1>4, <2>1 DEF TypeOK, attempt
<1>6. pc[c] \in Holding /\ pc'[c] \in Holding /\ pc'[c] \notin Reporting /\ pc'[c] # "retry"
  BY <1>4 DEF Holding, InAttempt, Reporting
<1>7. Untouched(h) /\ h[2] <= run.nodes[h[1]].attempts
  BY <1>1, <1>2, <1>3, <1>4, <1>6 DEF CallerSound, PlaceSound, ExecutionSound, NodeAt
<1>8. ExecutionSound(h)'
  <2>1. run.nodes[h[1]].attempts \in Nat
    BY <1>1, <1>3, RunParts DEF TypeOK
  <2>2. ~(h[2] > run.nodes[h[1]].attempts)
    BY <1>3, <1>7, <2>1
  <2> QED  BY <1>4, <1>7, <2>2 DEF ExecutionSound, Untouched
<1>9. PlaceSound(c)'
  BY <1>1, <1>2, <1>4, <1>7 DEF CallerSound, PlaceSound, Untouched, Waiting, Reporting, InAttempt, attempt
<1>10. fresh[c] => Current(c)'
  BY <1>1, <1>4, <1>6 DEF CallerSound, Current, NodeAt, TimeoutBy, attempt
<1> QED  BY <1>2, <1>4, <1>5, <1>6, <1>8, <1>9, <1>10, HolderGoesOn DEF attempt

\* The result of a command counts.
LEMMA CommandResultStep == ASSUME IInv, NEW c \in Caller, CommandResult(c) PROVE IInv'
<1>1. TypeOK /\ CallerSound(c)
  BY DEF IInv
<1>2. PICK h \in Execution : h = at[c]
  BY <1>1 DEF TypeOK
<1>3. ExecutionSound(h)
  BY DEF IInv
<1>4. /\ pc[c] = "report" /\ op[h] = "done" /\ outcome[h] \in Results /\ worker[h] = "stopped"
      /\ ~unsafe[c]
  BY <1>1, <1>2 DEF CommandResult, CallerSound, PlaceSound, InAttempt, Reporting
<1>5. /\ UNCHANGED <<created, run, fresh, at, unsafe, op, expired, cancelled, worker, events, faults>>
      /\ pc'[c] = "capture" /\ result'[c] = outcome[h] /\ outcome'[h] = "none"
      /\ \A d \in Caller : d # c => SameCaller(d)
      /\ \A e \in Execution : e # h => SameExecution(e)
  BY <1>1, <1>2 DEF CommandResult, Consumed, Goes, TypeOK, SameCaller, SameExecution
<1>6. TypeOK'
  <2>1. pc' \in [Caller -> Places] /\ outcome' \in [Execution -> Outcomes] /\ result' \in [Caller -> Results]
    BY <1>1, <1>2, <1>4 DEF CommandResult, Consumed, Goes, TypeOK, Places, InAttempt, Outcomes
  <2> QED  BY <1>1, <1>5, <2>1 DEF TypeOK
<1>7. ExecutionSound(h)' /\ ~Threat(h)'
  BY <1>3, <1>4, <1>5 DEF ExecutionSound, Untouched, Threat, Running
<1>8. PlaceSound(c)'
  BY <1>4, <1>5 DEF PlaceSound, Waiting, Reporting, InAttempt
<1>9. fresh[c] => Current(c)'
  BY <1>1, <1>4, <1>5 DEF CallerSound, Current, NodeAt, TimeoutBy, Holding, InAttempt
<1>10. pc[c] \in Holding /\ pc'[c] \in Holding
  BY <1>4, <1>5 DEF Holding, InAttempt
<1> QED  BY <1>2, <1>5, <1>6, <1>7, <1>8, <1>9, <1>10, HolderGoesOn

\* The operation returns before the deadline.
LEMMA OperationWinsStep == ASSUME IInv, NEW c \in Caller, OperationWins(c) PROVE IInv'
<1>1. TypeOK /\ CallerSound(c)
  BY DEF IInv
<1>2. PICK h \in Execution : h = at[c]
  BY <1>1 DEF TypeOK
<1>3. ExecutionSound(h)
  BY DEF IInv
<1>4. /\ pc[c] = "running" /\ op[h] = "done"
      /\ outcome[h] = "errored" \/ (outcome[h] \in Results /\ worker[h] = "stopped")
  BY <1>1, <1>2 DEF OperationWins, CallerSound, PlaceSound
<1>5. /\ UNCHANGED <<created, run, fresh, at, op, expired, cancelled, worker, events, faults>>
      /\ pc'[c] = "evidence" /\ outcome'[h] = "none"
      /\ result'[c] = (IF outcome[h] = "errored" THEN "failed" ELSE outcome[h])
      /\ unsafe'[c] = (outcome[h] = "errored")
      /\ \A d \in Caller : d # c => SameCaller(d)
      /\ \A e \in Execution : e # h => SameExecution(e)
  BY <1>1, <1>2 DEF OperationWins, Consumed, Goes, TypeOK, SameCaller, SameExecution
<1>6. TypeOK'
  <2>1. pc' \in [Caller -> Places] /\ outcome' \in [Execution -> Outcomes] /\ result' \in [Caller -> Results]
        /\ unsafe' \in [Caller -> BOOLEAN]
    BY <1>1, <1>2, <1>4 DEF OperationWins, Consumed, Goes, TypeOK, Places, InAttempt, Outcomes, Results
  <2> QED  BY <1>1, <1>5, <2>1 DEF TypeOK
<1>7. ExecutionSound(h)' /\ (~unsafe'[c] => ~Threat(h)')
  BY <1>3, <1>4, <1>5 DEF ExecutionSound, Untouched, Threat, Running
<1>8. PlaceSound(c)'
  BY <1>4, <1>5 DEF PlaceSound, Waiting, Reporting, InAttempt
<1>9. fresh[c] => Current(c)'
  BY <1>1, <1>4, <1>5 DEF CallerSound, Current, NodeAt, TimeoutBy, Holding, InAttempt
<1>10. pc[c] \in Holding /\ pc'[c] \in Holding /\ pc'[c] # "retry"
  BY <1>4, <1>5 DEF Holding, InAttempt
<1> QED  BY <1>2, <1>5, <1>6, <1>7, <1>8, <1>9, <1>10, HolderGoesOn

\* The deadline fires first.
LEMMA DeadlineStep == ASSUME IInv, NEW c \in Caller, Deadline(c) PROVE IInv'
<1>1. TypeOK /\ CallerSound(c)
  BY DEF IInv
<1>2. PICK h \in Execution : h = at[c]
  BY <1>1 DEF TypeOK
<1>3. ExecutionSound(h)
  BY DEF IInv
<1>4. /\ pc[c] = "running" /\ pc'[c] = "expired" /\ expired'[h]
      /\ UNCHANGED <<created, run, fresh, attempt, op, outcome, cancelled, worker, events, faults>>
      /\ \A d \in Caller : d # c => SameCaller(d)
      /\ \A e \in Execution : e # h => SameExecution(e)
  BY <1>1, <1>2 DEF Deadline, Goes, TypeOK, SameCaller, SameExecution, attempt
<1>5. TypeOK'
  <2>1. pc' \in [Caller -> Places] /\ expired' \in [Execution -> BOOLEAN]
    BY <1>1 DEF Deadline, Goes, TypeOK, Places, InAttempt
  <2> QED  BY <1>1, <1>4, <2>1 DEF TypeOK, attempt
<1>6. op[h] # "none"
  BY <1>1, <1>2, <1>4 DEF CallerSound, PlaceSound, Waiting
<1>7. ExecutionSound(h)'
  BY <1>3, <1>4, <1>6 DEF ExecutionSound, Untouched
<1>8. PlaceSound(c)'
  BY <1>1, <1>4 DEF CallerSound, PlaceSound, Waiting, Reporting, InAttempt, attempt
<1>9. fresh[c] => Current(c)'
  BY <1>1, <1>4 DEF CallerSound, Current, NodeAt, TimeoutBy, Holding, InAttempt, attempt
<1>10. pc[c] \in Holding /\ pc'[c] \in Holding /\ pc'[c] # "retry" /\ pc'[c] \notin Reporting
  BY <1>4 DEF Holding, InAttempt, Reporting
<1> QED  BY <1>2, <1>4, <1>5, <1>7, <1>8, <1>9, <1>10, HolderGoesOn DEF attempt

\* The engine asks the operation to cancel.
LEMMA RequestCancelStep == ASSUME IInv, NEW c \in Caller, RequestCancel(c) PROVE IInv'
<1>1. TypeOK /\ CallerSound(c)
  BY DEF IInv
<1>2. PICK h \in Execution : h = at[c]
  BY <1>1 DEF TypeOK
<1>3. ExecutionSound(h)
  BY DEF IInv
<1>4. /\ pc[c] = "requested" /\ pc'[c] = "cancelling" /\ worker[h] \in {"running", "stopped"}
      /\ cancelled'[h] = (IF cancelled[h] = "none" THEN "pending" ELSE cancelled[h])
      /\ UNCHANGED <<created, run, fresh, attempt, op, outcome, expired, worker, events, faults>>
      /\ \A d \in Caller : d # c => SameCaller(d)
      /\ \A e \in Execution : e # h => SameExecution(e)
  BY <1>1, <1>2 DEF RequestCancel, HasHandle, Cancelling, Goes, TypeOK, SameCaller, SameExecution, attempt
<1>5. TypeOK'
  <2>1. pc' \in [Caller -> Places] /\ cancelled' \in [Execution -> {"none", "pending", "succeeded", "failed"}]
    BY <1>1, <1>2 DEF RequestCancel, Cancelling, Goes, TypeOK, Places, InAttempt
  <2> QED  BY <1>1, <1>4, <2>1 DEF TypeOK, attempt
<1>6. ExecutionSound(h)'
  BY <1>3, <1>4 DEF ExecutionSound, Untouched
<1>7. PlaceSound(c)'
  BY <1>1, <1>2, <1>4 DEF CallerSound, PlaceSound, Waiting, Reporting, InAttempt, attempt
<1>8. fresh[c] => Current(c)'
  BY <1>1, <1>4 DEF CallerSound, Current, NodeAt, TimeoutBy, Holding, InAttempt, attempt
<1>9. pc[c] \in Holding /\ pc'[c] \in Holding /\ pc'[c] # "retry" /\ pc'[c] \notin Reporting
  BY <1>4 DEF Holding, InAttempt, Reporting
<1> QED  BY <1>2, <1>4, <1>5, <1>6, <1>7, <1>8, <1>9, HolderGoesOn DEF attempt

\* The grace period ends without a result.
LEMMA LateResultMissedStep == ASSUME IInv, NEW c \in Caller, LateResultMissed(c) PROVE IInv'
<1>1. TypeOK /\ CallerSound(c)
  BY DEF IInv
<1>2. PICK h \in Execution : h = at[c]
  BY <1>1 DEF TypeOK
<1>3. /\ pc[c] = "late" /\ pc'[c] = "evidence" /\ unsafe'[c] /\ result'[c] = "exhausted"
      /\ UNCHANGED <<created, run, fresh, at, executions, events, faults>>
      /\ \A d \in Caller : d # c => SameCaller(d)
      /\ \A e \in Execution : SameExecution(e)
  BY <1>1, <1>2 DEF LateResultMissed, OutOfTime, Goes, TypeOK, SameCaller, SameExecution, executions
<1>4. TypeOK'
  <2>1. pc' \in [Caller -> Places] /\ result' \in [Caller -> Results] /\ unsafe' \in [Caller -> BOOLEAN]
    BY <1>1 DEF LateResultMissed, OutOfTime, Goes, TypeOK, Places, InAttempt, Results
  <2> QED  BY <1>1, <1>3, <2>1 DEF TypeOK, executions
<1>5. ExecutionSound(h)'
  BY <1>3 DEF ExecutionSound, Untouched, IInv, executions
<1>6. PlaceSound(c)'
  BY <1>3 DEF PlaceSound, Waiting, Reporting, InAttempt
<1>7. fresh[c] => Current(c)'
  BY <1>1, <1>3 DEF CallerSound, Current, NodeAt, TimeoutBy, Holding, InAttempt
<1>8. pc[c] \in Holding /\ pc'[c] \in Holding /\ pc'[c] # "retry"
  BY <1>3 DEF Holding, InAttempt
<1> QED  BY <1>2, <1>3, <1>4, <1>5, <1>6, <1>7, <1>8, HolderGoesOn

\* The workspace is captured; changes to a readonly one make the result a failure.
LEMMA CaptureWorkspaceStep == ASSUME IInv, NEW c \in Caller, CaptureWorkspace(c) PROVE IInv'
<1>1. TypeOK /\ CallerSound(c)
  BY DEF IInv
<1>2. PICK h \in Execution : h = at[c]
  BY <1>1 DEF TypeOK
<1>3. /\ pc[c] = "capture" /\ pc'[c] = "diff" /\ result'[c] \in {"failed", result[c]}
      /\ UNCHANGED <<created, run, fresh, at, unsafe, executions, events>>
      /\ \A d \in Caller : d # c => SameCaller(d)
      /\ \A e \in Execution : SameExecution(e) /\ (Threat(e)' <=> Threat(e))
      /\ faults \subseteq faults' /\ faults' \subseteq faults \cup {"mutation"}
  BY <1>1, <1>2 DEF CaptureWorkspace, Goes, TypeOK, SameCaller, SameExecution, executions, Threat
<1>4. TypeOK'
  <2>1. pc' \in [Caller -> Places] /\ result' \in [Caller -> Results] /\ faults' \subseteq Faults
    BY <1>1, <1>3 DEF CaptureWorkspace, Goes, TypeOK, Places, InAttempt, Results, Faults
  <2> QED  BY <1>1, <1>3, <2>1 DEF TypeOK, executions
<1>5. ExecutionSound(h)'
  BY <1>3 DEF ExecutionSound, Untouched, IInv, executions
<1>6. PlaceSound(c)'
  BY <1>1, <1>3 DEF CallerSound, PlaceSound, Waiting, Reporting, InAttempt
<1>7. fresh[c] => Current(c)'
  BY <1>1, <1>3 DEF CallerSound, Current, NodeAt, TimeoutBy, Holding, InAttempt
<1>8. pc[c] \in Holding /\ pc'[c] \in Holding /\ pc'[c] # "retry" /\ pc[c] \in Reporting
  BY <1>3 DEF Holding, InAttempt, Reporting
<1>9. Clean /\ ~unsafe[c] => ~Threat(h)'
  BY <1>2, <1>3, <1>8, HolderKnows DEF Sole, Escaped
<1> QED  BY <1>2, <1>3, <1>4, <1>5, <1>6, <1>7, <1>8, <1>9, HolderGoesOn

\* A failed append of a caller that knows the run is a fault.
LEMMA AppendFailure ==
    ASSUME IInv, NEW c \in Caller, pc[c] \in Holding, AppendFails(c)
    PROVE  faults \subseteq faults' /\ faults' \subseteq Faults /\ ~(Clean /\ Clean')
<1>1. faults \subseteq faults' /\ faults' \subseteq Faults /\ (fresh[c] => "append" \in faults')
  BY DEF IInv, AppendFails, Breaks, Faults, TypeOK
<1>2. Clean => fresh[c]
  BY DEF IInv, OneAttempt, Sole
<1> QED  BY <1>1, <1>2 DEF Clean

\* What an attempt keeps when only its timeout stays.
LEMMA RecordedFacts ==
    ASSUME NEW r \in Run, NEW t, NEW n \in Node, NEW x, AttemptChanged(r, t, n, x),
           x.status = r.nodes[n].last.status, x.timeout = r.nodes[n].last.timeout
    PROVE  /\ t \in Run /\ t.status = r.status /\ t.configured = r.configured
           /\ t.nodes[n].status = r.nodes[n].status /\ t.nodes[n].attempts = r.nodes[n].attempts
           /\ t.nodes[n].last.status = r.nodes[n].last.status /\ t.nodes[n].last.timeout = r.nodes[n].last.timeout
           /\ \A m \in Node : m # n => t.nodes[m] = r.nodes[m] /\ NodeEases(r.nodes[m], t.nodes[m])
BY DEF AttemptChanged, OnlyNode, NodeEases

\* An event of the runtime is recorded, whether or not the deadline has passed.
LEMMA ObservedStep == ASSUME IInv, NEW c \in Caller, Observed(c) PROVE IInv'
<1>1. TypeOK /\ CallerSound(c)
  BY DEF IInv
<1>2. PICK h \in Execution : h = at[c]
  BY <1>1 DEF TypeOK
<1>3. ExecutionSound(h) /\ h[1] \in Node /\ h[2] \in Nat
  BY ExecutionParts DEF IInv
<1>4. pc[c] \in {"running", "expired"} /\ op[h] = "observing"
      /\ UNCHANGED <<created, at, unsafe, expired, worker, events>>
  BY <1>2 DEF Observed
<1>5. pc[c] \in Holding /\ PlaceSound(c) /\ op[h] # "none" /\ pc[c] \notin {"failing", "retry", "exhausted", "late"}
  BY <1>1, <1>4 DEF Holding, InAttempt, CallerSound
<1>6. CASE /\ fresh[c]
           /\ \E usage \in {FALSE, ~run.nodes[h[1]].last.usage} :
                 \E r \in Materialized(run, <<[type |-> "RuntimeEventObserved", node |-> h[1],
                                               attempt |-> h[2], usage |-> usage]>>) : Stored(c, r)
           /\ op' = [op EXCEPT ![h] = "streaming"]
           /\ UNCHANGED <<pc, result, outcome, cancelled, faults>>
  <2>1. run \in Run /\ run.nodes[h[1]].last \in Attempt
    BY <1>1, <1>3, RunParts DEF TypeOK
  <2>2. PICK usage \in BOOLEAN :
           run' \in Materialized(run, <<[type |-> "RuntimeEventObserved", node |-> h[1], attempt |-> h[2],
                                         usage |-> usage]>>)
    BY <1>6, <2>1 DEF Stored
  <2>3. PICK x : x = [run.nodes[h[1]].last EXCEPT !.usage = @ \/ usage]
    OBVIOUS
  <2>4. AttemptChanged(run, run', h[1], x)
    BY <2>1, <2>2, <2>3, RecordedEffect
  <2>5. x.status = run.nodes[h[1]].last.status /\ x.timeout = run.nodes[h[1]].last.timeout
    BY <2>1, <2>3 DEF Attempt
  <2>6. /\ run' \in Run /\ run'.status = run.status /\ run'.configured = run.configured
        /\ run'.nodes[h[1]].status = run.nodes[h[1]].status
        /\ run'.nodes[h[1]].attempts = run.nodes[h[1]].attempts
        /\ run'.nodes[h[1]].last.status = run.nodes[h[1]].last.status
        /\ run'.nodes[h[1]].last.timeout = run.nodes[h[1]].last.timeout
        /\ \A m \in Node : m # h[1] => NodeEases(run.nodes[m], run'.nodes[m])
    BY <1>3, <2>1, <2>4, <2>5, RecordedFacts
  <2>7. /\ fresh[c] /\ fresh' = [d \in Caller |-> d = c]
        /\ op'[h] = "streaming" /\ op' \in [Execution -> Ops]
        /\ \A d \in Caller : d # c => SameCaller(d)
        /\ \A e \in Execution : e # h => SameExecution(e)
    BY <1>1, <1>4, <1>6 DEF Stored, TypeOK, Ops, SameCaller, SameExecution
  <2>8. TypeOK'
    <3>1. fresh' \in [Caller -> BOOLEAN]
      BY <2>7
    <3> QED  BY <1>1, <1>4, <1>6, <2>6, <2>7, <3>1 DEF TypeOK
  <2>9. ExecutionSound(h)'
    BY <1>3, <1>4, <1>6, <2>6, <2>7 DEF ExecutionSound, Untouched
  <2>10. PlaceSound(c)'
    BY <1>2, <1>4, <1>5, <1>6, <2>7 DEF PlaceSound, Waiting, Reporting
  <2>11. Current(c) /\ run.nodes[h[1]].status = "running"
    BY <1>1, <1>2, <1>5, <1>6 DEF CallerSound, Current, NodeAt
  <2>12. Current(c)'
    BY <1>2, <1>4, <1>5, <1>6, <2>6, <2>11 DEF Current, NodeAt, TimeoutBy
  <2>13. ~run'.configured /\ pc'[c] \notin Reporting /\ pc'[c] # "retry" /\ UNCHANGED <<created, at>> /\ faults' = faults
    BY <1>4, <1>6, <2>6 DEF IInv, RunSound, Reporting
  <2> QED  BY <1>2, <1>5, <2>6, <2>7, <2>8, <2>9, <2>10, <2>11, <2>12, <2>13, HolderAppends
<1>7. CASE /\ AppendFails(c) /\ Errored(h)
           /\ IF pc[c] = "expired" THEN Fails(c) ELSE UNCHANGED <<pc, result>>
           /\ UNCHANGED <<run, fresh>>
  <2>1. faults \subseteq faults' /\ faults' \subseteq Faults /\ ~(Clean /\ Clean')
    BY <1>5, <1>7, AppendFailure
  <2>2. /\ op'[h] = "done" /\ outcome'[h] = "errored" /\ cancelled'[h] \in {cancelled[h], "pending"}
        /\ op' \in [Execution -> Ops] /\ outcome' \in [Execution -> Outcomes]
        /\ cancelled' \in [Execution -> {"none", "pending", "succeeded", "failed"}]
        /\ \A e \in Execution : e # h => SameExecution(e)
    BY <1>1, <1>2, <1>4, <1>7 DEF Errored, Returns, Awaited, Cancelling, TypeOK, Ops, Outcomes, SameExecution
  <2>3. /\ pc'[c] = IF pc[c] = "expired" THEN "finish" ELSE pc[c]
        /\ pc' \in [Caller -> Places] /\ result' \in [Caller -> Results]
        /\ \A d \in Caller : d # c => SameCaller(d)
    BY <1>1, <1>4, <1>7 DEF Fails, Goes, Caught, TypeOK, Places, InFinish, InAttempt, Results, SameCaller
  <2>4. TypeOK'
    BY <1>1, <1>4, <1>7, <2>1, <2>2, <2>3 DEF TypeOK
  <2>5. ExecutionSound(h)'
    BY <1>3, <1>4, <1>7, <2>2 DEF ExecutionSound, Untouched
  <2>6. pc'[c] \in Holding
    BY <1>5, <2>3 DEF Holding
  <2>7. PlaceSound(c)'
    <3>1. ~unsafe[c] /\ result[c] = "failed"
      BY <1>4, <1>5 DEF PlaceSound, InAttempt, Reporting
    <3>2. pc[c] = "running" => result'[c] = "failed"
      BY <1>7, <3>1
    <3>3. pc[c] = "running" => ~expired'[h]
      BY <1>2, <1>4, <1>5 DEF PlaceSound
    <3> QED  BY <1>2, <1>4, <2>2, <2>3, <3>1, <3>2, <3>3 DEF PlaceSound, Waiting, Reporting, InAttempt
  <2>8. fresh[c] => Current(c)'
    BY <1>1, <1>4, <1>5, <1>7, <2>3 DEF CallerSound, Current, NodeAt, TimeoutBy, Holding
  <2>9. UNCHANGED <<created, run, fresh, at>>
    BY <1>4, <1>7
  <2> QED  BY <1>2, <1>5, <2>1, <2>2, <2>3, <2>4, <2>5, <2>6, <2>7, <2>8, <2>9, HolderGoesOn
<1>8. \/ /\ fresh[c]
         /\ \E usage \in {FALSE, ~run.nodes[h[1]].last.usage} :
               \E r \in Materialized(run, <<[type |-> "RuntimeEventObserved", node |-> h[1],
                                             attempt |-> h[2], usage |-> usage]>>) : Stored(c, r)
         /\ op' = [op EXCEPT ![h] = "streaming"]
         /\ UNCHANGED <<pc, result, outcome, cancelled, faults>>
      \/ /\ AppendFails(c) /\ Errored(h)
         /\ IF pc[c] = "expired" THEN Fails(c) ELSE UNCHANGED <<pc, result>>
         /\ UNCHANGED <<run, fresh>>
  BY <1>2, Zenon DEF Observed
<1> QED  BY <1>6, <1>7, <1>8

\* A result comes in after the deadline.
LEMMA LateResultStep == ASSUME IInv, NEW c \in Caller, LateResult(c) PROVE IInv'
<1>1. TypeOK /\ CallerSound(c)
  BY DEF IInv
<1>2. PICK h \in Execution : h = at[c]
  BY <1>1 DEF TypeOK
<1>3. ExecutionSound(h) /\ h[1] \in Node /\ h[2] \in Nat
  BY ExecutionParts DEF IInv
<1>4. /\ pc[c] = "late" /\ op[h] = "done"
      /\ UNCHANGED <<created, at, op, expired, cancelled, worker, events>>
      /\ outcome' = [outcome EXCEPT ![h] = "none"]
  BY <1>2 DEF LateResult, Consumed
<1>5. pc[c] \in Holding /\ PlaceSound(c) /\ ~unsafe[c]
  BY <1>1, <1>4 DEF Holding, InAttempt, CallerSound, PlaceSound, Reporting
<1>6. /\ \A e \in Execution : e # h => SameExecution(e)
      /\ outcome' \in [Execution -> Outcomes]
      /\ outcome'[h] = "none"
  BY <1>1, <1>4 DEF TypeOK, SameExecution, Outcomes
<1>7. CASE /\ fresh[c]
           /\ \E r \in Materialized(run, <<[type |-> "LateResultObserved", node |-> h[1], attempt |-> h[2]]>>) :
                 Stored(c, r)
           /\ OutOfTime(c, TRUE) /\ Goes(c, "evidence") /\ UNCHANGED faults
  <2>1. run \in Run /\ run.nodes[h[1]].last \in Attempt
    BY <1>1, <1>3, RunParts DEF TypeOK
  <2>2. run' \in Materialized(run, <<[type |-> "LateResultObserved", node |-> h[1], attempt |-> h[2]]>>)
    BY <1>7 DEF Stored
  <2>3. PICK x : x = [run.nodes[h[1]].last EXCEPT !.late = TRUE]
    OBVIOUS
  <2>4. AttemptChanged(run, run', h[1], x)
    BY <2>1, <2>2, <2>3, RecordedEffect
  <2>5. x.status = run.nodes[h[1]].last.status /\ x.timeout = run.nodes[h[1]].last.timeout
    BY <2>1, <2>3 DEF Attempt
  <2>6. /\ run' \in Run /\ run'.status = run.status /\ run'.configured = run.configured
        /\ run'.nodes[h[1]].status = run.nodes[h[1]].status
        /\ run'.nodes[h[1]].attempts = run.nodes[h[1]].attempts
        /\ run'.nodes[h[1]].last.status = run.nodes[h[1]].last.status
        /\ \A m \in Node : m # h[1] => NodeEases(run.nodes[m], run'.nodes[m])
    BY <1>3, <2>1, <2>4, <2>5, RecordedFacts
  <2>7. /\ fresh[c] /\ fresh' = [d \in Caller |-> d = c]
        /\ pc'[c] = "evidence" /\ result'[c] = "exhausted"
        /\ unsafe'[c] = (run.nodes[h[1]].last.timeout # "succeeded")
        /\ \A d \in Caller : d # c => SameCaller(d)
    BY <1>1, <1>2, <1>4, <1>7 DEF Stored, OutOfTime, TimedOut, Goes, TypeOK, SameCaller
  <2>8. TypeOK'
    <3>1. /\ fresh' \in [Caller -> BOOLEAN] /\ pc' \in [Caller -> Places]
          /\ result' \in [Caller -> Results] /\ unsafe' \in [Caller -> BOOLEAN]
      BY <1>1, <1>7, <2>7 DEF OutOfTime, Goes, TypeOK, Places, InAttempt, Results
    <3> QED  BY <1>1, <1>4, <1>6, <1>7, <2>6, <3>1 DEF TypeOK
  <2>9. ExecutionSound(h)'
    BY <1>3, <1>4, <1>6, <2>6 DEF ExecutionSound, Untouched
  <2>10. PlaceSound(c)'
    BY <2>7 DEF PlaceSound, Waiting, Reporting, InAttempt
  <2>11. Current(c) /\ run.nodes[h[1]].status = "running"
    BY <1>1, <1>2, <1>4, <1>5, <1>7 DEF CallerSound, Current, NodeAt
  <2>12. Current(c)'
    BY <1>2, <1>4, <1>5, <2>6, <2>7, <2>11 DEF Current, NodeAt, TimeoutBy, Holding, InAttempt
  <2>13. ~unsafe'[c] => ~Threat(h)'
    <3>1. run.nodes[h[1]].last.timeout = "succeeded" => cancelled[h] = "succeeded"
      BY <1>2, <1>4, <1>5, <2>11 DEF Current, TimeoutBy, NodeAt
    <3>2. cancelled[h] = "succeeded" => worker[h] = "stopped"
      BY <1>3 DEF ExecutionSound
    <3> QED  BY <1>4, <2>7, <3>1, <3>2 DEF Threat, Running
  <2>14. ~run'.configured /\ pc'[c] # "retry" /\ UNCHANGED <<created, at>> /\ faults' = faults
    BY <1>4, <1>7, <2>6, <2>7 DEF IInv, RunSound
  <2> QED  BY <1>2, <1>5, <1>6, <2>6, <2>7, <2>8, <2>9, <2>10, <2>11, <2>12, <2>13, <2>14, HolderAppends
<1>8. CASE AppendFails(c) /\ Fails(c) /\ UNCHANGED <<run, fresh, unsafe>>
  <2>1. faults \subseteq faults' /\ faults' \subseteq Faults /\ ~(Clean /\ Clean')
    BY <1>5, <1>8, AppendFailure
  <2>2. /\ pc'[c] = "finish" /\ pc' \in [Caller -> Places] /\ result' \in [Caller -> Results]
        /\ \A d \in Caller : d # c => SameCaller(d)
    BY <1>1, <1>4, <1>8 DEF Fails, Goes, Caught, TypeOK, Places, InFinish, InAttempt, Results, SameCaller
  <2>3. TypeOK'
    BY <1>1, <1>4, <1>6, <1>8, <2>1, <2>2 DEF TypeOK
  <2>4. ExecutionSound(h)'
    BY <1>3, <1>4, <1>6, <1>8 DEF ExecutionSound, Untouched
  <2>5. PlaceSound(c)'
    BY <1>5, <1>8, <2>2 DEF PlaceSound, Waiting, Reporting, InAttempt
  <2>6. fresh[c] => Current(c)'
    BY <1>1, <1>4, <1>5, <1>8, <2>2 DEF CallerSound, Current, NodeAt, TimeoutBy, Holding
  <2>7. pc'[c] \in Holding /\ UNCHANGED <<created, run, fresh, at>>
    BY <1>4, <1>8, <2>2 DEF Holding
  <2> QED  BY <1>2, <1>5, <1>6, <2>1, <2>2, <2>3, <2>4, <2>5, <2>6, <2>7, HolderGoesOn
<1>9. \/ /\ fresh[c]
         /\ \E r \in Materialized(run, <<[type |-> "LateResultObserved", node |-> h[1], attempt |-> h[2]]>>) :
               Stored(c, r)
         /\ OutOfTime(c, TRUE) /\ Goes(c, "evidence") /\ UNCHANGED faults
      \/ AppendFails(c) /\ Fails(c) /\ UNCHANGED <<run, fresh, unsafe>>
  BY <1>2, Zenon DEF LateResult
<1> QED  BY <1>7, <1>8, <1>9

\* The collect of a late start has rejected, and the deadline of its attempt is known.
LEMMA LateResultThrowsStep == ASSUME IInv, NEW c \in Caller, LateResultThrows(c) PROVE IInv'
<1>1. TypeOK /\ CallerSound(c)
  BY DEF IInv
<1>2. PICK h \in Execution : h = at[c]
  BY <1>1 DEF TypeOK
<1>3. ExecutionSound(h)
  BY DEF IInv
<1>4. /\ pc[c] = "late" /\ op[h] = "done"
      /\ UNCHANGED <<created, run, fresh, at, unsafe, op, expired, cancelled, worker, events>>
      /\ pc'[c] = "finish" /\ result'[c] \in {"failed", "exhausted"} /\ outcome'[h] = "none"
      /\ \A d \in Caller : d # c => SameCaller(d)
      /\ \A e \in Execution : e # h => SameExecution(e)
      /\ faults \subseteq faults' /\ faults' \subseteq Faults
  BY <1>1, <1>2 DEF LateResultThrows, Fails, Goes, Caught, Consumed, InAttempt, Faults, TypeOK, SameCaller,
     SameExecution
<1>5. TypeOK'
  <2>1. pc' \in [Caller -> Places] /\ result' \in [Caller -> Results] /\ outcome' \in [Execution -> Outcomes]
    BY <1>1 DEF LateResultThrows, Fails, Goes, Caught, Consumed, TypeOK, Places, InAttempt, InFinish, Results,
       Outcomes
  <2> QED  BY <1>1, <1>4, <2>1 DEF TypeOK
<1>6. ExecutionSound(h)'
  BY <1>3, <1>4 DEF ExecutionSound, Untouched
<1>7. PlaceSound(c)'
  BY <1>4 DEF PlaceSound, Waiting, Reporting, InAttempt
<1>8. fresh[c] => Current(c)'
  BY <1>1, <1>4 DEF CallerSound, Current, NodeAt, TimeoutBy, Holding, InAttempt
<1>9. pc[c] \in Holding /\ pc'[c] \in Holding /\ pc'[c] # "retry"
  BY <1>4 DEF Holding, InAttempt
<1>10. Clean => Escaped(c)'
  <2>1. Clean => Current(c)
    BY <1>2, <1>9, HolderKnows
  <2>2. Clean => NodeAt(c).last.timeout \in CancellationOutcome
    BY <1>4, <1>9, <2>1 DEF Current, TimeoutBy
  <2>3. result[c] = "failed"
    BY <1>1, <1>4 DEF CallerSound, PlaceSound, InAttempt, Reporting
  <2>4. result'[c] = "failed"
    BY <1>1, <1>4, <2>3 DEF LateResultThrows, Fails, Caught, InAttempt, TypeOK
  <2> QED  BY <1>4, <2>2, <2>4 DEF Escaped, NodeAt, CancellationOutcome
<1> QED  BY <1>2, <1>4, <1>5, <1>6, <1>7, <1>8, <1>9, <1>10, HolderGoesOn

-----------------------------------------------------------------------------
(* finishAttempt *)

\* A refused append ends the call of a caller that is not in executeAttempt.
LEMMA ConclusionRefused ==
    ASSUME IInv, NEW c \in Caller, pc[c] # "idle", pc[c] \notin InAttempt, NEW batch, CommitRefused(c, batch),
           UNCHANGED <<created, at, executions, events>>,
           unsafe' = unsafe \/ unsafe' = [unsafe EXCEPT ![c] = FALSE]
    PROVE  IInv'
<1>1. TypeOK
  BY DEF IInv
<1>2. unsafe' \in [Caller -> BOOLEAN] /\ \A d \in Caller : d # c \/ pc[c] \in InAttempt => unsafe'[d] = unsafe[d]
  BY <1>1 DEF TypeOK
<1>3. Refused(c)
  BY <1>1, <1>2, RefusedFacts
<1> QED  BY <1>3, RefusedStep

\* An append that ends the attempt: the others are eased, and the node of the attempt too.
LEMMA ConcludedAway ==
    ASSUME IInv, NEW c \in Caller, pc[c] \in {"finish", "failing"}, NEW batch, NEW place,
           CommitAppended(c, batch, place), place \in {"idle", "tick", "advance"},
           UNCHANGED <<created, at, executions, events>>, unsafe' = [unsafe EXCEPT ![c] = FALSE],
           Eases(run, run'), place = "advance" => run'.status = "running",
           NEW h \in Execution, h = at[c],
           Clean /\ Threat(h) => run'.nodes[h[1]].status \in {"running", "failed"}
    PROVE  IInv'
<1>1. pc[c] \in Holding /\ pc[c] # "schedule" /\ place \in Places /\ fresh[c]
  BY DEF Holding, Places, InFinish, CommitAppended
<1>2. /\ h[1] \in Node /\ run \in Run /\ ~run.configured
      /\ run.nodes[h[1]].status \in {"running", "failed"}
  BY <1>1, HolderFacts
<1>3. TypeOK /\ unsafe' \in [Caller -> BOOLEAN] /\ \A d \in Caller : d # c => unsafe'[d] = unsafe[d]
  BY DEF IInv, TypeOK
<1>4. run' \in Run /\ ~run'.configured /\ \A n \in Node : NodeEases(run.nodes[n], run'.nodes[n])
  BY <1>2 DEF Eases
<1>5. TypeOK' /\ pc'[c] = place /\ fresh' = [d \in Caller |-> d = c] /\ faults' = faults
      /\ (\A d \in Caller : d # c => SameCaller(d))
      /\ (\A e \in Execution : SameExecution(e) /\ (Threat(e)' <=> Threat(e)))
      /\ \A e \in Execution : (\A n \in Node : run.nodes[n].attempts <= run'.nodes[n].attempts) =>
            ExecutionSound(e)'
  BY <1>1, <1>3, <1>4, AppendedFacts
<1>6. \A n \in Node : run'.nodes[n].attempts = run.nodes[n].attempts
  BY <1>4 DEF NodeEases
<1>7. ExecutionSound(h)'
  <2> SUFFICES ASSUME NEW n \in Node PROVE run.nodes[n].attempts <= run'.nodes[n].attempts
    BY <1>5
  <2>1. run.nodes[n].attempts \in Nat
    BY <1>2, RunParts
  <2> QED  BY <1>6, <2>1
<1>8. run'.nodes[h[1]].status # "pending" /\ run'.nodes[h[1]].status # "ready"
  BY <1>2, <1>4 DEF NodeEases
<1>9. PlaceSound(c)' /\ Current(c)'
  <2>1. pc'[c] \notin Holding /\ pc'[c] \notin Reporting
    BY <1>5 DEF Holding, InAttempt, Reporting
  <2>2. PlaceSound(c)'
    BY <1>5 DEF PlaceSound, Waiting, Reporting, InAttempt
  <2>3. Current(c)'
    BY <1>5, <2>1 DEF Current
  <2> QED  BY <2>2, <2>3
<1>10. pc'[c] \notin Reporting /\ pc'[c] # "retry"
  BY <1>5 DEF Reporting
<1>11. UNCHANGED <<created, at>>
  OBVIOUS
<1> QED  BY <1>1, <1>2, <1>4, <1>5, <1>6, <1>7, <1>8, <1>9, <1>10, <1>11, HolderAppends

\* Whoever reports a result other than a failure knows that the worker is gone.
LEMMA ReportedSafe ==
    ASSUME IInv, NEW c \in Caller, pc[c] = "finish",
           result[c] \notin {"failed", "exhausted"} \/ (~unsafe[c] /\ ~Escaped(c)), NEW h \in Execution, h = at[c], Clean
    PROVE  ~Threat(h)
<1>1. pc[c] \in Holding /\ pc[c] \in Reporting
  BY DEF Holding, Reporting
<1>2. PlaceSound(c)
  BY DEF IInv, CallerSound
<1>3. ~unsafe[c]
  <2>1. unsafe[c] \in BOOLEAN
    BY DEF IInv, TypeOK
  <2> QED  BY <1>1, <1>2, <2>1 DEF PlaceSound
<1>4. ~Escaped(c)
  BY DEF Escaped
<1> QED  BY <1>1, <1>3, <1>4, HolderKnows DEF Sole

\* A run that was ended, or has nothing ready, is returned.
LEMMA ContinuesAway == \A v : Continues(v) \in {"idle", "tick"}
BY DEF Continues

\* What ends with an event is not empty.
LEMMA NotEmpty ==
    ASSUME NEW a, NEW spared, EasingBatch(a, spared), NEW x
    PROVE  a \o <<x>> # <<>>
<1>1. PICK S : a \in Seq(S)
  BY DEF EasingBatch
<1>2. PICK b : b = <<x>>
  OBVIOUS
<1>3. b \in Seq({x}) /\ Len(b) = 1
  BY <1>2
<1>4. Len(a) \in Nat /\ Len(a \o b) = Len(a) + Len(b)
  <2>1. PICK T : b \in Seq(T)
    BY <1>3
  <2> QED  BY <1>1, <2>1
<1>5. Len(a \o b) # 0
  BY <1>3, <1>4
<1>6. Len(<<>>) = 0
  OBVIOUS
<1> QED  BY <1>2, <1>5, <1>6, Zenon

\* Neither are the batches of finishAttempt.
LEMMA EndingNotEmpty ==
    ASSUME NEW v, NEW e \in Execution
    PROVE  /\ <<AttemptEvent("AttemptBlocked", e), NodeEvent("NodeBlocked", e[1])>>
                 \o BlockOthers(v, e[1]) \o <<[type |-> "RunBlocked"]>> # <<>>
           /\ <<AttemptEvent("AttemptCancelled", e), NodeEvent("NodeCancelled", e[1])>>
                 \o CancelOthers(v, e[1]) \o <<[type |-> "RunCancelled", durable |-> FALSE]>> # <<>>
           /\ BlockOthers(v, e[1]) \o <<[type |-> "RunCompleted", outcome |-> "failed"]>> # <<>>
<1>1. e[1] \in Node
  BY DEF Execution
<1>2. EasingBatch(BlockOthers(v, e[1]), {e[1]}) /\ EasingBatch(CancelOthers(v, e[1]), {e[1]})
  BY EasingForNodes
<1>3. EasingBatch(BlockOthers(v, e[1]), {}) /\ EasingBatch(CancelOthers(v, e[1]), {})
  BY <1>2, EasingFewer
<1>4. /\ EasingBatch(<<AttemptEvent("AttemptBlocked", e), NodeEvent("NodeBlocked", e[1])>>, {})
      /\ EasingBatch(<<AttemptEvent("AttemptCancelled", e), NodeEvent("NodeCancelled", e[1])>>, {})
  <2>1. \A a, b : Easing(a) /\ Easing(b) => EasingBatch(<<a, b>>, {})
    BY EasingTwo
  <2> QED  BY <1>1, <2>1, EasingEvents
<1>5. /\ EasingBatch(<<AttemptEvent("AttemptBlocked", e), NodeEvent("NodeBlocked", e[1])>>
                      \o BlockOthers(v, e[1]), {})
      /\ EasingBatch(<<AttemptEvent("AttemptCancelled", e), NodeEvent("NodeCancelled", e[1])>>
                      \o CancelOthers(v, e[1]), {})
  BY <1>3, <1>4, EasingJoined, Zenon
<1> QED  BY <1>2, <1>5, NotEmpty, Zenon

\* The attempt is blocked or cancelled, and with it the run.
LEMMA FinishBlockedStep == ASSUME IInv, NEW c \in Caller, FinishBlocked(c) PROVE IInv'
<1>1. TypeOK /\ \E e \in Execution : e = at[c]
  BY DEF IInv, TypeOK
<1>2. PICK h \in Execution : h = at[c]
  BY <1>1
<1>3. PICK b : b = <<AttemptEvent("AttemptBlocked", h), NodeEvent("NodeBlocked", h[1])>>
                    \o BlockOthers(run, h[1]) \o <<[type |-> "RunBlocked"]>>
  OBVIOUS
<1>4. EasingBatch(b, {}) /\ b # <<>>
  BY <1>3, EndingBatches, EndingNotEmpty
<1>5. /\ pc[c] = "finish" /\ result[c] = "blocked" /\ UNCHANGED <<created, at, executions, events>>
      /\ unsafe' = [unsafe EXCEPT ![c] = FALSE]
  BY DEF FinishBlocked, Finishing, Concludes
<1>6. CommitRefused(c, b) \/ CommitAppended(c, b, Continues(run'))
  BY <1>2, <1>3, <1>4, Zenon DEF FinishBlocked, Concludes, Commit, CommitRefused, CommitAppended, Stored, Goes
<1>7. CASE CommitRefused(c, b)
  BY <1>5, <1>7, ConclusionRefused DEF InAttempt
<1>8. CASE CommitAppended(c, b, Continues(run'))
  <2>1. PICK place : place = Continues(run')
    OBVIOUS
  <2>2. place \in {"idle", "tick"} /\ CommitAppended(c, b, place)
    BY <1>8, <2>1, ContinuesAway
  <2>3. Eases(run, run')
    <3>1. run \in Run /\ run' \in Materialized(run, b) /\ {} \in SUBSET Node
      BY <1>1, <1>8 DEF TypeOK, CommitAppended
    <3> QED  BY <1>4, <3>1, BatchEases
  <2>4. Clean => ~Threat(h)
    BY <1>2, <1>5, ReportedSafe
  <2> QED  BY <1>2, <1>5, <2>2, <2>3, <2>4, ConcludedAway
<1> QED  BY <1>6, <1>7, <1>8

\* A cancelled result cancels the run.
LEMMA FinishCancelledStep == ASSUME IInv, NEW c \in Caller, FinishCancelled(c) PROVE IInv'
<1>1. TypeOK /\ \E e \in Execution : e = at[c]
  BY DEF IInv, TypeOK
<1>2. PICK h \in Execution : h = at[c]
  BY <1>1
<1>3. PICK b : b = <<AttemptEvent("AttemptCancelled", h), NodeEvent("NodeCancelled", h[1])>>
                    \o CancelOthers(run, h[1]) \o <<[type |-> "RunCancelled", durable |-> FALSE]>>
  OBVIOUS
<1>4. EasingBatch(b, {}) /\ b # <<>>
  BY <1>3, EndingBatches, EndingNotEmpty
<1>5. /\ pc[c] = "finish" /\ result[c] = "cancelled" /\ UNCHANGED <<created, at, executions, events>>
      /\ unsafe' = [unsafe EXCEPT ![c] = FALSE]
  BY DEF FinishCancelled, Finishing, Concludes
<1>6. CommitRefused(c, b) \/ CommitAppended(c, b, Continues(run'))
  BY <1>2, <1>3, <1>4, Zenon DEF FinishCancelled, Concludes, Commit, CommitRefused, CommitAppended, Stored, Goes
<1>7. CASE CommitRefused(c, b)
  BY <1>5, <1>7, ConclusionRefused DEF InAttempt
<1>8. CASE CommitAppended(c, b, Continues(run'))
  <2>1. PICK place : place = Continues(run')
    OBVIOUS
  <2>2. place \in {"idle", "tick"} /\ CommitAppended(c, b, place)
    BY <1>8, <2>1, ContinuesAway
  <2>3. Eases(run, run')
    <3>1. run \in Run /\ run' \in Materialized(run, b) /\ {} \in SUBSET Node
      BY <1>1, <1>8 DEF TypeOK, CommitAppended
    <3> QED  BY <1>4, <3>1, BatchEases
  <2>4. Clean => ~Threat(h)
    BY <1>2, <1>5, ReportedSafe
  <2> QED  BY <1>2, <1>5, <2>2, <2>3, <2>4, ConcludedAway
<1> QED  BY <1>6, <1>7, <1>8

\* The attempt succeeds, and its node.
LEMMA FinishSucceededStep == ASSUME IInv, NEW c \in Caller, FinishSucceeded(c) PROVE IInv'
<1>1. TypeOK /\ \E e \in Execution : e = at[c]
  BY DEF IInv, TypeOK
<1>2. PICK h \in Execution : h = at[c]
  BY <1>1
<1>3. PICK b : b = <<AttemptEvent("AttemptSucceeded", h), NodeEvent("NodeSucceeded", h[1])>>
  OBVIOUS
<1>4. EasingBatch(b, {}) /\ b # <<>>
  BY <1>3, EndingBatches
<1>5. /\ pc[c] = "finish" /\ result[c] = "succeeded" /\ UNCHANGED <<created, at, executions, events>>
      /\ unsafe' = [unsafe EXCEPT ![c] = FALSE]
  BY DEF FinishSucceeded, Finishing, Concludes
<1>6. CommitRefused(c, b) \/ CommitAppended(c, b, "advance")
  BY <1>2, <1>3, <1>4, Zenon DEF FinishSucceeded, Concludes, Commit, CommitRefused, CommitAppended, Stored, Goes
<1>7. CASE CommitRefused(c, b)
  BY <1>5, <1>7, ConclusionRefused DEF InAttempt
<1>8. CASE CommitAppended(c, b, "advance")
  <2>1. run \in Run /\ run' \in Materialized(run, b) /\ {} \in SUBSET Node /\ fresh[c]
    BY <1>1, <1>8 DEF TypeOK, CommitAppended
  <2>2. Eases(run, run')
    BY <1>4, <2>1, BatchEases
  <2>3. run'.status = run.status
    BY <1>3, <2>1, SucceededNode DEF OnlyNode
  <2>4. run.status = "running"
    <3>1. pc[c] \in Holding
      BY <1>5 DEF Holding
    <3> QED  BY <2>1, <3>1, HolderFacts
  <2>5. Clean => ~Threat(h)
    BY <1>2, <1>5, ReportedSafe
  <2> QED  BY <1>2, <1>5, <1>8, <2>2, <2>3, <2>4, <2>5, ConcludedAway
<1> QED  BY <1>6, <1>7, <1>8

\* The run has failed; the failed node stays, and its worker with it.
LEMMA FailRunStep == ASSUME IInv, NEW c \in Caller, FailRun(c) PROVE IInv'
<1>1. TypeOK /\ \E e \in Execution : e = at[c]
  BY DEF IInv, TypeOK
<1>2. PICK h \in Execution : h = at[c]
  BY <1>1
<1>3. PICK b : b = BlockOthers(run, h[1]) \o <<[type |-> "RunCompleted", outcome |-> "failed"]>>
  OBVIOUS
<1>4. EasingBatch(b, {h[1]}) /\ b # <<>> /\ {h[1]} \in SUBSET Node
  BY <1>3, EndingBatches, EndingNotEmpty DEF Execution
<1>5. /\ pc[c] = "failing" /\ UNCHANGED <<created, at, executions, events>>
      /\ unsafe' = [unsafe EXCEPT ![c] = FALSE]
  BY DEF FailRun, Finishing, Concludes
<1>6. CommitRefused(c, b) \/ CommitAppended(c, b, Continues(run'))
  BY <1>2, <1>3, <1>4, Zenon DEF FailRun, Concludes, Commit, CommitRefused, CommitAppended, Stored, Goes
<1>7. CASE CommitRefused(c, b)
  BY <1>5, <1>7, ConclusionRefused DEF InAttempt
<1>8. CASE CommitAppended(c, b, Continues(run'))
  <2>1. PICK place : place = Continues(run')
    OBVIOUS
  <2>2. place \in {"idle", "tick"} /\ CommitAppended(c, b, place)
    BY <1>8, <2>1, ContinuesAway
  <2>3. run \in Run /\ run' \in Materialized(run, b) /\ fresh[c]
    BY <1>1, <1>8 DEF TypeOK, CommitAppended
  <2>4. Eases(run, run') /\ run'.nodes[h[1]] = run.nodes[h[1]]
    BY <1>4, <2>3, BatchEases
  <2>5. run.nodes[h[1]].status = "failed"
    <3>1. pc[c] \in Holding
      BY <1>5 DEF Holding
    <3> QED  BY <1>2, <1>5, <2>3, <3>1, HolderFacts
  <2> QED  BY <1>2, <1>5, <2>2, <2>4, <2>5, ConcludedAway
<1> QED  BY <1>6, <1>7, <1>8

\* The attempt has failed; its node is retried, or fails.
LEMMA FinishFailedStep == ASSUME IInv, NEW c \in Caller, FinishFailed(c) PROVE IInv'
<1>1. TypeOK /\ \E e \in Execution : e = at[c]
  BY DEF IInv, TypeOK
<1>2. PICK h \in Execution : h = at[c]
  BY <1>1
<1>3. PICK exhausted : exhausted = (result[c] = "exhausted")
  OBVIOUS
<1>4. PICK b : b = <<[type |-> "AttemptFailed", node |-> h[1], attempt |-> h[2], exhausted |-> exhausted]>>
  OBVIOUS
<1>5. PICK place : place = IF MayRetry(c) THEN "retry" ELSE "exhausted"
  OBVIOUS
<1>6. /\ pc[c] = "finish" /\ UNCHANGED <<created, at, executions, events>> /\ b # <<>>
      /\ unsafe' = [unsafe EXCEPT ![c] = FALSE]
  BY <1>4 DEF FinishFailed, Finishing, Concludes
<1>7. CommitRefused(c, b) \/ CommitAppended(c, b, place)
  BY <1>2, <1>3, <1>4, <1>5, <1>6, Zenon
     DEF FinishFailed, Concludes, Commit, CommitRefused, CommitAppended, Stored, Goes
<1>8. CASE CommitRefused(c, b)
  BY <1>6, <1>8, ConclusionRefused DEF InAttempt
<1>9. CASE CommitAppended(c, b, place)
  <2>1. run \in Run /\ run' \in Materialized(run, b) /\ fresh[c] /\ pc[c] \in Holding /\ pc[c] # "schedule"
    BY <1>1, <1>6, <1>9 DEF TypeOK, CommitAppended, Holding
  <2>2. place \in {"retry", "exhausted"} /\ place \in Places
    BY <1>5 DEF Places, InFinish
  <2>3. /\ h[1] \in Node /\ run.status = "running" /\ ~run.configured
        /\ run.nodes[h[1]].attempts = h[2] /\ run.nodes[h[1]].attempts \in Nat /\ h[2] \in Nat
        /\ run.nodes[h[1]].status = "running"
    BY <1>2, <1>6, <2>1, HolderFacts
  <2>4. PICK x : x = [run.nodes[h[1]].last EXCEPT !.status = "failed"]
    OBVIOUS
  <2>5. AttemptChanged(run, run', h[1], x) /\ (run.nodes[h[1]].last.timeout # "none" => exhausted)
    BY <1>4, <2>1, <2>4, FailedEffect
  <2>6. x.status = "failed"
    BY <2>1, <2>3, <2>4, RunParts DEF Attempt
  <2>7. /\ run' \in Run /\ run'.status = "running" /\ ~run'.configured
        /\ run'.nodes[h[1]].status = "running" /\ run'.nodes[h[1]].attempts = run.nodes[h[1]].attempts
        /\ run'.nodes[h[1]].last.status = "failed"
        /\ \A n \in Node : n # h[1] => run'.nodes[n] = run.nodes[n]
    BY <2>3, <2>5, <2>6 DEF AttemptChanged, OnlyNode
  <2>8. TypeOK' /\ pc'[c] = place /\ fresh' = [d \in Caller |-> d = c] /\ faults' = faults
        /\ (\A d \in Caller : d # c => SameCaller(d))
        /\ (\A e \in Execution : SameExecution(e) /\ (Threat(e)' <=> Threat(e)))
        /\ \A e \in Execution : (\A n \in Node : run.nodes[n].attempts <= run'.nodes[n].attempts) =>
              ExecutionSound(e)'
    <3>1. unsafe' \in [Caller -> BOOLEAN] /\ \A d \in Caller : d # c => unsafe'[d] = unsafe[d]
      BY <1>1, <1>6 DEF TypeOK
    <3> QED  BY <1>6, <1>9, <2>1, <2>2, <2>7, <3>1, AppendedFacts
  <2>9. ExecutionSound(h)'
    <3> SUFFICES ASSUME NEW n \in Node PROVE run.nodes[n].attempts <= run'.nodes[n].attempts
      BY <2>8
    <3>1. run.nodes[n].attempts \in Nat
      BY <2>1, RunParts
    <3>2. run'.nodes[n].attempts = run.nodes[n].attempts
      BY <2>7
    <3> QED  BY <3>1, <3>2
  <2>10. \A n \in Node : n # h[1] => NodeEases(run.nodes[n], run'.nodes[n])
    BY <2>7 DEF NodeEases
  <2>11. place = "retry" => ~unsafe[c] /\ h[2] < Budget[h[1]]
    BY <1>2, <1>5 DEF MayRetry
  <2>12. PlaceSound(c)'
    BY <1>2, <1>6, <2>2, <2>8, <2>11 DEF PlaceSound, Waiting, Reporting, InAttempt
  <2>13. Current(c)'
    BY <1>2, <1>6, <2>2, <2>3, <2>7, <2>8 DEF Current, NodeAt, TimeoutBy, Holding, InAttempt
  <2>14. ASSUME Clean, (pc'[c] \in Reporting /\ ~unsafe'[c]) \/ pc'[c] = "retry" PROVE ~Threat(h)'
    <3>1. ~unsafe[c]
      BY <2>2, <2>8, <2>11, <2>14 DEF Reporting
    <3>2. ~Escaped(c)
      BY <1>2, <1>3, <2>5 DEF Escaped, NodeAt
    <3>3. ~Threat(h)
      BY <1>2, <1>6, <2>14, <3>1, <3>2, ReportedSafe
    <3> QED  BY <2>8, <3>3
  <2>15. UNCHANGED <<created, at>>
    BY <1>6
  <2> QED  BY <1>2, <2>1, <2>7, <2>8, <2>9, <2>10, <2>12, <2>13, <2>14, <2>15, HolderAppends
<1> QED  BY <1>7, <1>8, <1>9

\* The attempt has failed and there is no other: its node fails.
LEMMA FailNodeStep == ASSUME IInv, NEW c \in Caller, FailNode(c) PROVE IInv'
<1>1. TypeOK /\ \E e \in Execution : e = at[c]
  BY DEF IInv, TypeOK
<1>2. PICK h \in Execution : h = at[c]
  BY <1>1
<1>3. PICK b : b = <<NodeEvent("NodeFailed", h[1])>>
  OBVIOUS
<1>4. /\ pc[c] = "exhausted" /\ UNCHANGED <<created, at, executions, events>> /\ b # <<>>
      /\ unsafe' = [unsafe EXCEPT ![c] = FALSE]
  BY <1>3 DEF FailNode, Finishing, Concludes
<1>5. CommitRefused(c, b) \/ CommitAppended(c, b, "failing")
  BY <1>2, <1>3, <1>4, Zenon DEF FailNode, Concludes, Commit, CommitRefused, CommitAppended, Stored, Goes
<1>6. CASE CommitRefused(c, b)
  BY <1>4, <1>6, ConclusionRefused DEF InAttempt
<1>7. CASE CommitAppended(c, b, "failing")
  <2>1. run \in Run /\ run' \in Materialized(run, b) /\ fresh[c] /\ pc[c] \in Holding /\ pc[c] # "schedule"
        /\ "failing" \in Places
    BY <1>1, <1>4, <1>7 DEF TypeOK, CommitAppended, Holding, Places, InFinish
  <2>2. /\ h[1] \in Node /\ run.status = "running" /\ ~run.configured
        /\ run.nodes[h[1]].attempts = h[2] /\ run.nodes[h[1]].attempts \in Nat /\ h[2] \in Nat
    BY <1>2, <2>1, HolderFacts
  <2>3. /\ run' \in Run /\ run'.status = "running" /\ ~run'.configured
        /\ run'.nodes[h[1]].status = "failed" /\ run'.nodes[h[1]].attempts = run.nodes[h[1]].attempts
        /\ \A n \in Node : n # h[1] => run'.nodes[n] = run.nodes[n]
    BY <1>3, <2>1, <2>2, NodeFailedEffect DEF OnlyNode
  <2>4. TypeOK' /\ pc'[c] = "failing" /\ fresh' = [d \in Caller |-> d = c] /\ faults' = faults
        /\ (\A d \in Caller : d # c => SameCaller(d))
        /\ (\A e \in Execution : SameExecution(e) /\ (Threat(e)' <=> Threat(e)))
        /\ \A e \in Execution : (\A n \in Node : run.nodes[n].attempts <= run'.nodes[n].attempts) =>
              ExecutionSound(e)'
    <3>1. unsafe' \in [Caller -> BOOLEAN] /\ \A d \in Caller : d # c => unsafe'[d] = unsafe[d]
      BY <1>1, <1>4 DEF TypeOK
    <3> QED  BY <1>4, <1>7, <2>1, <2>3, <3>1, AppendedFacts
  <2>5. ExecutionSound(h)'
    <3> SUFFICES ASSUME NEW n \in Node PROVE run.nodes[n].attempts <= run'.nodes[n].attempts
      BY <2>4
    <3>1. run.nodes[n].attempts \in Nat
      BY <2>1, RunParts
    <3>2. run'.nodes[n].attempts = run.nodes[n].attempts
      BY <2>3
    <3> QED  BY <3>1, <3>2
  <2>6. \A n \in Node : n # h[1] => NodeEases(run.nodes[n], run'.nodes[n])
    BY <2>3 DEF NodeEases
  <2>7. PlaceSound(c)'
    BY <2>4 DEF PlaceSound, Waiting, Reporting, InAttempt
  <2>8. Current(c)'
    BY <1>2, <1>4, <2>2, <2>3, <2>4 DEF Current, NodeAt, TimeoutBy, Holding, InAttempt
  <2>9. pc'[c] \notin Reporting /\ pc'[c] # "retry" /\ UNCHANGED <<created, at>>
    BY <1>4, <2>4 DEF Reporting
  <2> QED  BY <1>2, <2>1, <2>3, <2>4, <2>5, <2>6, <2>7, <2>8, <2>9, HolderAppends
<1> QED  BY <1>5, <1>6, <1>7

\* A caller that has nothing to append goes on.
LEMMA NothingAppended ==
    ASSUME IInv, NEW c \in Caller, pc[c] \in {"retry", "advance", "complete"}, NEW place,
           pc' = [pc EXCEPT ![c] = place],
           place \in {"idle", "tick"} \/ (pc[c] = "advance" /\ place = "complete"),
           UNCHANGED <<created, run, fresh, at, result, executions, events, faults>>,
           unsafe' = [unsafe EXCEPT ![c] = FALSE]
    PROVE  IInv'
<1>1. TypeOK /\ RunSound /\ CallerSound(c)
  BY DEF IInv
<1>2. PICK h \in Execution : h = at[c]
  BY <1>1 DEF TypeOK
<1>3. pc'[c] = place /\ pc' \in [Caller -> Places] /\ \A d \in Caller : d # c => SameCaller(d)
  BY <1>1 DEF TypeOK, Places, InFinish, SameCaller
<1>4. TypeOK'
  <2>1. unsafe' \in [Caller -> BOOLEAN]
    BY <1>1 DEF TypeOK
  <2> QED  BY <1>1, <1>3, <2>1 DEF TypeOK, executions
<1>5. RunSound'
  BY <1>1 DEF RunSound
<1>6. \A e \in Execution : SameExecution(e) /\ (Threat(e)' <=> Threat(e)) /\ (ExecutionSound(e) => ExecutionSound(e)')
  BY DEF SameExecution, executions, Threat, ExecutionSound, Untouched
<1>7. pc'[c] \notin Holding
  BY <1>3 DEF Holding, InAttempt
<1>8. Moves(c)
  <2>1. \A n \in Node : run.nodes[n].attempts <= run.nodes[n].attempts
    BY <1>1, RunParts DEF TypeOK
  <2>2. created
    BY CreatedFirst
  <2> QED  BY <1>3, <1>6, <1>7, <2>1, <2>2 DEF Moves
<1>9. CallerSound(c)'
  <2>1. CASE place \in {"idle", "tick"}
    BY <1>3, <2>1, AwaySound
  <2>2. CASE pc[c] = "advance" /\ place = "complete"
    <3>1. PlaceSound(c)'
      BY <1>3, <2>2 DEF PlaceSound, Waiting, Reporting, InAttempt
    <3>2. fresh[c] => Current(c)'
      BY <1>1, <1>3, <1>7, <2>2 DEF CallerSound, Current
    <3> QED  BY <1>7, <3>1, <3>2 DEF CallerSound
  <2> QED  BY <2>1, <2>2
<1>10. Clean' => Clean
  BY DEF Clean
<1>11. Busy' = Busy
  BY DEF Busy
<1>12. CASE pc[c] = "retry"
  <2>1. pc[c] \in Holding
    BY <1>12 DEF Holding
  <2>2. ExecutionSound(h)'
    BY <1>6 DEF IInv
  <2>3. ASSUME Clean' PROVE h[1] \in Busy' /\ h[2] = run'.nodes[h[1]].attempts
    BY <1>2, <1>10, <1>11, <2>1, <2>3, HolderKnows
  <2> QED  BY <1>2, <1>4, <1>5, <1>7, <1>8, <1>9, <1>11, <2>1, <2>2, <2>3, HolderMoves
<1>13. CASE pc[c] # "retry"
  <2>1. pc[c] \notin Holding /\ pc[c] \notin Outside
    BY <1>13 DEF Holding, InAttempt, Outside
  <2> QED  BY <1>4, <1>5, <1>7, <1>8, <1>9, <2>1, OtherMoves
<1> QED  BY <1>12, <1>13

\* The failed attempt is followed by another: nothing of it runs.
LEMMA RetryStep == ASSUME IInv, NEW c \in Caller, Retry(c) PROVE IInv'
<1>1. TypeOK /\ \E e \in Execution : e = at[c]
  BY DEF IInv, TypeOK
<1>2. PICK h \in Execution : h = at[c]
  BY <1>1
<1>3. PICK b : b = ReadyBatch({h[1]}, "retry")
  OBVIOUS
<1>4. /\ pc[c] = "retry" /\ UNCHANGED <<created, at, executions, events>>
      /\ unsafe' = [unsafe EXCEPT ![c] = FALSE]
  BY DEF Retry, Finishing, Concludes
<1>5. \/ CommitRefused(c, b)
      \/ CommitAppended(c, b, Continues(run'))
      \/ pc' = [pc EXCEPT ![c] = Continues(run)] /\ UNCHANGED <<run, fresh, result, faults>>
  BY <1>2, <1>3, Zenon DEF Retry, Concludes, Commit, CommitRefused, CommitAppended, Stored, Goes
<1>6. CASE CommitRefused(c, b)
  BY <1>4, <1>6, ConclusionRefused DEF InAttempt
<1>7. CASE pc' = [pc EXCEPT ![c] = Continues(run)] /\ UNCHANGED <<run, fresh, result, faults>>
  <2>1. PICK place : place = Continues(run)
    OBVIOUS
  <2>2. place \in {"idle", "tick"} /\ pc' = [pc EXCEPT ![c] = place]
    BY <1>7, <2>1, ContinuesAway
  <2> QED  BY <1>4, <1>7, <2>2, NothingAppended
<1>8. CASE CommitAppended(c, b, Continues(run'))
  <2>1. PICK place : place = Continues(run')
    OBVIOUS
  <2>2. place \in {"idle", "tick"} /\ place \in Places /\ CommitAppended(c, b, place)
    BY <1>8, <2>1, ContinuesAway DEF Places
  <2>3. run \in Run /\ run' \in Materialized(run, b) /\ fresh[c] /\ pc[c] \in Holding /\ pc[c] # "schedule"
    BY <1>1, <1>4, <1>8 DEF TypeOK, CommitAppended, Holding
  <2>4. /\ h[1] \in Node /\ h[2] \in Nat /\ ~run.configured /\ PlaceSound(c)
        /\ run.nodes[h[1]].attempts = h[2] /\ run.nodes[h[1]].status = "running"
    BY <1>2, <1>4, <2>3, HolderFacts
  <2>5. /\ run' \in Run /\ ~run'.configured
        /\ run'.nodes[h[1]].status \in {"running", "ready"}
        /\ run'.nodes[h[1]].attempts = run.nodes[h[1]].attempts
        /\ \A n \in Node : n # h[1] => run'.nodes[n] = run.nodes[n]
    BY <1>3, <2>3, <2>4, RetryEffect DEF OnlyNode
  <2>6. TypeOK' /\ pc'[c] = place /\ fresh' = [d \in Caller |-> d = c] /\ faults' = faults
        /\ (\A d \in Caller : d # c => SameCaller(d))
        /\ (\A e \in Execution : SameExecution(e) /\ (Threat(e)' <=> Threat(e)))
        /\ \A e \in Execution : (\A n \in Node : run.nodes[n].attempts <= run'.nodes[n].attempts) =>
              ExecutionSound(e)'
    <3>1. unsafe' \in [Caller -> BOOLEAN] /\ \A d \in Caller : d # c => unsafe'[d] = unsafe[d]
      BY <1>1, <1>4 DEF TypeOK
    <3> QED  BY <1>4, <2>2, <2>3, <2>5, <3>1, AppendedFacts
  <2>7. ExecutionSound(h)'
    <3> SUFFICES ASSUME NEW n \in Node PROVE run.nodes[n].attempts <= run'.nodes[n].attempts
      BY <2>6
    <3>1. run.nodes[n].attempts \in Nat
      BY <2>3, RunParts
    <3>2. run'.nodes[n].attempts = run.nodes[n].attempts
      BY <2>5
    <3> QED  BY <3>1, <3>2
  <2>8. \A n \in Node : n # h[1] => NodeEases(run.nodes[n], run'.nodes[n])
    BY <2>5 DEF NodeEases
  <2>9. PlaceSound(c)' /\ Current(c)'
    <3>1. pc'[c] \notin Holding
      BY <2>2, <2>6 DEF Holding, InAttempt
    <3>2. PlaceSound(c)'
      BY <2>2, <2>6 DEF PlaceSound, Waiting, Reporting, InAttempt
    <3>3. Current(c)'
      BY <2>2, <2>6, <3>1 DEF Current
    <3> QED  BY <3>2, <3>3
  <2>10. run'.nodes[h[1]].attempts < Budget[h[1]]
    BY <1>2, <1>4, <2>4, <2>5 DEF PlaceSound
  <2>11. Clean => ~Threat(h)'
    <3>1. Clean => ~Threat(h)
      BY <1>2, <1>4, <2>3, HolderKnows DEF Sole
    <3> QED  BY <2>6, <3>1
  <2>12. UNCHANGED <<created, at>> /\ run'.nodes[h[1]].status # "pending"
    BY <1>4, <2>5
  <2> QED  BY <1>2, <2>3, <2>5, <2>6, <2>7, <2>8, <2>9, <2>10, <2>11, <2>12, HolderAppends
<1> QED  BY <1>5, <1>6, <1>7, <1>8

\* A caller whose attempt has succeeded appends: what is not concluded stays as it is.
LEMMA OtherAppends ==
    ASSUME IInv, NEW c \in Caller, pc[c] \in {"advance", "complete"}, NEW batch, NEW place,
           CommitAppended(c, batch, place),
           place \in {"idle", "tick"} \/ (place = "complete" /\ run'.status = "running"),
           UNCHANGED <<created, at, executions, events>>, unsafe' = [unsafe EXCEPT ![c] = FALSE],
           run' \in Run, run'.configured = run.configured,
           \A n \in Node : NodeReadied(run.nodes[n], run'.nodes[n])
    PROVE  IInv'
<1>1. TypeOK /\ RunSound /\ run \in Run
  BY DEF IInv, TypeOK
<1>2. pc[c] # "schedule" /\ pc[c] # "idle" /\ pc[c] \notin Holding /\ pc[c] \notin Outside /\ place \in Places
  BY DEF Holding, InAttempt, Outside, Places, InFinish
<1>3. TypeOK' /\ fresh[c] /\ pc'[c] = place /\ fresh' = [d \in Caller |-> d = c] /\ faults' = faults
      /\ (\A d \in Caller : d # c => SameCaller(d))
      /\ (\A e \in Execution : SameExecution(e))
  <2>1. unsafe' \in [Caller -> BOOLEAN] /\ \A d \in Caller : d # c => unsafe'[d] = unsafe[d]
    BY <1>1 DEF TypeOK
  <2> QED  BY <1>2, <2>1, AppendedFacts
<1>4. \A n \in Node : /\ run'.nodes[n].attempts = run.nodes[n].attempts /\ run.nodes[n].attempts \in Nat
                      /\ run'.nodes[n].status = run.nodes[n].status
                         \/ (run.nodes[n].status = "pending" /\ run'.nodes[n].status = "ready")
  BY <1>1, RunParts DEF NodeReadied
<1>5. RunSound'
  <2>1. \A n \in Node : Budget[n] \in Nat /\ Budget[n] # 0
    BY EngineConstants
  <2>2. ASSUME NEW n \in Node
        PROVE  /\ run'.nodes[n].attempts <= Budget[n]
               /\ run'.nodes[n].status = "pending" => run'.nodes[n].attempts = 0
               /\ run'.nodes[n].status = "ready" => run'.nodes[n].attempts < Budget[n]
    BY <1>1, <1>4, <2>1 DEF RunSound
  <2> QED  BY <1>1, <2>2 DEF RunSound
<1>6. Busy' = Busy
  BY <1>4 DEF Busy
<1>7. pc'[c] \notin Holding
  BY <1>3 DEF Holding, InAttempt
<1>8. Moves(c)
  <2>1. \A n \in Node : run.nodes[n].attempts <= run'.nodes[n].attempts
    BY <1>4
  <2>2. created
    BY <1>2, CreatedFirst
  <2> QED  BY <1>3, <1>7, <2>1, <2>2 DEF Moves
<1>9. CallerSound(c)'
  <2>1. PlaceSound(c)'
    BY <1>3 DEF PlaceSound, Waiting, Reporting, InAttempt
  <2>2. Current(c)'
    BY <1>3, <1>7 DEF Current
  <2> QED  BY <1>7, <2>1, <2>2 DEF CallerSound
<1>10. \A n \in Busy : run'.nodes[n].attempts = run.nodes[n].attempts
  BY <1>4 DEF Busy
<1> QED  BY <1>2, <1>3, <1>5, <1>6, <1>7, <1>8, <1>9, <1>10, OtherMoves

\* The next nodes become ready.
LEMMA AdvanceStep == ASSUME IInv, NEW c \in Caller, Advance(c) PROVE IInv'
<1>1. TypeOK /\ CallerSound(c)
  BY DEF IInv
<1>2. PICK b : b = ReadyBatch(Executable(run), "dependencies-satisfied")
  OBVIOUS
<1>3. /\ pc[c] = "advance" /\ UNCHANGED <<created, at, executions, events>>
      /\ unsafe' = [unsafe EXCEPT ![c] = FALSE]
  BY DEF Advance, Finishing, Concludes
<1>4. \/ CommitRefused(c, b)
      \/ CommitAppended(c, b, "complete")
      \/ pc' = [pc EXCEPT ![c] = "complete"] /\ UNCHANGED <<run, fresh, result, faults>>
  BY <1>2, Zenon DEF Advance, Concludes, Commit, CommitRefused, CommitAppended, Stored, Goes
<1>5. CASE CommitRefused(c, b)
  BY <1>3, <1>5, ConclusionRefused DEF InAttempt
<1>6. CASE pc' = [pc EXCEPT ![c] = "complete"] /\ UNCHANGED <<run, fresh, result, faults>>
  BY <1>3, <1>6, NothingAppended
<1>7. CASE CommitAppended(c, b, "complete")
  <2>1. run \in Run /\ run' \in Materialized(run, b) /\ fresh[c]
    BY <1>1, <1>7 DEF TypeOK, CommitAppended
  <2>2. Executable(run) \in SUBSET Node
    BY DEF Executable
  <2>3. Readied(run, run')
    BY <1>2, <2>1, <2>2, ReadyEffect
  <2>4. run.status = "running"
    BY <1>1, <1>3, <2>1 DEF CallerSound, Current
  <2> QED  BY <1>3, <1>7, <2>3, <2>4, OtherAppends DEF Readied
<1> QED  BY <1>4, <1>5, <1>6, <1>7

\* The run has succeeded once all its nodes have.
LEMMA CompleteStep == ASSUME IInv, NEW c \in Caller, Complete(c) PROVE IInv'
<1>1. TypeOK
  BY DEF IInv
<1>2. PICK b : b = <<[type |-> "RunCompleted", outcome |-> "succeeded"]>>
  OBVIOUS
<1>3. /\ pc[c] = "complete" /\ UNCHANGED <<created, at, executions, events>>
      /\ unsafe' = [unsafe EXCEPT ![c] = FALSE]
  BY DEF Complete, Finishing, Concludes
<1>4. PICK batch : /\ batch = b \/ batch = <<>>
                   /\ Commit(c, batch, Continues)
  BY <1>2, Zenon DEF Complete, Concludes
<1>5. \/ CommitRefused(c, batch)
      \/ CommitAppended(c, batch, Continues(run'))
      \/ pc' = [pc EXCEPT ![c] = Continues(run)] /\ UNCHANGED <<run, fresh, result, faults>>
  BY <1>4, Zenon DEF Commit, CommitRefused, CommitAppended, Stored, Goes
<1>6. CASE CommitRefused(c, batch)
  BY <1>3, <1>6, ConclusionRefused DEF InAttempt
<1>7. CASE pc' = [pc EXCEPT ![c] = Continues(run)] /\ UNCHANGED <<run, fresh, result, faults>>
  <2>1. PICK place : place = Continues(run)
    OBVIOUS
  <2>2. place \in {"idle", "tick"} /\ pc' = [pc EXCEPT ![c] = place]
    BY <1>7, <2>1, ContinuesAway
  <2> QED  BY <1>3, <1>7, <2>2, NothingAppended
<1>8. CASE CommitAppended(c, batch, Continues(run'))
  <2>1. PICK place : place = Continues(run')
    OBVIOUS
  <2>2. place \in {"idle", "tick"} /\ CommitAppended(c, batch, place)
    BY <1>8, <2>1, ContinuesAway
  <2>3. run \in Run /\ run' \in Materialized(run, b) /\ Node \in SUBSET Node
    BY <1>1, <1>4, <1>8 DEF TypeOK, CommitAppended
  <2>4. EasingBatch(b, Node)
    <3>1. \E e \in Execution : TRUE
      BY ExecutionParts
    <3> QED  BY <1>2, <3>1, EndingBatches
  <2>5. Eases(run, run') /\ \A n \in Node : run'.nodes[n] = run.nodes[n]
    BY <2>3, <2>4, BatchEases
  <2>6. \A n \in Node : NodeReadied(run.nodes[n], run'.nodes[n])
    BY <2>5 DEF NodeReadied
  <2> QED  BY <1>3, <2>2, <2>5, <2>6, OtherAppends DEF Eases
<1> QED  BY <1>5, <1>6, <1>7, <1>8

-----------------------------------------------------------------------------
(* A new attempt *)

\* Without an overlap no attempt was left, so the new one is the only one.
LEMMA ScheduleStep == ASSUME IInv, NEW c \in Caller, Schedule(c) PROVE IInv'
<1>1. TypeOK /\ RunSound /\ CallerSound(c)
  BY DEF IInv
<1>2. PICK h \in Execution : h = at[c]
  BY <1>1 DEF TypeOK
<1>3. PICK b : b = <<AttemptEvent("AttemptScheduled", h), AttemptEvent("AttemptStarted", h)>>
  OBVIOUS
<1>4. pc[c] = "schedule" /\ b # <<>> /\ UNCHANGED <<created, at, unsafe, executions, events>>
  BY <1>3 DEF Schedule
<1>5. CommitRefused(c, b) \/ CommitAppended(c, b, "context")
  BY <1>2, <1>3, <1>4, Zenon DEF Schedule, Commit, CommitRefused, CommitAppended, Stored, Goes
<1>6. CASE CommitRefused(c, b)
  BY <1>4, <1>6, ConclusionRefused DEF InAttempt
<1>7. CASE CommitAppended(c, b, "context")
  <2>1. run \in Run /\ run' \in Materialized(run, b) /\ fresh[c]
    BY <1>1, <1>7 DEF TypeOK, CommitAppended
  <2>2. /\ OnlyNode(run, run', h[1]) /\ run.nodes[h[1]].status = "ready"
        /\ h[2] = run.nodes[h[1]].attempts + 1
        /\ run'.nodes[h[1]].status = "running" /\ run'.nodes[h[1]].attempts = h[2]
        /\ run'.nodes[h[1]].last = [NoAttempt EXCEPT !.status = "running"]
    BY <1>3, <2>1, ScheduleEffect
  <2>3. run'.nodes[h[1]].last.status = "running" /\ run'.nodes[h[1]].last.timeout = "none"
    BY <2>2 DEF NoAttempt
  <2>4. h[1] \in Node /\ h[2] \in Nat /\ h[2] <= Budget[h[1]] /\ run.nodes[h[1]].attempts \in Nat
    BY <2>1, ExecutionParts, RunParts
  <2>5. /\ run' \in Run /\ run'.status = run.status /\ run'.configured = run.configured
        /\ \A n \in Node : n # h[1] => run'.nodes[n] = run.nodes[n]
    BY <2>2 DEF OnlyNode
  <2>6. /\ pc'[c] = "context" /\ pc' \in [Caller -> Places] /\ result' = result
        /\ fresh' = [d \in Caller |-> d = c] /\ fresh' \in [Caller -> BOOLEAN]
        /\ faults \subseteq faults' /\ faults' \subseteq Faults /\ faults' = faults \cup Overlapping(c)
        /\ \A d \in Caller : d # c => SameCaller(d)
    BY <1>1, <1>4, <1>7 DEF CommitAppended, Overlapping, Faults, TypeOK, Places, InAttempt, SameCaller
  <2>7. TypeOK'
    BY <1>1, <1>4, <2>5, <2>6 DEF TypeOK, executions
  <2>8. RunSound'
    <3>1. ASSUME NEW n \in Node
          PROVE  /\ run'.nodes[n].attempts <= Budget[n]
                 /\ run'.nodes[n].status = "pending" => run'.nodes[n].attempts = 0
                 /\ run'.nodes[n].status = "ready" => run'.nodes[n].attempts < Budget[n]
      BY <1>1, <2>2, <2>4, <2>5 DEF RunSound
    <3> QED  BY <1>1, <2>5, <3>1 DEF RunSound
  <2>9. \A n \in Node : run.nodes[n].attempts <= run'.nodes[n].attempts
    <3> SUFFICES ASSUME NEW n \in Node PROVE run.nodes[n].attempts <= run'.nodes[n].attempts
      OBVIOUS
    <3>1. run.nodes[n].attempts \in Nat
      BY <2>1, RunParts
    <3> QED  BY <2>2, <2>4, <2>5, <3>1
  <2>10. \A e \in Execution : SameExecution(e)
    BY <1>4 DEF SameExecution, executions
  <2>11. \A e \in Execution : ExecutionSound(e)' /\ (Threat(e)' <=> Threat(e))
    BY <2>7, <2>9, <2>10, SameSound
  <2>12. h[2] > run.nodes[h[1]].attempts
    BY <2>2, <2>4
  <2>13. Moves(c)
    <3>1. created
      BY <1>4, CreatedFirst
    <3> QED  BY <1>2, <1>4, <2>6, <2>9, <2>10, <2>12, <3>1 DEF Moves
  <2>14. (\A d \in Caller : d # c => CallerSound(d)') /\ Apart' /\ NotCreated'
    BY <2>7, <2>13, OthersSound
  <2>15. CallerSound(c)'
    <3>1. op'[h] = "none"
      <4>1. Untouched(h)
        BY <2>12 DEF IInv, ExecutionSound
      <4> QED  BY <2>10, <4>1 DEF Untouched, SameExecution
    <3>2. ~unsafe[c] /\ result[c] = "failed"
      BY <1>1, <1>4 DEF CallerSound, PlaceSound
    <3>3. PlaceSound(c)'
      BY <1>2, <1>4, <2>6, <3>1, <3>2 DEF PlaceSound, Waiting, Reporting, InAttempt
    <3>4. run.status = "running"
      BY <1>1, <1>4, <2>1 DEF CallerSound, Current
    <3>5. Current(c)'
      BY <1>2, <1>4, <2>2, <2>3, <2>5, <2>6, <3>4 DEF Current, NodeAt, TimeoutBy, Holding, InAttempt
    <3>6. at'[c][2] <= NodeAt(c)'.attempts
      BY <1>2, <1>4, <2>2, <2>4 DEF NodeAt
    <3> QED  BY <3>3, <3>5, <3>6 DEF CallerSound
  <2>16. OneAttempt'
    <3> SUFFICES ASSUME Clean'
                 PROVE  OneBusy' /\ Threatened' /\ \A d \in Caller : pc'[d] \in Holding => Sole(d)'
      BY DEF OneAttempt, Holding, InAttempt
    <3>1. Clean
      BY <2>6 DEF Clean
    <3>2. Busy = {}
      BY <1>4, <2>6 DEF Clean, Overlapping, Busy
    <3>3. \A n \in Busy' : n = h[1]
      BY <2>5, <3>2 DEF Busy
    <3>4. OneBusy'
      BY <3>3 DEF OneBusy
    <3>5. \A e \in Execution : ~Threat(e)
      BY <3>1, <3>2 DEF IInv, OneAttempt, Threatened
    <3>6. Threatened'
      BY <2>11, <3>5 DEF Threatened
    <3>7. ASSUME NEW d \in Caller, pc'[d] \in Holding PROVE d = c
      <4>1. d # c => pc[d] \in Holding
        BY <2>6, <3>7 DEF SameCaller
      <4>2. d # c => at[d][1] \in Busy
        BY <1>1, <3>1, <4>1, HolderKnows DEF TypeOK
      <4> QED  BY <3>2, <4>2
    <3>8. Sole(c)'
      BY <2>6 DEF Sole, Reporting
    <3> QED  BY <3>4, <3>6, <3>7, <3>8
  <2>17. \A d \in Caller : CallerSound(d)'
    BY <2>14, <2>15
  <2> QED  BY <2>7, <2>8, <2>11, <2>14, <2>16, <2>17 DEF IInv
<1> QED  BY <1>5, <1>6, <1>7

-----------------------------------------------------------------------------
(* Every step keeps the invariant *)

\* What a caller does.
LEMMA CallerSteps == ASSUME IInv, NEW c \in Caller, CallerStep(c) PROVE IInv'
<1>1. CASE Executing(c)
  <2>1. CASE CancelUnavailable(c) \/ CancelKnown(c)
    BY <2>1, CancelSteps
  <2> QED
    BY <1>1, <2>1, RecordContextStep, LaunchStep, CommandReportedStep, CommandResultStep, OperationWinsStep,
       RecordTimeoutStep, RequestCancelStep, LateResultStep, LateResultThrowsStep, LateResultMissedStep,
       RecordEvidenceStep, CaptureWorkspaceStep, RecordDiffStep
    DEF Executing
<1>2. CASE Concluding(c)
  BY <1>2, FinishBlockedStep, FinishCancelledStep, FinishFailedStep, FinishSucceededStep, RetryStep,
     FailNodeStep, FailRunStep, AdvanceStep, CompleteStep
  DEF Concluding
<1> QED
  BY <1>1, <1>2, TickStep, ScheduleStep, DeadlineStep, ObservedStep DEF CallerStep

\* The invariant is inductive.
LEMMA Inductive == IInv /\ [Next]_vars => IInv'
<1> SUFFICES ASSUME IInv, [Next]_vars PROVE IInv'
  OBVIOUS
<1>1. CASE UNCHANGED vars
  <2>1. UNCHANGED <<created, run, pc, fresh, at, result, unsafe, op, outcome, expired, cancelled, worker,
                    events, faults>>
    BY <1>1 DEF vars, callers, attempt, executions
  <2>2. TypeOK'
    BY <2>1 DEF IInv, TypeOK
  <2>3. RunSound' /\ Apart' /\ NotCreated' /\ \A e \in Execution : ExecutionSound(e)'
    BY <2>1 DEF IInv, RunSound, Apart, NotCreated, ExecutionSound, Untouched
  <2>4. ASSUME NEW c \in Caller PROVE CallerSound(c)'
    BY <2>1 DEF IInv, CallerSound, PlaceSound, Current, TimeoutBy, NodeAt
  <2>5. OneAttempt'
    BY <2>1 DEF IInv, OneAttempt, Clean, OneBusy, Busy, Threatened, Threat, Sole, Escaped, NodeAt
  <2> QED  BY <2>2, <2>3, <2>4, <2>5 DEF IInv
<1>2. ASSUME NEW c \in Caller,
             CreateRun(c) \/ Resume(c) \/ CallerStep(c) \/ EventArrives(c) \/ EvidenceFails(c)
      PROVE  IInv'
  BY <1>2, CreateRunStep, ResumeStep, CallerSteps, EventArrivesStep, EvidenceFailsStep
<1>3. CASE Crash
  BY <1>3, CrashStep
<1>4. ASSUME NEW e \in Execution, Operation(e) \/ CommandTimeout(e) \/ CommandClose(e) PROVE IInv'
  BY <1>4, OperationStep
<1> QED  BY <1>1, <1>2, <1>3, <1>4 DEF Next

\* So the invariant always holds.
LEMMA Invariance == Spec => []IInv
BY Initially, Inductive, PTL DEF Spec

\* Every variable keeps its type: a caller is at a place of the code, an operation in one of its states.
THEOREM TypeCorrect == Spec => []TypeOK
<1>1. IInv => TypeOK
  BY DEF IInv
<1> QED  BY <1>1, Invariance, PTL

\* A retry waits for a confirmed termination: unless an attempt was started next to another, or an append
\* failed, no two attempts have a worker at the same time, whatever deadlines fire, however late an operation
\* returns and whenever the process dies.
THEOREM OneWorkerAtATime == Spec => []OneWorker
BY Invariance, OneWorkerOfInvariant, PTL

-----------------------------------------------------------------------------
(* Batches that are accepted *)

\* A batch is accepted, and what it makes of a run is known, if each of its events is accepted by
\* whatever is known after the one before.
LEMMA BatchAccepted ==
    ASSUME NEW r, NEW batch, Len(batch) \in Nat, NEW P, r \in P[0],
           \A i \in 1..Len(batch) : \A s \in P[i - 1] : \E u \in Applied(s, batch[i]) : u \in P[i]
    PROVE  \E t \in Materialized(r, batch) : t \in P[Len(batch)]
<1> DEFINE n == Len(batch)
<1>1. PICK f : Steps(f, r, batch, n) /\ Materialized(r, batch) = f[n]
  BY MaterializedSteps, Zenon
<1> DEFINE T == {k \in Nat : k <= n /\ ~ \E t \in f[k] : t \in P[k]}
<1>2. ASSUME T # {} PROVE FALSE
  <2>1. PICK k \in T : \A m \in T : k <= m
    BY <1>2, LeastNumber
  <2>2. k \in 0..n
    OBVIOUS
  <2>3. f[k] = IF k = 0 THEN {r} ELSE UNION {Applied(s, batch[k]) : s \in f[k - 1]}
    BY <1>1, <2>2, Zenon DEF Steps
  <2>4. k # 0
    BY <2>1, <2>3
  <2>5. k - 1 \in Nat /\ k - 1 <= n /\ k - 1 \notin T /\ k \in 1..n
    BY <2>1, <2>4
  <2>6. PICK s \in f[k - 1] : s \in P[k - 1]
    BY <2>5
  <2>7. PICK u \in Applied(s, batch[k]) : u \in P[k]
    BY <2>5, <2>6
  <2>8. u \in f[k]
    BY <2>3, <2>4, <2>6, <2>7
  <2> QED  BY <2>1, <2>7, <2>8
<1>3. n \in Nat /\ n <= n /\ n \notin T
  BY <1>2
<1> QED  BY <1>1, <1>3

\* What a second batch makes of what a first one made, the two make together.
LEMMA BatchesJoined ==
    ASSUME NEW r, NEW a, NEW b, NEW A, NEW B, a \in Seq(A), b \in Seq(B),
           NEW t \in Materialized(r, a), NEW u \in Materialized(t, b)
    PROVE  u \in Materialized(r, a \o b)
<1>1. /\ Len(a) \in Nat /\ Len(b) \in Nat /\ Len(a \o b) = Len(a) + Len(b)
      /\ \A i \in 1..Len(a) : (a \o b)[i] = a[i]
      /\ \A i \in 1..Len(b) : (a \o b)[Len(a) + i] = b[i]
  OBVIOUS
<1>2. PICK ab : ab = a \o b
  OBVIOUS
<1>3. PICK n, m : n = Len(a) /\ m = Len(b)
  OBVIOUS
<1>4. /\ n \in Nat /\ m \in Nat /\ Len(ab) = n + m
      /\ \A i \in 1..n : ab[i] = a[i]
      /\ \A i \in 1..m : ab[n + i] = b[i]
  BY <1>1, <1>2, <1>3
<1>5. PICK g : Steps(g, r, a, n) /\ Materialized(r, a) = g[n]
  BY <1>1, <1>3, MaterializedSteps
<1>6. PICK h : Steps(h, t, b, m) /\ Materialized(t, b) = h[m]
  BY <1>1, <1>3, MaterializedSteps
<1>7. PICK f : Steps(f, r, ab, n + m) /\ Materialized(r, ab) = f[n + m]
  <2>1. Len(ab) \in Nat
    BY <1>4
  <2> QED  BY <1>4, <2>1, MaterializedSteps, Zenon
<1>8. g[n] \subseteq f[n]
  <2> DEFINE T == {k \in Nat : k <= n /\ ~(g[k] \subseteq f[k])}
  <2>1. ASSUME T # {} PROVE FALSE
    <3>1. PICK k \in T : \A j \in T : k <= j
      BY <2>1, LeastNumber
    <3>2. k \in 0..n /\ k \in 0..(n + m)
      BY <1>4
    <3>3. /\ g[k] = IF k = 0 THEN {r} ELSE UNION {Applied(s, a[k]) : s \in g[k - 1]}
          /\ f[k] = IF k = 0 THEN {r} ELSE UNION {Applied(s, ab[k]) : s \in f[k - 1]}
      BY <1>5, <1>7, <3>2, Zenon DEF Steps
    <3>4. k # 0
      BY <3>1, <3>3
    <3>5. k - 1 \in Nat /\ k - 1 <= n /\ k - 1 \notin T /\ k \in 1..n
      BY <1>4, <3>1, <3>4
    <3>6. g[k - 1] \subseteq f[k - 1] /\ ab[k] = a[k]
      BY <1>4, <3>5
    <3>7. g[k] \subseteq f[k]
      BY <3>3, <3>4, <3>6, Zenon
    <3> QED  BY <3>1, <3>7
  <2>2. n \in Nat /\ n <= n /\ n \notin T
    BY <1>4, <2>1
  <2> QED  BY <2>2
<1>9. h[m] \subseteq f[n + m]
  <2> DEFINE T == {k \in Nat : k <= m /\ ~(h[k] \subseteq f[n + k])}
  <2>1. ASSUME T # {} PROVE FALSE
    <3>1. PICK k \in T : \A j \in T : k <= j
      BY <2>1, LeastNumber
    <3>2. k \in 0..m /\ n + k \in 0..(n + m) /\ n + 0 = n
      BY <1>4
    <3>3. /\ h[k] = IF k = 0 THEN {t} ELSE UNION {Applied(s, b[k]) : s \in h[k - 1]}
          /\ f[n + k] = IF n + k = 0 THEN {r} ELSE UNION {Applied(s, ab[n + k]) : s \in f[(n + k) - 1]}
      BY <1>6, <1>7, <3>2, Zenon DEF Steps
    <3>4. t \in f[n]
      BY <1>5, <1>8
    <3>5. CASE k = 0
      BY <3>1, <3>2, <3>3, <3>4, <3>5
    <3>6. CASE k # 0
      <4>1. k - 1 \in Nat /\ k - 1 <= m /\ k - 1 \notin T /\ k \in 1..m /\ n + k # 0 /\ (n + k) - 1 = n + (k - 1)
        BY <1>4, <3>1, <3>6
      <4>2. h[k - 1] \subseteq f[(n + k) - 1] /\ ab[n + k] = b[k]
        BY <1>4, <4>1
      <4>3. h[k] \subseteq f[n + k]
        BY <3>3, <3>6, <4>1, <4>2, Zenon
      <4> QED  BY <3>1, <4>3
    <3> QED  BY <3>5, <3>6
  <2>2. m \in Nat /\ m <= m
    BY <1>4
  <2>3. m \notin T
    BY <2>1
  <2> QED  BY <2>2, <2>3
<1> QED  BY <1>2, <1>6, <1>7, <1>9

\* The nodes of a set in authored order are listed once each.
LEMMA InOrderDistinct ==
    ASSUME NEW S
    PROVE  \A i, j \in 1..Len(InOrder(S)) : InOrder(S)[i] = InOrder(S)[j] => i = j
<1> DEFINE n == Len(Order)
           f == CHOOSE f : Among(f, S, n)
<1>1. n \in Nat /\ \A i, j \in 1..n : Order[i] = Order[j] => i = j
  BY EngineConstants
<1>2. Among(f, S, n)
  BY <1>1, AmongExists, Zenon
<1>3. InOrder(S) = f[n]
  BY Zenon DEF InOrder, Among
<1> HIDE DEF f, n
<1> DEFINE Good(k) == /\ f[k] \in Seq(S)
                      /\ \A i \in 1..Len(f[k]) : \E j \in 1..k : f[k][i] = Order[j]
                      /\ \A i, j \in 1..Len(f[k]) : f[k][i] = f[k][j] => i = j
           T == {k \in Nat : k <= n /\ ~Good(k)}
<1>4. Good(0)
  <2>1. 0 \in 0..n
    BY <1>1
  <2>2. f[0] = <<>>
    BY <1>2, <2>1, Zenon DEF Among
  <2> QED  BY <2>2
<1>5. ASSUME NEW k \in 1..n, Good(k - 1) PROVE Good(k)
  <2>1. k \in 0..n /\ k # 0 /\ k \in 1..k /\ \A j \in 1..(k - 1) : j \in 1..k /\ j \in 1..n /\ j # k
    BY <1>1
  <2>2. f[k] = IF Order[k] \in S THEN Append(f[k - 1], Order[k]) ELSE f[k - 1]
    BY <1>2, <2>1, Zenon DEF Among
  <2>3. CASE Order[k] \notin S
    BY <1>5, <2>1, <2>2, <2>3
  <2>4. CASE Order[k] \in S
    <3>1. PICK g, x : g = f[k - 1] /\ x = Order[k]
      OBVIOUS
    <3>2. /\ g \in Seq(S) /\ x \in S
          /\ \A i \in 1..Len(g) : \E j \in 1..(k - 1) : g[i] = Order[j]
          /\ \A i, j \in 1..Len(g) : g[i] = g[j] => i = j
      BY <1>5, <2>4, <3>1
    <3>3. /\ f[k] \in Seq(S) /\ Len(g) \in Nat /\ Len(f[k]) = Len(g) + 1 /\ f[k][Len(g) + 1] = x
          /\ \A i \in 1..Len(g) : f[k][i] = g[i]
      BY <2>2, <2>4, <3>1, <3>2
    <3>4. \A i \in 1..Len(f[k]) : i \in 1..Len(g) \/ i = Len(g) + 1
      BY <3>3
    <3>5. \A i \in 1..Len(g) : g[i] # x
      <4> SUFFICES ASSUME NEW i \in 1..Len(g), g[i] = x PROVE FALSE
        OBVIOUS
      <4>1. PICK j \in 1..(k - 1) : g[i] = Order[j]
        BY <3>2
      <4> QED  BY <1>1, <2>1, <3>1, <4>1
    <3>6. \A i \in 1..Len(f[k]) : \E j \in 1..k : f[k][i] = Order[j]
      <4> SUFFICES ASSUME NEW i \in 1..Len(f[k]) PROVE \E j \in 1..k : f[k][i] = Order[j]
        OBVIOUS
      <4>1. CASE i = Len(g) + 1
        BY <2>1, <3>1, <3>3, <4>1
      <4>2. CASE i \in 1..Len(g)
        BY <2>1, <3>2, <3>3, <4>2
      <4> QED  BY <3>4, <4>1, <4>2
    <3>7. \A i, j \in 1..Len(f[k]) : f[k][i] = f[k][j] => i = j
      BY <3>2, <3>3, <3>4, <3>5
    <3> QED  BY <3>3, <3>6, <3>7
  <2> QED  BY <2>3, <2>4
<1> HIDE DEF Good
<1>6. ASSUME T # {} PROVE FALSE
  <2>1. PICK k \in T : \A m \in T : k <= m
    BY <1>6, LeastNumber
  <2>2. k # 0
    BY <1>4
  <2>3. k \in 1..n /\ k - 1 \in Nat /\ k - 1 <= n /\ k - 1 \notin T
    BY <1>1, <2>1, <2>2
  <2> QED  BY <1>5, <2>3
<1> QED  BY <1>1, <1>3, <1>6 DEF Good

\* Nothing but some nodes differs, and the run goes on as it was.
Beyond(r, t, S) ==
    /\ t \in Run /\ t.status = r.status /\ t.configured = r.configured
    /\ \A n \in Node \ S : t.nodes[n] = r.nodes[n]

\* An event for each of some nodes is accepted if it is while its node is as it was.
LEMMA NodesAccepted ==
    ASSUME NEW r \in Run, NEW S \in SUBSET Node, NEW b, NEW T, b \in Seq(T), Len(b) = Len(InOrder(S)),
           \A i \in 1..Len(b) : b[i].node = InOrder(S)[i],
           \A i \in 1..Len(b) : \A s \in Run :
              s.status = r.status /\ s.configured = r.configured /\ s.nodes[b[i].node] = r.nodes[b[i].node] =>
                 \E u \in Applied(s, b[i]) : Beyond(s, u, {b[i].node})
    PROVE  \E t \in Materialized(r, b) : Beyond(r, t, S)
<1> DEFINE P == [k \in 0..Len(b) |->
                    {s \in Run : Beyond(r, s, S)
                                 /\ \A j \in 1..Len(b) : j > k => s.nodes[b[j].node] = r.nodes[b[j].node]}]
<1>1. Len(b) \in Nat
  OBVIOUS
<1>2. \A i \in 1..Len(b) : b[i].node \in S
  BY InOrderMembers
<1>3. r \in P[0]
  <2>1. 0 \in 0..Len(b)
    BY <1>1
  <2> QED  BY <2>1 DEF Beyond
<1>4. ASSUME NEW i \in 1..Len(b), NEW s \in P[i - 1] PROVE \E u \in Applied(s, b[i]) : u \in P[i]
  <2>1. i - 1 \in 0..Len(b) /\ i \in 0..Len(b) /\ i > i - 1
    BY <1>1
  <2>2. /\ s \in Run /\ Beyond(r, s, S)
        /\ \A j \in 1..Len(b) : j > i - 1 => s.nodes[b[j].node] = r.nodes[b[j].node]
    BY <1>4, <2>1
  <2>3. PICK u \in Applied(s, b[i]) : Beyond(s, u, {b[i].node})
    BY <2>1, <2>2 DEF Beyond
  <2>4. Beyond(r, u, S)
    BY <1>2, <2>2, <2>3 DEF Beyond
  <2>5. ASSUME NEW j \in 1..Len(b), j > i PROVE u.nodes[b[j].node] = r.nodes[b[j].node]
    <3>1. b[j].node # b[i].node
      BY <2>5, InOrderDistinct
    <3>2. s.nodes[b[j].node] = r.nodes[b[j].node]
      BY <2>2, <2>5, <1>1
    <3> QED  BY <1>2, <2>3, <3>1, <3>2 DEF Beyond
  <2>6. u \in P[i]
    BY <2>1, <2>4, <2>5 DEF Beyond
  <2> QED  BY <2>6
<1>5. \E t \in Materialized(r, b) : t \in P[Len(b)]
  <2> HIDE DEF P
  <2> QED  BY <1>1, <1>3, <1>4, BatchAccepted
<1>6. Len(b) \in 0..Len(b)
  BY <1>1
<1> QED  BY <1>5, <1>6

\* An event for a node that waits is accepted while the run goes on.
LEMMA WaitingNode ==
    ASSUME NEW s \in Run, s.status \notin TerminalRun, NEW e, NEW n \in Node, e.node = n,
           \/ e.type = "NodeBlocked" /\ s.nodes[n].status \in {"pending", "ready"}
           \/ e.type = "NodeCancelled" /\ s.nodes[n].status \in {"pending", "ready", "blocked", "paused"}
           \/ e.type = "NodeReady" /\ e.reason = "dependencies-satisfied" /\ s.nodes[n].status = "pending"
    PROVE  \E u \in Applied(s, e) : Beyond(s, u, {n})
<1>1. s.nodes[n] \in NodeState
  BY RunParts
<1>2. ASSUME NEW node \in NodeState PROVE Beyond(s, Updated(s, e, node), {n})
  BY UpdatedRun DEF Beyond
<1>3. \A status \in NodeStatus : [s.nodes[n] EXCEPT !.status = status] \in NodeState
  BY <1>1 DEF NodeState
<1>4. CASE e.type = "NodeBlocked"
  <2>1. Applied(s, e) = {NodeBecomes(s, e, "blocked")}
    BY <1>4 DEF Applied, NodeBlocked, When, NodeIn, NodeOf
  <2>2. Beyond(s, NodeBecomes(s, e, "blocked"), {n})
    BY <1>2, <1>3 DEF NodeBecomes, NodeOf, NodeStatus
  <2> QED  BY <2>1, <2>2
<1>5. CASE e.type = "NodeCancelled"
  <2>1. Applied(s, e) = {NodeBecomes(s, e, "cancelled")}
    BY <1>5 DEF Applied, NodeCancelled, When, NodeIn, NodeOf, ActiveAttemptStopped
  <2>2. Beyond(s, NodeBecomes(s, e, "cancelled"), {n})
    BY <1>2, <1>3 DEF NodeBecomes, NodeOf, NodeStatus
  <2> QED  BY <2>1, <2>2
<1>6. CASE e.type = "NodeReady"
  <2>1. PICK node : node = [s.nodes[n] EXCEPT !.status = "ready", !.pause = "none"]
    OBVIOUS
  <2>2. Applied(s, e) = {Updated(s, e, node)}
    BY <1>6, <2>1 DEF Applied, NodeReady, When, NodeIn, NodeOf
  <2>3. node \in NodeState
    BY <1>1, <2>1 DEF NodeState, NodeStatus
  <2> QED  BY <1>2, <2>2, <2>3
<1> QED  BY <1>4, <1>5, <1>6

\* The events of a batch for some nodes.
LEMMA NodeBatchEvents ==
    ASSUME NEW S \in SUBSET Node, NEW type, NEW b,
           b = [i \in DOMAIN InOrder(S) |-> NodeEvent(type, InOrder(S)[i])]
    PROVE  /\ \E T : b \in Seq(T)
           /\ Len(b) = Len(InOrder(S))
           /\ \A i \in 1..Len(b) : b[i].type = type /\ b[i].node = InOrder(S)[i] /\ b[i].node \in S
<1>1. InOrder(S) \in Seq(S) /\ Len(InOrder(S)) \in Nat /\ DOMAIN InOrder(S) = 1..Len(InOrder(S))
  BY InOrderMembers
<1>2. b \in Seq({b[i] : i \in DOMAIN InOrder(S)}) /\ DOMAIN b = DOMAIN InOrder(S)
  BY <1>1
<1>3. Len(b) \in Nat /\ DOMAIN b = 1..Len(b) /\ Len(b) = Len(InOrder(S))
  BY <1>1, <1>2
<1>4. ASSUME NEW i \in 1..Len(b)
      PROVE  b[i].type = type /\ b[i].node = InOrder(S)[i] /\ b[i].node \in S
  <2>1. InOrder(S)[i] \in S
    BY <1>1, <1>3
  <2>2. b[i] = NodeEvent(type, InOrder(S)[i])
    BY <1>1, <1>3
  <2> QED  BY <2>1, <2>2 DEF NodeEvent
<1> QED  BY <1>2, <1>3, <1>4

\* A run in which all other nodes are as they were accepts that they are blocked; that they are cancelled,
\* too, if none of them runs or is cancelled.
LEMMA OthersAccepted ==
    ASSUME NEW r \in Run, NEW v, NEW n \in Node, r.status \notin TerminalRun,
           \A m \in Node : m # n => r.nodes[m] = v.nodes[m]
    PROVE  /\ \E t \in Materialized(r, BlockOthers(v, n)) : Beyond(r, t, Node \ {n})
           /\ (\A m \in Node : m # n => v.nodes[m].status \notin {"running", "cancelled"}) =>
                 \E t \in Materialized(r, CancelOthers(v, n)) : Beyond(r, t, Node \ {n})
<1>1. ASSUME NEW S \in SUBSET (Node \ {n}), NEW type, NEW b,
             b = [i \in DOMAIN InOrder(S) |-> NodeEvent(type, InOrder(S)[i])],
             \A m \in S : \/ type = "NodeBlocked" /\ r.nodes[m].status \in {"pending", "ready"}
                          \/ type = "NodeCancelled" /\ r.nodes[m].status \in {"pending", "ready", "blocked", "paused"}
      PROVE  \E t \in Materialized(r, b) : Beyond(r, t, Node \ {n})
  <2>1. S \in SUBSET Node
    OBVIOUS
  <2>2. /\ Len(b) = Len(InOrder(S)) /\ \E T : b \in Seq(T)
        /\ \A i \in 1..Len(b) : b[i].type = type /\ b[i].node = InOrder(S)[i] /\ b[i].node \in S
    BY <1>1, <2>1, NodeBatchEvents
  <2>3. PICK T : b \in Seq(T)
    BY <2>2
  <2>4. ASSUME NEW i \in 1..Len(b), NEW s \in Run, s.status = r.status,
               s.nodes[b[i].node] = r.nodes[b[i].node]
        PROVE  \E u \in Applied(s, b[i]) : Beyond(s, u, {b[i].node})
    <3>1. PICK e : e = b[i]
      OBVIOUS
    <3>2. e.type = type /\ e.node \in S /\ e.node \in Node
      BY <2>1, <2>2, <3>1
    <3> QED  BY <1>1, <2>4, <3>1, <3>2, WaitingNode
  <2>5. PICK t \in Materialized(r, b) : Beyond(r, t, S)
    BY <2>1, <2>2, <2>3, <2>4, NodesAccepted
  <2>6. Beyond(r, t, Node \ {n})
    BY <2>5 DEF Beyond
  <2> QED  BY <2>6
<1>2. \E t \in Materialized(r, BlockOthers(v, n)) : Beyond(r, t, Node \ {n})
  <2>1. PICK S : S = {m \in Node \ {n} : v.nodes[m].status \in {"pending", "ready"}}
    OBVIOUS
  <2>2. PICK b : b = BlockOthers(v, n)
    OBVIOUS
  <2>3. b = [i \in DOMAIN InOrder(S) |-> NodeEvent("NodeBlocked", InOrder(S)[i])]
    BY <2>1, <2>2 DEF BlockOthers, ForNodes
  <2>4. S \in SUBSET (Node \ {n}) /\ \A m \in S : r.nodes[m].status \in {"pending", "ready"}
    BY <2>1
  <2> QED  BY <1>1, <2>2, <2>3, <2>4
<1>3. ASSUME \A m \in Node : m # n => v.nodes[m].status \notin {"running", "cancelled"}
      PROVE  \E t \in Materialized(r, CancelOthers(v, n)) : Beyond(r, t, Node \ {n})
  <2>1. PICK S : S = {m \in Node \ {n} : v.nodes[m].status \notin {"succeeded", "failed"}}
    OBVIOUS
  <2>2. PICK b : b = CancelOthers(v, n)
    OBVIOUS
  <2>3. b = [i \in DOMAIN InOrder(S) |-> NodeEvent("NodeCancelled", InOrder(S)[i])]
    BY <2>1, <2>2 DEF CancelOthers, ForNodes
  <2>4. S \in SUBSET (Node \ {n}) /\ \A m \in S : r.nodes[m].status \in {"pending", "ready", "blocked", "paused"}
    <3>1. \A m \in Node : r.nodes[m].status \in NodeStatus
      BY RunParts
    <3> QED  BY <1>3, <2>1, <3>1 DEF NodeStatus
  <2> QED  BY <1>1, <2>2, <2>3, <2>4
<1> QED  BY <1>2, <1>3

\* findExecutableNodes: nodes that wait may become ready.
LEMMA ReadyAccepted ==
    ASSUME NEW r \in Run, r.status \notin TerminalRun
    PROVE  Materialized(r, ReadyBatch(Executable(r), "dependencies-satisfied")) # {}
<1>1. PICK S : S = Executable(r)
  OBVIOUS
<1>2. S \in SUBSET Node /\ \A m \in S : r.nodes[m].status = "pending"
  BY <1>1 DEF Executable
<1>3. PICK b : b = ReadyBatch(S, "dependencies-satisfied")
  OBVIOUS
<1>4. /\ Len(b) = Len(InOrder(S)) /\ \E T : b \in Seq(T)
      /\ \A i \in 1..Len(b) : /\ b[i].type = "NodeReady" /\ b[i].reason = "dependencies-satisfied"
                              /\ b[i].node = InOrder(S)[i] /\ b[i].node \in S
  BY <1>2, <1>3, ReadyBatchEvents
<1>5. PICK T : b \in Seq(T)
  BY <1>4
<1>6. ASSUME NEW i \in 1..Len(b), NEW s \in Run, s.status = r.status,
             s.nodes[b[i].node] = r.nodes[b[i].node]
      PROVE  \E u \in Applied(s, b[i]) : Beyond(s, u, {b[i].node})
  <2>1. PICK e : e = b[i]
    OBVIOUS
  <2>2. e.type = "NodeReady" /\ e.reason = "dependencies-satisfied" /\ e.node \in S /\ e.node \in Node
    BY <1>2, <1>4, <2>1
  <2> QED  BY <1>2, <1>6, <2>1, <2>2, WaitingNode
<1>7. \E t \in Materialized(r, b) : Beyond(r, t, S)
  BY <1>2, <1>4, <1>5, <1>6, NodesAccepted
<1> QED  BY <1>1, <1>3, <1>7

\* A ready node may start its next attempt.
LEMMA ScheduleAccepted ==
    ASSUME NEW r \in Run, NEW e \in Execution, r.status = "running", ~r.configured,
           r.nodes[e[1]].status = "ready", e[2] = r.nodes[e[1]].attempts + 1
    PROVE  Materialized(r, <<AttemptEvent("AttemptScheduled", e), AttemptEvent("AttemptStarted", e)>>) # {}
<1>1. PICK a, b : a = AttemptEvent("AttemptScheduled", e) /\ b = AttemptEvent("AttemptStarted", e)
  OBVIOUS
<1>2. /\ a.type = "AttemptScheduled" /\ a.node = e[1] /\ a.attempt = e[2]
      /\ b.type = "AttemptStarted" /\ b.node = e[1] /\ b.attempt = e[2]
  BY <1>1 DEF AttemptEvent
<1>3. e[1] \in Node /\ e[2] \in Nat /\ r.nodes[e[1]] \in NodeState
  BY EngineConstants DEF Execution, Run
<1>4. PICK x : x = [NoAttempt EXCEPT !.status = "scheduled"]
  OBVIOUS
<1>5. x \in Attempt /\ x.status = "scheduled"
  BY <1>4 DEF Attempt, AttemptStatus, NoAttempt
<1>6. PICK node : node = [r.nodes[e[1]] EXCEPT !.attempts = e[2], !.last = x]
  OBVIOUS
<1>7. node \in NodeState /\ node.status = "ready" /\ node.attempts = e[2] /\ node.last = x
  BY <1>3, <1>5, <1>6 DEF NodeState
<1>8. PICK s : s = Updated(r, a, node)
  OBVIOUS
<1>9. r.status \notin TerminalRun
  BY DEF TerminalRun
<1>10. s \in Applied(r, a)
  BY <1>2, <1>4, <1>6, <1>8, <1>9 DEF Applied, AttemptScheduled, When, NodeIn, NodeOf
<1>11. OnlyNode(r, s, e[1]) /\ s.nodes[e[1]] = node
  BY <1>2, <1>3, <1>7, <1>8, OneUpdated
<1>12. Started(s, b) \in Applied(s, b)
  BY <1>2, <1>5, <1>7, <1>9, <1>11 DEF Applied, AttemptStarted, When, NodeIn, NodeOf, CurrentAttempt, OnlyNode
<1> QED  BY <1>1, <1>10, <1>12, TwoEvents

\* Evidence of a running attempt is accepted.
LEMMA EvidenceAccepted ==
    ASSUME NEW r \in Run, NEW e \in Execution, Runs(r, e)
    PROVE  /\ Materialized(r, <<AttemptEvent("ArtifactProduced", e)>>) # {}
           /\ \A other \in {"WorkspaceObserved", "CommandCompleted"} :
                 Materialized(r, <<AttemptEvent("ArtifactProduced", e), AttemptEvent(other, e)>>) # {}
<1>1. PICK a : a = AttemptEvent("ArtifactProduced", e)
  OBVIOUS
<1>2. a.type = "ArtifactProduced" /\ a.node = e[1] /\ a.attempt = e[2]
  BY <1>1 DEF AttemptEvent
<1>3. r \in Applied(r, a)
  BY <1>2 DEF Runs, Applied, ArtifactProduced, When, NodeIn, NodeOf, CurrentAttempt
<1>4. ASSUME NEW other \in {"WorkspaceObserved", "CommandCompleted"}
      PROVE  Materialized(r, <<a, AttemptEvent(other, e)>>) # {}
  <2>1. PICK b : b = AttemptEvent(other, e)
    OBVIOUS
  <2>2. b.type \in {"WorkspaceObserved", "CommandCompleted"} /\ b.node = e[1] /\ b.attempt = e[2]
    BY <2>1 DEF AttemptEvent
  <2>3. r \in Applied(r, b)
    BY <2>2 DEF Runs, Applied, ResultEvidence, When, NodeOf, CurrentAttempt
  <2> QED  BY <1>3, <2>1, <2>3, TwoEvents
<1>5. Materialized(r, <<a>>) # {}
  BY <1>3, OneEvent
<1> QED  BY <1>1, <1>4, <1>5

\* An attempt that runs and has not timed out may end, and its node with it.
LEMMA EndedAccepted ==
    ASSUME NEW r \in Run, NEW e \in Execution, Runs(r, e), r.nodes[e[1]].last.timeout = "none",
           NEW type, NEW other,
           \/ type = "AttemptSucceeded" /\ other = "NodeSucceeded"
           \/ type = "AttemptBlocked" /\ other = "NodeBlocked"
           \/ type = "AttemptCancelled" /\ other = "NodeCancelled"
    PROVE  \E t \in Materialized(r, <<AttemptEvent(type, e), NodeEvent(other, e[1])>>) : Beyond(r, t, {e[1]})
<1>1. PICK a, b : a = AttemptEvent(type, e) /\ b = NodeEvent(other, e[1])
  OBVIOUS
<1>2. a.type = type /\ a.node = e[1] /\ a.attempt = e[2] /\ b.type = other /\ b.node = e[1]
  BY <1>1 DEF AttemptEvent, NodeEvent
<1>3. e[1] \in Node /\ r.nodes[e[1]] \in NodeState /\ r.nodes[e[1]].last \in Attempt
  BY DEF Execution, Run, NodeState
<1>4. PICK status : status = CASE type = "AttemptSucceeded" -> "succeeded"
                               [] type = "AttemptBlocked" -> "blocked"
                               [] type = "AttemptCancelled" -> "cancelled"
  OBVIOUS
<1>5. PICK x : x = [r.nodes[e[1]].last EXCEPT !.status = status]
  OBVIOUS
<1>6. status \in {"succeeded", "blocked", "cancelled"}
  BY <1>4
<1>7. x \in Attempt /\ x.status = status
  BY <1>3, <1>5, <1>6 DEF Attempt, AttemptStatus
<1>8. PICK s : s = AttemptBecomes(r, a, x)
  OBVIOUS
<1>9. s \in Applied(r, a)
  <2>1. s \in AttemptEnded(r, a, status)
    BY <1>2, <1>5, <1>8 DEF Runs, AttemptEnded, When, NodeIn, NodeOf, CurrentAttempt
  <2>2. Applied(r, a) = AttemptEnded(r, a, status)
    BY <1>2, <1>4 DEF Runs, Applied
  <2> QED  BY <2>1, <2>2
<1>10. AttemptChanged(r, s, e[1], x)
  BY <1>2, <1>3, <1>7, <1>8, AttemptUpdated
<1>11. /\ s \in Run /\ s.status = r.status /\ s.status \notin TerminalRun
       /\ s.nodes[e[1]].status = "running" /\ s.nodes[e[1]].last.status = status
       /\ s.nodes[e[1]] \in NodeState
  BY <1>3, <1>7, <1>10, RunParts DEF AttemptChanged, OnlyNode, Runs
<1>12. PICK node : node = [s.nodes[e[1]] EXCEPT !.status = status]
  OBVIOUS
<1>13. node \in NodeState
  BY <1>6, <1>11, <1>12 DEF NodeState, NodeStatus
<1>14. PICK t : t = NodeBecomes(s, b, status)
  OBVIOUS
<1>15. t = Updated(s, b, node)
  BY <1>2, <1>12, <1>14 DEF NodeBecomes, NodeOf
<1>16. OnlyNode(s, t, e[1])
  BY <1>2, <1>3, <1>11, <1>13, <1>15, OneUpdated
<1>17. t \in Applied(s, b)
  <2>1. CASE type = "AttemptSucceeded"
    BY <1>2, <1>4, <1>11, <1>14, <2>1 DEF Applied, NodeEnded, When, NodeIn, NodeOf
  <2>2. CASE type = "AttemptBlocked"
    BY <1>2, <1>4, <1>11, <1>14, <2>2 DEF Applied, NodeBlocked, When, NodeIn, NodeOf
  <2>3. CASE type = "AttemptCancelled"
    BY <1>2, <1>4, <1>11, <1>14, <2>3 DEF Applied, NodeCancelled, When, NodeIn, NodeOf, ActiveAttemptStopped
  <2> QED  BY <2>1, <2>2, <2>3
<1>18. Beyond(r, t, {e[1]})
  BY <1>10, <1>16 DEF Beyond, AttemptChanged, OnlyNode
<1> QED  BY <1>1, <1>9, <1>17, <1>18, TwoEvents

\* An attempt may fail: for its budget once its deadline and its cancellation were recorded.
LEMMA FailedAccepted ==
    ASSUME NEW r \in Run, NEW e \in Execution, NEW exhausted, Runs(r, e),
           \/ r.nodes[e[1]].last.timeout = "none"
           \/ r.nodes[e[1]].last.timeout \in CancellationOutcome /\ exhausted
    PROVE  Materialized(r, <<[type |-> "AttemptFailed", node |-> e[1], attempt |-> e[2],
                              exhausted |-> exhausted]>>) # {}
<1>1. PICK a : a = [type |-> "AttemptFailed", node |-> e[1], attempt |-> e[2], exhausted |-> exhausted]
  OBVIOUS
<1>2. a.type = "AttemptFailed" /\ a.node = e[1] /\ a.attempt = e[2] /\ a.exhausted = exhausted
  BY <1>1
<1>3. Applied(r, a) # {}
  BY <1>2 DEF Runs, Applied, AttemptFailed, When, NodeIn, NodeOf, CurrentAttempt
<1> QED  BY <1>1, <1>3, OneEvent

\* The node of a failed attempt may be retried, or fail.
LEMMA FailedNodeAccepted ==
    ASSUME NEW r \in Run, NEW n \in Node, r.status \notin TerminalRun,
           r.nodes[n].status = "running", r.nodes[n].last.status = "failed"
    PROVE  /\ Materialized(r, <<NodeEvent("NodeFailed", n)>>) # {}
           /\ Materialized(r, ReadyBatch({n}, "retry")) # {}
<1>1. Materialized(r, <<NodeEvent("NodeFailed", n)>>) # {}
  <2>1. PICK a : a = NodeEvent("NodeFailed", n)
    OBVIOUS
  <2>2. a.type = "NodeFailed" /\ a.node = n
    BY <2>1 DEF NodeEvent
  <2>3. Applied(r, a) # {}
    BY <2>2 DEF Applied, NodeEnded, When, NodeIn, NodeOf
  <2> QED  BY <2>1, <2>3, OneEvent
<1>2. Materialized(r, ReadyBatch({n}, "retry")) # {}
  <2>1. PICK S : S = {n}
    OBVIOUS
  <2>2. PICK b : b = ReadyBatch(S, "retry")
    OBVIOUS
  <2>3. S \in SUBSET Node
    BY <2>1
  <2>4. /\ Len(b) = Len(InOrder(S)) /\ \E T : b \in Seq(T)
        /\ \A i \in 1..Len(b) : /\ b[i].type = "NodeReady" /\ b[i].reason = "retry"
                                /\ b[i].node = InOrder(S)[i] /\ b[i].node \in S
    BY <2>2, <2>3, ReadyBatchEvents
  <2>5. PICK T : b \in Seq(T)
    BY <2>4
  <2>6. ASSUME NEW i \in 1..Len(b), NEW s \in Run, s.status = r.status,
               s.nodes[b[i].node] = r.nodes[b[i].node]
        PROVE  \E u \in Applied(s, b[i]) : Beyond(s, u, {b[i].node})
    <3>1. PICK e : e = b[i]
      OBVIOUS
    <3>2. e.type = "NodeReady" /\ e.reason = "retry" /\ e.node = n
      BY <2>1, <2>4, <3>1
    <3>3. PICK node : node = [s.nodes[n] EXCEPT !.status = "ready", !.pause = "none"]
      OBVIOUS
    <3>4. Updated(s, e, node) \in Applied(s, e)
      BY <2>6, <3>1, <3>2, <3>3 DEF Applied, NodeReady, When, NodeIn, NodeOf
    <3>5. s.nodes[n] \in NodeState
      BY RunParts
    <3>6. node \in NodeState
      BY <3>3, <3>5 DEF NodeState, NodeStatus
    <3>7. Beyond(s, Updated(s, e, node), {n})
      BY <3>2, <3>6, UpdatedRun DEF Beyond
    <3> QED  BY <3>1, <3>2, <3>4, <3>7
  <2>7. \E t \in Materialized(r, b) : Beyond(r, t, S)
    BY <2>3, <2>4, <2>5, <2>6, NodesAccepted
  <2> QED  BY <2>1, <2>2, <2>7
<1> QED  BY <1>1, <1>2

\* Three batches, the last one of a single event, each accepted after the one before.
LEMMA ThreeJoined ==
    ASSUME NEW r, NEW a, NEW b, NEW x, NEW A, NEW B, a \in Seq(A), b \in Seq(B),
           NEW t \in Materialized(r, a), NEW u \in Materialized(t, b), NEW w \in Applied(u, x)
    PROVE  w \in Materialized(r, a \o b \o <<x>>)
<1>1. u \in Materialized(r, a \o b)
  BY BatchesJoined
<1>2. a \in Seq(A \cup B) /\ b \in Seq(A \cup B)
  OBVIOUS
<1>3. a \o b \in Seq(A \cup B) /\ <<x>> \in Seq({x})
  BY <1>2
<1>4. w \in Materialized(u, <<x>>)
  BY OneEvent
<1> QED  BY <1>1, <1>3, <1>4, BatchesJoined

\* A result that ends the run with its attempt is accepted in one batch: a blocked one, and a cancelled one
\* if no other node runs or is cancelled.
LEMMA EndingAccepted ==
    ASSUME NEW r \in Run, NEW e \in Execution, Runs(r, e), r.status = "running",
           r.nodes[e[1]].last.timeout = "none"
    PROVE  /\ Materialized(r, <<AttemptEvent("AttemptBlocked", e), NodeEvent("NodeBlocked", e[1])>>
                              \o BlockOthers(r, e[1]) \o <<[type |-> "RunBlocked"]>>) # {}
           /\ (\A m \in Node : m # e[1] => r.nodes[m].status \notin {"running", "cancelled"}) =>
              Materialized(r, <<AttemptEvent("AttemptCancelled", e), NodeEvent("NodeCancelled", e[1])>>
                              \o CancelOthers(r, e[1])
                              \o <<[type |-> "RunCancelled", durable |-> FALSE]>>) # {}
<1> DEFINE n == e[1]
<1>1. n \in Node
  BY DEF Execution
<1>2. \A x, y : <<x, y>> \in Seq({x, y})
  OBVIOUS
<1>3. PICK B, C : BlockOthers(r, n) \in Seq(B) /\ CancelOthers(r, n) \in Seq(C)
  BY EasingForNodes DEF EasingBatch
<1>4. ASSUME NEW t \in Run, Beyond(r, t, {n})
      PROVE  t.status \notin TerminalRun /\ \A m \in Node : m # n => t.nodes[m] = r.nodes[m]
  BY <1>1, <1>4 DEF Beyond, Runs
<1>5. Materialized(r, <<AttemptEvent("AttemptBlocked", e), NodeEvent("NodeBlocked", n)>>
                      \o BlockOthers(r, n) \o <<[type |-> "RunBlocked"]>>) # {}
  <2>1. PICK x, y, z : /\ x = AttemptEvent("AttemptBlocked", e) /\ y = NodeEvent("NodeBlocked", n)
                       /\ z = [type |-> "RunBlocked"]
    OBVIOUS
  <2>2. PICK t \in Materialized(r, <<x, y>>) : Beyond(r, t, {n})
    BY <2>1, EndedAccepted
  <2>3. t \in Run /\ t.status \notin TerminalRun /\ \A m \in Node : m # n => t.nodes[m] = r.nodes[m]
    BY <1>4, <2>2 DEF Beyond
  <2>4. PICK u \in Materialized(t, BlockOthers(r, n)) : Beyond(t, u, Node \ {n})
    BY <1>1, <2>3, OthersAccepted
  <2>5. u.status = "running"
    BY <2>2, <2>4 DEF Beyond
  <2>6. PICK w : w = [u EXCEPT !.status = "blocked"]
    OBVIOUS
  <2>7. w \in Applied(u, z)
    BY <2>1, <2>5, <2>6 DEF Applied, RunBlocked, When, TerminalRun
  <2>8. w \in Materialized(r, <<x, y>> \o BlockOthers(r, n) \o <<z>>)
    BY <1>2, <1>3, <2>2, <2>4, <2>7, ThreeJoined
  <2> QED  BY <2>1, <2>8
<1>6. ASSUME \A m \in Node : m # n => r.nodes[m].status \notin {"running", "cancelled"}
      PROVE  Materialized(r, <<AttemptEvent("AttemptCancelled", e), NodeEvent("NodeCancelled", n)>>
                             \o CancelOthers(r, n)
                             \o <<[type |-> "RunCancelled", durable |-> FALSE]>>) # {}
  <2>1. PICK x, y, z : /\ x = AttemptEvent("AttemptCancelled", e) /\ y = NodeEvent("NodeCancelled", n)
                       /\ z = [type |-> "RunCancelled", durable |-> FALSE]
    OBVIOUS
  <2>2. PICK t \in Materialized(r, <<x, y>>) : Beyond(r, t, {n})
    BY <2>1, EndedAccepted
  <2>3. t \in Run /\ t.status \notin TerminalRun /\ \A m \in Node : m # n => t.nodes[m] = r.nodes[m]
    BY <1>4, <2>2 DEF Beyond
  <2>4. PICK u \in Materialized(t, CancelOthers(r, n)) : Beyond(t, u, Node \ {n})
    BY <1>1, <1>6, <2>3, OthersAccepted
  <2>5. u.status = "running"
    BY <2>2, <2>4 DEF Beyond
  <2>6. PICK w : w = [u EXCEPT !.status = "cancelled"]
    OBVIOUS
  <2>7. w \in Applied(u, z)
    BY <2>1, <2>5, <2>6 DEF Applied, RunCancelled, When, TerminalRun
  <2>8. w \in Materialized(r, <<x, y>> \o CancelOthers(r, n) \o <<z>>)
    BY <1>2, <1>3, <2>2, <2>4, <2>7, ThreeJoined
  <2> QED  BY <2>1, <2>8
<1> QED  BY <1>5, <1>6

\* A run with a failed node may fail with its other nodes blocked, and one whose nodes succeeded succeeds.
LEMMA CompletionAccepted ==
    ASSUME NEW r \in Run, r.status = "running"
    PROVE  /\ \A n \in Node : r.nodes[n].status = "failed" =>
                 Materialized(r, BlockOthers(r, n) \o <<[type |-> "RunCompleted", outcome |-> "failed"]>>) # {}
           /\ (\A n \in Node : r.nodes[n].status = "succeeded") =>
                 Materialized(r, <<[type |-> "RunCompleted", outcome |-> "succeeded"]>>) # {}
<1>1. ASSUME NEW n \in Node, r.nodes[n].status = "failed"
      PROVE  Materialized(r, BlockOthers(r, n) \o <<[type |-> "RunCompleted", outcome |-> "failed"]>>) # {}
  <2>1. PICK z : z = [type |-> "RunCompleted", outcome |-> "failed"]
    OBVIOUS
  <2>2. PICK B : BlockOthers(r, n) \in Seq(B)
    BY EasingForNodes DEF EasingBatch
  <2>3. PICK u \in Materialized(r, BlockOthers(r, n)) : Beyond(r, u, Node \ {n})
    BY OthersAccepted DEF TerminalRun
  <2>4. u.status = "running" /\ u.nodes[n].status = "failed"
    BY <1>1, <2>3 DEF Beyond
  <2>5. PICK w : w = [u EXCEPT !.status = "failed"]
    OBVIOUS
  <2>6. w \in Applied(u, z)
    BY <2>1, <2>4, <2>5 DEF Applied, RunCompleted, When, TerminalRun
  <2>7. w \in Materialized(u, <<z>>) /\ <<z>> \in Seq({z})
    BY <2>6, OneEvent
  <2>8. w \in Materialized(r, BlockOthers(r, n) \o <<z>>)
    BY <2>2, <2>3, <2>7, BatchesJoined
  <2> QED  BY <2>1, <2>8
<1>2. ASSUME \A n \in Node : r.nodes[n].status = "succeeded"
      PROVE  Materialized(r, <<[type |-> "RunCompleted", outcome |-> "succeeded"]>>) # {}
  <2>1. PICK z : z = [type |-> "RunCompleted", outcome |-> "succeeded"]
    OBVIOUS
  <2>2. Applied(r, z) # {}
    BY <1>2, <2>1 DEF Applied, RunCompleted, When, TerminalRun
  <2> QED  BY <2>1, <2>2, OneEvent
<1> QED  BY <1>1, <1>2

-----------------------------------------------------------------------------
(* What the reducer rejects *)

\* While a run goes on none of its nodes is cancelled.
NoneCancelled(r) == r.status = "running" => \A n \in Node : r.nodes[n].status # "cancelled"

\* An attempt whose worker has reported was not timed out, or its deadline and its cancellation were
\* recorded and it is failed for its budget.
InTime(c) ==
    fresh[c] /\ pc[c] \in Reporting =>
       \/ NodeAt(c).last.timeout = "none"
       \/ NodeAt(c).last.timeout \in CancellationOutcome /\ result[c] = "exhausted"

\* Nothing went wrong that explains a rejection.
Untroubled == faults \cap {"mutation", "escape", "append", "evidence", "conflict", "overlap"} = {}

ReducerInv ==
    /\ NoneCancelled(run)
    /\ Untroubled => "reducer" \notin faults /\ \A c \in Caller : InTime(c)

\* This is what the property says.
LEMMA RejectionsExplained == ReducerInv => RejectedOnlyForCause
BY DEF ReducerInv, RejectedOnlyForCause, Untroubled

\* It holds at first: no node is cancelled, and nothing has gone wrong.
LEMMA ReducerInitially == Init => ReducerInv
<1> SUFFICES ASSUME Init PROVE ReducerInv
  OBVIOUS
<1>1. NoneCancelled(run)
  BY DEF Init, NoneCancelled, CreatedRun
<1>2. "reducer" \notin faults /\ \A c \in Caller : InTime(c)
  BY DEF Init, InTime
<1> QED  BY <1>1, <1>2 DEF ReducerInv

\* Where nothing went wrong a caller with an attempt knows the run, and its node is the only one at work.
LEMMA UntroubledHolder ==
    ASSUME IInv, Untroubled, NEW c \in Caller, pc[c] \in Holding, NEW h \in Execution, h = at[c]
    PROVE  /\ fresh[c] /\ Current(c) /\ run.status = "running" /\ run.status \notin TerminalRun
           /\ \A n \in Node : n # h[1] => run.nodes[n].status \notin {"running", "failed"}
           /\ pc[c] \in InAttempt \cup {"finish"} => Runs(run, h)
<1>1. Clean
  BY DEF Untroubled, Clean
<1>2. fresh[c] /\ Current(c) /\ h[1] \in Busy
  BY <1>1, HolderKnows
<1>3. run.status = "running" /\ run.status \notin TerminalRun
  BY <1>2 DEF Current, TerminalRun
<1>4. \A n \in Node : n # h[1] => run.nodes[n].status \notin {"running", "failed"}
  <2>1. OneBusy
    BY <1>1 DEF IInv, OneAttempt
  <2> QED  BY <1>2, <2>1 DEF OneBusy, Busy
<1>5. ASSUME pc[c] \in InAttempt \cup {"finish"} PROVE Runs(run, h)
  <2>1. pc[c] \notin {"failing", "retry", "exhausted"}
    BY <1>5 DEF InAttempt
  <2> QED  BY <1>2, <1>3, <2>1 DEF Current, NodeAt, Runs
<1> QED  BY <1>2, <1>3, <1>4, <1>5

\* A caller that goes on as it was is in time as it was, unless its run moves on.
LEMMA StillInTime ==
    ASSUME NEW c \in Caller, InTime(c), run' = run, fresh'[c] => fresh[c],
           pc'[c] = pc[c], at'[c] = at[c], result'[c] = result[c]
    PROVE  InTime(c)'
BY DEF InTime, NodeAt

\* A step that leaves the run alone and meets no rejection.
LEMMA RunKept ==
    ASSUME ReducerInv, run' = run, faults \subseteq faults', "reducer" \in faults' => "reducer" \in faults,
           Untroubled' => \A c \in Caller : InTime(c) => InTime(c)'
    PROVE  ReducerInv'
<1>1. Untroubled' => Untroubled
  BY DEF Untroubled
<1>2. NoneCancelled(run)'
  BY DEF ReducerInv, NoneCancelled
<1> QED  BY <1>1, <1>2 DEF ReducerInv

\* One of a caller, which must be in time where it goes.
LEMMA CallerKept ==
    ASSUME ReducerInv, NEW c \in Caller, run' = run, faults \subseteq faults',
           "reducer" \in faults' => "reducer" \in faults,
           \A d \in Caller : d # c => SameCaller(d) /\ (fresh'[d] => fresh[d]),
           Untroubled' => (InTime(c) => InTime(c)')
    PROVE  ReducerInv'
<1>1. ASSUME NEW d \in Caller, d # c, InTime(d) PROVE InTime(d)'
  BY <1>1, StillInTime DEF SameCaller
<1> QED  BY <1>1, RunKept

\* A batch that the reducer accepts unless something went wrong is not appended, for another reason then.
LEMMA RefusalKept ==
    ASSUME ReducerInv, TypeOK, NEW c \in Caller, NEW batch, CommitRefused(c, batch), UNCHANGED at,
           fresh[c] /\ Untroubled => Materialized(run, batch) # {}
    PROVE  ReducerInv'
<1>1. run' = run /\ fresh' = fresh /\ Fails(c)
  BY DEF CommitRefused
<1>2. CASE Untroubled'
  <2>1. AppendFails(c) => Untroubled /\ ~fresh[c] /\ pc[c] = "schedule" /\ faults' = faults
    BY <1>2 DEF AppendFails, Breaks, Untroubled
  <2>2. Untroubled
    BY <1>2 DEF Untroubled, CommitRefused, AppendFails, Breaks
  <2>3. AppendFails(c)
    BY <2>2 DEF CommitRefused
  <2>4. pc' = [pc EXCEPT ![c] = "idle"] /\ result' = result
    BY <1>1, <2>1, <2>3 DEF Fails, Goes, InAttempt
  <2>5. ASSUME NEW d \in Caller, InTime(d) PROVE InTime(d)'
    <3>1. CASE d = c
      BY <1>1, <2>1, <2>3, <3>1 DEF InTime
    <3>2. CASE d # c
      <4>1. pc'[d] = pc[d] /\ at'[d] = at[d] /\ result'[d] = result[d]
        BY <2>4, <3>2 DEF TypeOK
      <4> QED  BY <1>1, <2>5, <4>1, StillInTime
    <3> QED  BY <3>1, <3>2
  <2> QED  BY <1>1, <2>1, <2>3, <2>5, RunKept
<1>3. CASE ~Untroubled'
  BY <1>1, <1>3 DEF ReducerInv, NoneCancelled
<1> QED  BY <1>2, <1>3

\* One that is appended is known to the caller alone.
LEMMA AppendKept ==
    ASSUME ReducerInv, NEW c \in Caller, fresh' = [d \in Caller |-> d = c],
           faults \subseteq faults', "reducer" \in faults' => "reducer" \in faults,
           NoneCancelled(run'), Untroubled' => InTime(c)'
    PROVE  ReducerInv'
<1>1. Untroubled' => Untroubled
  BY DEF Untroubled
<1>2. ASSUME NEW d \in Caller, d # c PROVE InTime(d)'
  BY <1>2 DEF InTime
<1> QED  BY <1>1, <1>2 DEF ReducerInv

\* An append of Commit, and one away from the attempt.
LEMMA CommitKept ==
    ASSUME ReducerInv, NEW c \in Caller, NEW batch, NEW place, CommitAppended(c, batch, place),
           NoneCancelled(run'), Untroubled' => InTime(c)'
    PROVE  ReducerInv'
<1>1. /\ fresh' = [d \in Caller |-> d = c] /\ faults \subseteq faults'
      /\ "reducer" \in faults' => "reducer" \in faults
  BY DEF CommitAppended, Overlapping
<1> QED  BY <1>1, AppendKept

\* There nothing is to be in time.
LEMMA CommitAwayKept ==
    ASSUME ReducerInv, TypeOK, NEW c \in Caller, NEW batch, NEW place, CommitAppended(c, batch, place),
           place \notin Reporting, NoneCancelled(run')
    PROVE  ReducerInv'
<1>1. pc'[c] = place
  BY DEF CommitAppended, TypeOK
<1>2. InTime(c)'
  BY <1>1 DEF InTime
<1> QED  BY <1>2, CommitKept

\* A run in which another node changes, but is not cancelled, and one with nodes made ready.
LEMMA NoneCancelledKept ==
    ASSUME NEW r, NEW t, NoneCancelled(r)
    PROVE  /\ \A n \in Node : OnlyNode(r, t, n) /\ t.nodes[n].status # "cancelled" => NoneCancelled(t)
           /\ \A n \in Node : \A x : AttemptChanged(r, t, n, x) => NoneCancelled(t)
           /\ Readied(r, t) => NoneCancelled(t)
<1>1. ASSUME NEW n \in Node, OnlyNode(r, t, n), t.nodes[n].status # "cancelled" PROVE NoneCancelled(t)
  BY <1>1 DEF OnlyNode, NoneCancelled
<1>2. ASSUME NEW n \in Node, NEW x, AttemptChanged(r, t, n, x) PROVE NoneCancelled(t)
  BY <1>2 DEF AttemptChanged, OnlyNode, NoneCancelled
<1>3. ASSUME Readied(r, t) PROVE NoneCancelled(t)
  BY <1>3 DEF Readied, NodeReadied, NoneCancelled
<1> QED  BY <1>1, <1>2, <1>3

\* A batch that ends with the end of the run leaves one that has ended.
LEMMA EndingStops ==
    ASSUME NEW r \in Run, NEW a, NEW S, a \in Seq(S), NEW x, NEW spared, EasingBatch(a \o <<x>>, spared),
           x.type \in {"RunBlocked", "RunCancelled", "RunCompleted"},
           NEW t \in Materialized(r, a \o <<x>>)
    PROVE  t.status # "running"
<1>1. PICK b : b = a \o <<x>>
  OBVIOUS
<1>2. Len(b) \in Nat /\ Len(b) # 0 /\ b[Len(b)] = x
  BY <1>1
<1>3. ASSUME NEW i \in 1..Len(b), NEW s \in Run PROVE Applied(s, b[i]) \subseteq Run
  <2>1. Easing(b[i])
    BY <1>1 DEF EasingBatch
  <2> QED  BY <2>1, RunEvent, NodeEvents DEF Easing
<1>4. \E s \in Run : t \in Applied(s, x)
  BY <1>1, <1>2, <1>3, BatchPreserves
<1>5. PICK s \in Run : t \in Applied(s, x)
  BY <1>4
<1>6. Easing(x)
  <2>1. Len(b) \in 1..Len(b)
    BY <1>2
  <2> QED  BY <1>1, <1>2, <2>1 DEF EasingBatch
<1>7. x.type = "RunCompleted" => x.outcome \in {"succeeded", "failed"}
  BY <1>6 DEF Easing
<1> QED  BY <1>5, <1>7 DEF Applied, RunBlocked, RunCancelled, RunCompleted, When, Run

\* The steps of an execution leave the run and its callers alone.
LEMMA OperationKept ==
    ASSUME ReducerInv, NEW e \in Execution, Operation(e) \/ CommandTimeout(e) \/ CommandClose(e)
    PROVE  ReducerInv'
<1>1. UNCHANGED <<run, pc, fresh, at, result, faults>>
  BY DEF Operation, StartResolves, StartRejects, RuntimeErrs, StreamEnds, LateStartCollects,
         LateCollectRejects, Collected, CancelAnswers, CommandTimeout, CommandClose, OpOnly, callers, attempt
<1>2. \A c \in Caller : InTime(c) => InTime(c)'
  BY <1>1, StillInTime
<1> QED  BY <1>1, <1>2, RunKept

\* Nor does the end of the process: no state is kept.
LEMMA CrashKept == ASSUME ReducerInv, Crash PROVE ReducerInv'
<1>1. /\ run' = run /\ faults' = faults \cup {"crash"}
      /\ \A c \in Caller : fresh'[c] = FALSE
  BY DEF Crash, Breaks
<1>2. \A c \in Caller : InTime(c)'
  BY <1>1 DEF InTime
<1> QED  BY <1>1, <1>2, RunKept

\* The loop of a caller.
LEMMA CreateRunKept == ASSUME IInv, ReducerInv, NEW c \in Caller, CreateRun(c) PROVE ReducerInv'
<1>1. TypeOK
  BY DEF IInv
<1>2. PICK b, S : /\ b = ReadyBatch(S, "dependencies-satisfied") /\ S = Executable(CreatedRun)
  OBVIOUS
<1>3. PICK x, y : x = [type |-> "RuntimeNegotiated"] /\ y = [type |-> "WorkspaceAssigned"]
  OBVIOUS
<1>4. PICK r \in Materialized(CreatedRun, <<x, y>> \o b) : Stored(c, r) /\ Goes(c, Continues(r))
  BY <1>2, <1>3, Zenon DEF CreateRun
<1>5. UNCHANGED faults
  BY DEF CreateRun
<1>6. CreatedRun \in Run /\ S \in SUBSET Node /\ x.type = "RuntimeNegotiated" /\ y.type = "WorkspaceAssigned"
  <2>1. CreatedRun = run
    BY DEF CreateRun, IInv, NotCreated
  <2> QED  BY <1>1, <1>2, <1>3, <2>1 DEF TypeOK, Executable
<1>7. PICK a : a = <<x, y>>
  OBVIOUS
<1>8. Readied(CreatedRun, r)
  BY <1>2, <1>4, <1>6, <1>7, CreatedEffect
<1>9. NoneCancelled(CreatedRun)
  BY DEF NoneCancelled, CreatedRun
<1>10. NoneCancelled(r)
  BY <1>8, <1>9, NoneCancelledKept
<1>11. run' = r /\ fresh' = [d \in Caller |-> d = c] /\ pc'[c] \in {"idle", "tick"}
  BY <1>1, <1>4, ContinuesAway DEF Stored, Goes, TypeOK
<1>12. InTime(c)'
  BY <1>11 DEF InTime, Reporting
<1> QED  BY <1>5, <1>10, <1>11, <1>12, AppendKept

\* Resuming and loading the run again leave the run alone, and no worker has reported there.
LEMMA LoopKept == ASSUME IInv, ReducerInv, NEW c \in Caller, Resume(c) \/ Tick(c) PROVE ReducerInv'
<1>1. TypeOK
  BY DEF IInv
<1>2. run' = run /\ faults' = faults /\ pc'[c] \in {"idle", "tick", "schedule"}
  BY <1>1 DEF Resume, Tick, Goes, TypeOK
<1>3. \A d \in Caller : d # c => SameCaller(d) /\ fresh'[d] = fresh[d]
  BY <1>1 DEF Resume, Tick, Goes, attempt, TypeOK, SameCaller
<1>4. InTime(c)'
  BY <1>2 DEF InTime, Reporting
<1> QED  BY <1>2, <1>3, <1>4, CallerKept

\* Where the next attempt may start the reducer accepts that it does.
LEMMA ScheduleKept == ASSUME IInv, ReducerInv, NEW c \in Caller, Schedule(c) PROVE ReducerInv'
<1>1. TypeOK /\ RunSound /\ CallerSound(c)
  BY DEF IInv
<1>2. PICK h \in Execution : h = at[c]
  BY <1>1 DEF TypeOK
<1>3. PICK b : b = <<AttemptEvent("AttemptScheduled", h), AttemptEvent("AttemptStarted", h)>>
  OBVIOUS
<1>4. pc[c] = "schedule" /\ b # <<>> /\ UNCHANGED <<created, at, unsafe, executions, events>>
  BY <1>3 DEF Schedule
<1>5. CommitRefused(c, b) \/ CommitAppended(c, b, "context")
  BY <1>2, <1>3, <1>4, Zenon DEF Schedule, Commit, CommitRefused, CommitAppended, Stored, Goes
<1>6. CASE CommitRefused(c, b)
  <2>1. run \in Run /\ ~run.configured
    BY <1>1 DEF TypeOK, RunSound
  <2>2. ASSUME fresh[c] PROVE Materialized(run, b) # {}
    <3>1. run.status = "running" /\ run.nodes[h[1]].status = "ready" /\ h[2] = run.nodes[h[1]].attempts + 1
      BY <1>1, <1>2, <1>4, <2>2 DEF CallerSound, Current, NodeAt
    <3> QED  BY <1>3, <2>1, <3>1, ScheduleAccepted
  <2> QED  BY <1>1, <1>4, <1>6, <2>2, RefusalKept
<1>7. CASE CommitAppended(c, b, "context")
  <2>1. run \in Run /\ run' \in Materialized(run, b)
    BY <1>1, <1>7 DEF TypeOK, CommitAppended
  <2>2. OnlyNode(run, run', h[1]) /\ run'.nodes[h[1]].status = "running" /\ h[1] \in Node
    BY <1>3, <2>1, ScheduleEffect DEF Execution
  <2>3. NoneCancelled(run')
    BY <2>2, NoneCancelledKept DEF ReducerInv
  <2> QED  BY <1>1, <1>7, <2>3, CommitAwayKept DEF Reporting
<1> QED  BY <1>5, <1>6, <1>7

\* Evidence of the attempt that runs is accepted, and changes nothing.
LEMMA EvidenceInTime ==
    ASSUME IInv, ReducerInv, NEW c \in Caller, pc[c] \in InAttempt, NEW h \in Execution, h = at[c],
           NEW b, NEW place,
           \/ b = <<AttemptEvent("ArtifactProduced", h)>>
           \/ \E other \in {"WorkspaceObserved", "CommandCompleted"} :
                 b = <<AttemptEvent("ArtifactProduced", h), AttemptEvent(other, h)>>,
           CommitRefused(c, b) \/ CommitAppended(c, b, place), UNCHANGED at,
           pc[c] \in Reporting \/ place \notin Reporting
    PROVE  ReducerInv'
<1>1. TypeOK /\ pc[c] \in Holding
  BY DEF IInv, Holding
<1>2. CASE CommitRefused(c, b)
  <2>1. ASSUME Untroubled PROVE Materialized(run, b) # {}
    <3>1. Runs(run, h) /\ run \in Run
      BY <1>1, <2>1, UntroubledHolder DEF TypeOK
    <3> QED  BY <3>1, EvidenceAccepted
  <2> QED  BY <1>1, <1>2, <2>1, RefusalKept
<1>3. CASE CommitAppended(c, b, place)
  <2>1. run' \in Materialized(run, b)
    BY <1>3 DEF CommitAppended
  <2>2. run' = run
    <3>1. Materialized(run, b) \subseteq {run}
      BY EvidenceBatches
    <3> QED  BY <2>1, <3>1
  <2>3. NoneCancelled(run')
    BY <2>2 DEF ReducerInv
  <2>4. pc'[c] = place /\ result' = result /\ fresh[c]
    BY <1>1, <1>3 DEF CommitAppended, TypeOK
  <2>5. Untroubled' => Untroubled
    BY <1>3 DEF CommitAppended, Untroubled
  <2>6. ASSUME Untroubled' PROVE InTime(c)'
    <3>1. InTime(c)
      BY <2>5, <2>6 DEF ReducerInv
    <3> QED  BY <2>2, <2>4, <3>1 DEF InTime, NodeAt
  <2> QED  BY <1>3, <2>3, <2>6, CommitKept
<1> QED  BY <1>2, <1>3

\* The context, the report of a command, the evidence and the differences of the workspace.
LEMMA RecordKept ==
    ASSUME IInv, ReducerInv, NEW c \in Caller,
           RecordContext(c) \/ CommandReported(c) \/ RecordEvidence(c) \/ RecordDiff(c)
    PROVE  ReducerInv'
<1>1. PICK h \in Execution : h = at[c]
  BY DEF IInv, TypeOK
<1>2. PICK x, y, z : /\ x = AttemptEvent("ArtifactProduced", h) /\ y = AttemptEvent("WorkspaceObserved", h)
                     /\ z = AttemptEvent("CommandCompleted", h)
  OBVIOUS
<1>3. <<x>> # <<>> /\ <<x, y>> # <<>> /\ <<x, z>> # <<>>
  OBVIOUS
<1>4. CASE RecordContext(c)
  <2>1. pc[c] = "context" /\ UNCHANGED at
    BY <1>4 DEF RecordContext
  <2>2. CommitRefused(c, <<x>>) \/ CommitAppended(c, <<x>>, "launch")
    BY <1>1, <1>2, <1>3, <1>4, Zenon DEF RecordContext, Commit, CommitRefused, CommitAppended, Stored, Goes
  <2>3. pc[c] \in InAttempt /\ "launch" \notin Reporting
    BY <2>1 DEF InAttempt, Reporting
  <2> QED  BY <1>1, <1>2, <2>1, <2>2, <2>3, EvidenceInTime
<1>5. CASE CommandReported(c)
  <2>1. pc[c] = "command" /\ UNCHANGED at
    BY <1>5 DEF CommandReported
  <2>2. CommitRefused(c, <<x, z>>) \/ CommitAppended(c, <<x, z>>, "report")
    BY <1>1, <1>2, <1>3, <1>5, Zenon DEF CommandReported, Commit, CommitRefused, CommitAppended, Stored, Goes
  <2>3. pc[c] \in InAttempt /\ "report" \notin Reporting
    BY <2>1 DEF InAttempt, Reporting
  <2> QED  BY <1>1, <1>2, <2>1, <2>2, <2>3, EvidenceInTime
<1>6. CASE RecordEvidence(c)
  <2>1. pc[c] = "evidence" /\ UNCHANGED at
    BY <1>6 DEF RecordEvidence
  <2>2. PICK place : place = IF unsafe[c] THEN "finish" ELSE "capture"
    OBVIOUS
  <2>3. CommitRefused(c, <<x>>) \/ CommitAppended(c, <<x>>, place)
    BY <1>1, <1>2, <1>3, <1>6, <2>2, Zenon DEF RecordEvidence, Commit, CommitRefused, CommitAppended, Stored, Goes
  <2>4. pc[c] \in InAttempt /\ pc[c] \in Reporting
    BY <2>1 DEF InAttempt, Reporting
  <2> QED  BY <1>1, <1>2, <2>1, <2>3, <2>4, EvidenceInTime
<1>7. CASE RecordDiff(c)
  <2>1. pc[c] = "diff" /\ UNCHANGED at
    BY <1>7 DEF RecordDiff
  <2>2. CommitRefused(c, <<x, y>>) \/ CommitAppended(c, <<x, y>>, "finish")
    BY <1>1, <1>2, <1>3, <1>7, Zenon DEF RecordDiff, Commit, CommitRefused, CommitAppended, Stored, Goes
  <2>3. pc[c] \in InAttempt /\ pc[c] \in Reporting
    BY <2>1 DEF InAttempt, Reporting
  <2> QED  BY <1>1, <1>2, <2>1, <2>2, <2>3, EvidenceInTime
<1> QED  BY <1>4, <1>5, <1>6, <1>7

\* A deadline is recorded once, and then how its cancellation went.
LEMMA TimeoutKeeps ==
    ASSUME IInv, ReducerInv, NEW c \in Caller, RecordTimeout(c) \/ CancelUnavailable(c) \/ CancelKnown(c)
    PROVE  ReducerInv'
<1>1. TypeOK /\ CallerSound(c) /\ UNCHANGED at
  BY DEF IInv, RecordTimeout, CancelUnavailable, CancelKnown
<1>2. PICK h \in Execution : h = at[c]
  BY <1>1 DEF TypeOK
<1>3. run \in Run
  BY <1>1 DEF TypeOK
<1>4. ASSUME Untroubled, pc[c] \in Waiting PROVE Runs(run, h) /\ TimeoutBy(c)
  <2>1. pc[c] \in Holding /\ pc[c] \in InAttempt
    BY <1>4 DEF Holding, InAttempt, Waiting
  <2> QED  BY <1>2, <1>4, <2>1, UntroubledHolder DEF Current
<1>5. ASSUME NEW b, NEW place, place \in {"requested", "late"}, pc[c] \in Waiting,
             CommitRefused(c, b) \/ CommitAppended(c, b, place),
             \A t \in Materialized(run, b) : \E x : AttemptChanged(run, t, h[1], x),
             Runs(run, h) /\ TimeoutBy(c) => Materialized(run, b) # {}
      PROVE  ReducerInv'
  <2>1. CASE CommitRefused(c, b)
    BY <1>1, <1>4, <1>5, <2>1, RefusalKept
  <2>2. CASE CommitAppended(c, b, place)
    <3>1. run' \in Materialized(run, b) /\ h[1] \in Node
      BY <2>2 DEF CommitAppended, Execution
    <3>2. PICK x : AttemptChanged(run, run', h[1], x)
      BY <1>5, <3>1
    <3>3. NoneCancelled(run')
      BY <3>1, <3>2, NoneCancelledKept DEF ReducerInv
    <3> QED  BY <1>1, <1>5, <2>2, <3>3, CommitAwayKept DEF Reporting
  <2> QED  BY <1>5, <2>1, <2>2
<1>6. CASE RecordTimeout(c)
  <2>1. PICK b : b = <<AttemptEvent("AttemptTimeoutRequested", h)>>
    OBVIOUS
  <2>2. pc[c] = "expired" /\ b # <<>> /\ pc[c] \in Waiting
    BY <1>6, <2>1 DEF RecordTimeout, Waiting
  <2>3. CommitRefused(c, b) \/ CommitAppended(c, b, "requested")
    BY <1>2, <1>6, <2>1, <2>2, Zenon DEF RecordTimeout, Commit, CommitRefused, CommitAppended, Stored, Goes
  <2>4. /\ \A t \in Materialized(run, b) : \E x : AttemptChanged(run, t, h[1], x)
        /\ Runs(run, h) /\ run.nodes[h[1]].last.timeout = "none" => Materialized(run, b) # {}
    BY <1>3, <2>1, TimeoutEffect
  <2>5. TimeoutBy(c) => run.nodes[h[1]].last.timeout = "none"
    BY <1>2, <2>2 DEF TimeoutBy, NodeAt
  <2> QED  BY <1>5, <2>2, <2>3, <2>4, <2>5
<1>7. ASSUME NEW answer \in CancellationOutcome, pc[c] \in {"requested", "cancelling"},
             Commit(c, CancellationCompleted(c, answer), LAMBDA v : "late")
      PROVE  ReducerInv'
  <2>1. PICK b : b = <<[type |-> "AttemptCancellationCompleted", node |-> h[1], attempt |-> h[2],
                        outcome |-> answer]>>
    OBVIOUS
  <2>2. b = CancellationCompleted(c, answer) /\ b # <<>> /\ pc[c] \in Waiting
    BY <1>2, <1>7, <2>1 DEF CancellationCompleted, Waiting
  <2>3. CommitRefused(c, b) \/ CommitAppended(c, b, "late")
    BY <1>7, <2>2, Zenon DEF Commit, CommitRefused, CommitAppended, Stored, Goes
  <2>4. /\ \A t \in Materialized(run, b) : \E x : AttemptChanged(run, t, h[1], x)
        /\ Runs(run, h) /\ run.nodes[h[1]].last.timeout = "requested" => Materialized(run, b) # {}
    BY <1>3, <2>1, CancellationEffect
  <2>5. TimeoutBy(c) => run.nodes[h[1]].last.timeout = "requested"
    BY <1>2, <1>7 DEF TimeoutBy, NodeAt
  <2> QED  BY <1>5, <2>2, <2>3, <2>4, <2>5
<1>8. CASE CancelUnavailable(c)
  <2>1. pc[c] = "requested" /\ Commit(c, CancellationCompleted(c, "unavailable"), LAMBDA v : "late")
    BY <1>8 DEF CancelUnavailable
  <2> QED  BY <1>7, <2>1 DEF CancellationOutcome
<1>9. CASE CancelKnown(c)
  <2>1. PICK answer : answer = IF cancelled[at[c]] = "pending" THEN "failed" ELSE cancelled[at[c]]
    OBVIOUS
  <2>2. pc[c] = "cancelling" /\ Commit(c, CancellationCompleted(c, answer), LAMBDA v : "late")
    BY <1>9, <2>1 DEF CancelKnown
  <2>3. cancelled[h] # "none"
    BY <1>1, <1>2, <2>2 DEF CallerSound, PlaceSound
  <2>4. answer \in CancellationOutcome
    BY <1>1, <1>2, <2>1, <2>3 DEF TypeOK, CancellationOutcome
  <2> QED  BY <1>7, <2>2, <2>4
<1> QED  BY <1>6, <1>8, <1>9

\* A caller that goes on without an append, where no worker has reported yet.
LEMMA GoesOnKept ==
    ASSUME IInv, ReducerInv, NEW c \in Caller,
           Launch(c) \/ Deadline(c) \/ RequestCancel(c) \/ EventArrives(c)
    PROVE  ReducerInv'
<1>1. TypeOK
  BY DEF IInv
<1>2. UNCHANGED <<run, fresh, at, result, faults>>
  BY DEF Launch, Deadline, RequestCancel, EventArrives, attempt, callers
<1>3. pc'[c] \in {"command", "running", "expired", "cancelling"} /\ \A d \in Caller : d # c => pc'[d] = pc[d]
  BY <1>1 DEF Launch, Deadline, RequestCancel, EventArrives, Goes, TypeOK, callers
<1>4. InTime(c)'
  BY <1>3 DEF InTime, Reporting
<1>5. \A d \in Caller : d # c /\ InTime(d) => InTime(d)'
  BY <1>2, <1>3, StillInTime
<1> QED  BY <1>2, <1>4, <1>5, RunKept

\* The worker reports in time, or it did not and what it reports is not waited for.
LEMMA ReportKept ==
    ASSUME IInv, ReducerInv, NEW c \in Caller, CommandResult(c) \/ OperationWins(c) \/ LateResultMissed(c)
    PROVE  ReducerInv'
<1>1. TypeOK /\ CallerSound(c)
  BY DEF IInv
<1>2. UNCHANGED <<run, fresh, at, faults>>
  BY DEF CommandResult, OperationWins, LateResultMissed
<1>3. \A d \in Caller : d # c => pc'[d] = pc[d] /\ result'[d] = result[d]
  BY <1>1 DEF CommandResult, OperationWins, LateResultMissed, OutOfTime, Goes, TypeOK
<1>4. ASSUME fresh[c]
      PROVE  \/ NodeAt(c).last.timeout = "none"
             \/ NodeAt(c).last.timeout \in CancellationOutcome /\ result'[c] = "exhausted"
  <2>1. pc[c] \in {"report", "running", "late"} /\ pc[c] \in Holding
    BY DEF CommandResult, OperationWins, LateResultMissed, Holding, InAttempt
  <2>2. TimeoutBy(c)
    BY <1>1, <1>4, <2>1 DEF CallerSound, Current
  <2>3. CASE pc[c] = "late"
    <3>1. result'[c] = "exhausted"
      BY <1>1, <2>3 DEF CommandResult, OperationWins, LateResultMissed, OutOfTime, TypeOK
    <3> QED  BY <2>2, <2>3, <3>1 DEF TimeoutBy
  <2>4. CASE pc[c] # "late"
    BY <2>1, <2>2, <2>4 DEF TimeoutBy
  <2> QED  BY <2>3, <2>4
<1>5. InTime(c)'
  BY <1>2, <1>4 DEF InTime, NodeAt
<1>6. \A d \in Caller : d # c /\ InTime(d) => InTime(d)'
  BY <1>2, <1>3, StillInTime
<1> QED  BY <1>2, <1>5, <1>6, RunKept

\* An append outside of Commit that fails is one of the failures that explain a rejection.
LEMMA FailureKept ==
    ASSUME ReducerInv, NEW c \in Caller, pc[c] # "schedule", AppendFails(c), run' = run
    PROVE  ReducerInv'
<1>1. ~Untroubled'
  BY DEF AppendFails, Breaks, Untroubled
<1> QED  BY <1>1 DEF ReducerInv, NoneCancelled

\* An event of the worker is appended while nobody waits for its report.
LEMMA ObservedKept == ASSUME IInv, ReducerInv, NEW c \in Caller, Observed(c) PROVE ReducerInv'
<1>1. TypeOK
  BY DEF IInv
<1>2. PICK h \in Execution : h = at[c]
  BY <1>1 DEF TypeOK
<1>3. run \in Run /\ h[1] \in Node /\ pc[c] \in {"running", "expired"} /\ pc[c] # "schedule"
  BY <1>1 DEF TypeOK, Observed, Execution
<1>4. CASE /\ \E usage \in {FALSE, ~run.nodes[h[1]].last.usage} :
                 \E r \in Materialized(run, <<[type |-> "RuntimeEventObserved", node |-> h[1],
                                               attempt |-> h[2], usage |-> usage]>>) : Stored(c, r)
           /\ UNCHANGED <<pc, faults>>
  <2>1. PICK usage \in {FALSE, ~run.nodes[h[1]].last.usage} :
          \E r \in Materialized(run, <<[type |-> "RuntimeEventObserved", node |-> h[1],
                                        attempt |-> h[2], usage |-> usage]>>) : Stored(c, r)
    BY <1>4
  <2>2. usage \in BOOLEAN
    BY <2>1
  <2>3. /\ run' \in Materialized(run, <<[type |-> "RuntimeEventObserved", node |-> h[1],
                                         attempt |-> h[2], usage |-> usage]>>)
        /\ fresh' = [d \in Caller |-> d = c]
    BY <2>1 DEF Stored
  <2>4. \E x : AttemptChanged(run, run', h[1], x)
    BY <1>3, <2>2, <2>3, RecordedEffect
  <2>5. NoneCancelled(run')
    BY <1>3, <2>4, NoneCancelledKept DEF ReducerInv
  <2>6. InTime(c)'
    BY <1>3, <1>4 DEF InTime, Reporting
  <2> QED  BY <1>4, <2>3, <2>5, <2>6, AppendKept
<1>5. CASE AppendFails(c) /\ run' = run
  BY <1>3, <1>5, FailureKept
<1>6. \/ /\ \E usage \in {FALSE, ~run.nodes[h[1]].last.usage} :
               \E r \in Materialized(run, <<[type |-> "RuntimeEventObserved", node |-> h[1],
                                             attempt |-> h[2], usage |-> usage]>>) : Stored(c, r)
         /\ UNCHANGED <<pc, faults>>
      \/ AppendFails(c) /\ run' = run
  BY <1>2, Zenon DEF Observed
<1> QED  BY <1>4, <1>5, <1>6

\* A late report is recorded, and the attempt is out of time all the same.
LEMMA LateResultKept == ASSUME IInv, ReducerInv, NEW c \in Caller, LateResult(c) PROVE ReducerInv'
<1>1. TypeOK /\ CallerSound(c)
  BY DEF IInv
<1>2. PICK h \in Execution : h = at[c]
  BY <1>1 DEF TypeOK
<1>3. /\ run \in Run /\ h[1] \in Node /\ pc[c] = "late" /\ pc[c] # "schedule" /\ at' = at
      /\ pc[c] \in Holding
  BY <1>1 DEF TypeOK, LateResult, Execution, Holding, InAttempt
<1>4. CASE /\ fresh[c]
           /\ \E r \in Materialized(run, <<[type |-> "LateResultObserved", node |-> h[1], attempt |-> h[2]]>>) :
                 Stored(c, r)
           /\ OutOfTime(c, TRUE) /\ faults' = faults
  <2>1. /\ run' \in Materialized(run, <<[type |-> "LateResultObserved", node |-> h[1], attempt |-> h[2]]>>)
        /\ fresh' = [d \in Caller |-> d = c] /\ result'[c] = "exhausted"
    BY <1>1, <1>4 DEF Stored, OutOfTime, TypeOK
  <2>2. PICK x : x = [run.nodes[h[1]].last EXCEPT !.late = TRUE]
    OBVIOUS
  <2>3. AttemptChanged(run, run', h[1], x)
    BY <1>3, <2>1, <2>2, RecordedEffect
  <2>4. NoneCancelled(run')
    BY <1>3, <2>3, NoneCancelledKept DEF ReducerInv
  <2>5. run.nodes[h[1]].last \in Attempt
    BY <1>3, RunParts
  <2>6. x.timeout = run.nodes[h[1]].last.timeout
    BY <2>2, <2>5 DEF Attempt
  <2>7. run'.nodes[h[1]].last.timeout = run.nodes[h[1]].last.timeout
    BY <2>3, <2>6 DEF AttemptChanged
  <2>8. run.nodes[h[1]].last.timeout \in CancellationOutcome
    BY <1>1, <1>2, <1>3, <1>4 DEF CallerSound, Current, TimeoutBy, NodeAt
  <2>9. InTime(c)'
    BY <1>2, <1>3, <2>1, <2>7, <2>8 DEF InTime, NodeAt
  <2> QED  BY <1>4, <2>1, <2>4, <2>9, AppendKept
<1>5. CASE AppendFails(c) /\ run' = run
  BY <1>3, <1>5, FailureKept
<1>6. \/ /\ fresh[c]
         /\ \E r \in Materialized(run, <<[type |-> "LateResultObserved", node |-> h[1], attempt |-> h[2]]>>) :
               Stored(c, r)
         /\ OutOfTime(c, TRUE) /\ faults' = faults
      \/ AppendFails(c) /\ run' = run
  BY <1>2, Zenon DEF LateResult
<1> QED  BY <1>4, <1>5, <1>6

\* The error of a late start's collect is one of the exceptions.
LEMMA LateResultThrowsKept == ASSUME ReducerInv, NEW c \in Caller, LateResultThrows(c) PROVE ReducerInv'
<1>1. run' = run /\ ~Untroubled'
  BY DEF LateResultThrows, Untroubled
<1> QED  BY <1>1 DEF ReducerInv, NoneCancelled

\* A changed workspace replaces the result: for an attempt that is out of time that is the exception.
LEMMA CaptureKept == ASSUME IInv, ReducerInv, NEW c \in Caller, CaptureWorkspace(c) PROVE ReducerInv'
<1>1. TypeOK
  BY DEF IInv
<1>2. pc[c] = "capture" /\ UNCHANGED <<run, fresh, at>> /\ faults' \in {faults, faults \cup {"mutation"}}
  BY DEF CaptureWorkspace
<1>3. \A d \in Caller : d # c => pc'[d] = pc[d] /\ result'[d] = result[d]
  BY <1>1 DEF CaptureWorkspace, Goes, TypeOK
<1>4. ASSUME Untroubled' PROVE result'[c] = result[c] \/ result[c] # "exhausted"
  BY <1>1, <1>4 DEF CaptureWorkspace, Untroubled, TypeOK
<1>5. ASSUME Untroubled', InTime(c) PROVE InTime(c)'
  <2>1. pc[c] \in Reporting
    BY <1>2 DEF Reporting
  <2> QED  BY <1>2, <1>4, <1>5, <2>1 DEF InTime, NodeAt
<1>6. \A d \in Caller : d # c /\ InTime(d) => InTime(d)'
  BY <1>2, <1>3, StillInTime
<1> QED  BY <1>2, <1>5, <1>6, RunKept

\* A failure of the evidence is one of the exceptions.
LEMMA EvidenceFailsKept == ASSUME ReducerInv, NEW c \in Caller, EvidenceFails(c) PROVE ReducerInv'
<1>1. run' = run /\ ~Untroubled'
  BY DEF EvidenceFails, Breaks, Untroubled
<1> QED  BY <1>1 DEF ReducerInv, NoneCancelled

\* The others' events after those of the attempt are a sequence.
LEMMA OthersSequence ==
    ASSUME NEW v, NEW n
    PROVE  \A x, y : \E S : /\ BlockOthers(v, n) \in Seq(S)
                            /\ <<x, y>> \o BlockOthers(v, n) \in Seq(S)
                            /\ <<x, y>> \o CancelOthers(v, n) \in Seq(S)
<1> TAKE x, y
<1>1. PICK B, C : BlockOthers(v, n) \in Seq(B) /\ CancelOthers(v, n) \in Seq(C)
  BY EasingForNodes DEF EasingBatch
<1>2. PICK S : S = {x, y} \cup B \cup C
  OBVIOUS
<1>3. BlockOthers(v, n) \in Seq(S) /\ CancelOthers(v, n) \in Seq(S) /\ <<x, y>> \in Seq(S)
  BY <1>1, <1>2
<1> QED  BY <1>3

\* What a caller that finishes knows where nothing went wrong.
LEMMA FinishingUntroubled ==
    ASSUME IInv, ReducerInv, Untroubled, NEW c \in Caller, pc[c] = "finish", NEW h \in Execution, h = at[c]
    PROVE  /\ Runs(run, h) /\ run.status = "running"
           /\ \A n \in Node : n # h[1] => run.nodes[n].status \notin {"running", "cancelled"}
           /\ \/ run.nodes[h[1]].last.timeout = "none"
              \/ run.nodes[h[1]].last.timeout \in CancellationOutcome /\ result[c] = "exhausted"
<1>1. pc[c] \in Holding /\ pc[c] \in Reporting
  BY DEF Holding, Reporting
<1>2. /\ fresh[c] /\ run.status = "running" /\ Runs(run, h)
      /\ \A n \in Node : n # h[1] => run.nodes[n].status # "running"
  BY <1>1, UntroubledHolder
<1>3. InTime(c) /\ NoneCancelled(run)
  BY DEF ReducerInv
<1> QED  BY <1>1, <1>2, <1>3 DEF InTime, NodeAt, NoneCancelled

\* The run ends with the attempt.
LEMMA EndingKept ==
    ASSUME IInv, ReducerInv, NEW c \in Caller, FinishBlocked(c) \/ FinishCancelled(c)
    PROVE  ReducerInv'
<1>1. TypeOK /\ pc[c] = "finish" /\ UNCHANGED at /\ pc[c] \in Holding
  BY DEF IInv, FinishBlocked, FinishCancelled, Finishing, Holding
<1>2. PICK h \in Execution : h = at[c]
  BY <1>1 DEF TypeOK
<1>3. run \in Run
  BY <1>1 DEF TypeOK
<1>4. ASSUME NEW a, NEW S, a \in Seq(S), NEW x, EasingBatch(a \o <<x>>, {}),
             x.type \in {"RunBlocked", "RunCancelled", "RunCompleted"},
             CommitRefused(c, a \o <<x>>) \/ CommitAppended(c, a \o <<x>>, Continues(run')),
             Untroubled => Materialized(run, a \o <<x>>) # {}
      PROVE  ReducerInv'
  <2>1. CASE CommitRefused(c, a \o <<x>>)
    BY <1>1, <1>4, <2>1, RefusalKept
  <2>2. CASE CommitAppended(c, a \o <<x>>, Continues(run'))
    <3>1. PICK place : place = Continues(run')
      OBVIOUS
    <3>2. place \notin Reporting /\ CommitAppended(c, a \o <<x>>, place)
      BY <2>2, <3>1, ContinuesAway DEF Reporting
    <3>3. run' \in Materialized(run, a \o <<x>>)
      BY <2>2 DEF CommitAppended
    <3>4. run'.status # "running"
      BY <1>3, <1>4, <3>3, EndingStops
    <3>5. NoneCancelled(run')
      BY <3>4 DEF NoneCancelled
    <3> QED  BY <1>1, <3>2, <3>5, CommitAwayKept
  <2> QED  BY <1>4, <2>1, <2>2
<1>5. CASE FinishBlocked(c)
  <2>1. PICK x, y, z : /\ x = AttemptEvent("AttemptBlocked", h) /\ y = NodeEvent("NodeBlocked", h[1])
                       /\ z = [type |-> "RunBlocked"]
    OBVIOUS
  <2>2. PICK a : a = <<x, y>> \o BlockOthers(run, h[1])
    OBVIOUS
  <2>3. PICK S : a \in Seq(S)
    BY <2>2, OthersSequence
  <2>4. EasingBatch(a \o <<z>>, {}) /\ a \o <<z>> # <<>>
    BY <2>1, <2>2, EndingBatches, EndingNotEmpty
  <2>5. CommitRefused(c, a \o <<z>>) \/ CommitAppended(c, a \o <<z>>, Continues(run'))
    BY <1>2, <1>5, <2>1, <2>2, <2>4, Zenon
       DEF FinishBlocked, Concludes, Commit, CommitRefused, CommitAppended, Stored, Goes
  <2>6. ASSUME Untroubled PROVE Materialized(run, a \o <<z>>) # {}
    <3>1. result[c] = "blocked"
      BY <1>5 DEF FinishBlocked
    <3>2. Runs(run, h) /\ run.status = "running" /\ run.nodes[h[1]].last.timeout = "none"
      BY <1>1, <1>2, <2>6, <3>1, FinishingUntroubled
    <3> QED  BY <1>3, <2>1, <2>2, <3>2, EndingAccepted
  <2>7. z.type = "RunBlocked"
    BY <2>1
  <2> QED  BY <1>4, <2>3, <2>4, <2>5, <2>6, <2>7
<1>6. CASE FinishCancelled(c)
  <2>1. PICK x, y, z : /\ x = AttemptEvent("AttemptCancelled", h) /\ y = NodeEvent("NodeCancelled", h[1])
                       /\ z = [type |-> "RunCancelled", durable |-> FALSE]
    OBVIOUS
  <2>2. PICK a : a = <<x, y>> \o CancelOthers(run, h[1])
    OBVIOUS
  <2>3. PICK S : a \in Seq(S)
    BY <2>2, OthersSequence
  <2>4. EasingBatch(a \o <<z>>, {}) /\ a \o <<z>> # <<>>
    BY <2>1, <2>2, EndingBatches, EndingNotEmpty
  <2>5. CommitRefused(c, a \o <<z>>) \/ CommitAppended(c, a \o <<z>>, Continues(run'))
    BY <1>2, <1>6, <2>1, <2>2, <2>4, Zenon
       DEF FinishCancelled, Concludes, Commit, CommitRefused, CommitAppended, Stored, Goes
  <2>6. ASSUME Untroubled PROVE Materialized(run, a \o <<z>>) # {}
    <3>1. result[c] = "cancelled"
      BY <1>6 DEF FinishCancelled
    <3>2. /\ Runs(run, h) /\ run.status = "running" /\ run.nodes[h[1]].last.timeout = "none"
          /\ \A n \in Node : n # h[1] => run.nodes[n].status \notin {"running", "cancelled"}
      BY <1>1, <1>2, <2>6, <3>1, FinishingUntroubled
    <3> QED  BY <1>3, <2>1, <2>2, <3>2, EndingAccepted
  <2>7. z.type = "RunCancelled"
    BY <2>1
  <2> QED  BY <1>4, <2>3, <2>4, <2>5, <2>6, <2>7
<1> QED  BY <1>5, <1>6

\* A batch of finishAttempt that is accepted, and after which no node is cancelled.
LEMMA ConclusionKept ==
    ASSUME IInv, ReducerInv, NEW c \in Caller, NEW b, NEW place, UNCHANGED at, place \notin Reporting,
           CommitRefused(c, b) \/ CommitAppended(c, b, place),
           fresh[c] /\ Untroubled => Materialized(run, b) # {},
           run' \in Materialized(run, b) /\ fresh[c] => NoneCancelled(run')
    PROVE  ReducerInv'
<1>1. TypeOK
  BY DEF IInv
<1>2. CASE CommitRefused(c, b)
  BY <1>1, <1>2, RefusalKept
<1>3. CASE CommitAppended(c, b, place)
  <2>1. NoneCancelled(run')
    BY <1>3 DEF CommitAppended
  <2> QED  BY <1>1, <1>3, <2>1, CommitAwayKept
<1> QED  BY <1>2, <1>3

\* A caller that has nothing to append goes on.
LEMMA NothingKept ==
    ASSUME IInv, ReducerInv, NEW c \in Caller, NEW place, place \notin Reporting,
           pc' = [pc EXCEPT ![c] = place], UNCHANGED <<run, fresh, at, result, faults>>
    PROVE  ReducerInv'
<1>1. TypeOK
  BY DEF IInv
<1>2. pc'[c] = place /\ \A d \in Caller : d # c => pc'[d] = pc[d]
  BY <1>1 DEF TypeOK
<1>3. InTime(c)'
  BY <1>2 DEF InTime
<1>4. \A d \in Caller : d # c /\ InTime(d) => InTime(d)'
  BY <1>2, StillInTime
<1> QED  BY <1>3, <1>4, RunKept

\* The attempt fails, for its budget if it was out of time.
LEMMA FinishFailedKept == ASSUME IInv, ReducerInv, NEW c \in Caller, FinishFailed(c) PROVE ReducerInv'
<1>1. TypeOK /\ pc[c] = "finish" /\ UNCHANGED at
  BY DEF IInv, FinishFailed, Finishing
<1>2. PICK h \in Execution : h = at[c]
  BY <1>1 DEF TypeOK
<1>3. run \in Run /\ h[1] \in Node
  BY <1>1 DEF TypeOK, Execution
<1>4. PICK exhausted : exhausted = (result[c] = "exhausted")
  OBVIOUS
<1>5. PICK b : b = <<[type |-> "AttemptFailed", node |-> h[1], attempt |-> h[2], exhausted |-> exhausted]>>
  OBVIOUS
<1>6. PICK place : place = IF MayRetry(c) THEN "retry" ELSE "exhausted"
  OBVIOUS
<1>7. b # <<>> /\ place \notin Reporting
  BY <1>5, <1>6 DEF Reporting
<1>8. CommitRefused(c, b) \/ CommitAppended(c, b, place)
  BY <1>2, <1>4, <1>5, <1>6, <1>7, Zenon
     DEF FinishFailed, Concludes, Commit, CommitRefused, CommitAppended, Stored, Goes
<1>9. ASSUME Untroubled PROVE Materialized(run, b) # {}
  <2>1. /\ Runs(run, h)
        /\ \/ run.nodes[h[1]].last.timeout = "none"
           \/ run.nodes[h[1]].last.timeout \in CancellationOutcome /\ exhausted
    BY <1>1, <1>2, <1>4, <1>9, FinishingUntroubled
  <2> QED  BY <1>3, <1>5, <2>1, FailedAccepted
<1>10. ASSUME run' \in Materialized(run, b) PROVE NoneCancelled(run')
  <2>1. AttemptChanged(run, run', h[1], [run.nodes[h[1]].last EXCEPT !.status = "failed"])
    BY <1>3, <1>5, <1>10, FailedEffect
  <2> QED  BY <1>3, <2>1, NoneCancelledKept DEF ReducerInv
<1> QED  BY <1>1, <1>7, <1>8, <1>9, <1>10, ConclusionKept

\* The attempt succeeds.
LEMMA FinishSucceededKept == ASSUME IInv, ReducerInv, NEW c \in Caller, FinishSucceeded(c) PROVE ReducerInv'
<1>1. TypeOK /\ pc[c] = "finish" /\ result[c] = "succeeded" /\ UNCHANGED at
  BY DEF IInv, FinishSucceeded, Finishing
<1>2. PICK h \in Execution : h = at[c]
  BY <1>1 DEF TypeOK
<1>3. run \in Run /\ h[1] \in Node
  BY <1>1 DEF TypeOK, Execution
<1>4. PICK b : b = <<AttemptEvent("AttemptSucceeded", h), NodeEvent("NodeSucceeded", h[1])>>
  OBVIOUS
<1>5. b # <<>> /\ "advance" \notin Reporting
  BY <1>4 DEF Reporting
<1>6. CommitRefused(c, b) \/ CommitAppended(c, b, "advance")
  BY <1>2, <1>4, <1>5, Zenon
     DEF FinishSucceeded, Concludes, Commit, CommitRefused, CommitAppended, Stored, Goes
<1>7. ASSUME Untroubled PROVE Materialized(run, b) # {}
  <2>1. Runs(run, h) /\ run.nodes[h[1]].last.timeout = "none"
    BY <1>1, <1>2, <1>7, FinishingUntroubled
  <2> QED  BY <1>3, <1>4, <2>1, EndedAccepted
<1>8. ASSUME run' \in Materialized(run, b) PROVE NoneCancelled(run')
  <2>1. OnlyNode(run, run', h[1]) /\ run'.nodes[h[1]].status # "cancelled"
    BY <1>3, <1>4, <1>8, SucceededNode
  <2> QED  BY <1>3, <2>1, NoneCancelledKept DEF ReducerInv
<1> QED  BY <1>1, <1>5, <1>6, <1>7, <1>8, ConclusionKept

\* The node of a failed attempt: it is retried, or fails.
LEMMA FailedNodeKept == ASSUME IInv, ReducerInv, NEW c \in Caller, Retry(c) \/ FailNode(c) PROVE ReducerInv'
<1>1. /\ TypeOK /\ pc[c] \in {"retry", "exhausted"} /\ UNCHANGED at
      /\ pc[c] \in Holding
  BY DEF IInv, Retry, FailNode, Finishing, Holding
<1>2. PICK h \in Execution : h = at[c]
  BY <1>1 DEF TypeOK
<1>3. run \in Run /\ h[1] \in Node
  BY <1>1 DEF TypeOK, Execution
<1>4. ASSUME fresh[c]
      PROVE  /\ run.status \notin TerminalRun /\ run.nodes[h[1]].status = "running"
             /\ run.nodes[h[1]].last.status = "failed"
  <2>1. CallerSound(c)
    BY DEF IInv
  <2>2. Current(c)
    BY <1>4, <2>1 DEF CallerSound
  <2> QED  BY <1>1, <1>2, <2>2 DEF Current, NodeAt, TerminalRun
<1>5. CASE Retry(c)
  <2>1. PICK b : b = ReadyBatch({h[1]}, "retry")
    OBVIOUS
  <2>2. PICK place : place = Continues(run')
    OBVIOUS
  <2>3. place \notin Reporting
    BY <2>2, ContinuesAway DEF Reporting
  <2>4. \/ UNCHANGED <<run, fresh, at, result, faults>> /\ pc' = [pc EXCEPT ![c] = Continues(run)]
        \/ CommitRefused(c, b) \/ CommitAppended(c, b, place)
    BY <1>1, <1>2, <1>5, <2>1, <2>2, Zenon
       DEF Retry, Concludes, Commit, CommitRefused, CommitAppended, Stored, Goes
  <2>5. CASE UNCHANGED <<run, fresh, at, result, faults>> /\ pc' = [pc EXCEPT ![c] = Continues(run)]
    <3>1. pc' = [pc EXCEPT ![c] = place]
      BY <2>2, <2>5
    <3> QED  BY <2>3, <2>5, <3>1, NothingKept
  <2>6. fresh[c] => Materialized(run, b) # {}
    BY <1>3, <1>4, <2>1, FailedNodeAccepted
  <2>7. ASSUME run' \in Materialized(run, b), fresh[c] PROVE NoneCancelled(run')
    <3>1. OnlyNode(run, run', h[1]) /\ run'.nodes[h[1]].status \in {run.nodes[h[1]].status, "ready"}
      BY <1>3, <2>1, <2>7, RetryEffect
    <3>2. run'.nodes[h[1]].status # "cancelled"
      BY <1>4, <2>7, <3>1
    <3> QED  BY <1>3, <3>1, <3>2, NoneCancelledKept DEF ReducerInv
  <2> QED  BY <1>1, <2>3, <2>4, <2>5, <2>6, <2>7, ConclusionKept
<1>6. CASE FailNode(c)
  <2>1. PICK b : b = <<NodeEvent("NodeFailed", h[1])>>
    OBVIOUS
  <2>2. b # <<>> /\ "failing" \notin Reporting
    BY <2>1 DEF Reporting
  <2>3. CommitRefused(c, b) \/ CommitAppended(c, b, "failing")
    BY <1>2, <1>6, <2>1, <2>2, Zenon
       DEF FailNode, Concludes, Commit, CommitRefused, CommitAppended, Stored, Goes
  <2>4. fresh[c] => Materialized(run, b) # {}
    BY <1>3, <1>4, <2>1, FailedNodeAccepted
  <2>5. ASSUME run' \in Materialized(run, b) PROVE NoneCancelled(run')
    <3>1. OnlyNode(run, run', h[1]) /\ run'.nodes[h[1]].status # "cancelled"
      BY <1>3, <2>1, <2>5, NodeFailedEffect
    <3> QED  BY <1>3, <3>1, NoneCancelledKept DEF ReducerInv
  <2> QED  BY <1>1, <2>2, <2>3, <2>4, <2>5, ConclusionKept
<1> QED  BY <1>5, <1>6

\* The run fails with its node.
LEMMA FailRunKept == ASSUME IInv, ReducerInv, NEW c \in Caller, FailRun(c) PROVE ReducerInv'
<1>1. TypeOK /\ CallerSound(c) /\ pc[c] = "failing" /\ UNCHANGED at /\ pc[c] \in Holding
  BY DEF IInv, FailRun, Finishing, Holding
<1>2. PICK h \in Execution : h = at[c]
  BY <1>1 DEF TypeOK
<1>3. run \in Run /\ h[1] \in Node
  BY <1>1 DEF TypeOK, Execution
<1>4. PICK a, z : a = BlockOthers(run, h[1]) /\ z = [type |-> "RunCompleted", outcome |-> "failed"]
  OBVIOUS
<1>5. PICK S : a \in Seq(S)
  BY <1>4, OthersSequence
<1>6. EasingBatch(a \o <<z>>, {h[1]}) /\ a \o <<z>> # <<>>
  BY <1>4, EndingBatches, EndingNotEmpty
<1>7. PICK place : place = Continues(run')
  OBVIOUS
<1>8. place \notin Reporting
  BY <1>7, ContinuesAway DEF Reporting
<1>9. CommitRefused(c, a \o <<z>>) \/ CommitAppended(c, a \o <<z>>, place)
  BY <1>2, <1>4, <1>6, <1>7, Zenon
     DEF FailRun, Concludes, Commit, CommitRefused, CommitAppended, Stored, Goes
<1>10. ASSUME fresh[c] PROVE Materialized(run, a \o <<z>>) # {}
  <2>1. run.status = "running" /\ run.nodes[h[1]].status = "failed"
    BY <1>1, <1>2, <1>10 DEF CallerSound, Current, NodeAt
  <2> QED  BY <1>3, <1>4, <2>1, CompletionAccepted
<1>11. ASSUME run' \in Materialized(run, a \o <<z>>) PROVE NoneCancelled(run')
  <2>1. z.type = "RunCompleted"
    BY <1>4
  <2>2. run'.status # "running"
    BY <1>3, <1>5, <1>6, <1>11, <2>1, EndingStops
  <2> QED  BY <2>2 DEF NoneCancelled
<1> QED  BY <1>1, <1>8, <1>9, <1>10, <1>11, ConclusionKept

\* The nodes that wait for a succeeded one become ready.
LEMMA AdvanceKept == ASSUME IInv, ReducerInv, NEW c \in Caller, Advance(c) PROVE ReducerInv'
<1>1. TypeOK /\ CallerSound(c) /\ pc[c] = "advance" /\ UNCHANGED at /\ run \in Run
  BY DEF IInv, Advance, Finishing, TypeOK
<1>2. PICK S, b : S = Executable(run) /\ b = ReadyBatch(S, "dependencies-satisfied")
  OBVIOUS
<1>3. S \in SUBSET Node /\ "complete" \notin Reporting
  BY <1>2 DEF Executable, Reporting
<1>4. \/ UNCHANGED <<run, fresh, at, result, faults>> /\ pc' = [pc EXCEPT ![c] = "complete"]
      \/ CommitRefused(c, b) \/ CommitAppended(c, b, "complete")
  BY <1>1, <1>2, Zenon DEF Advance, Concludes, Commit, CommitRefused, CommitAppended, Stored, Goes
<1>5. CASE UNCHANGED <<run, fresh, at, result, faults>> /\ pc' = [pc EXCEPT ![c] = "complete"]
  BY <1>3, <1>5, NothingKept
<1>6. ASSUME fresh[c] PROVE Materialized(run, b) # {}
  <2>1. run.status \notin TerminalRun
    BY <1>1, <1>6 DEF CallerSound, Current, TerminalRun
  <2> QED  BY <1>1, <1>2, <2>1, ReadyAccepted
<1>7. ASSUME run' \in Materialized(run, b) PROVE NoneCancelled(run')
  <2>1. Readied(run, run')
    BY <1>1, <1>2, <1>3, <1>7, ReadyEffect
  <2> QED  BY <2>1, NoneCancelledKept DEF ReducerInv
<1> QED  BY <1>1, <1>3, <1>4, <1>5, <1>6, <1>7, ConclusionKept

\* The run succeeds with the last of its nodes.
LEMMA CompleteKept == ASSUME IInv, ReducerInv, NEW c \in Caller, Complete(c) PROVE ReducerInv'
<1>1. TypeOK /\ CallerSound(c) /\ pc[c] = "complete" /\ UNCHANGED at /\ run \in Run
  BY DEF IInv, Complete, Finishing, TypeOK
<1>2. PICK z : z = [type |-> "RunCompleted", outcome |-> "succeeded"]
  OBVIOUS
<1>3. PICK b : b = IF \A n \in Node : run.nodes[n].status = "succeeded" THEN <<z>> ELSE <<>>
  OBVIOUS
<1>4. PICK place : place = Continues(run')
  OBVIOUS
<1>5. place \notin Reporting
  BY <1>4, ContinuesAway DEF Reporting
<1>6. \/ UNCHANGED <<run, fresh, at, result, faults>> /\ pc' = [pc EXCEPT ![c] = Continues(run)]
      \/ b # <<>> /\ (CommitRefused(c, b) \/ CommitAppended(c, b, place))
  BY <1>1, <1>2, <1>3, <1>4, Zenon DEF Complete, Concludes, Commit, CommitRefused, CommitAppended, Stored, Goes
<1>7. CASE UNCHANGED <<run, fresh, at, result, faults>> /\ pc' = [pc EXCEPT ![c] = Continues(run)]
  <2>1. pc' = [pc EXCEPT ![c] = place]
    BY <1>4, <1>7
  <2> QED  BY <1>5, <1>7, <2>1, NothingKept
<1>8. CASE b # <<>> /\ (CommitRefused(c, b) \/ CommitAppended(c, b, place))
  <2>1. b = <<z>> /\ \A n \in Node : run.nodes[n].status = "succeeded"
    BY <1>3, <1>8
  <2>2. ASSUME fresh[c] PROVE Materialized(run, b) # {}
    <3>1. run.status = "running"
      BY <1>1, <2>2 DEF CallerSound, Current
    <3> QED  BY <1>1, <1>2, <2>1, <3>1, CompletionAccepted
  <2>3. ASSUME run' \in Materialized(run, b) PROVE NoneCancelled(run')
    <3>1. run' \in Applied(run, z)
      BY <2>1, <2>3, OneEvent
    <3>2. run'.status = "succeeded"
      BY <1>1, <1>2, <3>1 DEF Applied, RunCompleted, When, Run
    <3> QED  BY <3>2 DEF NoneCancelled
  <2> QED  BY <1>1, <1>5, <1>8, <2>2, <2>3, ConclusionKept
<1> QED  BY <1>6, <1>7, <1>8

\* Every step of every caller and operation.
LEMMA ReducerInductive == IInv /\ ReducerInv /\ [Next]_vars => ReducerInv'
<1> SUFFICES ASSUME IInv, ReducerInv, [Next]_vars PROVE ReducerInv'
  OBVIOUS
<1>1. ASSUME NEW c \in Caller,
             CreateRun(c) \/ Resume(c) \/ CallerStep(c) \/ EventArrives(c) \/ EvidenceFails(c)
      PROVE  ReducerInv'
  <2>1. CASE Executing(c)
    BY <2>1, RecordKept, GoesOnKept, ReportKept, TimeoutKeeps, LateResultKept, LateResultThrowsKept,
       CaptureKept DEF Executing
  <2>2. CASE Concluding(c)
    BY <2>2, EndingKept, FinishFailedKept, FinishSucceededKept, FailedNodeKept, FailRunKept, AdvanceKept,
       CompleteKept DEF Concluding
  <2> QED  BY <1>1, <2>1, <2>2, CreateRunKept, LoopKept, ScheduleKept, ObservedKept, GoesOnKept, EvidenceFailsKept
           DEF CallerStep
<1>2. CASE UNCHANGED vars
  <2>1. UNCHANGED <<run, pc, fresh, at, result, faults>>
    BY <1>2 DEF vars, callers, attempt
  <2>2. \A c \in Caller : InTime(c) => InTime(c)'
    BY <2>1, StillInTime
  <2> QED  BY <2>1, <2>2, RunKept
<1> QED  BY <1>1, <1>2, CrashKept, OperationKept DEF Next

\* Unless something went wrong that is named the reducer accepts every batch of the engine. The exceptions
\* are failed appends and evidence, callers that append to the same run, and an attempt out of time that is
\* failed for something else than its budget: its readonly workspace was changed, or the collect of its
\* late start rejected.
THEOREM RejectionsHaveACause == Spec => []RejectedOnlyForCause
<1>1. Init => IInv /\ ReducerInv
  BY Initially, ReducerInitially
<1>2. IInv /\ ReducerInv /\ [Next]_vars => (IInv /\ ReducerInv)'
  BY Inductive, ReducerInductive
<1>3. IInv /\ ReducerInv => RejectedOnlyForCause
  BY RejectionsExplained
<1> QED  BY <1>1, <1>2, <1>3, PTL DEF Spec
=============================================================================
