------------------------------ MODULE FencedLog ------------------------------
(***************************************************************************)
(* What the durable run store promises the engine, with no clock, no       *)
(* lease record and no process in sight: a log that grows only while an    *)
(* epoch of ownership is open, in the name of that epoch, and in which an  *)
(* operation identifier occurs at most once.                               *)
(*                                                                         *)
(* RunStore implements this specification (theorem StoreIsAFencedLog).     *)
(***************************************************************************)
EXTENDS Naturals, Sequences

CONSTANTS Op,        \* operation identifiers of mutations
          Content    \* what a mutation may hold besides its identifier

VARIABLES epoch,     \* number of the latest ownership epoch, 0 before the run exists
          open,      \* may the latest epoch still write?
          log        \* accepted mutations, oldest first

logVars == <<epoch, open, log>>

Init ==
    /\ epoch = 0
    /\ open = FALSE
    /\ log = <<>>

\* A log entry remembers the epoch that wrote it.
Entry == [generation : Nat, op : Op, content : Content]

Fresh(op) == \A i \in DOMAIN log : log[i].op # op

\* The log gains one entry, written by the given epoch under a new identifier.
Extended(e) ==
    LET last == log'[Len(log')]
    IN /\ Len(log') = Len(log) + 1
       /\ log' = Append(log, last)
       /\ last \in Entry
       /\ last.generation = e
       /\ Fresh(last.op)

\* The run comes into existence together with its first epoch.
Create ==
    /\ epoch = 0
    /\ epoch' = 1
    /\ open' = TRUE
    /\ Extended(1)

\* Ownership moves on: every earlier epoch is fenced off for good.
Advance ==
    /\ epoch > 0
    /\ epoch' = epoch + 1
    /\ open' = TRUE
    /\ UNCHANGED log

\* Only the latest epoch writes, and only while it is open.
Write ==
    /\ epoch > 0
    /\ open
    /\ Extended(epoch)
    /\ UNCHANGED <<epoch, open>>

Close ==
    /\ epoch > 0
    /\ open' = FALSE
    /\ UNCHANGED <<epoch, log>>

Next == Create \/ Advance \/ Write \/ Close

Spec == Init /\ [][Next]_logVars
=============================================================================
