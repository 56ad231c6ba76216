---------------------------- MODULE MCRecovery ----------------------------
(***************************************************************************)
(* A device that recovers from a refusal while the answer to its next edit *)
(* is lost.  The workspace has two tasks; bob edits a task ann has just    *)
(* deleted, which is refused, and then the other one, which she edits too. *)
(***************************************************************************)
EXTENDS SyncClient

CONSTANTS ann, bob, near, far, dropFar, late, mine, hers

MCBy == [c \in Cmds |-> IF c \in Mine THEN Device ELSE ann]
MCTarget == [c \in Cmds \ Adds |-> IF c \in {mine, hers} THEN near ELSE far]
MCTables == <<"tasks">>
MCTableOf == [c \in Adds |-> "tasks"]

\* The order in which the workspace changes: its owner, bob joins, ...
Story == <<NoCmd, NoCmd, near, far, dropFar, mine, hers>>

\* What is explored: the changes in this order, the device started once the
\* tasks exist, bob's first edit before the delete and a fault only after it.
AsTold ==
    /\ \A v \in DOMAIN ledger : v \in DOMAIN Story /\ ledger[v].cmd = Story[v]
    /\ Len(ledger) <= 3 => up = "down"
    /\ Len(ledger) <= 4 => made \subseteq {late}
    /\ Len(ledger) >= 5 => up = "up" /\ late \in made
    /\ Len(ledger) <= 5 => faults = 0

=============================================================================
