------------------------------ MODULE MCClient ------------------------------
(***************************************************************************)
(* One device of bob's: it adds a task and changes it (or adds a second),  *)
(* while another device of the workspace changes or deletes the same task. *)
(***************************************************************************)
EXTENDS SyncClient

CONSTANTS ann, bob, add, also, upd, other

MCBy == [c \in Cmds |-> IF c = other THEN ann ELSE Device]
MCTarget == [c \in Cmds \ Adds |-> add]
MCTables == <<"tasks">>
MCTableOf == [c \in Adds |-> "tasks"]

AnySlot == Permutations(Slots)

=============================================================================
