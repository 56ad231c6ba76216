------------------------------ MODULE MCServer ------------------------------
(***************************************************************************)
(* Small instances of the sync endpoint: bob adds a task and changes it,   *)
(* ann (the owner) deletes it, through two requests served at once.        *)
(***************************************************************************)
EXTENDS SyncServer, TLC

CONSTANTS ann, bob, add, upd, del

MCBy == [c \in Cmds |-> IF c = del THEN ann ELSE bob]
MCTarget == [c \in Cmds \ Adds |-> add]
MCTables == <<"tasks">>
MCTableOf == [c \in Adds |-> "tasks"]

AnySlot == Permutations(Slots)

=============================================================================
