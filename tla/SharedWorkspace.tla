-------------------------- MODULE SharedWorkspace --------------------------
(***************************************************************************)
(* What a workspace promises its members: commands take effect one at a    *)
(* time, each at most once, only while the user who issued it may write,  *)
(* and never on an object somebody deleted.                                *)
(***************************************************************************)
EXTENDS Naturals

CONSTANTS Users, Owner, Cmds, Adds, Deletes, By, Target

VARIABLES
    alive,    \* the workspace exists
    objects,  \* id -> content and is_deleted; a member row is the object of its user
    done,     \* commands that took effect
    names     \* temp_id of an add -> the object it created

Ids == Users \cup Nat

Roles == {"member", "viewer"}

With(f, x, y) == [z \in DOMAIN f \cup {x} |-> IF z = x THEN y ELSE f[z]]

Live(id) == id \in DOMAIN objects /\ ~objects[id].is_deleted

MayChange(u) == Live(u) /\ objects[u].content = "member"

\* An add creates an object of its own and binds its temp_id to it for good.
Create(c, id) ==
    /\ alive /\ c \notin done /\ MayChange(By[c])
    /\ c \in Adds /\ id \in Nat \ DOMAIN objects
    /\ objects' = With(objects, id, [content |-> c, is_deleted |-> FALSE])
    /\ done' = done \cup {c}
    /\ names' = With(names, c, id)
    /\ UNCHANGED alive

\* Any other command changes the one object it names, while that is live.
Change(c) ==
    /\ alive /\ c \notin done /\ MayChange(By[c])
    /\ c \notin Adds /\ Target[c] \in DOMAIN names /\ Live(names[Target[c]])
    /\ objects' = With(objects, names[Target[c]], [content |-> c, is_deleted |-> c \in Deletes])
    /\ done' = done \cup {c}
    /\ UNCHANGED <<alive, names>>

\* Membership changes are administration, not commands.
Administer(u, role, removed) ==
    /\ alive = TRUE
    /\ objects' = With(objects, u, [content |-> role, is_deleted |-> removed])
    /\ UNCHANGED <<alive, done, names>>

Delete ==
    /\ alive = TRUE
    /\ alive' = FALSE
    /\ objects' = <<>> /\ names' = <<>> /\ done' = {}

Init ==
    /\ alive = TRUE
    /\ objects = [u \in {Owner} |-> [content |-> "member", is_deleted |-> FALSE]]
    /\ done = {}
    /\ names = <<>>

Next ==
    \/ \E c \in Cmds : Change(c) \/ \E id \in DOMAIN objects' : Create(c, id)
    \/ \E u \in Users, role \in Roles, removed \in BOOLEAN : Administer(u, role, removed)
    \/ Delete

Spec == Init /\ [][Next]_<<alive, objects, done, names>>

=============================================================================
