----------------------------- MODULE Governance -----------------------------
(***************************************************************************)
(* Who may do what in which workspace, each request at a single moment:    *)
(* the rules of members.py, invites.py and workspaces.py as guards and     *)
(* effects on the memberships of all workspaces.  This is what Accounts,   *)
(* where the same requests wait for locks and overlap, must look like.     *)
(***************************************************************************)
EXTENDS Naturals, FiniteSets

CONSTANTS
    Users,       \* ids of accounts; numbers, since lock_users sorts by id
    Spaces,      \* ids of workspaces, those not made yet included
    Invites,     \* ids of invites, likewise
    Anyone,      \* an invite without an address
    SeedRole,    \* the memberships at the start
    SeedInvite,  \* the invites at the start
    Asks         \* the requests people make

Rank == [viewer |-> 0, member |-> 1, admin |-> 2, owner |-> 3]
Roles == DOMAIN Rank
InviteRoles == Roles \ {"owner"}

\* "none": no membership row, or one that is_deleted.
Standing == Roles \cup {"none"}
Nobody == [u \in Users |-> "none"]

\* "closed": revoked, expired, or gone with its workspace.  No invite expires
\* while requests run: that is judged together with the revocation.
InviteRow == [is : {"unused", "open", "closed"}, space : Spaces,
              role : InviteRoles, to : Users \cup {Anyone}]

\* Who asks what of which workspace; a field an operation does not use is arbitrary.
Ask == [op : {"role", "remove", "delete", "create", "invite", "revoke", "accept", "rescue"},
        by : Users, space : Spaces, on : Users, role : Roles, inv : Invites]

\* Accounts without a workspace exist: released servers made them.
ASSUME GovernanceConstants ==
    /\ Users \subseteq Nat /\ Anyone \notin Users
    /\ SeedRole \in [Spaces -> [Users -> Standing]]
    /\ \A w \in Spaces : SeedRole[w] # Nobody => \E u \in Users : SeedRole[w][u] = "owner"
    /\ SeedInvite \in [Invites -> InviteRow]
    /\ \A i \in Invites : SeedInvite[i].is = "open" => SeedRole[SeedInvite[i].space] # Nobody
    /\ Asks \subseteq {a \in Ask : a.op = "invite" => a.role \in InviteRoles}
    \* A new invite has an id of its own.
    /\ \A a, b \in Asks :
         a.op = "invite" /\ b.op = "invite" /\ a.inv = b.inv => a.space = b.space

VARIABLES role, space, invite
govVars == <<role, space, invite>>

-----------------------------------------------------------------------------
IsMember(w, u) == role[w][u] # "none"
IsAdmin(w, u) == role[w][u] \in {"admin", "owner"}
Owners(w) == {u \in Users : role[w][u] = "owner"}
Outranks(w, u, a) == Rank[role[w][u]] > Rank[role[w][a]]

LastOwnerIsNone(w, u) == role[w][u] = "owner" /\ Cardinality(Owners(w)) <= 0
LastOwner(w, u) == role[w][u] = "owner" /\ Cardinality(Owners(w)) <= 1

MayAppoint(a) ==
    /\ IsAdmin(a.space, a.by)
    /\ a.role = "owner" => role[a.space][a.by] = "owner"
    /\ IsMember(a.space, a.on)
    /\ a.on # a.by => ~Outranks(a.space, a.on, a.by)
    /\ a.role # "owner" => ~LastOwner(a.space, a.on)

MayRemove(a) ==
    /\ IsMember(a.space, a.by)
    /\ a.on # a.by => IsAdmin(a.space, a.by)
    /\ IsMember(a.space, a.on)
    /\ a.on # a.by => ~Outranks(a.space, a.on, a.by)
    /\ ~LastOwner(a.space, a.on)

MayDelete(a) == role[a.space][a.by] = "owner"

MayInvite(a) == IsAdmin(a.space, a.by) /\ invite[a.inv].is = "unused"

MayRevoke(a) ==
    /\ IsAdmin(a.space, a.by)
    /\ invite[a.inv].is # "unused" /\ invite[a.inv].space = a.space

\* Someone who is a member already is answered at once and nothing changes.
MayAccept(a) ==
    /\ invite[a.inv].is = "open" /\ invite[a.inv].space = a.space
    /\ invite[a.inv].to \in {a.by, Anyone}
    /\ ~IsMember(a.space, a.by)

May(a) ==
    /\ a.op = "role"   => MayAppoint(a)
    /\ a.op = "remove" => MayRemove(a)
    /\ a.op = "delete" => MayDelete(a)
    /\ a.op = "invite" => MayInvite(a)
    /\ a.op = "revoke" => MayRevoke(a)
    /\ a.op = "accept" => MayAccept(a)

-----------------------------------------------------------------------------
(* Effects *)

Appointed(a) == [role EXCEPT ![a.space][a.on] = a.role]
Removed(a) == [role EXCEPT ![a.space][a.on] = "none"]
Dissolved(a) == [role EXCEPT ![a.space] = Nobody]
Joined(a) == [role EXCEPT ![a.space][a.by] = invite[a.inv].role]

\* The memberships after the request's own change.
After(a) ==
    CASE a.op = "role"   -> Appointed(a)
      [] a.op = "remove" -> Removed(a)
      [] a.op = "delete" -> Dissolved(a)
      [] a.op = "accept" -> Joined(a)
      [] a.op \notin {"role", "remove", "delete", "accept"} -> role

InvitesAfter(a) ==
    CASE a.op = "invite" -> [invite EXCEPT ![a.inv] =
             [is |-> "open", space |-> a.space, role |-> a.role,
              to |-> IF a.on = a.by THEN Anyone ELSE a.on]]
      [] a.op = "revoke" -> [invite EXCEPT ![a.inv].is = "closed"]
      [] a.op = "delete" -> [i \in Invites |->
             IF invite[i].is = "open" /\ invite[i].space = a.space
             THEN [invite[i] EXCEPT !.is = "closed"] ELSE invite[i]]
      [] a.op \notin {"invite", "revoke", "delete"} -> invite

Homeless(roles) == {u \in Users : \A w \in Spaces : roles[w][u] = "none"}

\* The accounts a request may have to give a workspace.
Evicted(a) ==
    CASE a.op = "remove" -> {a.on}
      [] a.op = "delete" -> {u \in Users : IsMember(a.space, u)}
      [] a.op \in {"rescue", "create"} -> {a.by}
      [] a.op \notin {"remove", "delete", "rescue", "create"} -> {}

\* Those it must give one: they have none left, or asked for one.
Due(a) == IF a.op = "create" THEN {a.by} ELSE Evicted(a) \cap Homeless(After(a))

Homes(S) == {h \in [S -> {w \in Spaces : space[w] = "unborn"}] :
                \A u, v \in S : h[u] = h[v] => u = v}

\* The request takes effect, and each of S becomes the owner of a new workspace.
Effect(a, S) ==
    /\ Homes(S) # {}
    /\ LET home == CHOOSE h \in Homes(S) : TRUE
       IN  /\ role' = [w \in Spaces |-> [u \in Users |->
                          IF u \in S /\ home[u] = w THEN "owner" ELSE After(a)[w][u]]]
           /\ space' = [w \in Spaces |->
                          IF \E u \in S : home[u] = w THEN "live"
                          ELSE IF a.op = "delete" /\ w = a.space THEN "deleted"
                          ELSE space[w]]
    /\ invite' = InvitesAfter(a)

-----------------------------------------------------------------------------
GovInit ==
    /\ role = SeedRole
    /\ space = [w \in Spaces |-> IF SeedRole[w] = Nobody THEN "unborn" ELSE "live"]
    /\ invite = SeedInvite

Do(a) == May(a) /\ \E S \in SUBSET Evicted(a) : Due(a) \subseteq S /\ Effect(a, S)

GovNext == \E a \in Asks : Do(a)

GovSpec == GovInit /\ [][GovNext]_govVars

-----------------------------------------------------------------------------
GovTypeOK ==
    /\ role \in [Spaces -> [Users -> Standing]]
    /\ space \in [Spaces -> {"unborn", "live", "deleted"}]
    /\ invite \in [Invites -> InviteRow]
    /\ \A w \in Spaces : space[w] # "live" => role[w] = Nobody

\* Every workspace that exists has an owner, however owners demote, remove and
\* leave: without one nobody could grant the role again.
AlwaysAnOwner == \A w \in Spaces : space[w] = "live" => Owners(w) # {}

\* Nobody who has a workspace is ever left without one (the guarantee of
\* CONTRACT.md section 2 that remove_member and delete_workspace keep).
KeepsAHome == Homeless(role)' \subseteq Homeless(role)
NobodyLosesTheLast == [][KeepsAHome]_role
=============================================================================
