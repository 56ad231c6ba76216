--------------------------- MODULE AccountsProofs ---------------------------
(***************************************************************************)
(* What Governance and Accounts promise, for any accounts, workspaces,     *)
(* invites and requests.  First the rules themselves, one request at a     *)
(* moment; then that the overlapping, locked requests are no more than     *)
(* that, so that they inherit it.                                          *)
(***************************************************************************)
EXTENDS Accounts, FiniteSetTheorems, TLAPS

\* An open invite is into a workspace that exists.
InvitesLive == \A i \in Invites : invite[i].is = "open" => space[invite[i].space] = "live"

GovInv == GovTypeOK /\ AlwaysAnOwner /\ InvitesLive

-----------------------------------------------------------------------------
(* One request at a moment *)

\* What an effect is, once its new workspaces are named.
LEMMA EffectIs ==
    ASSUME NEW a, NEW S, Effect(a, S)
    PROVE  \E home \in Homes(S) :
             /\ role' = [w \in Spaces |-> [u \in Users |->
                            IF u \in S /\ home[u] = w THEN "owner" ELSE After(a)[w][u]]]
             /\ space' = [w \in Spaces |->
                            IF \E u \in S : home[u] = w THEN "live"
                            ELSE IF a.op = "delete" /\ w = a.space THEN "deleted"
                            ELSE space[w]]
             /\ invite' = InvitesAfter(a)
  <1>1. PICK h : h = CHOOSE k \in Homes(S) : TRUE
    OBVIOUS
  <1>2. h \in Homes(S)
    BY <1>1 DEF Effect
  <1>. QED
    BY <1>1, <1>2 DEF Effect

\* A permitted request is about a workspace that exists, and keeps the types.
LEMMA AfterType ==
    ASSUME GovTypeOK, InvitesLive, NEW a \in Asks, May(a)
    PROVE  /\ After(a) \in [Spaces -> [Users -> Standing]]
           /\ InvitesAfter(a) \in [Invites -> InviteRow]
           /\ LocksSpace(a) => space[a.space] = "live"
           /\ \A w \in Spaces : w # a.space \/ ~LocksSpace(a) => After(a)[w] = role[w]
           /\ a.op = "delete" => After(a)[a.space] = Nobody
  <1>1. a \in Ask /\ (a.op = "invite" => a.role \in InviteRoles)
    BY GovernanceConstants
  <1>2. role \in [Spaces -> [Users -> Standing]] /\ invite \in [Invites -> InviteRow]
    BY DEF GovTypeOK
  <1>3. \A w \in Spaces, u \in Users : role[w][u] # "none" => space[w] = "live"
    BY DEF GovTypeOK, Nobody
  <1>4. a.space \in Spaces /\ a.by \in Users /\ a.on \in Users /\ a.role \in Roles /\ a.inv \in Invites
        /\ a.op \in {"role", "remove", "delete", "create", "invite", "revoke", "accept", "rescue"}
    BY <1>1 DEF Ask
  <1>5. After(a) \in [Spaces -> [Users -> Standing]]
    BY <1>2, <1>4 DEF After, Appointed, Removed, Dissolved, Joined, Standing, Nobody, InviteRow, InviteRoles
  <1>6. InvitesAfter(a) \in [Invites -> InviteRow]
    BY <1>1, <1>2, <1>4 DEF InvitesAfter, InviteRow
  <1>7. LocksSpace(a) => space[a.space] = "live"
    <2>1. ASSUME LocksSpace(a), a.op # "accept" PROVE role[a.space][a.by] # "none"
      BY <1>4, <2>1 DEF LocksSpace, May, MayAppoint, MayRemove, MayDelete, MayInvite, MayRevoke,
                        IsAdmin, IsMember
    <2>2. ASSUME a.op = "accept" PROVE space[a.space] = "live"
      BY <1>4, <2>2 DEF May, MayAccept, InvitesLive
    <2>. QED
      BY <1>3, <1>4, <2>1, <2>2
  <1>8. \A w \in Spaces : w # a.space \/ ~LocksSpace(a) => After(a)[w] = role[w]
    BY <1>2, <1>4 DEF After, Appointed, Removed, Dissolved, Joined, LocksSpace
  <1>9. a.op = "delete" => After(a)[a.space] = Nobody
    BY <1>2, <1>4 DEF After, Dissolved
  <1>. QED
    BY <1>5, <1>6, <1>7, <1>8, <1>9

\* The same with the new workspaces in place.
LEMMA EffectType ==
    ASSUME GovTypeOK, InvitesLive, NEW a \in Asks, May(a),
           NEW S, S \subseteq Evicted(a), Effect(a, S)
    PROVE  /\ GovTypeOK' /\ InvitesLive'
           /\ \A w \in Spaces : space[w] = "unborn" => space'[w] \in {"unborn", "live"}
           /\ \A w \in Spaces : space[w] # "unborn" =>
                role'[w] = After(a)[w]
                /\ space'[w] = IF a.op = "delete" /\ w = a.space THEN "deleted" ELSE space[w]
           /\ \A w \in Spaces : space[w] = "unborn" /\ space'[w] = "live" =>
                \E u \in S : role'[w][u] = "owner"
           /\ \A u \in S : \E w \in Spaces : role'[w][u] = "owner"
           /\ \A w \in Spaces, u \in Users : role'[w][u] = "none" => After(a)[w][u] = "none"
  <1>. PICK home \in Homes(S) :
             /\ role' = [w \in Spaces |-> [u \in Users |->
                            IF u \in S /\ home[u] = w THEN "owner" ELSE After(a)[w][u]]]
             /\ space' = [w \in Spaces |->
                            IF \E u \in S : home[u] = w THEN "live"
                            ELSE IF a.op = "delete" /\ w = a.space THEN "deleted"
                            ELSE space[w]]
             /\ invite' = InvitesAfter(a)
    BY EffectIs
  <1>1. /\ After(a) \in [Spaces -> [Users -> Standing]]
        /\ InvitesAfter(a) \in [Invites -> InviteRow]
        /\ LocksSpace(a) => space[a.space] = "live"
        /\ \A w \in Spaces : w # a.space \/ ~LocksSpace(a) => After(a)[w] = role[w]
        /\ a.op = "delete" => After(a)[a.space] = Nobody
    BY AfterType
  <1>2. home \in [S -> {w \in Spaces : space[w] = "unborn"}]
    BY DEF Homes
  <1>3. /\ role \in [Spaces -> [Users -> Standing]]
        /\ space \in [Spaces -> {"unborn", "live", "deleted"}]
        /\ invite \in [Invites -> InviteRow]
        /\ \A w \in Spaces : space[w] # "live" => role[w] = Nobody
    BY DEF GovTypeOK
  <1>4. a.space \in Spaces /\ a.by \in Users /\ a.on \in Users /\ a.inv \in Invites
        /\ a.op \in {"role", "remove", "delete", "create", "invite", "revoke", "accept", "rescue"}
        /\ (a.op = "invite" => a.role \in InviteRoles)
    BY GovernanceConstants DEF Ask
  <1>5. S \subseteq Users
    BY <1>3, <1>4 DEF Evicted, IsMember
  <1>6. \A w \in Spaces, u \in S : home[u] = w => space[w] = "unborn"
    BY <1>2
  <1>7. a.op = "delete" => LocksSpace(a)
    BY DEF LocksSpace
  <1>8. \A w \in Spaces : space[w] # "unborn" =>
          role'[w] = After(a)[w]
          /\ space'[w] = IF a.op = "delete" /\ w = a.space THEN "deleted" ELSE space[w]
    BY <1>1, <1>6
  <1>9. \A w \in Spaces : space[w] = "unborn" => w # a.space \/ ~LocksSpace(a)
    BY <1>1
  <1>10. \A w \in Spaces : space[w] = "unborn" =>
           \/ space'[w] = "live" /\ \E u \in S : role'[w][u] = "owner"
           \/ space'[w] = "unborn" /\ role'[w] = Nobody
    <2>. TAKE w \in Spaces
    <2>. HAVE space[w] = "unborn"
    <2>1. CASE \E u \in S : home[u] = w
      BY <2>1, <1>5
    <2>2. CASE ~ \E u \in S : home[u] = w
      <3>1. space'[w] = "unborn"
        BY <2>2, <1>7, <1>9
      <3>2. After(a)[w] = Nobody
        BY <1>1, <1>3, <1>9
      <3>3. \A u \in Users : role'[w][u] = "none"
        BY <2>2, <3>2 DEF Nobody
      <3>4. role'[w] = [u \in Users |-> "none"]
        BY <2>2, <3>2 DEF Nobody
      <3>. QED
        BY <3>1, <3>4 DEF Nobody
    <2>. QED
      BY <2>1, <2>2
  <1>11. role' \in [Spaces -> [Users -> Standing]]
    BY <1>1 DEF Standing, Roles, Rank
  <1>12. space' \in [Spaces -> {"unborn", "live", "deleted"}]
    BY <1>3
  <1>13. \A w \in Spaces : space'[w] # "live" => role'[w] = Nobody
    <2>. TAKE w \in Spaces
    <2>. HAVE space'[w] # "live"
    <2>1. CASE space[w] = "unborn"
      BY <2>1, <1>10
    <2>2. CASE space[w] # "unborn" /\ a.op = "delete" /\ w = a.space
      BY <2>2, <1>1, <1>8
    <2>3. CASE space[w] # "unborn" /\ ~(a.op = "delete" /\ w = a.space)
      <3>1. space[w] # "live"
        BY <2>3, <1>8
      <3>. QED
        BY <2>3, <3>1, <1>1, <1>3, <1>8
    <2>. QED
      BY <2>1, <2>2, <2>3
  <1>14. InvitesLive'
    <2>. SUFFICES ASSUME NEW i \in Invites, invite'[i].is = "open"
                  PROVE  space'[invite'[i].space] = "live"
      BY DEF InvitesLive
    <2>1. invite'[i].space \in Spaces
      BY <1>1 DEF InviteRow
    <2>2. CASE a.op = "invite" /\ i = a.inv
      <3>1. invite'[i].space = a.space
        BY <2>2, <1>3, <1>4 DEF InvitesAfter
      <3>2. LocksSpace(a)
        BY <2>2 DEF LocksSpace
      <3>. QED
        BY <2>1, <2>2, <3>1, <3>2, <1>1, <1>8
    <2>3. CASE ~(a.op = "invite" /\ i = a.inv)
      <3>1. /\ invite[i].is = "open" /\ invite'[i].space = invite[i].space
            /\ a.op = "delete" => invite[i].space # a.space
        BY <2>3, <1>3, <1>4 DEF InvitesAfter, InviteRow
      <3>2. space[invite[i].space] = "live"
        BY <3>1 DEF InvitesLive
      <3>. QED
        BY <2>1, <3>1, <3>2, <1>8
    <2>. QED
      BY <2>2, <2>3
  <1>15. \A u \in S : \E w \in Spaces : role'[w][u] = "owner"
    BY <1>2, <1>5
  <1>16. \A w \in Spaces, u \in Users : role'[w][u] = "none" => After(a)[w][u] = "none"
    OBVIOUS
  <1>. QED
    BY <1>1, <1>8, <1>10, <1>11, <1>12, <1>13, <1>14, <1>15, <1>16 DEF GovTypeOK

\* Whoever is the only owner is the one LastOwner protects.
LEMMA OtherOwner ==
    ASSUME NEW w \in Spaces, NEW u \in Users, Owners(w) # {}, ~LastOwner(w, u)
    PROVE  \E v \in Owners(w) : v # u
  <1>1. CASE role[w][u] # "owner"
    BY <1>1 DEF Owners
  <1>2. CASE role[w][u] = "owner" /\ Owners(w) = {u}
    <2>1. Cardinality(Owners(w)) = 1
      BY <1>2, FS_Singleton
    <2>. QED
      BY <1>2, <2>1 DEF LastOwner
  <1>3. CASE role[w][u] = "owner" /\ Owners(w) # {u}
    BY <1>3 DEF Owners
  <1>. QED
    BY <1>1, <1>2, <1>3

LEMMA AfterHasOwner ==
    ASSUME GovTypeOK, AlwaysAnOwner, NEW a \in Asks, May(a), a.op # "delete",
           NEW w \in Spaces, space[w] = "live"
    PROVE  \E v \in Users : After(a)[w][v] = "owner"
  <1>1. PICK v \in Users : role[w][v] = "owner"
    BY DEF AlwaysAnOwner, Owners
  <1>2. role \in [Spaces -> [Users -> Standing]]
    BY DEF GovTypeOK
  <1>3. a.space \in Spaces /\ a.by \in Users /\ a.on \in Users
    BY GovernanceConstants DEF Ask
  <1>4. CASE a.op = "role"
    <2>1. After(a) = Appointed(a)
      BY <1>4 DEF After
    <2>2. CASE w # a.space
      BY <1>1, <1>2, <2>1, <2>2 DEF Appointed
    <2>3. CASE w = a.space /\ a.role = "owner"
      BY <1>2, <1>3, <2>1, <2>3 DEF Appointed
    <2>4. CASE w = a.space /\ a.role # "owner"
      <3>1. ~LastOwner(w, a.on)
        BY <1>4, <2>4 DEF May, MayAppoint
      <3>2. PICK x \in Owners(w) : x # a.on
        BY <1>1, <1>3, <3>1, OtherOwner DEF Owners
      <3>. QED
        BY <1>2, <1>3, <2>1, <2>4, <3>2 DEF Appointed, Owners
    <2>. QED
      BY <2>2, <2>3, <2>4
  <1>5. CASE a.op = "remove"
    <2>1. After(a) = Removed(a)
      BY <1>5 DEF After
    <2>2. CASE w # a.space
      BY <1>1, <1>2, <2>1, <2>2 DEF Removed
    <2>3. CASE w = a.space
      <3>1. ~LastOwner(w, a.on)
        BY <1>5, <2>3 DEF May, MayRemove
      <3>2. PICK x \in Owners(w) : x # a.on
        BY <1>1, <1>3, <3>1, OtherOwner DEF Owners
      <3>. QED
        BY <1>2, <1>3, <2>1, <2>3, <3>2 DEF Removed, Owners
    <2>. QED
      BY <2>2, <2>3
  <1>6. CASE a.op = "accept"
    <2>1. After(a) = Joined(a)
      BY <1>6 DEF After
    <2>2. role[a.space][a.by] = "none"
      BY <1>6 DEF May, MayAccept, IsMember
    <2>. QED
      BY <1>1, <1>2, <1>3, <2>1, <2>2 DEF Joined
  <1>7. CASE a.op \notin {"role", "remove", "delete", "accept"}
    <2>1. After(a) = role
      BY <1>7 DEF After
    <2>. QED
      BY <1>1, <2>1
  <1>. QED
    BY <1>4, <1>5, <1>6, <1>7

\* Only an account the request has locked loses a membership by it.
LEMMA OnlyLocked ==
    ASSUME GovTypeOK, NEW a \in Asks, NEW u \in Users, u \notin Locked(a),
           NEW w \in Spaces, After(a)[w][u] = "none"
    PROVE  role[w][u] = "none"
  <1>1. role \in [Spaces -> [Users -> Standing]]
    BY DEF GovTypeOK
  <1>2. a.space \in Spaces /\ a.by \in Users /\ a.on \in Users /\ a.role \in Roles /\ a.inv \in Invites
    BY GovernanceConstants DEF Ask
  <1>3. CASE a.op = "role"
    <2>1. After(a)[w][u] = IF w = a.space /\ u = a.on THEN a.role ELSE role[w][u]
      BY <1>1, <1>2, <1>3 DEF After, Appointed
    <2>. QED
      BY <2>1, <1>2 DEF Roles, Rank
  <1>4. CASE a.op = "remove"
    <2>1. After(a)[w][u] = IF w = a.space /\ u = a.on THEN "none" ELSE role[w][u]
      BY <1>1, <1>2, <1>4 DEF After, Removed
    <2>2. u # a.on
      BY <1>4 DEF Locked, Evicted
    <2>. QED
      BY <2>1, <2>2
  <1>5. CASE a.op = "delete"
    <2>1. w # a.space => After(a)[w] = role[w]
      BY <1>1, <1>5 DEF After, Dissolved
    <2>2. ~IsMember(a.space, u)
      BY <1>5 DEF Locked, Evicted
    <2>. QED
      BY <2>1, <2>2 DEF IsMember
  <1>6. CASE a.op = "accept"
    <2>1. invite[a.inv].role # "none"
      BY <1>2 DEF GovTypeOK, InviteRow, InviteRoles, Roles, Rank
    <2>2. After(a)[w][u] = IF w = a.space /\ u = a.by THEN invite[a.inv].role ELSE role[w][u]
      BY <1>1, <1>2, <1>6 DEF After, Joined
    <2>. QED
      BY <2>1, <2>2
  <1>7. CASE a.op \notin {"role", "remove", "delete", "accept"}
    <2>1. After(a) = role
      BY <1>7 DEF After
    <2>. QED
      BY <2>1
  <1>. QED
    BY <1>3, <1>4, <1>5, <1>6, <1>7

\* A permitted request keeps the rules, and takes nobody's last workspace away.
LEMMA DoKeeps ==
    ASSUME GovInv, NEW a \in Asks, Do(a)
    PROVE  GovInv' /\ KeepsAHome
  <1>. USE DEF GovInv
  <1>1. May(a)
    BY DEF Do
  <1>2. PICK S \in SUBSET Evicted(a) : Due(a) \subseteq S /\ Effect(a, S)
    BY DEF Do
  <1>3. /\ GovTypeOK' /\ InvitesLive'
        /\ \A w \in Spaces : space[w] = "unborn" => space'[w] \in {"unborn", "live"}
        /\ \A w \in Spaces : space[w] # "unborn" =>
             role'[w] = After(a)[w]
             /\ space'[w] = IF a.op = "delete" /\ w = a.space THEN "deleted" ELSE space[w]
        /\ \A w \in Spaces : space[w] = "unborn" /\ space'[w] = "live" =>
             \E u \in S : role'[w][u] = "owner"
        /\ \A u \in S : \E w \in Spaces : role'[w][u] = "owner"
        /\ \A w \in Spaces, u \in Users : role'[w][u] = "none" => After(a)[w][u] = "none"
    BY <1>1, <1>2, EffectType
  <1>4. /\ role \in [Spaces -> [Users -> Standing]]
        /\ space \in [Spaces -> {"unborn", "live", "deleted"}]
    BY DEF GovTypeOK
  <1>5. a.space \in Spaces /\ a.by \in Users /\ a.on \in Users /\ a.role \in Roles /\ a.inv \in Invites
    BY GovernanceConstants DEF Ask
  <1>6. Evicted(a) \subseteq Users
    BY <1>5 DEF Evicted
  <1>7. AlwaysAnOwner'
    <2>. SUFFICES ASSUME NEW w \in Spaces, space'[w] = "live"
                  PROVE  \E v \in Users : role'[w][v] = "owner"
      BY DEF AlwaysAnOwner, Owners
    <2>1. CASE space[w] = "unborn"
      BY <2>1, <1>2, <1>3, <1>6
    <2>2. CASE space[w] # "unborn" /\ ~(a.op = "delete" /\ w = a.space)
      <3>1. space[w] = "live" /\ role'[w] = After(a)[w]
        BY <2>2, <1>3
      <3>2. CASE a.op = "delete"
        <4>1. After(a)[w] = role[w]
          BY <1>1, <1>4, <2>2, <3>2, AfterType
        <4>. QED
          BY <3>1, <4>1 DEF AlwaysAnOwner, Owners
      <3>3. CASE a.op # "delete"
        BY <1>1, <3>1, <3>3, AfterHasOwner
      <3>. QED
        BY <3>2, <3>3
    <2>3. CASE space[w] # "unborn" /\ a.op = "delete" /\ w = a.space
      BY <2>3, <1>3
    <2>. QED
      BY <2>1, <2>2, <2>3
  <1>8. KeepsAHome
    <2>. SUFFICES ASSUME NEW u \in Users, \A w \in Spaces : role'[w][u] = "none"
                  PROVE  \A w \in Spaces : role[w][u] = "none"
      BY DEF KeepsAHome, Homeless
    <2>1. \A w \in Spaces : After(a)[w][u] = "none"
      BY <1>3
    <2>2. u \notin S
      BY <1>3
    <2>3. u \notin Evicted(a)
      <3>1. u \in Homeless(After(a))
        BY <2>1 DEF Homeless
      <3>2. a.op = "create" => Evicted(a) = Due(a)
        BY DEF Evicted, Due
      <3>. QED
        BY <1>2, <2>2, <3>1, <3>2 DEF Due
    <2>. QED
      BY <2>1, <2>3, OnlyLocked DEF Locked
  <1>. QED
    BY <1>3, <1>7, <1>8

LEMMA GovInitHolds == GovInit => GovInv
  <1>. SUFFICES ASSUME GovInit PROVE GovInv
    OBVIOUS
  <1>. USE GovernanceConstants DEF GovInit
  <1>1. GovTypeOK
    BY DEF GovTypeOK
  <1>2. AlwaysAnOwner
    BY DEF AlwaysAnOwner, Owners
  <1>3. InvitesLive
    BY DEF InvitesLive, InviteRow
  <1>. QED
    BY <1>1, <1>2, <1>3 DEF GovInv

LEMMA GovStep == GovInv /\ [GovNext]_govVars => GovInv' /\ [KeepsAHome]_role
  <1>. SUFFICES ASSUME GovInv, [GovNext]_govVars PROVE GovInv' /\ [KeepsAHome]_role
    OBVIOUS
  <1>1. CASE GovNext
    BY <1>1, DoKeeps DEF GovNext
  <1>2. CASE UNCHANGED govVars
    BY <1>2 DEF govVars, GovInv, GovTypeOK, AlwaysAnOwner, Owners, InvitesLive
  <1>. QED
    BY <1>1, <1>2

\* Requests that take effect one at a time leave every workspace an owner, and
\* every account that has a workspace a workspace.
THEOREM RulesHold == GovSpec => []GovInv /\ NobodyLosesTheLast
  <1>. QED
    BY GovInitHolds, GovStep, PTL DEF GovSpec, NobodyLosesTheLast

-----------------------------------------------------------------------------
(* Requests that overlap.  Under its locks a request stays permitted, and  *)
(* nobody it locked becomes homeless behind its back.                      *)

Holding(r, a) == req[r].pc \in {"locking", "settled"} /\ req[r].ask = a

Judged == \A r \in Requests, a \in Asks : Holding(r, a) => May(a)

\* Every account to lock is locked or still to be.
Taken ==
    \A r \in Requests, a \in Asks : Holding(r, a) =>
        /\ Locked(a) \subseteq req[r].need \cup req[r].held
        /\ req[r].pc = "settled" => Locked(a) \subseteq req[r].held

Provided ==
    \A r \in Requests, a \in Asks :
        req[r].pc = "settled" /\ req[r].ask = a =>
            req[r].given \subseteq Evicted(a) /\ Due(a) \subseteq req[r].given

AccountsInv == AccountsTypeOK /\ GovInv /\ Judged /\ Taken /\ Provided

\* A request on one workspace leaves the right to another on another workspace alone.
LEMMA RightsStay ==
    ASSUME GovInv, NEW a \in Asks, Do(a), NEW b \in Asks, May(b),
           LocksSpace(a) /\ LocksSpace(b) => a.space # b.space
    PROVE  May(b)' /\ (LocksSpace(b) => role'[b.space] = role[b.space])
  <1>. USE DEF GovInv
  <1>1. May(a)
    BY DEF Do
  <1>2. PICK S \in SUBSET Evicted(a) : Effect(a, S)
    BY DEF Do
  <1>3. \A w \in Spaces : space[w] # "unborn" => role'[w] = After(a)[w]
    BY <1>1, <1>2, EffectType
  <1>4. invite' = InvitesAfter(a)
    BY <1>2 DEF Effect
  <1>5. /\ a.space \in Spaces /\ a.inv \in Invites /\ b.space \in Spaces /\ b.inv \in Invites
        /\ b.op \in {"role", "remove", "delete", "create", "invite", "revoke", "accept", "rescue"}
    BY GovernanceConstants DEF Ask
  <1>6. ASSUME LocksSpace(b) PROVE role'[b.space] = role[b.space]
    <2>1. space[b.space] = "live"
      BY <1>6, AfterType
    <2>2. After(a)[b.space] = role[b.space]
      BY <1>1, <1>5, <1>6, AfterType
    <2>. QED
      BY <1>3, <1>5, <2>1, <2>2
  <1>7. CASE b.op \in {"role", "remove", "delete"}
    <2>1. role'[b.space] = role[b.space]
      BY <1>6, <1>7 DEF LocksSpace
    <2>2. Owners(b.space)' = Owners(b.space)
      BY <2>1 DEF Owners
    <2>. QED
      BY <1>6, <1>7, <2>1, <2>2 DEF May, MayAppoint, MayRemove, MayDelete, IsAdmin, IsMember, Outranks, LastOwner
  <1>8. CASE b.op \in {"invite", "revoke", "accept"}
    <2>1. role'[b.space] = role[b.space]
      BY <1>6, <1>8 DEF LocksSpace
    <2>2. LocksSpace(a) => a.space # b.space
      BY <1>8 DEF LocksSpace
    <2>3. invite \in [Invites -> InviteRow]
      BY DEF GovTypeOK
    <2>4. a.op \in {"invite", "revoke", "delete"} => LocksSpace(a)
      BY DEF LocksSpace
    <2>5. a.op = "invite" /\ a.inv = b.inv => b.op # "invite" /\ invite[b.inv].is = "unused"
      BY <1>1, <2>2, <2>4, GovernanceConstants DEF May, MayInvite
    <2>6. b.op = "invite" => invite'[b.inv].is = "unused"
      <3>. SUFFICES ASSUME b.op = "invite" PROVE invite'[b.inv].is = "unused"
        OBVIOUS
      <3>1. invite[b.inv].is = "unused"
        BY DEF May, MayInvite
      <3>2. a.op = "revoke" => a.inv # b.inv
        BY <1>1, <3>1 DEF May, MayRevoke
      <3>. QED
        BY <1>4, <1>5, <2>3, <2>5, <3>1, <3>2 DEF InvitesAfter
    <2>7. b.op = "revoke" => invite'[b.inv].is # "unused" /\ invite'[b.inv].space = b.space
      <3>. SUFFICES ASSUME b.op = "revoke"
                    PROVE  invite'[b.inv].is # "unused" /\ invite'[b.inv].space = b.space
        OBVIOUS
      <3>1. invite[b.inv].is # "unused" /\ invite[b.inv].space = b.space
        BY DEF May, MayRevoke
      <3>2. a.op = "invite" => a.inv # b.inv
        BY <2>5, <3>1
      <3>. QED
        BY <1>4, <1>5, <2>3, <3>1, <3>2 DEF InvitesAfter, InviteRow
    <2>8. b.op = "accept" => invite'[b.inv] = invite[b.inv]
      <3>. SUFFICES ASSUME b.op = "accept" PROVE invite'[b.inv] = invite[b.inv]
        OBVIOUS
      <3>1. invite[b.inv].is = "open" /\ invite[b.inv].space = b.space
        BY DEF May, MayAccept
      <3>2. a.op = "invite" => a.inv # b.inv
        BY <2>5, <3>1
      <3>3. a.op = "revoke" => a.inv # b.inv
        BY <1>1, <2>2, <2>4, <3>1 DEF May, MayRevoke
      <3>. QED
        BY <1>4, <1>5, <2>2, <2>3, <2>4, <3>1, <3>2, <3>3 DEF InvitesAfter
    <2>. QED
      BY <1>6, <1>8, <2>1, <2>6, <2>7, <2>8 DEF May, MayInvite, MayRevoke, MayAccept, IsAdmin, IsMember
  <1>9. CASE b.op \in {"create", "rescue"}
    BY <1>9 DEF May, LocksSpace
  <1>. QED
    BY <1>5, <1>7, <1>8, <1>9

\* Nor does it leave an account homeless that the other has locked.
LEMMA DuesStay ==
    ASSUME GovInv, NEW a \in Asks, Do(a), NEW b \in Asks, May(b),
           LocksSpace(a) /\ LocksSpace(b) => a.space # b.space,
           Locked(b) \cap Locked(a) = {}
    PROVE  Evicted(b)' = Evicted(b) /\ Locked(b)' = Locked(b) /\ Due(b)' \subseteq Due(b)
  <1>. USE DEF GovInv
  <1>1. May(a)
    BY DEF Do
  <1>2. PICK S \in SUBSET Evicted(a) : Effect(a, S)
    BY DEF Do
  <1>3. \A w \in Spaces, u \in Users : role'[w][u] = "none" => After(a)[w][u] = "none"
    BY <1>1, <1>2, EffectType
  <1>4. /\ b.space \in Spaces /\ b.on \in Users /\ b.by \in Users
        /\ b.op \in {"role", "remove", "delete", "create", "invite", "revoke", "accept", "rescue"}
    BY GovernanceConstants DEF Ask
  <1>5. LocksSpace(b) => role'[b.space] = role[b.space]
    BY RightsStay
  <1>6. Evicted(b)' = Evicted(b)
    BY <1>4, <1>5 DEF Evicted, IsMember, LocksSpace
  <1>7. Locked(b)' = Locked(b)
    BY <1>6 DEF Locked
  <1>8. role \in [Spaces -> [Users -> Standing]] /\ role' \in [Spaces -> [Users -> Standing]]
    <2>1. GovTypeOK'
      BY DoKeeps
    <2>. QED
      BY <2>1 DEF GovTypeOK
  <1>9. ASSUME b.op \in {"remove", "delete", "rescue"}, NEW u \in Evicted(b),
               \A w \in Spaces : After(b)'[w][u] = "none"
        PROVE  \A w \in Spaces : After(b)[w][u] = "none"
    <2>1. u \in Users /\ u \notin Locked(a)
      BY <1>4, <1>9 DEF Locked, Evicted
    <2>2. \A w \in Spaces : role'[w][u] = "none" => role[w][u] = "none"
      BY <1>3, <2>1, OnlyLocked
    <2>. SUFFICES ASSUME NEW w \in Spaces PROVE After(b)[w][u] = "none"
      OBVIOUS
    <2>3. CASE b.op = "remove"
      <3>1. After(b) = Removed(b) /\ After(b)' = Removed(b)'
        BY <2>3 DEF After
      <3>2. u = b.on
        BY <1>9, <2>3 DEF Evicted
      <3>3. Removed(b)[w][u] = IF w = b.space THEN "none" ELSE role[w][u]
        BY <1>4, <1>8, <3>2 DEF Removed
      <3>4. w # b.space => Removed(b)'[w][u] = role'[w][u]
        BY <1>4, <1>8 DEF Removed
      <3>. QED
        BY <1>9, <2>2, <3>1, <3>3, <3>4
    <2>4. CASE b.op = "delete"
      <3>1. After(b) = Dissolved(b) /\ After(b)' = Dissolved(b)'
        BY <2>4 DEF After
      <3>2. Dissolved(b)[w][u] = IF w = b.space THEN "none" ELSE role[w][u]
        BY <1>4, <1>8, <2>1 DEF Dissolved, Nobody
      <3>3. w # b.space => Dissolved(b)'[w][u] = role'[w][u]
        BY <1>4, <1>8 DEF Dissolved
      <3>. QED
        BY <1>9, <2>2, <3>1, <3>2, <3>3
    <2>5. CASE b.op = "rescue"
      <3>1. After(b) = role /\ After(b)' = role'
        BY <2>5 DEF After
      <3>. QED
        BY <1>9, <2>2, <3>1
    <2>. QED
      BY <1>9, <2>3, <2>4, <2>5
  <1>10. CASE b.op = "create"
    BY <1>6, <1>7, <1>10 DEF Due
  <1>11. CASE b.op \in {"remove", "delete", "rescue"}
    <2>1. Due(b) = Evicted(b) \cap Homeless(After(b))
      BY <1>11 DEF Due
    <2>2. Due(b)' = Evicted(b)' \cap Homeless(After(b))'
      BY <1>11 DEF Due
    <2>3. \A u \in Homeless(After(b))' : u \in Users /\ \A w \in Spaces : After(b)'[w][u] = "none"
      BY DEF Homeless
    <2>4. \A u \in Users : (\A w \in Spaces : After(b)[w][u] = "none") => u \in Homeless(After(b))
      BY DEF Homeless
    <2>. QED
      BY <1>6, <1>7, <1>9, <1>11, <2>1, <2>2, <2>3, <2>4
  <1>12. CASE b.op \in {"role", "invite", "revoke", "accept"}
    <2>1. Evicted(b) = {}
      BY <1>12 DEF Evicted
    <2>2. Due(b)' = Evicted(b)' \cap Homeless(After(b))'
      BY <1>12 DEF Due
    <2>. QED
      BY <1>6, <1>7, <2>1, <2>2
  <1>. QED
    BY <1>4, <1>10, <1>11, <1>12

\* A commit is the whole request at one moment.
LEMMA CommitIsDo ==
    ASSUME AccountsInv, NEW r \in Requests, Commit(r)
    PROVE  req[r].ask \in Asks /\ Do(req[r].ask)
  <1>. USE DEF AccountsInv
  <1>1. req[r].ask \in Asks /\ req[r].pc = "settled"
    BY DEF Commit, AccountsTypeOK, Row
  <1>. QED
    BY <1>1 DEF Judged, Provided, Holding, Do, Commit

\* While the memberships rest, so does everything computed from them.
LEMMA AtRest ==
    ASSUME UNCHANGED govVars, NEW a
    PROVE  /\ May(a)' = May(a) /\ Evicted(a)' = Evicted(a)
           /\ Locked(a)' = Locked(a) /\ Due(a)' = Due(a)
  <1>. USE DEF govVars
  <1>1. May(a)' = May(a)
    BY DEF May, MayAppoint, MayRemove, MayDelete, MayInvite, MayRevoke, MayAccept,
           IsAdmin, IsMember, Outranks, LastOwner, Owners
  <1>2. Evicted(a)' = Evicted(a)
    BY DEF Evicted, IsMember
  <1>3. Locked(a)' = Locked(a)
    BY <1>2 DEF Locked
  <1>4. After(a)' = After(a)
    BY DEF After, Appointed, Removed, Dissolved, Joined
  <1>5. Homeless(After(a))' = Homeless(After(a))
    BY <1>4 DEF Homeless
  <1>6. Due(a)' = Due(a)
    BY <1>2, <1>5 DEF Due
  <1>. QED
    BY <1>1, <1>2, <1>3, <1>6

LEMMA DueIsEvicted == ASSUME NEW a PROVE Due(a) \subseteq Evicted(a)
  BY DEF Due, Evicted

LEMMA GovInvAtRest == ASSUME GovInv, UNCHANGED govVars PROVE GovInv'
  BY DEF govVars, GovInv, GovTypeOK, AlwaysAnOwner, Owners, InvitesLive

\* What the locks need: types and exclusion, action by action.
LEMMA TypeStep ==
    ASSUME AccountsInv, GovTypeOK', NEW r \in Requests,
           \/ LockSpace(r) \/ LockUser(r) \/ Settle(r) \/ Commit(r) \/ Abort(r)
           \/ \E a \in Asks : Arrive(r, a)
    PROVE  AccountsTypeOK'
  <1>. USE DEF AccountsInv, AccountsTypeOK, HoldsSpace
  <1>1. /\ req \in [Requests -> Row] /\ req[r] \in Row
        /\ req[r].ask \in Asks => Locked(req[r].ask) \subseteq Users
        /\ req[r].ask \in Asks => Count(req[r].ask) \subseteq Users
    <2>1. \A a \in Asks : a.on \in Users /\ a.by \in Users
      BY GovernanceConstants DEF Ask
    <2>2. \A a \in Asks : Evicted(a) \subseteq Users
      BY <2>1 DEF Evicted
    <2>. QED
      BY <2>2, DueIsEvicted DEF Locked, Count
  <1>2. ASSUME NEW a \in Asks, Arrive(r, a) PROVE AccountsTypeOK'
    <2>1. a.op \in {"role", "remove", "delete", "create", "invite", "revoke", "accept", "rescue"} /\ a.by \in Users
      BY GovernanceConstants DEF Ask
    <2>2. Locked(a) \subseteq Users
      BY GovernanceConstants DEF Locked, Evicted, Ask
    <2> DEFINE rec == IF a.op = "create"
                      THEN [New EXCEPT !.pc = "settled", !.ask = a, !.given = {a.by}]
                      ELSE [New EXCEPT !.pc = IF LocksSpace(a) THEN "waiting" ELSE "locking",
                                       !.ask = a,
                                       !.need = IF LocksSpace(a) THEN {} ELSE Locked(a)]
    <2>3. req' = [req EXCEPT ![r] = rec]
      BY <1>2 DEF Arrive, Set
    <2>4. /\ rec \in Row /\ rec.ask = a /\ rec.held = {}
          /\ rec.pc \in {"locking", "settled"} => ~LocksSpace(a)
      <3>1. CASE a.op = "create"
        BY <2>1, <3>1 DEF New, Row, LocksSpace
      <3>2. CASE a.op # "create" /\ LocksSpace(a)
        BY <2>1, <3>2 DEF New, Row
      <3>3. CASE a.op # "create" /\ ~LocksSpace(a)
        BY <2>1, <2>2, <3>3 DEF New, Row
      <3>. QED
        BY <3>1, <3>2, <3>3
    <2>. HIDE DEF rec
    <2>. QED
      BY <1>1, <2>3, <2>4, AccountConstants
  <1>3. CASE LockSpace(r)
    <2> DEFINE rec == IF Judge(req[r].ask)
                      THEN [req[r] EXCEPT !.pc = "locking", !.need = Locked(req[r].ask)]
                      ELSE [req[r] EXCEPT !.pc = "done"]
    <2>1. /\ req' = [req EXCEPT ![r] = rec] /\ rec \in Row
          /\ rec.ask = req[r].ask /\ rec.held = req[r].held
          /\ rec.pc \in {"locking", "done"}
      <3>1. req[r].ask \in Asks
        BY <1>1, <1>3 DEF LockSpace, Row
      <3>2. req' = [req EXCEPT ![r] = rec]
        BY <1>3 DEF LockSpace, Set
      <3>3. rec \in Row /\ rec.ask = req[r].ask /\ rec.held = req[r].held
            /\ rec.pc \in {"locking", "done"}
        BY <1>1, <3>1 DEF Row
      <3>. QED
        BY <3>2, <3>3
    <2>. HIDE DEF rec
    <2>2. \A q \in Requests : ~HoldsSpace(q, req[r].ask.space)
      BY <1>3 DEF LockSpace
    <2>3. req[r].pc = "waiting"
      BY <1>3 DEF LockSpace
    <2>. QED
      BY <1>1, <2>1, <2>2, <2>3
  <1>4. CASE LockUser(r)
    <2>1. PICK u \in NextOf(req[r].need) :
            /\ \A q \in Requests : u \notin req[q].held
            /\ req' = [req EXCEPT ![r] = [req[r] EXCEPT !.need = @ \ {u}, !.held = @ \cup {u}]]
      BY <1>4 DEF LockUser, Set
    <2>2. u \in Users
      BY <1>1, <2>1 DEF NextOf, Row
    <2>3. req' \in [Requests -> Row]
      BY <1>1, <2>1, <2>2 DEF Row
    <2>. QED
      BY <1>1, <2>1, <2>3 DEF Row
  <1>5. CASE Settle(r)
    <2>1. req[r].ask \in Asks
      BY <1>1, <1>5 DEF Settle, Row
    <2>2. req' = [req EXCEPT ![r] = [req[r] EXCEPT !.pc = "settled", !.given = Count(req[r].ask)]]
      BY <1>5 DEF Settle, Set
    <2>3. req' \in [Requests -> Row]
      BY <1>1, <2>1, <2>2 DEF Row
    <2>4. req[r].pc = "locking"
      BY <1>5 DEF Settle
    <2>. QED
      BY <1>1, <2>2, <2>3, <2>4 DEF Row
  <1>6. CASE Commit(r)
    <2>1. req' = [req EXCEPT ![r] = [req[r] EXCEPT !.pc = "done", !.held = {}]]
      BY <1>6 DEF Commit, Set
    <2>2. req' \in [Requests -> Row]
      BY <1>1, <2>1 DEF Row
    <2>3. req[r].pc = "settled"
      BY <1>6 DEF Commit
    <2>. QED
      BY <1>1, <2>1, <2>2, <2>3 DEF Row
  <1>7. CASE Abort(r)
    <2>1. req' = [req EXCEPT ![r] = [New EXCEPT !.pc = "done", !.ask = req[r].ask]]
      BY <1>7 DEF Abort, Set
    <2>2. req' \in [Requests -> Row]
      BY <1>1, <2>1 DEF Row, New
    <2>3. req[r].pc # "new"
      BY <1>7 DEF Abort
    <2>. QED
      BY <1>1, <2>1, <2>2, <2>3 DEF Row, New
  <1>. QED
    BY <1>2, <1>3, <1>4, <1>5, <1>6, <1>7

\* A request that changes its own record only has to answer for that.
LEMMA QuietStep ==
    ASSUME AccountsInv, UNCHANGED govVars, NEW r \in Requests, NEW rec,
           req' = [req EXCEPT ![r] = rec],
           ASSUME NEW a \in Asks, rec.ask = a, rec.pc \in {"locking", "settled"}
           PROVE  /\ May(a) /\ Locked(a) \subseteq rec.need \cup rec.held
                  /\ rec.pc = "settled" =>
                       /\ Locked(a) \subseteq rec.held
                       /\ rec.given \subseteq Evicted(a) /\ Due(a) \subseteq rec.given
    PROVE  Judged' /\ Taken' /\ Provided'
  <1>1. req \in [Requests -> Row]
    BY DEF AccountsInv, AccountsTypeOK
  <1>2. ASSUME NEW q \in Requests, NEW a \in Asks, req'[q].ask = a, req'[q].pc \in {"locking", "settled"}
        PROVE  /\ May(a)' /\ Locked(a)' \subseteq req'[q].need \cup req'[q].held
               /\ req'[q].pc = "settled" =>
                    /\ Locked(a)' \subseteq req'[q].held
                    /\ req'[q].given \subseteq Evicted(a)' /\ Due(a)' \subseteq req'[q].given
    <2>1. /\ May(a)' = May(a) /\ Evicted(a)' = Evicted(a)
          /\ Locked(a)' = Locked(a) /\ Due(a)' = Due(a)
      BY AtRest
    <2>2. CASE q = r
      <3>1. req'[q] = rec
        BY <1>1, <2>2
      <3>. QED
        BY <1>2, <2>1, <3>1
    <2>3. CASE q # r
      <3>1. req'[q] = req[q]
        BY <1>1, <2>3
      <3>2. Holding(q, a)
        BY <1>2, <3>1 DEF Holding
      <3>3. May(a)
        BY <3>2 DEF AccountsInv, Judged
      <3>. QED
        BY <1>2, <2>1, <3>1, <3>2, <3>3 DEF AccountsInv, Taken, Provided
    <2>. QED
      BY <2>2, <2>3
  <1>3. Judged'
    BY <1>2 DEF Judged, Holding
  <1>4. Taken'
    BY <1>2 DEF Taken, Holding
  <1>5. Provided'
    BY <1>2 DEF Provided
  <1>. QED
    BY <1>3, <1>4, <1>5

\* At a commit it is the others that count: they are on other workspaces, and
\* what they have locked is not evicted.
LEMMA CommitStep ==
    ASSUME AccountsInv, NEW r \in Requests, Commit(r)
    PROVE  Judged' /\ Taken' /\ Provided'
  <1>1. req \in [Requests -> Row]
    BY DEF AccountsInv, AccountsTypeOK
  <1>2. PICK b \in Asks : req[r].ask = b /\ Do(b)
    BY CommitIsDo
  <1>3. GovInv
    BY DEF AccountsInv
  <1>4. req' = [req EXCEPT ![r] = [req[r] EXCEPT !.pc = "done", !.held = {}]] /\ req[r].pc = "settled"
    BY DEF Commit, Set
  <1>5. ASSUME NEW q \in Requests, NEW a \in Asks, req'[q].ask = a, req'[q].pc \in {"locking", "settled"}
        PROVE  /\ May(a)'
               /\ Locked(a)' \subseteq req'[q].need \cup req'[q].held
               /\ req'[q].pc = "settled" =>
                    /\ Locked(a)' \subseteq req'[q].held
                    /\ req'[q].given \subseteq Evicted(a)' /\ Due(a)' \subseteq req'[q].given
    <2>1. q # r /\ req'[q] = req[q]
      BY <1>1, <1>4, <1>5 DEF Row
    <2>2. Holding(q, a) /\ Holding(r, b)
      BY <1>2, <1>4, <1>5, <2>1 DEF Holding
    <2>3. May(a) /\ May(b)
      BY <2>2 DEF AccountsInv, Judged
    <2>4. LocksSpace(b) /\ LocksSpace(a) => b.space # a.space
      <3>1. a.space \in Spaces
        BY GovernanceConstants DEF Ask
      <3>. QED
        BY <2>1, <2>2, <3>1 DEF AccountsInv, AccountsTypeOK, HoldsSpace, Holding
    <2>5. May(a)'
      BY <1>2, <1>3, <2>3, <2>4, RightsStay
    <2>. DEFINE Fine == /\ Evicted(a)' = Evicted(a) /\ Locked(a)' = Locked(a)
                        /\ Due(a)' \subseteq Due(a)
    <2>6. req'[q].pc = "settled" => Fine
      <3>. SUFFICES ASSUME req[q].pc = "settled" PROVE Fine
        BY <2>1
      <3>1. Locked(a) \subseteq req[q].held
        BY <2>2 DEF AccountsInv, Taken
      <3>2. Locked(a) \cap Locked(b) = {}
        BY <1>4, <2>1, <2>2, <3>1 DEF AccountsInv, Taken, AccountsTypeOK
      <3>. QED
        BY <1>2, <1>3, <2>3, <2>4, <3>2, DuesStay
    <2>7. Locked(a)' = Locked(a)
      <3>1. LocksSpace(a) => role'[a.space] = role[a.space]
        BY <1>2, <1>3, <2>3, <2>4, RightsStay
      <3>. QED
        BY <3>1 DEF Locked, Evicted, IsMember, LocksSpace
    <2>8. /\ Locked(a) \subseteq req[q].need \cup req[q].held
          /\ req[q].pc = "settled" => Locked(a) \subseteq req[q].held
      BY <2>2 DEF AccountsInv, Taken
    <2>9. req[q].pc = "settled" => req[q].given \subseteq Evicted(a) /\ Due(a) \subseteq req[q].given
      BY <1>5, <2>1 DEF AccountsInv, Provided
    <2>. QED
      BY <2>1, <2>5, <2>6, <2>7, <2>8, <2>9
  <1>. QED
    BY <1>5 DEF Judged, Taken, Provided, Holding

LEMMA AccountsInitHolds == AccountsInit => AccountsInv
  <1>. SUFFICES ASSUME AccountsInit PROVE AccountsInv
    OBVIOUS
  <1>1. GovInv
    BY GovInitHolds DEF AccountsInit
  <1>2. req \in [Requests -> Row] /\ \A r \in Requests : req[r] = New
    BY DEF AccountsInit, New, Row
  <1>3. AccountsTypeOK
    BY <1>1, <1>2 DEF AccountsTypeOK, GovInv, New, HoldsSpace
  <1>4. Judged /\ Taken /\ Provided
    BY <1>2 DEF Judged, Taken, Provided, Holding, New
  <1>. QED
    BY <1>1, <1>3, <1>4 DEF AccountsInv

LEMMA AccountsStep ==
    AccountsInv /\ [AccountsNext]_accountVars => AccountsInv' /\ [GovNext]_govVars
  <1>. SUFFICES ASSUME AccountsInv, [AccountsNext]_accountVars
                PROVE  AccountsInv' /\ [GovNext]_govVars
    OBVIOUS
  <1>1. CASE UNCHANGED accountVars
    <2>1. UNCHANGED govVars /\ req' = req
      BY <1>1 DEF accountVars, govVars
    <2>2. GovInv'
      BY <2>1, GovInvAtRest DEF AccountsInv
    <2>3. AccountsTypeOK'
      BY <2>1, <2>2 DEF AccountsInv, AccountsTypeOK, HoldsSpace, GovInv
    <2>4. Judged' /\ Taken' /\ Provided'
      BY <2>1, AtRest DEF AccountsInv, Judged, Taken, Provided, Holding
    <2>. QED
      BY <2>1, <2>2, <2>3, <2>4 DEF AccountsInv
  <1>. SUFFICES ASSUME NEW r \in Requests,
                       \/ LockSpace(r) \/ LockUser(r) \/ Settle(r) \/ Commit(r) \/ Abort(r)
                       \/ \E a \in Asks : Arrive(r, a)
                PROVE  AccountsInv' /\ [GovNext]_govVars
    BY <1>1 DEF AccountsNext, Work
  <1>2. req \in [Requests -> Row] /\ req[r] \in Row
    BY DEF AccountsInv, AccountsTypeOK
  <1>3. CASE Commit(r)
    <2>1. req[r].ask \in Asks /\ Do(req[r].ask)
      BY <1>3, CommitIsDo
    <2>2. GovInv'
      BY <2>1, DoKeeps DEF AccountsInv
    <2>3. AccountsTypeOK'
      BY <1>3, <2>2, TypeStep DEF GovInv
    <2>4. Judged' /\ Taken' /\ Provided'
      BY <1>3, CommitStep
    <2>. QED
      BY <2>1, <2>2, <2>3, <2>4 DEF AccountsInv, GovNext
  <1>4. ASSUME UNCHANGED govVars, Judged' /\ Taken' /\ Provided'
        PROVE  AccountsInv' /\ [GovNext]_govVars
    <2>1. GovInv'
      BY <1>4, GovInvAtRest DEF AccountsInv
    <2>2. AccountsTypeOK'
      BY <2>1, TypeStep DEF GovInv
    <2>. QED
      BY <1>4, <2>1, <2>2 DEF AccountsInv
  <1>5. ASSUME NEW a \in Asks, Arrive(r, a) PROVE Judged' /\ Taken' /\ Provided'
    <2> DEFINE rec == IF a.op = "create"
                      THEN [New EXCEPT !.pc = "settled", !.ask = a, !.given = {a.by}]
                      ELSE [New EXCEPT !.pc = IF LocksSpace(a) THEN "waiting" ELSE "locking",
                                       !.ask = a,
                                       !.need = IF LocksSpace(a) THEN {} ELSE Locked(a)]
    <2>1. req' = [req EXCEPT ![r] = rec] /\ UNCHANGED govVars
      BY <1>5 DEF Arrive, Set
    <2>2. rec.ask = a
      BY DEF New
    <2>3. a.op = "create" => rec.pc = "settled" /\ rec.given = {a.by}
      BY DEF New
    <2>4. a.op # "create" => (rec.pc \in {"locking", "settled"} => ~LocksSpace(a) /\ rec.pc = "locking")
      BY DEF New
    <2>5. a.op # "create" /\ ~LocksSpace(a) => rec.need = Locked(a)
      BY DEF New
    <2>6. a.op = "create" => May(a) /\ Locked(a) = {} /\ Evicted(a) = {a.by} /\ Due(a) = {a.by}
      BY DEF May, Locked, Evicted, Due
    <2>7. ~LocksSpace(a) => May(a)
      BY DEF LocksSpace, May
    <2>. HIDE DEF rec
    <2>. QED
      BY <2>1, <2>2, <2>3, <2>4, <2>5, <2>6, <2>7, QuietStep
  <1>6. CASE LockSpace(r)
    <2> DEFINE rec == IF Judge(req[r].ask)
                      THEN [req[r] EXCEPT !.pc = "locking", !.need = Locked(req[r].ask)]
                      ELSE [req[r] EXCEPT !.pc = "done"]
    <2>1. req' = [req EXCEPT ![r] = rec] /\ UNCHANGED govVars
      BY <1>6 DEF LockSpace, Set
    <2>2. /\ rec.ask = req[r].ask
          /\ rec.pc \in {"locking", "settled"} => /\ May(req[r].ask) /\ rec.pc = "locking"
                                                 /\ rec.need = Locked(req[r].ask)
      BY <1>2 DEF Row, Judge
    <2>. HIDE DEF rec
    <2>3. Judged' /\ Taken' /\ Provided'
      BY <2>1, <2>2, QuietStep
    <2>. QED
      BY <1>4, <2>1, <2>3
  <1>7. CASE LockUser(r)
    <2>1. PICK u : req' = [req EXCEPT ![r] = [req[r] EXCEPT !.need = @ \ {u}, !.held = @ \cup {u}]]
      BY <1>7 DEF LockUser, Set
    <2> DEFINE rec == [req[r] EXCEPT !.need = @ \ {u}, !.held = @ \cup {u}]
    <2>2. req' = [req EXCEPT ![r] = rec] /\ UNCHANGED govVars
      BY <1>7, <2>1 DEF LockUser
    <2>3. /\ rec.ask = req[r].ask /\ rec.pc = "locking" /\ req[r].pc = "locking"
          /\ rec.need \cup rec.held = req[r].need \cup req[r].held \cup {u}
      BY <1>2, <1>7 DEF Row, LockUser
    <2>. HIDE DEF rec
    <2>4. \A a \in Asks : rec.ask = a => May(a) /\ Locked(a) \subseteq rec.need \cup rec.held
      BY <2>3 DEF AccountsInv, Judged, Taken, Holding
    <2>5. Judged' /\ Taken' /\ Provided'
      BY <2>2, <2>3, <2>4, QuietStep
    <2>. QED
      BY <1>4, <2>2, <2>5
  <1>8. CASE Settle(r)
    <2> DEFINE rec == [req[r] EXCEPT !.pc = "settled", !.given = Count(req[r].ask)]
    <2>1. req' = [req EXCEPT ![r] = rec] /\ UNCHANGED govVars
      BY <1>8 DEF Settle, Set
    <2>2. /\ rec.ask = req[r].ask /\ req[r].pc = "locking" /\ req[r].need = {}
          /\ rec.held = req[r].held /\ rec.given = Due(req[r].ask) /\ rec.need = {}
      BY <1>2, <1>8 DEF Row, Settle, Count
    <2>. HIDE DEF rec
    <2>3. \A a \in Asks : rec.ask = a => May(a) /\ Locked(a) \subseteq rec.held
      BY <2>2 DEF AccountsInv, Judged, Taken, Holding
    <2>4. \A a \in Asks : rec.ask = a => rec.given \subseteq Evicted(a) /\ Due(a) \subseteq rec.given
      BY <2>2, DueIsEvicted
    <2>5. Judged' /\ Taken' /\ Provided'
      BY <2>1, <2>3, <2>4, QuietStep
    <2>. QED
      BY <1>4, <2>1, <2>5
  <1>9. CASE Abort(r)
    <2> DEFINE rec == [New EXCEPT !.pc = "done", !.ask = req[r].ask]
    <2>1. req' = [req EXCEPT ![r] = rec] /\ UNCHANGED govVars
      BY <1>9 DEF Abort, Set
    <2>2. rec.pc = "done"
      BY DEF New
    <2>. HIDE DEF rec
    <2>3. Judged' /\ Taken' /\ Provided'
      BY <2>1, <2>2, QuietStep
    <2>. QED
      BY <1>4, <2>1, <2>3
  <1>10. CASE \E a \in Asks : Arrive(r, a)
    <2>1. UNCHANGED govVars
      BY <1>10 DEF Arrive
    <2>. QED
      BY <1>4, <1>5, <1>10, <2>1
  <1>. QED
    BY <1>3, <1>6, <1>7, <1>8, <1>9, <1>10

\* However requests overlap, no two hold one lock and the types are kept.
THEOREM AccountsTypeCorrect == AccountsSpec => []AccountsTypeOK
  <1>1. AccountsInv => AccountsTypeOK
    BY DEF AccountsInv
  <1>. QED
    BY <1>1, AccountsInitHolds, AccountsStep, PTL DEF AccountsSpec

\* Overlapping requests are requests at a moment each: what they were judged by
\* before they had their lock plays no part.
THEOREM AccountsSerial == AccountsSpec => Serial
  <1>1. AccountsInit => GovInit
    BY DEF AccountsInit
  <1>. QED
    BY <1>1, AccountsInitHolds, AccountsStep, PTL DEF AccountsSpec, Serial, GovSpec

\* So every workspace has an owner at every moment.
THEOREM AccountsOwned == AccountsSpec => []AlwaysAnOwner
  <1>1. GovInv => AlwaysAnOwner
    BY DEF GovInv
  <1>. QED
    BY <1>1, AccountsSerial, RulesHold, PTL DEF Serial

\* And two deletions that overlap never leave an account without a workspace.
THEOREM NobodyStranded == AccountsSpec => NobodyLosesTheLast
  <1>. QED
    BY AccountsSerial, RulesHold, PTL DEF Serial

-----------------------------------------------------------------------------
(* One default workspace: a finished rescue has housed its account for good. *)

NoneGivenYet == \A r \in Requests : req[r].pc \notin {"settled", "done"} => req[r].given = {}

Housed == \A r \in Requests : req[r].pc = "done" => req[r].given \cap Homeless(role) = {}

RescueInv == NoneGivenYet /\ Housed /\ OneDefault

LEMMA RescueStep ==
    AccountsInv /\ RescueInv /\ [AccountsNext]_accountVars => RescueInv'
  <1>. SUFFICES ASSUME AccountsInv, RescueInv, [AccountsNext]_accountVars PROVE RescueInv'
    OBVIOUS
  <1>1. CASE UNCHANGED accountVars
    BY <1>1 DEF accountVars, RescueInv, NoneGivenYet, Housed, OneDefault, Rescues, Homeless
  <1>. SUFFICES ASSUME NEW r \in Requests,
                       \/ LockSpace(r) \/ LockUser(r) \/ Settle(r) \/ Commit(r) \/ Abort(r)
                       \/ \E a \in Asks : Arrive(r, a)
                PROVE  RescueInv'
    BY <1>1 DEF AccountsNext, Work
  <1>2. req \in [Requests -> Row] /\ req[r] \in Row
    BY DEF AccountsInv, AccountsTypeOK
  <1>3. Homeless(role)' \subseteq Homeless(role)
    <2>1. [KeepsAHome]_role
      BY AccountsStep, GovStep DEF AccountsInv
    <2>2. CASE KeepsAHome
      BY <2>2 DEF KeepsAHome
    <2>3. CASE role' = role
      BY <2>3 DEF Homeless
    <2>. QED
      BY <2>1, <2>2, <2>3
  <1>4. ASSUME NEW rec, req' = [req EXCEPT ![r] = rec], rec.given = {}
        PROVE  RescueInv'
    <2>1. req'[r].given = {} /\ \A q \in Requests \ {r} : req'[q] = req[q]
      BY <1>2, <1>4
    <2>2. NoneGivenYet'
      BY <2>1 DEF RescueInv, NoneGivenYet
    <2>3. Housed'
      BY <1>3, <2>1 DEF RescueInv, Housed
    <2>4. OneDefault'
      BY <2>1 DEF RescueInv, OneDefault, Rescues
    <2>. QED
      BY <2>2, <2>3, <2>4 DEF RescueInv
  <1>5. ASSUME NEW a \in Asks, Arrive(r, a) PROVE RescueInv'
    <2>1. CASE a.op = "create"
      <3>1. req' = [req EXCEPT ![r] = [New EXCEPT !.pc = "settled", !.ask = a, !.given = {a.by}]]
        BY <1>5, <2>1 DEF Arrive, Set
      <3>2. /\ req'[r].pc = "settled" /\ req'[r].ask = a
            /\ \A q \in Requests \ {r} : req'[q] = req[q]
        BY <1>2, <3>1 DEF New
      <3>3. NoneGivenYet' /\ Housed'
        BY <1>3, <3>2 DEF RescueInv, NoneGivenYet, Housed
      <3>4. OneDefault'
        BY <2>1, <3>2 DEF RescueInv, OneDefault, Rescues
      <3>. QED
        BY <3>3, <3>4 DEF RescueInv
    <2>2. CASE a.op # "create"
      <3> DEFINE rec == [New EXCEPT !.pc = IF LocksSpace(a) THEN "waiting" ELSE "locking",
                                    !.ask = a,
                                    !.need = IF LocksSpace(a) THEN {} ELSE Locked(a)]
      <3>1. req' = [req EXCEPT ![r] = rec]
        BY <1>5, <2>2 DEF Arrive, Set
      <3>2. rec.given = {}
        BY DEF New
      <3>. HIDE DEF rec
      <3>. QED
        BY <1>4, <3>1, <3>2
    <2>. QED
      BY <2>1, <2>2
  <1>6. CASE LockSpace(r)
    <2>1. req[r].given = {}
      BY <1>6 DEF LockSpace, RescueInv, NoneGivenYet
    <2> DEFINE rec == IF Judge(req[r].ask)
                      THEN [req[r] EXCEPT !.pc = "locking", !.need = Locked(req[r].ask)]
                      ELSE [req[r] EXCEPT !.pc = "done"]
    <2>2. req' = [req EXCEPT ![r] = rec]
      BY <1>6 DEF LockSpace, Set
    <2>3. rec.given = {}
      BY <1>2, <2>1 DEF Row
    <2>. HIDE DEF rec
    <2>. QED
      BY <1>4, <2>2, <2>3
  <1>7. CASE LockUser(r)
    <2>1. req[r].given = {}
      BY <1>7 DEF LockUser, RescueInv, NoneGivenYet
    <2>2. PICK u : req' = [req EXCEPT ![r] = [req[r] EXCEPT !.need = @ \ {u}, !.held = @ \cup {u}]]
      BY <1>7 DEF LockUser, Set
    <2> DEFINE rec == [req[r] EXCEPT !.need = @ \ {u}, !.held = @ \cup {u}]
    <2>3. req' = [req EXCEPT ![r] = rec] /\ rec.given = {}
      BY <1>2, <2>1, <2>2 DEF Row
    <2>. HIDE DEF rec
    <2>. QED
      BY <1>4, <2>3
  <1>8. CASE Settle(r)
    <2>1. /\ req' = [req EXCEPT ![r] = [req[r] EXCEPT !.pc = "settled", !.given = Count(req[r].ask)]]
          /\ req[r].pc = "locking" /\ req[r].need = {}
      BY <1>8 DEF Settle, Set
    <2>2. /\ req'[r].pc = "settled" /\ req'[r].ask = req[r].ask /\ req'[r].given = Due(req[r].ask)
          /\ \A q \in Requests \ {r} : req'[q] = req[q]
      BY <1>2, <2>1 DEF Row, Count
    <2>3. NoneGivenYet' /\ Housed'
      BY <1>3, <2>2 DEF RescueInv, NoneGivenYet, Housed
    <2>4. ASSUME NEW q \in Requests \ {r}, Rescues(r), Rescues(q)
          PROVE  Due(req[r].ask) \cap req[q].given = {}
      <3>1. PICK a \in Asks : req[r].ask = a /\ a.op = "rescue"
        BY <1>2, <2>4 DEF Rescues, Row
      <3>2. Due(a) \subseteq Homeless(role) /\ Due(a) \subseteq Locked(a)
        BY <3>1 DEF Due, After, Locked
      <3>3. Holding(r, a)
        BY <2>1, <3>1 DEF Holding
      <3>4. Locked(a) \subseteq req[r].held
        BY <2>1, <3>3 DEF AccountsInv, Taken
      <3>5. CASE req[q].pc = "done"
        BY <3>1, <3>2, <3>5 DEF RescueInv, Housed
      <3>6. CASE req[q].pc = "settled"
        <4>1. PICK b \in Asks : req[q].ask = b /\ b.op = "rescue"
          BY <1>2, <2>4 DEF Rescues, Row
        <4>2. req[q].given \subseteq Evicted(b)
          BY <3>6, <4>1 DEF AccountsInv, Provided
        <4>3. Locked(b) \subseteq req[q].held
          BY <3>6, <4>1 DEF AccountsInv, Taken, Holding
        <4>4. Locked(b) = Evicted(b)
          BY <4>1 DEF Locked
        <4>5. req[r].held \cap req[q].held = {}
          BY DEF AccountsInv, AccountsTypeOK
        <4>. QED
          BY <3>1, <3>2, <3>4, <4>2, <4>3, <4>4, <4>5
      <3>7. CASE req[q].pc \notin {"settled", "done"}
        BY <3>7 DEF RescueInv, NoneGivenYet
      <3>. QED
        BY <3>5, <3>6, <3>7
    <2>5. OneDefault'
      BY <2>2, <2>4 DEF RescueInv, OneDefault, Rescues
    <2>. QED
      BY <2>3, <2>5 DEF RescueInv
  <1>9. CASE Commit(r)
    <2>1. /\ req' = [req EXCEPT ![r] = [req[r] EXCEPT !.pc = "done", !.held = {}]]
          /\ Effect(req[r].ask, req[r].given) /\ req[r].pc = "settled"
      BY <1>9 DEF Commit, Set
    <2>2. /\ req'[r].pc = "done" /\ req'[r].ask = req[r].ask /\ req'[r].given = req[r].given
          /\ \A q \in Requests \ {r} : req'[q] = req[q]
      BY <1>2, <2>1 DEF Row
    <2>3. PICK a \in Asks : req[r].ask = a
      BY <1>9, CommitIsDo
    <2>4. May(a) /\ req[r].given \subseteq Evicted(a) /\ GovTypeOK /\ InvitesLive
      BY <2>1, <2>3 DEF AccountsInv, GovInv, Judged, Provided, Holding
    <2>5. \A u \in req[r].given : \E w \in Spaces : role'[w][u] = "owner"
      BY <2>1, <2>3, <2>4, EffectType
    <2>6. req[r].given \cap Homeless(role)' = {}
      BY <2>5 DEF Homeless
    <2>7. Housed'
      BY <1>3, <2>2, <2>6 DEF RescueInv, Housed
    <2>8. NoneGivenYet' /\ OneDefault'
      BY <2>2 DEF RescueInv, NoneGivenYet, OneDefault, Rescues
    <2>. QED
      BY <2>7, <2>8 DEF RescueInv
  <1>10. CASE Abort(r)
    <2> DEFINE rec == [New EXCEPT !.pc = "done", !.ask = req[r].ask]
    <2>1. req' = [req EXCEPT ![r] = rec] /\ rec.given = {}
      BY <1>10 DEF Abort, Set, New
    <2>. HIDE DEF rec
    <2>. QED
      BY <1>4, <2>1
  <1>. QED
    BY <1>5, <1>6, <1>7, <1>8, <1>9, <1>10

\* Parallel rescues of one account make it one workspace.
THEOREM RescuedOnce == AccountsSpec => []OneDefault
  <1>1. AccountsInit => RescueInv
    BY DEF AccountsInit, RescueInv, NoneGivenYet, Housed, OneDefault, Rescues, New
  <1>2. RescueInv => OneDefault
    BY DEF RescueInv
  <1>. QED
    BY <1>1, <1>2, AccountsInitHolds, AccountsStep, RescueStep, PTL DEF AccountsSpec

=============================================================================
