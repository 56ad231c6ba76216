------------------------------ MODULE MCFaults ------------------------------
(***************************************************************************)
(* bob's device under faults at any step.  While bob is at home in the     *)
(* workspace there are two faults, storage may refuse writes and the app   *)
(* may start offline.  Once he is not (a viewer, removed, back again, or   *)
(* the workspace gone), the bounds are those of a loss.                    *)
(***************************************************************************)
EXTENDS MCClient

\* The workspace's second version is bob's membership, and its last one.
AtHome ==
    /\ alive
    /\ \A v \in DOMAIN ledger : ledger[v].cmd = NoCmd <=> v <= 2
    /\ bob \in DOMAIN rows => rows[bob].content = "member"

\* While a request nobody waits for is still out, the second fault is a kill.
Killed == up = "up" /\ up' = "down"
StrayThenKill ==
    faults = 1 /\ faults' = 2 /\ (\E s \in Slots : req[s].pc # "free" /\ s \notin lane.slots) => Killed

\* Only the add is made, a role stays what it is, and an invitation is accepted
\* while the app is closed.
OneRole ==
    /\ made' \subseteq {add} /\ other \notin synced'
    /\ bob \in DOMAIN rows' => rows'[bob].content \in {"member", "viewer"}
    /\ bob \in DOMAIN rows /\ bob \in DOMAIN rows' => rows'[bob].content = rows[bob].content
    /\ up = "up" /\ IsMember(bob)' => IsMember(bob)

\* The workspace goes in the place of bob's removal, not after it.
GoneOrRemoved ==
    alive /\ ~alive' => bob \in DOMAIN rows /\ ~rows[bob].is_deleted /\ rows[bob].version = 2

\* At most one fault comes before a loss, or one after it outside a start's purge.
FaultsOfLoss ==
    /\ AtHome => faults < 2
    /\ faults' = 2 /\ faults = 1 => Purging

\* A start from the cache finds no notice.
CacheHasNoNotice == up = "down" /\ up' = "up" => disk'.lossNotice = 0

Bounds ==
    IF AtHome' THEN StrayThenKill
    ELSE OneRole /\ GoneOrRemoved /\ FaultsOfLoss /\ CacheHasNoNotice
=============================================================================
