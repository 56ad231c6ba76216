----------------------------- MODULE MCEndpoint -----------------------------
(***************************************************************************)
(* Two small instances of the sync endpoint in one run; which one is       *)
(* chosen at the start.  "commands" sends batches of two; "delivery" sends *)
(* one command at a time under tokens that are behind, lets a delete meet  *)
(* the add it undoes, and lets more happen to the memberships.             *)
(***************************************************************************)
EXTENDS MCServer

VARIABLE part

\* What a part's requests carry, how many commands, under which tokens, and
\* the version its membership changes stop at.
Sends == IF part = "commands" THEN {add, upd} ELSE {add, del}
Length == IF part = "commands" THEN MaxBatch ELSE 1
Tokens == IF part = "commands" THEN {Star, version} ELSE {Star, version, version - Lag}
Until == IF part = "commands" THEN 2 ELSE MaxVersion

SendOne(s) ==
    /\ req[s].pc = "free"
    /\ \E u \in Users :
           \E cs \in {b \in Batches(u) : Len(b) <= Length /\ \A n \in DOMAIN b : b[n].uuid \in Sends},
              tok \in Tokens :
               Send(s, u, cs, tok)
    /\ UNCHANGED <<alive, version, rows, synced, temps, ledger>>

EndpointInit == Init /\ part \in {"commands", "delivery"}

EndpointNext ==
    /\ \/ \E s \in Slots : SendOne(s) \/ Serve(s) \/ Unavailable(s) \/ Release(s)
       \/ \E u \in Users, role \in Roles :
              version < Until /\ (AcceptInvite(u, role) \/ ChangeRole(u, role))
       \/ \E u \in Users : version < Until /\ RemoveMember(u)
       \/ DeleteWorkspace
    /\ UNCHANGED part

EndpointSpec == EndpointInit /\ [][EndpointNext]_<<serverVars, part>>

=============================================================================
