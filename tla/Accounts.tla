------------------------------ MODULE Accounts ------------------------------
(***************************************************************************)
(* The membership requests as the server runs them: a cheap check on what  *)
(* is committed, a wait for the workspace's row lock, the judgement under  *)
(* it, the locks on the accounts that lose the workspace (one at a time,   *)
(* in id order), the count of what they have left, and the commit.  Other  *)
(* requests run between any two of these.                                  *)
(*                                                                         *)
(* READ COMMITTED: a request reads what is committed and its own change.   *)
(* Its change is invisible until Commit, so it is kept as the request.     *)
(* A rename (update_workspace) locks and judges like the others and        *)
(* changes nothing modelled; it is left out.                               *)
(***************************************************************************)
EXTENDS Governance

CONSTANTS Requests, NoAsk

ASSUME AccountConstants == NoAsk \notin Asks

VARIABLE req
accountVars == <<role, space, invite, req>>

\* need, held: accounts still to lock and locked.  given: the accounts that get
\* (after the commit: got) a workspace from it.
New == [pc |-> "new", ask |-> NoAsk, need |-> {}, held |-> {}, given |-> {}]

LocksSpace(a) == a.op \notin {"create", "rescue"}
\* Mutant: locked by the write only.
HoldsOnceSettled(r, w) ==
    req[r].pc = "settled" /\ LocksSpace(req[r].ask) /\ req[r].ask.space = w
HoldsSpace(r, w) ==
    req[r].pc \in {"locking", "settled"} /\ LocksSpace(req[r].ask) /\ req[r].ask.space = w

\* The check before the lock: get_membership, _require_admin, a usable invite,
\* for /me and login no membership at all.
Cheap(a) ==
    CASE a.op \in {"role", "remove"}   -> IsMember(a.space, a.by)
      [] a.op = "delete" -> MayDelete(a)
      [] a.op \in {"invite", "revoke"} -> IsAdmin(a.space, a.by)
      [] a.op = "accept" -> /\ invite[a.inv].is = "open" /\ invite[a.inv].space = a.space
                            /\ invite[a.inv].to \in {a.by, Anyone}
      [] a.op = "rescue" -> a.by \in Homeless(role)
      [] a.op = "create" -> TRUE

\* Judged by the check before the lock alone; no lock on accounts.
Unjudged(a) == Cheap(a)
NoLocks(a) == {}

\* Judged again under the lock, on the state the wait ended with.
Judge(a) == May(a)

\* The accounts whose rows are locked before counting.
Locked(a) == IF a.op \in {"remove", "delete", "rescue"} THEN Evicted(a) ELSE {}

\* The next account to lock.  Mutant: no order.
AnyOf(S) == S
NextOf(S) == {u \in S : \A v \in S : u <= v}

\* The accounts the count finds without a workspace.  Mutant: the unlocked check
\* of /me is trusted.
CheckTrusted(a) == IF a.op = "rescue" THEN {a.by} ELSE Due(a)
Count(a) == Due(a)

Set(r, rec) == req' = [req EXCEPT ![r] = rec]

-----------------------------------------------------------------------------
Arrive(r, a) ==
    /\ req[r].pc = "new" /\ Cheap(a)
    /\ Set(r, IF a.op = "create"
              THEN [New EXCEPT !.pc = "settled", !.ask = a, !.given = {a.by}]
              ELSE [New EXCEPT !.pc = IF LocksSpace(a) THEN "waiting" ELSE "locking",
                               !.ask = a,
                               !.need = IF LocksSpace(a) THEN {} ELSE Locked(a)])
    /\ UNCHANGED govVars

\* The workspace's row lock is granted (lock_workspace); a refusal ends the request.
LockSpace(r) ==
    LET a == req[r].ask IN
    /\ req[r].pc = "waiting"
    /\ \A q \in Requests : ~HoldsSpace(q, a.space)
    /\ Set(r, IF Judge(a) THEN [req[r] EXCEPT !.pc = "locking", !.need = Locked(a)]
                          ELSE [req[r] EXCEPT !.pc = "done"])
    /\ UNCHANGED govVars

LockUser(r) ==
    /\ req[r].pc = "locking"
    /\ \E u \in NextOf(req[r].need) :
         /\ \A q \in Requests : u \notin req[q].held
         /\ Set(r, [req[r] EXCEPT !.need = @ \ {u}, !.held = @ \cup {u}])
    /\ UNCHANGED govVars

\* rescue_if_workspaceless for each of them.
Settle(r) ==
    /\ req[r].pc = "locking" /\ req[r].need = {}
    /\ Set(r, [req[r] EXCEPT !.pc = "settled", !.given = Count(req[r].ask)])
    /\ UNCHANGED govVars

\* The transaction commits and its locks are free.
Commit(r) ==
    /\ req[r].pc = "settled"
    /\ Effect(req[r].ask, req[r].given)
    /\ Set(r, [req[r] EXCEPT !.pc = "done", !.held = {}])

\* Lock timeout (15 s), lost database connection, server stopped: rolled back.
Abort(r) ==
    /\ req[r].pc \in {"waiting", "locking", "settled"}
    /\ Set(r, [New EXCEPT !.pc = "done", !.ask = req[r].ask])
    /\ UNCHANGED govVars

-----------------------------------------------------------------------------
AccountsInit == GovInit /\ req = [r \in Requests |-> New]

Work(r) == LockSpace(r) \/ LockUser(r) \/ Settle(r) \/ Commit(r)

AccountsNext ==
    \E r \in Requests : Work(r) \/ Abort(r) \/ \E a \in Asks : Arrive(r, a)

AccountsSpec == AccountsInit /\ [][AccountsNext]_accountVars

\* PostgreSQL grants a free lock to a waiter, and a granted request runs on.
AccountsFairness == WF_accountVars(\E r \in Requests : Work(r))

-----------------------------------------------------------------------------
\* Types, and that no two requests hold one lock.
Row == [pc : {"new", "waiting", "locking", "settled", "done"}, ask : Asks \cup {NoAsk},
        need : SUBSET Users, held : SUBSET Users, given : SUBSET Users]
AccountsTypeOK ==
    /\ GovTypeOK
    /\ req \in [Requests -> Row]
    /\ \A r \in Requests : req[r].ask = NoAsk => req[r].pc = "new"
    /\ \A r, q \in Requests : r # q =>
         /\ req[r].held \cap req[q].held = {}
         /\ \A w \in Spaces : ~(HoldsSpace(r, w) /\ HoldsSpace(q, w))

\* Each request takes effect as if it ran alone at the moment it commits: the
\* right it was judged by still holds then, so nobody acts on a rank already
\* lost, joins by a revoked invite, or is stranded by two deletions at once.
Serial == GovSpec

Rescues(r) == req[r].ask # NoAsk /\ req[r].ask.op = "rescue"

\* /me and login of a workspaceless account, asked in parallel by its devices,
\* make one workspace between them.
OneDefault ==
    \A r, q \in Requests :
        r # q /\ Rescues(r) /\ Rescues(q)
        => req[r].given \cap req[q].given = {}

\* In the end no request is under way, without help from the lock timeout:
\* requests never wait for each other in a circle.
RequestsEnd == <>[](\A r \in Requests : req[r].pc \in {"new", "done"})
=============================================================================
