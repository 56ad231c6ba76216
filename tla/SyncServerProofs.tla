-------------------------- MODULE SyncServerProofs --------------------------
(***************************************************************************)
(* Theorems about the sync endpoint, for every number of users, commands,  *)
(* tables and concurrent requests:                                         *)
(*                                                                         *)
(*   TypeCorrect      the type invariant                                   *)
(*   CommandsOnce     a command uuid takes effect at most once             *)
(*   OkStandsForever  a reported "ok" stays true                           *)
(*   EndpointImplements    together the requests are SharedWorkspace       *)
(*   DeliveredAtLeastOnce  no change falls between two tokens              *)
(*                                                                         *)
(* Every theorem rests on the same two lemmas: StepKinds, that a step      *)
(* either leaves the workspace alone, commits one permitted command,       *)
(* stamps a membership, or deletes the workspace; and Typed, the inductive *)
(* invariant.                                                              *)
(***************************************************************************)
EXTENDS SyncServer, TLAPS

-----------------------------------------------------------------------------
(* The inductive invariant *)

\* A request only waits for the lock at a command it has.
AtTheLock == \A s \in Slots : req[s].pc = "lock" => AtCommand(s)

\* A member row holds a role: no command ever writes one.
MemberRows == \A u \in Users \cap DOMAIN rows : rows[u].content \in Roles

Typed == TypeOK /\ AtTheLock /\ MemberRows

DataTypeOK ==
    /\ alive \in BOOLEAN
    /\ version \in Nat
    /\ DOMAIN rows \subseteq Ids
    /\ \A id \in DOMAIN rows : rows[id] \in Row
    /\ synced \subseteq Cmds
    /\ DOMAIN temps \subseteq Adds
    /\ \A t \in DOMAIN temps : temps[t] \in Nat
    /\ ledger \in Seq(Change)

\* What a request step leaves alone.
Quiet == UNCHANGED <<alive, version, rows, synced, temps, ledger>>

\* User u's command c takes effect.
Commits(u, c) == alive /\ Verdict(u, c) = "ok" /\ ~Logged(c) /\ Commit(u, c)

\* The three ways a membership changes, as one.
Stamps == \E u \in Users, role \in Roles, removed \in BOOLEAN : StampMember(u, role, removed)

-----------------------------------------------------------------------------
(* Requests *)

LEMMA StatusPut ==
    ASSUME NEW st \in Statuses, NEW c \in Cmds, NEW v \in Verdicts
    PROVE  Put(st, c, v) \in Statuses
<1>1. PICK S \in SUBSET Cmds : st \in [S -> Verdicts] BY DEF Statuses
<1>2. Put(st, c, v) \in [S \cup {c} -> Verdicts] BY <1>1 DEF Put
<1>3. QED BY <1>2 DEF Statuses

LEMMA FreeRequest == Free \in Request
<1>1. <<>> \in [{} -> Verdicts] OBVIOUS
<1>2. <<>> \in Statuses BY <1>1 DEF Statuses
<1>3. <<>> \in Seq(Command) OBVIOUS
<1>4. Owner \in Users BY ServerConstants
<1>5. QED BY <1>2, <1>3, <1>4 DEF Free, Request, Roles

LEMMA CurrentCommand ==
    ASSUME TypeOK, NEW s \in Slots, AtCommand(s)
    PROVE  Current(s) \in Command /\ Current(s).uuid \in Cmds
<1>1. req[s].cmds \in Seq(Command) BY DEF TypeOK, Request
<1>2. Current(s) \in Command BY <1>1 DEF Current, AtCommand
<1>3. QED BY <1>2 DEF Command

\* A step that only moves the request in slot s.
LEMMA SetRequest ==
    ASSUME TypeOK, NEW s \in Slots, NEW r \in Request, req' = [req EXCEPT ![s] = r],
           r.pc = "lock" => r.i \in DOMAIN r.cmds, AtTheLock
    PROVE  req' \in [Slots -> Request] /\ AtTheLock'
BY DEF TypeOK, AtTheLock, AtCommand

LEMMA ReportType ==
    ASSUME TypeOK, AtTheLock, NEW s \in Slots, AtCommand(s), NEW v \in Verdicts, Report(s, v)
    PROVE  req' \in [Slots -> Request] /\ AtTheLock'
<1> DEFINE st == Put(req[s].status, Current(s).uuid, v)
           r  == [req[s] EXCEPT !.pc = "command", !.i = req[s].i + 1, !.status = st]
<1>1. req[s] \in Request /\ req[s].status \in Statuses /\ req[s].i \in Nat BY DEF TypeOK, Request
<1>2. st \in Statuses BY <1>1, CurrentCommand, StatusPut
<1>3. r \in Request /\ r.pc = "command"
  <2>1. req[s].i + 1 \in Nat BY <1>1
  <2>2. ASSUME NEW i \in Nat, NEW x \in Statuses
        PROVE  /\ [req[s] EXCEPT !.pc = "command", !.i = i, !.status = x] \in Request
               /\ [req[s] EXCEPT !.pc = "command", !.i = i, !.status = x].pc = "command"
      BY <1>1 DEF Request
  <2>3. QED BY <1>2, <2>1, <2>2
<1>4. req' = [req EXCEPT ![s] = r] BY DEF Report, TypeOK
<1>5. QED BY <1>3, <1>4, SetRequest

LEMMA SendAnyType ==
    ASSUME Typed, NEW s \in Slots, SendAny(s)
    PROVE  req' \in [Slots -> Request] /\ AtTheLock'
<1>1. PICK u \in Users, tok \in (0..version) \cup {Star} : \E cs \in Batches(u) : Send(s, u, cs, tok)
    BY DEF SendAny
<1> PICK cs \in Batches(u) : Send(s, u, cs, tok) BY <1>1
<1>2. \A c \in Cmds : Forms(c) \subseteq Command
    BY ServerConstants DEF Forms, Command, Typed, TypeOK
<1>3. cs \in Seq(Command)
  <2>1. PICK n \in 0..MaxBatch : cs \in [1..n -> UNION {Forms(c) : c \in {x \in Cmds : By[x] = u}}]
      BY <1>1 DEF Batches
  <2>2. cs \in [1..n -> Command] BY <2>1, <1>2
  <2>3. n \in Nat BY ServerConstants
  <2>4. QED BY <2>2, <2>3
<1>4. tok \in Nat \cup {Star} BY DEF Typed, TypeOK
<1> DEFINE r == [Free EXCEPT !.pc = "sent", !.user = u, !.cmds = cs, !.token = tok]
<1>5. r \in Request /\ r.pc = "sent" BY <1>3, <1>4, FreeRequest DEF Request
<1>6. QED BY <1>5, SetRequest DEF Send, Typed

LEMMA AdmitType ==
    ASSUME Typed, NEW s \in Slots, Admit(s)
    PROVE  req' \in [Slots -> Request] /\ AtTheLock'
<1>1. req[s] \in Request /\ req[s].user \in Users BY DEF Typed, TypeOK, Request
<1>2. IsMember(req[s].user) => rows[req[s].user].content \in Roles
    BY <1>1 DEF Typed, MemberRows, IsMember
<1>3. ASSUME NEW code \in {"not_found", "forbidden"}
      PROVE  /\ [req[s] EXCEPT !.pc = "done", !.code = code] \in Request
             /\ [req[s] EXCEPT !.pc = "done", !.code = code].pc = "done"
    BY <1>1 DEF Request
<1>4. ASSUME NEW x \in Roles
      PROVE  /\ [req[s] EXCEPT !.pc = "command", !.role = x] \in Request
             /\ [req[s] EXCEPT !.pc = "command", !.role = x].pc = "command"
    BY <1>1 DEF Request
<1>5. CASE req' = [req EXCEPT ![s].pc = "done", ![s].code = "not_found"]
    BY <1>5, <1>3, SetRequest DEF Typed, TypeOK
<1>6. CASE req' = [req EXCEPT ![s].pc = "done", ![s].code = "forbidden"]
    BY <1>6, <1>3, SetRequest DEF Typed, TypeOK
<1>7. CASE IsMember(req[s].user) /\ req' = [req EXCEPT ![s].pc = "command", ![s].role = rows[req[s].user].content]
    BY <1>7, <1>2, <1>4, SetRequest DEF Typed, TypeOK
<1>8. QED BY <1>5, <1>6, <1>7 DEF Admit

LEMMA CheckLogType ==
    ASSUME Typed, NEW s \in Slots, CheckLog(s)
    PROVE  req' \in [Slots -> Request] /\ AtTheLock'
<1>1. CASE Report(s, "ok") BY <1>1, ReportType DEF CheckLog, Typed, Verdicts
<1>2. CASE req' = [req EXCEPT ![s].pc = "lock"]
  <2> DEFINE r == [req[s] EXCEPT !.pc = "lock"]
  <2>1. r \in Request /\ r.i \in DOMAIN r.cmds
      BY DEF Typed, TypeOK, Request, CheckLog, AtCommand
  <2>2. QED BY <1>2, <2>1, SetRequest DEF Typed, TypeOK
<1>3. QED BY <1>1, <1>2 DEF CheckLog

LEMMA UnavailableType ==
    ASSUME Typed, NEW s \in Slots, Unavailable(s)
    PROVE  req' \in [Slots -> Request] /\ AtTheLock'
<1> DEFINE r == [Free EXCEPT !.pc = "done", !.code = "unavailable"]
<1>1. r \in Request /\ r.pc = "done" BY FreeRequest DEF Request
<1>2. QED BY <1>1, SetRequest DEF Unavailable, Typed

LEMMA ReadVersionType ==
    ASSUME Typed, NEW s \in Slots, ReadVersion(s)
    PROVE  req' \in [Slots -> Request] /\ AtTheLock'
<1>1. req[s] \in Request BY DEF Typed, TypeOK
<1>2. ASSUME NEW v \in Nat
      PROVE  /\ [req[s] EXCEPT !.pc = "collect", !.upper = v] \in Request
             /\ [req[s] EXCEPT !.pc = "collect", !.upper = v].pc = "collect"
    BY <1>1 DEF Request
<1> DEFINE v == IF alive THEN version ELSE 0
           r == [req[s] EXCEPT !.pc = "collect", !.upper = v]
<1>3. v \in Nat BY DEF Typed, TypeOK
<1>4. r \in Request /\ r.pc = "collect" BY <1>2, <1>3
<1>5. req' = [req EXCEPT ![s] = r] BY DEF ReadVersion, Typed, TypeOK
<1>6. QED BY <1>4, <1>5, SetRequest DEF Typed

LEMMA CollectType ==
    ASSUME Typed, NEW s \in Slots, Collect(s)
    PROVE  req' \in [Slots -> Request] /\ AtTheLock'
<1> DEFINE g  == Fetch(AllTables[req[s].k], req[s].token, req[s].upper)
           pc == IF req[s].k = Len(AllTables) THEN "done" ELSE "collect"
           r  == [req[s] EXCEPT !.got = req[s].got \cup g, !.k = req[s].k + 1, !.pc = pc]
<1>1. req[s] \in Request BY DEF Typed, TypeOK
<1>2. g \in SUBSET Copy BY DEF Fetch, Copy, Typed, TypeOK
<1>3. req[s].k + 1 \in Nat /\ (req[s].got \cup g) \in SUBSET Copy BY <1>1, <1>2 DEF Request
<1>4. ASSUME NEW k \in Nat, NEW got \in SUBSET Copy, NEW p \in {"collect", "done"}
      PROVE  /\ [req[s] EXCEPT !.got = got, !.k = k, !.pc = p] \in Request
             /\ [req[s] EXCEPT !.got = got, !.k = k, !.pc = p].pc = p
    BY <1>1 DEF Request
<1>5. r \in Request /\ r.pc # "lock" BY <1>3, <1>4
<1>6. req' = [req EXCEPT ![s] = r] BY DEF Collect, Typed, TypeOK
<1>7. QED BY <1>5, <1>6, SetRequest DEF Typed

LEMMA ReleaseType ==
    ASSUME Typed, NEW s \in Slots, Release(s)
    PROVE  req' \in [Slots -> Request] /\ AtTheLock'
<1>1. Free.pc = "free" BY DEF Free
<1>2. QED BY <1>1, FreeRequest, SetRequest DEF Release, Typed

-----------------------------------------------------------------------------
(* The workspace *)

LEMMA PutRow ==
    ASSUME Typed, NEW id \in Ids, NEW r \in Row, rows' = Put(rows, id, r)
    PROVE  DOMAIN rows' \subseteq Ids /\ \A x \in DOMAIN rows' : rows'[x] \in Row
BY DEF Typed, TypeOK, Put

\* A command never writes a member row: what it names is no user.
LEMMA NoUserNamed ==
    ASSUME Typed, NEW c \in Command
    PROVE  /\ Resolve(c.ref) \in Nat \cup Adds
           /\ Resolve(c.ref) \notin Users
           /\ Resolve(c.ref) \in DOMAIN rows => Resolve(c.ref) \in Nat
<1>1. Resolve(c.ref) \in Nat \cup Adds BY DEF Resolve, Command, Typed, TypeOK
<1>2. QED BY <1>1, ServerConstants DEF Typed, TypeOK, Ids

LEMMA CommitType ==
    ASSUME Typed, NEW u \in Users, NEW c \in Command, Commits(u, c)
    PROVE  DataTypeOK' /\ MemberRows'
<1> DEFINE v  == version + 1
           id == IF c.uuid \in Adds THEN v ELSE Resolve(c.ref)
           r  == [table      |-> IF c.uuid \in Adds THEN TableOf[c.uuid] ELSE rows[id].table,
                  version    |-> v,
                  is_deleted |-> c.uuid \in Deletes,
                  content    |-> c.uuid]
<1>1. c.uuid \in Cmds /\ v \in Nat BY DEF Command, Typed, TypeOK
<1>2. c.uuid \notin Adds => id \in DOMAIN rows
    BY DEF Commits, Verdict, IsLive
<1>3. id \in Nat BY <1>1, <1>2, NoUserNamed
<1>4. r.table \in {Tables[k] : k \in DOMAIN Tables} \cup {"members"}
    BY <1>1, <1>2, ServerConstants DEF Typed, TypeOK, Row
<1>5. r \in Row BY <1>1, <1>4 DEF Row, Contents
<1>6. rows' = Put(rows, id, r) BY DEF Commits, Commit
<1>7. DOMAIN rows' \subseteq Ids /\ \A x \in DOMAIN rows' : rows'[x] \in Row
    BY <1>3, <1>5, <1>6, PutRow DEF Ids
<1>8. MemberRows' BY <1>3, <1>6, ServerConstants DEF Put, Typed, MemberRows
<1>9. DOMAIN temps' \subseteq Adds /\ \A t \in DOMAIN temps' : temps'[t] \in Nat
    BY <1>1, <1>3 DEF Commits, Commit, Bind, Put, Typed, TypeOK
<1>10. ledger' \in Seq(Change)
  <2>1. [cmd |-> c.uuid, id |-> id, user |-> u] \in Change BY <1>1, <1>3 DEF Change, Ids
  <2>2. QED BY <2>1 DEF Commits, Commit, Typed, TypeOK
<1>11. alive' \in BOOLEAN /\ version' \in Nat /\ synced' \subseteq Cmds
    BY <1>1 DEF Commits, Commit, Typed, TypeOK
<1>12. QED BY <1>7, <1>8, <1>9, <1>10, <1>11 DEF DataTypeOK

LEMMA StampType ==
    ASSUME Typed, NEW u \in Users, NEW role \in Roles, NEW removed \in BOOLEAN,
           StampMember(u, role, removed)
    PROVE  DataTypeOK' /\ MemberRows' /\ UNCHANGED req
<1> DEFINE r == [table |-> "members", version |-> version + 1,
                 is_deleted |-> removed, content |-> role]
<1>1. version + 1 \in Nat BY DEF Typed, TypeOK
<1>2. r \in Row /\ u \in Ids BY <1>1 DEF Row, Contents, Ids
<1>3. rows' = Put(rows, u, r) BY DEF StampMember
<1>4. DOMAIN rows' \subseteq Ids /\ \A x \in DOMAIN rows' : rows'[x] \in Row
    BY <1>2, <1>3, PutRow
<1>5. MemberRows' BY <1>3 DEF Put, Typed, MemberRows
<1>6. ledger' \in Seq(Change)
  <2>1. [cmd |-> NoCmd, id |-> u, user |-> Owner] \in Change BY ServerConstants DEF Change, Ids
  <2>2. QED BY <2>1 DEF StampMember, Typed, TypeOK
<1>7. QED BY <1>1, <1>4, <1>5, <1>6 DEF StampMember, DataTypeOK, Typed, TypeOK

LEMMA DeleteType ==
    ASSUME Typed, DeleteWorkspace
    PROVE  DataTypeOK' /\ MemberRows' /\ UNCHANGED req
<1>1. DOMAIN <<>> = {} OBVIOUS
<1>2. QED BY <1>1 DEF DeleteWorkspace, DataTypeOK, MemberRows, Typed, TypeOK

-----------------------------------------------------------------------------
(* Steps *)

LEMMA ApplyStep ==
    ASSUME Typed, NEW s \in Slots, Apply(s)
    PROVE  /\ req' \in [Slots -> Request] /\ AtTheLock'
           /\ Current(s) \in Command /\ req[s].user \in Users
           /\ Quiet \/ Commits(req[s].user, Current(s))
<1>1. AtCommand(s) BY DEF Apply, Typed, AtTheLock
<1>2. Current(s) \in Command BY <1>1, CurrentCommand DEF Typed
<1>3. req[s].user \in Users BY DEF Typed, TypeOK, Request
<1> DEFINE v == Verdict(req[s].user, Current(s))
<1>4. v \in Verdicts BY DEF Verdict, Verdicts
<1>5. req' \in [Slots -> Request] /\ AtTheLock' BY <1>1, <1>4, ReportType DEF Apply, Typed
<1>6. v = "ok" => alive BY DEF Verdict
<1>7. Quiet \/ Commits(req[s].user, Current(s)) BY <1>6 DEF Apply, Quiet, Commits
<1>8. QED BY <1>2, <1>3, <1>5, <1>7

LEMMA RefuseViewerType ==
    ASSUME Typed, NEW s \in Slots, RefuseViewer(s)
    PROVE  req' \in [Slots -> Request] /\ AtTheLock'
<1>1. AtCommand(s) BY DEF RefuseViewer, Typed, AtTheLock
<1>2. QED BY <1>1, ReportType DEF RefuseViewer, Typed, Verdicts

LEMMA MembershipStep ==
    ASSUME NEW u \in Users, NEW role \in Roles, Typed,
           AcceptInvite(u, role) \/ ChangeRole(u, role) \/ RemoveMember(u)
    PROVE  Stamps
<1>1. RemoveMember(u) => rows[u].content \in Roles BY DEF RemoveMember, IsMember, Typed, MemberRows
<1>2. QED BY <1>1 DEF AcceptInvite, ChangeRole, RemoveMember, Stamps

\* What a step can do to the workspace: nothing, one permitted command, one
\* membership change, or the end of it.
LEMMA StepKinds ==
    ASSUME Typed, Next
    PROVE  \/ Quiet
           \/ \E s \in Slots : Apply(s) /\ Commits(req[s].user, Current(s))
           \/ Stamps
           \/ DeleteWorkspace
<1>1. ASSUME NEW s \in Slots, SendAny(s) \/ Serve(s) \/ Unavailable(s) \/ Release(s)
      PROVE  Quiet \/ (Apply(s) /\ Commits(req[s].user, Current(s)))
  <2>1. CASE Apply(s) BY <2>1, ApplyStep
  <2>2. SendAny(s) => Quiet BY DEF SendAny, Quiet
  <2>3. Unavailable(s) \/ Release(s) => Quiet BY DEF Unavailable, Release, Quiet
  <2>4. Admit(s) \/ CheckLog(s) \/ RefuseViewer(s) => Quiet BY DEF Admit, CheckLog, RefuseViewer, Quiet
  <2>5. ReadVersion(s) \/ Collect(s) => Quiet BY DEF ReadVersion, Collect, Quiet
  <2>6. QED BY <1>1, <2>1, <2>2, <2>3, <2>4, <2>5 DEF Serve
<1>2. ASSUME NEW u \in Users, NEW role \in Roles, AcceptInvite(u, role) \/ ChangeRole(u, role)
      PROVE  Stamps
    BY <1>2, MembershipStep
<1>3. ASSUME NEW u \in Users, RemoveMember(u)
      PROVE  Stamps
    BY <1>3, MembershipStep DEF Roles
<1>4. QED BY <1>1, <1>2, <1>3 DEF Next

LEMMA TypedInit == Init => Typed
<1> SUFFICES ASSUME Init PROVE Typed OBVIOUS
<1>1. DOMAIN <<>> = {} OBVIOUS
<1>2. Owner \in Users BY ServerConstants
<1>3. rows = [u \in {Owner} |-> [table |-> "members", version |-> 1,
                                 is_deleted |-> FALSE, content |-> "member"]] BY DEF Init
<1>4. DOMAIN rows \subseteq Ids /\ \A id \in DOMAIN rows : rows[id] \in Row
    BY <1>2, <1>3 DEF Ids, Row, Contents, Roles
<1>5. ledger \in Seq(Change)
  <2>1. [cmd |-> NoCmd, id |-> Owner, user |-> Owner] \in Change BY <1>2 DEF Change, Ids
  <2>2. QED BY <2>1 DEF Init
<1>6. req \in [Slots -> Request] /\ AtTheLock
    BY FreeRequest DEF Init, AtTheLock, Free
<1>7. MemberRows BY <1>3 DEF MemberRows, Roles
<1>8. QED BY <1>1, <1>4, <1>5, <1>6, <1>7 DEF Init, Typed, TypeOK

LEMMA TypedStep == Typed /\ [Next]_serverVars => Typed'
<1> SUFFICES ASSUME Typed, [Next]_serverVars PROVE Typed' OBVIOUS
<1>1. ASSUME Quiet PROVE DataTypeOK' /\ MemberRows'
    BY <1>1 DEF Quiet, DataTypeOK, MemberRows, Typed, TypeOK
<1>2. ASSUME DataTypeOK', MemberRows', req' \in [Slots -> Request], AtTheLock' PROVE Typed'
    BY <1>2 DEF DataTypeOK, Typed, TypeOK
<1>3. ASSUME UNCHANGED req PROVE req' \in [Slots -> Request] /\ AtTheLock'
    BY <1>3 DEF Typed, TypeOK, AtTheLock, AtCommand
<1>4. ASSUME NEW s \in Slots, SendAny(s) PROVE Typed'
    BY <1>1, <1>2, <1>4, SendAnyType DEF SendAny, Quiet
<1>5. ASSUME NEW s \in Slots, Serve(s) PROVE Typed'
  <2>1. CASE Admit(s) BY <1>1, <1>2, <2>1, AdmitType DEF Admit, Quiet
  <2>2. CASE CheckLog(s) BY <1>1, <1>2, <2>2, CheckLogType DEF CheckLog, Quiet
  <2>3. CASE RefuseViewer(s) BY <1>1, <1>2, <2>3, RefuseViewerType DEF RefuseViewer, Quiet
  <2>4. CASE Apply(s) BY <1>1, <1>2, <2>4, ApplyStep, CommitType
  <2>5. CASE ReadVersion(s) BY <1>1, <1>2, <2>5, ReadVersionType DEF ReadVersion, Quiet
  <2>6. CASE Collect(s) BY <1>1, <1>2, <2>6, CollectType DEF Collect, Quiet
  <2>7. QED BY <1>5, <2>1, <2>2, <2>3, <2>4, <2>5, <2>6 DEF Serve
<1>6. ASSUME NEW s \in Slots, Unavailable(s) PROVE Typed'
    BY <1>1, <1>2, <1>6, UnavailableType DEF Unavailable, Quiet
<1>7. ASSUME NEW s \in Slots, Release(s) PROVE Typed'
    BY <1>1, <1>2, <1>7, ReleaseType DEF Release, Quiet
<1>8. ASSUME Stamps PROVE Typed'
    BY <1>2, <1>3, <1>8, StampType DEF Stamps
<1>9. CASE DeleteWorkspace BY <1>2, <1>3, <1>9, DeleteType
<1>10. CASE UNCHANGED serverVars BY <1>1, <1>2, <1>3, <1>10 DEF serverVars, Quiet
<1>11. ASSUME NEW u \in Users, NEW role \in Roles, AcceptInvite(u, role) \/ ChangeRole(u, role)
       PROVE  Typed'
    BY <1>8, <1>11, MembershipStep
<1>12. ASSUME NEW u \in Users, RemoveMember(u) PROVE Typed'
    BY <1>8, <1>12, MembershipStep DEF Roles
<1>13. QED BY <1>4, <1>5, <1>6, <1>7, <1>9, <1>10, <1>11, <1>12 DEF Next

\* Every reachable state of the endpoint is well typed: rows, log, temp_id map
\* and each request in flight.
THEOREM TypeCorrect == Spec => []TypeOK
<1>1. Typed => TypeOK BY DEF Typed
<1>2. QED BY <1>1, TypedInit, TypedStep, PTL DEF Spec

-----------------------------------------------------------------------------
(* At most once *)

\* While the workspace exists its log forgets no command that made a version.
LogKept == alive => \A v \in DOMAIN ledger : ledger[v].cmd \in Cmds => ledger[v].cmd \in synced

Once == Typed /\ LogKept /\ ExactlyOnce

LEMMA OnceStep == Once /\ [Next]_serverVars => Once'
<1> SUFFICES ASSUME Once, [Next]_serverVars PROVE Once' OBVIOUS
<1>1. Typed' BY TypedStep DEF Once
<1>2. CASE Quiet \/ DeleteWorkspace
    BY <1>1, <1>2 DEF Quiet, DeleteWorkspace, Once, LogKept, ExactlyOnce
<1>3. ASSUME NEW u \in Users, NEW c \in Command, Commits(u, c) PROVE Once'
  <2>1. c.uuid \in Cmds /\ c.uuid # NoCmd BY ServerConstants DEF Command
  <2>2. \A v \in DOMAIN ledger : ledger[v].cmd # c.uuid
      BY <1>3, <2>1 DEF Once, LogKept, Commits, Logged
  <2>3. PICK e : e.cmd = c.uuid /\ ledger' = Append(ledger, e) BY <1>3 DEF Commits, Commit
  <2>4. ledger \in Seq(Change) BY DEF Once, Typed, TypeOK
  <2>5. /\ DOMAIN ledger' = DOMAIN ledger \cup {Len(ledger) + 1}
        /\ \A v \in DOMAIN ledger : ledger'[v] = ledger[v]
        /\ ledger'[Len(ledger) + 1] = e
      BY <2>3, <2>4
  <2>6. ExactlyOnce' BY <2>2, <2>3, <2>5 DEF Once, ExactlyOnce
  <2>7. LogKept' BY <1>3, <2>3, <2>5 DEF Once, LogKept, Commits, Commit
  <2>8. QED BY <1>1, <2>6, <2>7 DEF Once
<1>4. ASSUME NEW u \in Users, NEW role \in Roles, NEW removed \in BOOLEAN,
             StampMember(u, role, removed)
      PROVE  Once'
  <2>1. PICK e : e.cmd = NoCmd /\ ledger' = Append(ledger, e) BY <1>4 DEF StampMember
  <2>2. ledger \in Seq(Change) BY DEF Once, Typed, TypeOK
  <2>3. /\ DOMAIN ledger' = DOMAIN ledger \cup {Len(ledger) + 1}
        /\ \A v \in DOMAIN ledger : ledger'[v] = ledger[v]
        /\ ledger'[Len(ledger) + 1] = e
      BY <2>1, <2>2
  <2>4. ExactlyOnce' BY <2>1, <2>3 DEF Once, ExactlyOnce
  <2>5. LogKept' BY <1>4, <2>1, <2>3, ServerConstants DEF Once, LogKept, StampMember
  <2>6. QED BY <1>1, <2>4, <2>5 DEF Once
<1>5. CASE UNCHANGED serverVars BY <1>2, <1>5 DEF serverVars, Quiet
<1>6. QED BY <1>2, <1>3, <1>4, <1>5, StepKinds, ApplyStep DEF Once, Stamps

LEMMA OnceInit == Init => Once
BY TypedInit, ServerConstants DEF Init, Once, LogKept, ExactlyOnce

\* However often, and through however many requests at once, a command uuid is
\* sent, it makes at most one version of the workspace.
THEOREM CommandsOnce == Spec => []ExactlyOnce
<1>1. Once => ExactlyOnce BY DEF Once
<1>2. QED BY <1>1, OnceInit, OnceStep, PTL DEF Spec

-----------------------------------------------------------------------------
(* An "ok" is final *)

\* Command c made a version, and an add's temp_id names what it created.
Founded(c) ==
    \E v \in DOMAIN ledger :
        /\ ledger[v].cmd = c
        /\ alive /\ c \in Adds => c \in DOMAIN temps /\ temps[c] = ledger[v].id

LogFounded == \A c \in synced : alive /\ Founded(c)

Final == Once /\ LogFounded /\ OkIsFinal

LEMMA OkIsFounded ==
    OkIsFinal <=> \A s \in Slots : \A c \in DOMAIN req[s].status : req[s].status[c] = "ok" => Founded(c)
BY DEF OkIsFinal, Founded

LEMMA LedgerGrows ==
    ASSUME Typed, NEW e, ledger' = Append(ledger, e)
    PROVE  /\ DOMAIN ledger' = DOMAIN ledger \cup {Len(ledger) + 1}
           /\ \A v \in DOMAIN ledger : ledger'[v] = ledger[v]
           /\ ledger'[Len(ledger) + 1] = e
<1>1. ledger \in Seq(Change) BY DEF Typed, TypeOK
<1>2. QED BY <1>1

\* What is founded stays so: the ledger only grows, and a temp_id is bound once.
LEMMA FoundedStays ==
    ASSUME Once, Next, NEW c \in Cmds, Founded(c)
    PROVE  Founded(c)'
<1>1. CASE Quiet \/ DeleteWorkspace BY <1>1 DEF Quiet, DeleteWorkspace, Founded
<1>2. ASSUME NEW u \in Users, NEW d \in Command, Commits(u, d) PROVE Founded(c)'
  <2>1. c \in synced /\ d.uuid # c BY <1>2 DEF Once, LogKept, Founded, Commits, Logged
  <2>2. c \in DOMAIN temps => c \in DOMAIN temps' /\ temps'[c] = temps[c]
      BY <1>2, <2>1 DEF Commits, Commit, Bind, Put
  <2>3. PICK e : ledger' = Append(ledger, e) BY <1>2 DEF Commits, Commit
  <2>4. \A v \in DOMAIN ledger : v \in DOMAIN ledger' /\ ledger'[v] = ledger[v]
      BY <2>3, LedgerGrows DEF Once
  <2>5. alive /\ alive' BY <1>2 DEF Commits, Commit
  <2>6. QED BY <2>2, <2>4, <2>5 DEF Founded
<1>3. ASSUME NEW u \in Users, NEW role \in Roles, NEW removed \in BOOLEAN,
             StampMember(u, role, removed)
      PROVE  Founded(c)'
  <2>1. PICK e : ledger' = Append(ledger, e) BY <1>3 DEF StampMember
  <2>2. \A v \in DOMAIN ledger : v \in DOMAIN ledger' /\ ledger'[v] = ledger[v]
      BY <2>1, LedgerGrows DEF Once
  <2>3. QED BY <1>3, <2>2 DEF StampMember, Founded
<1>4. QED BY <1>1, <1>2, <1>3, StepKinds, ApplyStep DEF Once, Stamps

LEMMA LogFoundedStep ==
    ASSUME Once, LogFounded, Next
    PROVE  LogFounded'
<1>1. CASE Quiet BY <1>1 DEF Quiet, LogFounded, Founded
<1>2. CASE DeleteWorkspace BY <1>2 DEF DeleteWorkspace, LogFounded
<1>3. ASSUME NEW u \in Users, NEW d \in Command, Commits(u, d) PROVE LogFounded'
  <2>1. d.uuid \in Cmds BY DEF Command
  <2>2. PICK e : /\ ledger' = Append(ledger, e)
                 /\ e.cmd = d.uuid
                 /\ d.uuid \in Adds => d.uuid \in DOMAIN temps' /\ temps'[d.uuid] = e.id
      BY <1>3 DEF Commits, Commit, Bind, Put
  <2>3. Founded(d.uuid)' BY <2>2, LedgerGrows DEF Once, Founded
  <2>4. \A c \in synced : Founded(c)' BY FoundedStays DEF Once, Typed, TypeOK, LogFounded
  <2>5. QED BY <1>3, <2>3, <2>4 DEF Commits, Commit, LogFounded
<1>4. ASSUME Stamps PROVE LogFounded'
  <2>1. \A c \in synced : Founded(c)' BY FoundedStays DEF Once, Typed, TypeOK, LogFounded
  <2>2. alive' /\ synced' = synced BY <1>4 DEF Stamps, StampMember
  <2>3. QED BY <2>1, <2>2 DEF LogFounded
<1>5. QED BY <1>1, <1>2, <1>3, <1>4, StepKinds, ApplyStep DEF Once

\* A request reports "ok" only for a command the log holds by then.
Reports(s) == \A c \in DOMAIN req'[s].status :
    req'[s].status[c] = "ok" =>
        \/ c \in DOMAIN req[s].status /\ req[s].status[c] = "ok"
        \/ c \in synced'

\* The request steps that leave every status as it is.
LEMMA StatusKept ==
    ASSUME Typed, NEW s \in Slots, NEW t \in Slots,
           \/ Admit(t) \/ ReadVersion(t) \/ Collect(t)
           \/ req' = [req EXCEPT ![t].pc = "lock"]
    PROVE  Reports(s)
<1>1. req \in [Slots -> Request] /\ req[t] \in Request BY DEF Typed, TypeOK
<1>2. req[t].status = [req[t] EXCEPT !.pc = "lock"].status BY <1>1 DEF Request
<1>3. Admit(t) => req'[t].status = req[t].status BY <1>1 DEF Admit, Request
<1>4. ReadVersion(t) => req'[t].status = req[t].status BY <1>1 DEF ReadVersion, Request
<1>5. Collect(t) => req'[t].status = req[t].status BY <1>1 DEF Collect, Request
<1>6. s # t => req'[s] = req[s] BY <1>1 DEF Admit, ReadVersion, Collect
<1>7. req'[s].status = req[s].status BY <1>1, <1>2, <1>3, <1>4, <1>5, <1>6
<1>8. QED BY <1>7 DEF Reports

LEMMA ReportOk ==
    ASSUME Typed, NEW s \in Slots, NEW t \in Slots, NEW v, Report(t, v),
           v = "ok" => Current(t).uuid \in synced'
    PROVE  Reports(s)
<1>1. CASE s = t BY <1>1 DEF Report, Reports, Put, Typed, TypeOK
<1>2. CASE s # t BY <1>2 DEF Report, Reports, Typed, TypeOK
<1>3. QED BY <1>1, <1>2

LEMMA ReportsStep ==
    ASSUME Typed, Next, NEW s \in Slots
    PROVE  Reports(s)
<1>1. Free.status = <<>> /\ DOMAIN <<>> = {} BY DEF Free
<1>2. ASSUME NEW t \in Slots, SendAny(t) PROVE Reports(s)
    BY <1>1, <1>2 DEF SendAny, Send, Reports, Typed, TypeOK, Free
<1>3. ASSUME NEW t \in Slots, Unavailable(t) \/ Release(t) PROVE Reports(s)
    BY <1>1, <1>3 DEF Unavailable, Release, Reports, Typed, TypeOK, Free
<1>4. ASSUME NEW t \in Slots, Admit(t) PROVE Reports(s)
    BY <1>4, StatusKept
<1>5. ASSUME NEW t \in Slots, CheckLog(t) PROVE Reports(s)
  <2>1. CASE Current(t).uuid \in synced BY <1>5, <2>1, ReportOk DEF CheckLog
  <2>2. CASE Current(t).uuid \notin synced BY <1>5, <2>2, StatusKept DEF CheckLog
  <2>3. QED BY <2>1, <2>2
<1>6. ASSUME NEW t \in Slots, RefuseViewer(t) PROVE Reports(s)
    BY <1>6, ReportOk DEF RefuseViewer
<1>7. ASSUME NEW t \in Slots, Apply(t) PROVE Reports(s)
  <2> DEFINE v == Verdict(req[t].user, Current(t))
  <2>1. v = "ok" => Current(t).uuid \in synced'
      BY <1>7 DEF Apply, Commit, Logged
  <2>2. Report(t, v) BY <1>7 DEF Apply
  <2>3. QED BY <2>1, <2>2, ReportOk
<1>8. ASSUME NEW t \in Slots, ReadVersion(t) \/ Collect(t) PROVE Reports(s)
    BY <1>8, StatusKept
<1>9. ASSUME NEW t \in Slots, Serve(t) PROVE Reports(s)
    BY <1>4, <1>5, <1>6, <1>7, <1>8, <1>9 DEF Serve
<1>10. ASSUME UNCHANGED req PROVE Reports(s) BY <1>10 DEF Reports
<1>11. ASSUME Stamps PROVE Reports(s) BY <1>10, <1>11 DEF Stamps, StampMember
<1>12. ASSUME NEW u \in Users, NEW role \in Roles, AcceptInvite(u, role) \/ ChangeRole(u, role)
       PROVE  Reports(s)
    BY <1>11, <1>12, MembershipStep
<1>13. ASSUME NEW u \in Users, RemoveMember(u) PROVE Reports(s)
    BY <1>11, <1>13, MembershipStep DEF Roles
<1>14. CASE DeleteWorkspace BY <1>10, <1>14 DEF DeleteWorkspace
<1>15. QED BY <1>2, <1>3, <1>9, <1>12, <1>13, <1>14 DEF Next

LEMMA FinalStep == Final /\ [Next]_serverVars => Final'
<1> SUFFICES ASSUME Final, [Next]_serverVars PROVE Final' OBVIOUS
<1>1. CASE Next
  <2>1. Once' BY OnceStep DEF Final
  <2>2. LogFounded' BY <1>1, LogFoundedStep DEF Final
  <2>3. ASSUME NEW s \in Slots, NEW c \in DOMAIN req'[s].status, req'[s].status[c] = "ok"
        PROVE  Founded(c)'
    <3>1. CASE c \in synced' BY <3>1, <2>2 DEF LogFounded
    <3>2. CASE c \in DOMAIN req[s].status /\ req[s].status[c] = "ok"
      <4>1. Founded(c) BY <3>2, OkIsFounded DEF Final
      <4>2. c \in Cmds
        <5>1. req[s].status \in Statuses BY DEF Final, Once, Typed, TypeOK, Request
        <5>2. QED BY <3>2, <5>1 DEF Statuses
      <4>3. QED BY <1>1, <4>1, <4>2, FoundedStays DEF Final
    <3>3. QED BY <1>1, <2>3, <3>1, <3>2, ReportsStep DEF Reports, Final, Once
  <2>4. OkIsFinal' BY <2>3 DEF OkIsFinal, Founded
  <2>5. QED BY <2>1, <2>2, <2>4 DEF Final
<1>2. CASE UNCHANGED serverVars
  <2>1. Once' BY OnceStep DEF Final
  <2>2. QED BY <1>2, <2>1 DEF serverVars, Final, LogFounded, Founded, OkIsFinal
<1>3. QED BY <1>1, <1>2

LEMMA FinalInit == Init => Final
<1>1. Free.status = <<>> /\ DOMAIN <<>> = {} BY DEF Free
<1>2. QED BY <1>1, OnceInit DEF Init, Final, LogFounded, OkIsFinal

\* A reply's "ok" is never taken back: the command made a version, and as long
\* as the workspace exists an add's temp_id names the object it created.
THEOREM OkStandsForever == Spec => []OkIsFinal
<1>1. Final => OkIsFinal BY DEF Final
<1>2. QED BY <1>1, FinalInit, FinalStep, PTL DEF Spec

-----------------------------------------------------------------------------
(* The requests together implement the abstract workspace *)

\* A temp_id is bound by its own add, which the log remembers as long as there is one.
NamesLogged == alive => DOMAIN temps \subseteq synced

\* Objects are numbered by the version that made them.
Numbered == \A id \in DOMAIN rows \cap Nat : id <= version

\* A request carries commands of its user, each under a name of its object.
Names(c, ref) == c \in Adds \/ ref = Target[c] \/ (Target[c] \in DOMAIN temps /\ ref = temps[Target[c]])
OwnBatch(u, cs) == \A n \in DOMAIN cs : By[cs[n].uuid] = u /\ (alive => Names(cs[n].uuid, cs[n].ref))
Own == \A s \in Slots : OwnBatch(req[s].user, req[s].cmds)

Refined == Typed /\ NamesLogged /\ Numbered /\ Own

LEMMA BatchIsOwn ==
    ASSUME Typed, NEW u \in Users, NEW cs \in Batches(u), NEW n \in DOMAIN cs
    PROVE  By[cs[n].uuid] = u /\ Names(cs[n].uuid, cs[n].ref)
<1>1. PICK k \in 0..MaxBatch : cs \in [1..k -> UNION {Forms(c) : c \in {x \in Cmds : By[x] = u}}]
    BY DEF Batches
<1>2. PICK c \in Cmds : By[c] = u /\ cs[n] \in Forms(c) BY <1>1
<1>3. cs[n].uuid = c BY <1>2 DEF Forms
<1>4. Names(c, cs[n].ref) BY <1>2 DEF Forms, Names
<1>5. QED BY <1>2, <1>3, <1>4

\* No step but the arrival of a request changes whose commands it carries.
LEMMA CarriesStep ==
    ASSUME Typed, Next, NEW s \in Slots
    PROVE  \/ req'[s].cmds = req[s].cmds /\ req'[s].user = req[s].user
           \/ req'[s].cmds = <<>>
           \/ Quiet /\ \E u \in Users : req'[s].user = u /\ req'[s].cmds \in Batches(u)
<1> DEFINE Kept == req'[s].cmds = req[s].cmds /\ req'[s].user = req[s].user
<1>1. req \in [Slots -> Request] BY DEF Typed, TypeOK
<1>2. ASSUME NEW t \in Slots, SendAny(t)
      PROVE  \/ Kept
             \/ Quiet /\ \E u \in Users : req'[s].user = u /\ req'[s].cmds \in Batches(u)
  <2>1. CASE s # t BY <1>1, <1>2, <2>1 DEF SendAny, Send
  <2>2. CASE s = t BY <1>1, <1>2, <2>2 DEF SendAny, Send, Quiet, Free
  <2>3. QED BY <2>1, <2>2
<1>3. ASSUME NEW t \in Slots, Serve(t) PROVE Kept
  <2>1. req[s] \in Request /\ req[t] \in Request BY <1>1
  <2>2. ASSUME NEW v, Report(t, v) PROVE Kept BY <1>1, <2>1, <2>2 DEF Report, Request
  <2>3. Admit(t) => Kept
    <3>1. ASSUME NEW code, req' = [req EXCEPT ![t].pc = "done", ![t].code = code] PROVE Kept
        BY <1>1, <2>1, <3>1 DEF Request
    <3>2. ASSUME NEW role, req' = [req EXCEPT ![t].pc = "command", ![t].role = role] PROVE Kept
        BY <1>1, <2>1, <3>2 DEF Request
    <3>3. QED BY <3>1, <3>2 DEF Admit
  <2>4. ReadVersion(t) => Kept BY <1>1, <2>1 DEF ReadVersion, Request
  <2>5. Collect(t) => Kept BY <1>1, <2>1 DEF Collect, Request
  <2>6. req' = [req EXCEPT ![t].pc = "lock"] => Kept BY <1>1, <2>1 DEF Request
  <2>7. QED BY <1>3, <2>2, <2>3, <2>4, <2>5, <2>6 DEF Serve, CheckLog, RefuseViewer, Apply
<1>4. ASSUME NEW t \in Slots, Unavailable(t) \/ Release(t) PROVE Kept \/ req'[s].cmds = <<>>
  <2>1. Free.cmds = <<>> /\ [Free EXCEPT !.pc = "done", !.code = "unavailable"].cmds = <<>> BY DEF Free
  <2>2. QED BY <1>1, <1>4, <2>1 DEF Unavailable, Release
<1>5. Stamps \/ DeleteWorkspace => Kept BY DEF Stamps, StampMember, DeleteWorkspace
<1>6. ASSUME NEW u \in Users, NEW role \in Roles, AcceptInvite(u, role) \/ ChangeRole(u, role)
      PROVE  Kept
    BY <1>5, <1>6, MembershipStep
<1>7. ASSUME NEW u \in Users, RemoveMember(u) PROVE Kept
    BY <1>5, <1>7, MembershipStep DEF Roles
<1>8. QED BY <1>2, <1>3, <1>4, <1>5, <1>6, <1>7 DEF Next

\* A temp_id bound stays bound to what it names.
LEMMA NamesStay ==
    ASSUME Typed, NamesLogged, Next, alive', NEW c \in Cmds, NEW ref, Names(c, ref)
    PROVE  Names(c, ref)'
<1>1. CASE Quiet BY <1>1 DEF Quiet, Names
<1>2. ASSUME NEW u \in Users, NEW d \in Command, Commits(u, d) PROVE Names(c, ref)'
  <2>1. \A t \in DOMAIN temps : t \in DOMAIN temps' /\ temps'[t] = temps[t]
      BY <1>2 DEF Commits, Commit, Bind, Put, Logged, NamesLogged
  <2>2. QED BY <2>1 DEF Names
<1>3. CASE Stamps BY <1>3 DEF Stamps, StampMember, Names
<1>4. ~DeleteWorkspace BY DEF DeleteWorkspace
<1>5. QED BY <1>1, <1>2, <1>3, <1>4, StepKinds, ApplyStep

LEMMA OwnStep ==
    ASSUME Refined, Next
    PROVE  Own'
<1> SUFFICES ASSUME NEW s \in Slots, NEW u, NEW cs, u = req'[s].user, cs = req'[s].cmds
             PROVE  OwnBatch(u, cs)'
    BY DEF Own
<1>1. CASE cs = req[s].cmds /\ u = req[s].user
  <2>1. \A n \in DOMAIN cs : cs[n].uuid \in Cmds
    <3>1. cs \in Seq(Command) BY <1>1 DEF Refined, Typed, TypeOK, Request
    <3>2. \A n \in DOMAIN cs : cs[n] \in Command BY <3>1
    <3>3. QED BY <3>2 DEF Command
  <2>2. alive' => alive
    <3>1. Quiet => alive' = alive BY DEF Quiet
    <3>2. Stamps \/ DeleteWorkspace => alive BY DEF Stamps, StampMember, DeleteWorkspace
    <3>3. QED BY <3>1, <3>2, StepKinds DEF Refined, Commits
  <2>3. OwnBatch(u, cs) BY <1>1 DEF Refined, Own
  <2>4. QED BY <2>1, <2>2, <2>3, NamesStay DEF Refined, OwnBatch
<1>2. CASE cs = <<>> BY <1>2 DEF OwnBatch
<1>3. CASE Quiet /\ u \in Users /\ cs \in Batches(u)
  <2>1. OwnBatch(u, cs) BY <1>3, BatchIsOwn DEF Refined, OwnBatch
  <2>2. QED BY <1>3, <2>1 DEF Quiet, OwnBatch, Names
<1>4. QED BY <1>1, <1>2, <1>3, CarriesStep DEF Refined

LEMMA RefinedInit == Init => Refined
<1> SUFFICES ASSUME Init PROVE Refined OBVIOUS
<1>1. DOMAIN <<>> = {} OBVIOUS
<1>2. Own BY <1>1 DEF Init, Own, OwnBatch, Free
<1>3. Numbered BY ServerConstants DEF Init, Numbered
<1>4. NamesLogged BY <1>1 DEF Init, NamesLogged
<1>5. QED BY <1>2, <1>3, <1>4, TypedInit DEF Refined

LEMMA RefinedStep == Refined /\ [Next]_serverVars => Refined'
<1> SUFFICES ASSUME Refined, [Next]_serverVars PROVE Refined' OBVIOUS
<1>1. Typed' BY TypedStep DEF Refined
<1>2. CASE UNCHANGED serverVars
    BY <1>1, <1>2 DEF serverVars, Refined, NamesLogged, Numbered, Own, OwnBatch, Names
<1>3. CASE Next
  <2>1. Own' BY <1>3, OwnStep
  <2>2. CASE Quiet BY <1>1, <2>1, <2>2 DEF Quiet, Refined, NamesLogged, Numbered
  <2>3. ASSUME NEW u \in Users, NEW c \in Command, Commits(u, c) PROVE NamesLogged' /\ Numbered'
    <3>1. NamesLogged' BY <2>3 DEF Commits, Commit, Bind, Put, Refined, NamesLogged
    <3>2. version \in Nat /\ version' = version + 1 BY <2>3 DEF Refined, Typed, TypeOK, Commits, Commit
    <3>3. c.uuid \notin Adds => Resolve(c.ref) \in DOMAIN rows BY <2>3 DEF Commits, Verdict, IsLive
    <3>4. DOMAIN rows' \subseteq DOMAIN rows \cup {version + 1} BY <2>3, <3>3 DEF Commits, Commit, Put
    <3>5. QED BY <3>1, <3>2, <3>4 DEF Refined, Numbered
  <2>4. ASSUME NEW u \in Users, NEW role \in Roles, NEW removed \in BOOLEAN, StampMember(u, role, removed)
        PROVE  NamesLogged' /\ Numbered'
    <3>1. DOMAIN rows' = DOMAIN rows \cup {u} /\ u \notin Nat BY <2>4, ServerConstants DEF StampMember, Put
    <3>2. version \in Nat /\ version' = version + 1 BY <2>4 DEF Refined, Typed, TypeOK, StampMember
    <3>3. QED BY <2>4, <3>1, <3>2 DEF StampMember, Refined, NamesLogged, Numbered
  <2>5. CASE DeleteWorkspace
    <3>1. DOMAIN <<>> = {} OBVIOUS
    <3>2. QED BY <1>1, <2>1, <2>5, <3>1 DEF DeleteWorkspace, Refined, NamesLogged, Numbered
  <2>6. QED BY <1>1, <1>3, <2>1, <2>2, <2>3, <2>4, <2>5, StepKinds, ApplyStep DEF Refined, Stamps
<1>4. QED BY <1>2, <1>3

\* What the mapping makes of a row.
Object(r) == [content |-> r.content, is_deleted |-> r.is_deleted]
Objects == [id \in DOMAIN rows |-> Object(rows[id])]

LEMMA PutObject ==
    ASSUME NEW id, NEW r, rows' = Put(rows, id, r)
    PROVE  Objects' = Outside!With(Objects, id, Object(r))
BY DEF Objects, Put, Outside!With

LEMMA ObjectLive ==
    ASSUME NEW id
    PROVE  Outside!Live(id) <=> IsLive(id)
BY DEF Outside!Live, IsLive
LEMMA AbstractStep ==
    ASSUME NEW c \in Cmds, Outside!Change(c) \/ \E id \in DOMAIN rows' : Outside!Create(c, id)
    PROVE  Outside!Next
BY DEF Outside!Next

\* A command's transaction is one change of the abstract workspace.
LEMMA CommitIsChange ==
    ASSUME Refined, NEW s \in Slots, Apply(s), Commits(req[s].user, Current(s))
    PROVE  Outside!Next
<1> PICK c, u, id : /\ c = Current(s) /\ u = req[s].user
                    /\ id = IF c.uuid \in Adds THEN version + 1 ELSE Resolve(c.ref)
    OBVIOUS
<1>1. c \in Command /\ c.uuid \in Cmds /\ AtCommand(s)
  <2>1. AtCommand(s) BY DEF Apply, Refined, Typed, AtTheLock
  <2>2. QED BY <2>1, CurrentCommand DEF Refined, Typed
<1>2. By[c.uuid] = u /\ Names(c.uuid, c.ref)
    BY <1>1 DEF Refined, Own, OwnBatch, Current, AtCommand, Commits
<1>3. alive /\ c.uuid \notin synced /\ MayWrite(u) /\ (c.uuid \in Adds \/ IsLive(Resolve(c.ref)))
    BY DEF Commits, Verdict, Logged, Permitted
<1>4. Outside!MayChange(By[c.uuid])
    BY <1>2, <1>3 DEF MayWrite, IsMember, Outside!MayChange, Outside!Live
<1>5. PICK r : /\ rows' = Put(rows, id, r)
               /\ r.is_deleted = (c.uuid \in Deletes) /\ r.content = c.uuid
    BY DEF Commits, Commit
<1>6. Objects' = Outside!With(Objects, id, [content |-> c.uuid, is_deleted |-> c.uuid \in Deletes])
    BY <1>5, PutObject DEF Object
<1>7. synced' = synced \cup {c.uuid} /\ UNCHANGED alive BY DEF Commits, Commit
<1>8. CASE c.uuid \in Adds
  <2>1. id \in Nat /\ id \notin DOMAIN rows BY <1>8 DEF Refined, Typed, TypeOK, Numbered
  <2>2. temps' = Outside!With(temps, c.uuid, id) BY <1>8 DEF Commits, Commit, Bind, Put, Outside!With
  <2>3. c.uuid \notin Deletes BY <1>8, ServerConstants
  <2>4. Objects' = Outside!With(Objects, id, [content |-> c.uuid, is_deleted |-> FALSE])
    <3>1. (c.uuid \in Deletes) = FALSE BY <2>3
    <3>2. QED BY <1>6, <3>1, Zenon
  <2>5. DOMAIN Objects = DOMAIN rows BY DEF Objects
  <2>6. Outside!Create(c.uuid, id)
      BY <1>3, <1>4, <1>7, <1>8, <2>1, <2>2, <2>4, <2>5 DEF Outside!Create, Objects, Object
  <2>7. id \in DOMAIN rows' BY <1>5 DEF Put
  <2>8. QED BY <1>1, <2>6, <2>7, AbstractStep
<1>9. CASE c.uuid \notin Adds
  <2>1. Target[c.uuid] \in Adds BY <1>1, <1>9, ServerConstants
  <2>2. Target[c.uuid] \notin DOMAIN rows
      BY <2>1, ServerConstants DEF Refined, Typed, TypeOK, Ids
  <2>3. Target[c.uuid] \in DOMAIN temps /\ Resolve(c.ref) = temps[Target[c.uuid]]
    <3>1. CASE c.ref = Target[c.uuid] BY <1>3, <1>9, <2>2, <3>1 DEF Resolve, IsLive
    <3>2. CASE Target[c.uuid] \in DOMAIN temps /\ c.ref = temps[Target[c.uuid]]
      <4>1. c.ref \in Nat BY <3>2 DEF Refined, Typed, TypeOK
      <4>2. c.ref \notin DOMAIN temps BY <4>1, ServerConstants DEF Refined, Typed, TypeOK
      <4>3. QED BY <3>2, <4>2 DEF Resolve
    <3>3. QED BY <1>2, <1>9, <3>1, <3>2 DEF Names
  <2>4. Outside!Live(temps[Target[c.uuid]]) BY <1>3, <1>9, <2>3, ObjectLive
  <2>5. temps' = temps BY <1>9 DEF Commits, Commit
  <2>6. Outside!Change(c.uuid)
      BY <1>3, <1>4, <1>6, <1>7, <1>9, <2>3, <2>4, <2>5 DEF Outside!Change, Objects, Object
  <2>7. QED BY <1>1, <2>6, AbstractStep
<1>10. QED BY <1>8, <1>9

LEMMA StampIsAdministration ==
    ASSUME NEW u \in Users, NEW role \in Roles, NEW removed \in BOOLEAN, Typed,
           StampMember(u, role, removed)
    PROVE  Outside!Next
<1>1. PICK r : rows' = Put(rows, u, r) /\ r.content = role /\ r.is_deleted = removed
    BY DEF StampMember
<1>2. Objects' = Outside!With(Objects, u, [content |-> role, is_deleted |-> removed])
    BY <1>1, PutObject DEF Object
<1>3. alive = TRUE /\ UNCHANGED <<alive, synced, temps>> BY DEF StampMember, Typed, TypeOK
<1>4. Outside!Administer(u, role, removed)
    BY <1>2, <1>3 DEF Outside!Administer, Objects, Object
<1>5. QED BY <1>4 DEF Outside!Next, Outside!Roles, Roles

LEMMA RefinementStep ==
    Refined /\ [Next]_serverVars =>
        [Outside!Next]_<<alive, Objects, synced, temps>>
<1> SUFFICES ASSUME Refined, [Next]_serverVars
             PROVE  Outside!Next \/ UNCHANGED <<alive, Objects, synced, temps>>
    OBVIOUS
<1>1. Quiet \/ UNCHANGED serverVars => UNCHANGED <<alive, Objects, synced, temps>>
    BY DEF Quiet, serverVars, Objects
<1>2. ASSUME NEW s \in Slots, Apply(s), Commits(req[s].user, Current(s)) PROVE Outside!Next
    BY <1>2, CommitIsChange
<1>3. ASSUME Stamps PROVE Outside!Next BY <1>3, StampIsAdministration DEF Stamps, Refined
<1>4. CASE DeleteWorkspace
  <2>1. Objects' = <<>>
    <3>1. DOMAIN rows' = {} BY <1>4 DEF DeleteWorkspace
    <3>2. QED BY <3>1 DEF Objects
  <2>2. Outside!Delete BY <1>4, <2>1 DEF DeleteWorkspace, Outside!Delete, Objects, Object, Refined, Typed, TypeOK
  <2>3. QED BY <2>2 DEF Outside!Next
<1>5. QED BY <1>1, <1>2, <1>3, <1>4, StepKinds DEF Refined

LEMMA RefinementInit == Init => Outside!Init
<1> SUFFICES ASSUME Init PROVE Outside!Init OBVIOUS
<1>1. Objects = [u \in {Owner} |-> [content |-> "member", is_deleted |-> FALSE]]
    BY DEF Init, Objects, Object
<1>2. QED BY <1>1 DEF Init, Outside!Init, Objects, Object

\* Seen from outside there are no requests: whatever is retried, overtaken or
\* answered late, the workspace changes by whole commands, each at most once, by
\* a user who may write at that moment, on an object that is there.
THEOREM EndpointImplements == Spec => ImplementsWorkspace
<1>1. Outside!Init /\ [][Outside!Next]_<<alive, Objects, synced, temps>> => Outside!Spec
    BY DEF Outside!Spec, Objects, Object
<1>2. QED BY <1>1, RefinedInit, RefinedStep, RefinementInit, RefinementStep, PTL DEF Spec, ImplementsWorkspace

-----------------------------------------------------------------------------
(* Delivered at least once *)

Counted == version = Len(ledger)

Stamped == \A id \in DOMAIN rows : rows[id].version <= version

\* Every change is in its object, or a later one is.
Ledgered == alive => \A v \in DOMAIN ledger :
                        ledger[v].id \in DOMAIN rows /\ rows[ledger[v].id].version >= v

\* The changes a request has to deliver, and when one needs no more delivery.
Due(r, v) == v \in DOMAIN ledger /\ v <= r.upper /\ (r.token = Star \/ v > r.token)
Covered(r, v) ==
    \/ \E c \in r.got : c.id = ledger[v].id /\ c.row.version >= v
    \/ rows[ledger[v].id].version > r.upper
    \/ r.token = Star /\ rows[ledger[v].id].is_deleted

\* The tables before the k-th have been read.
ReadBefore(r, v) == \E j \in 1..(r.k - 1) : AllTables[j] = rows[ledger[v].id].table

CollectsWell(r) ==
    /\ r.pc \in {"sent", "command", "lock"} => r.k = 1
    /\ alive /\ r.pc = "collect" =>
         /\ r.upper <= version /\ r.k \in 1..Len(AllTables)
         /\ \A v : Due(r, v) /\ ReadBefore(r, v) => Covered(r, v)
    /\ alive /\ r.pc = "done" /\ r.code = "ok" =>
         r.upper <= version /\ \A v : Due(r, v) => Covered(r, v)

Delivered == /\ Typed /\ Numbered /\ Counted /\ Stamped /\ Ledgered
             /\ \A s \in Slots : CollectsWell(req[s])

\* Data only moves forward: what a step changes, it stamps above everything before.
Forward ==
    alive' =>
        /\ alive /\ version' >= version
        /\ \A id \in DOMAIN rows : id \in DOMAIN rows' /\ (rows'[id] = rows[id] \/ rows'[id].version > version)
        /\ \A v \in DOMAIN ledger : v \in DOMAIN ledger' /\ ledger'[v] = ledger[v]
        /\ \A v \in DOMAIN ledger' : v \in DOMAIN ledger \/ v > version

\* One change: the row id gets a version of its own and the ledger says so.
LEMMA OneChange ==
    ASSUME Typed, Counted, Stamped, Ledgered, alive, NEW id, NEW r, NEW e, e.id = id,
           version' = version + 1, rows' = Put(rows, id, r), r.version = version + 1,
           ledger' = Append(ledger, e)
    PROVE  Forward /\ Counted' /\ Stamped' /\ Ledgered'
<1>1. version \in Nat /\ ledger \in Seq(Change) BY DEF Typed, TypeOK
<1>2. /\ DOMAIN ledger' = DOMAIN ledger \cup {version + 1}
      /\ \A v \in DOMAIN ledger : ledger'[v] = ledger[v]
      /\ ledger'[version + 1] = e /\ Len(ledger') = version + 1
      /\ DOMAIN ledger = 1..version
    BY <1>1 DEF Counted
<1>3. /\ DOMAIN rows' = DOMAIN rows \cup {id}
      /\ rows'[id] = r
      /\ \A x \in DOMAIN rows : x # id => rows'[x] = rows[x]
    BY DEF Put
<1>4. \A x \in DOMAIN rows : rows[x].version \in Nat BY DEF Typed, TypeOK, Row
<1>5. Counted' BY <1>2 DEF Counted
<1>6. Stamped' BY <1>1, <1>3, <1>4 DEF Stamped
<1>7. Ledgered' BY <1>1, <1>2, <1>3, <1>4 DEF Ledgered
<1>8. Forward BY <1>1, <1>2, <1>3 DEF Forward
<1>9. QED BY <1>5, <1>6, <1>7, <1>8

LEMMA ForwardStep ==
    ASSUME Typed, Counted, Stamped, Ledgered, [Next]_serverVars
    PROVE  Forward /\ Counted' /\ Stamped' /\ Ledgered'
<1>1. version \in Nat BY DEF Typed, TypeOK
<1>2. CASE Quiet \/ UNCHANGED serverVars
    BY <1>1, <1>2 DEF Quiet, serverVars, Forward, Counted, Stamped, Ledgered
<1>3. ASSUME NEW u \in Users, NEW c \in Command, Commits(u, c)
      PROVE  Forward /\ Counted' /\ Stamped' /\ Ledgered'
  <2>1. PICK id, r, e : /\ e.id = id /\ r.version = version + 1
                        /\ rows' = Put(rows, id, r) /\ ledger' = Append(ledger, e)
      BY <1>3 DEF Commits, Commit
  <2>2. version' = version + 1 /\ alive BY <1>3 DEF Commits, Commit
  <2>3. QED BY <2>1, <2>2, OneChange
<1>4. ASSUME NEW u \in Users, NEW role \in Roles, NEW removed \in BOOLEAN,
             StampMember(u, role, removed)
      PROVE  Forward /\ Counted' /\ Stamped' /\ Ledgered'
  <2>1. PICK r, e : /\ e.id = u /\ r.version = version + 1
                    /\ rows' = Put(rows, u, r) /\ ledger' = Append(ledger, e)
      BY <1>4 DEF StampMember
  <2>2. version' = version + 1 /\ alive BY <1>4 DEF StampMember
  <2>3. QED BY <2>1, <2>2, OneChange
<1>5. CASE DeleteWorkspace
  <2>1. DOMAIN rows' = {} BY <1>5 DEF DeleteWorkspace
  <2>2. QED BY <1>5, <2>1 DEF DeleteWorkspace, Forward, Counted, Stamped, Ledgered
<1>6. QED BY <1>2, <1>3, <1>4, <1>5, StepKinds, ApplyStep DEF Stamps

\* What a request has delivered stays delivered, whatever is committed.
LEMMA CollectsOn ==
    ASSUME Typed, Typed', Ledgered, Forward, NEW r \in Request, CollectsWell(r)
    PROVE  CollectsWell(r)'
<1> SUFFICES ASSUME alive', r.pc = "collect" \/ (r.pc = "done" /\ r.code = "ok")
             PROVE  /\ r.upper <= version'
                    /\ \A v : Due(r, v)' /\ (r.pc = "collect" => ReadBefore(r, v)') => Covered(r, v)'
    BY DEF CollectsWell, Forward
<1>1. alive /\ version \in Nat /\ version' \in Nat /\ version' >= version /\ r.upper \in Nat
    BY DEF Forward, Typed, TypeOK, Request
<1>2. r.upper <= version BY <1>1 DEF CollectsWell
<1>3. ASSUME NEW v, Due(r, v)', r.pc = "collect" => ReadBefore(r, v)'
      PROVE  Covered(r, v)'
  <2>1. v \in DOMAIN ledger
    <3>1. v \in DOMAIN ledger' /\ v <= r.upper BY <1>3 DEF Due
    <3>2. v \in DOMAIN ledger \/ v > version BY <1>1, <3>1 DEF Forward
    <3>3. v \in Nat BY <3>1 DEF Typed, TypeOK
    <3>4. QED BY <1>1, <1>2, <3>1, <3>2, <3>3
  <2> DEFINE id == ledger[v].id
  <2>2. ledger'[v] = ledger[v] /\ Due(r, v) BY <1>1, <1>3, <2>1 DEF Forward, Due
  <2>3. id \in DOMAIN rows /\ id \in DOMAIN rows'
      BY <1>1, <2>1 DEF Ledgered, Forward
  <2>4. CASE rows'[id] = rows[id]
    <3>1. r.pc = "collect" => ReadBefore(r, v) BY <1>3, <2>2, <2>4 DEF ReadBefore
    <3>2. Covered(r, v) BY <1>1, <2>2, <3>1 DEF CollectsWell
    <3>3. QED BY <2>2, <2>4, <3>2 DEF Covered
  <2>5. CASE rows'[id].version > version
    <3>1. rows'[id].version \in Nat BY <2>3 DEF Typed, TypeOK, Row
    <3>2. QED BY <1>1, <1>2, <2>2, <2>5, <3>1 DEF Covered
  <2>6. QED BY <1>1, <2>3, <2>4, <2>5 DEF Forward
<1>4. QED BY <1>1, <1>2, <1>3

\* One SELECT delivers what its table holds.
LEMMA CollectDelivers ==
    ASSUME Delivered, NEW s \in Slots, Collect(s)
    PROVE  CollectsWell(req'[s])
<1> DEFINE r == req[s]
           g == Fetch(AllTables[r.k], r.token, r.upper)
<1>1. /\ req' = [req EXCEPT ![s] = [r EXCEPT !.got = r.got \cup g, !.k = r.k + 1,
                                             !.pc = IF r.k = Len(AllTables) THEN "done" ELSE "collect"]]
      /\ r \in Request /\ r.pc = "collect" /\ CollectsWell(r)
    BY DEF Collect, Delivered, Typed, TypeOK
<1> PICK q : q = req'[s] OBVIOUS
<1>2. /\ q.got = r.got \cup g /\ q.k = r.k + 1 /\ q.upper = r.upper /\ q.token = r.token
      /\ q.pc = IF r.k = Len(AllTables) THEN "done" ELSE "collect"
    BY <1>1 DEF Delivered, Typed, TypeOK, Request
<1> SUFFICES ASSUME alive PROVE CollectsWell(q)
    BY <1>2 DEF CollectsWell
<1>3. /\ r.upper <= version /\ r.k \in 1..Len(AllTables) /\ r.upper \in Nat
      /\ \A v : Due(r, v) /\ ReadBefore(r, v) => Covered(r, v)
    BY <1>1 DEF CollectsWell, Request
<1>4. AllTables \in Seq({Tables[k] : k \in DOMAIN Tables} \cup {"members"})
    BY ServerConstants DEF AllTables
<1>5. ASSUME NEW v, Due(q, v), ReadBefore(q, v) PROVE Covered(q, v)
  <2> DEFINE id == ledger[v].id
  <2>1. Due(r, v) BY <1>2, <1>5 DEF Due
  <2>2. CASE ReadBefore(r, v)
    <3>1. Covered(r, v) BY <1>3, <2>1, <2>2
    <3>2. QED BY <1>2, <3>1 DEF Covered
  <2>3. CASE AllTables[r.k] = rows[id].table
    <3>1. id \in DOMAIN rows /\ rows[id].version >= v /\ rows[id].version \in Nat /\ v \in Nat
        BY <2>1 DEF Delivered, Ledgered, Due, Typed, TypeOK, Row
    <3>2. CASE rows[id].version > r.upper BY <1>2, <3>2 DEF Covered
    <3>3. CASE r.token = Star /\ rows[id].is_deleted BY <1>2, <3>3 DEF Covered
    <3>4. CASE rows[id].version <= r.upper /\ ~(r.token = Star /\ rows[id].is_deleted)
      <4>1. r.token # Star => r.token \in Nat BY <1>1 DEF Request
      <4>2. r.token = Star \/ rows[id].version > r.token BY <2>1, <3>1, <4>1 DEF Due
      <4>3. [id |-> id, row |-> rows[id]] \in g BY <2>3, <3>1, <3>4, <4>2 DEF Fetch
      <4>4. QED BY <1>2, <3>1, <4>3 DEF Covered
    <3>5. QED BY <1>3, <3>1, <3>2, <3>3, <3>4
  <2>4. ReadBefore(r, v) \/ AllTables[r.k] = rows[id].table
    <3>1. PICK j \in 1..(q.k - 1) : AllTables[j] = rows[id].table BY <1>5 DEF ReadBefore
    <3>2. j \in 1..(r.k - 1) \/ j = r.k BY <1>2, <1>3
    <3>3. QED BY <3>1, <3>2 DEF ReadBefore
  <2>5. QED BY <2>2, <2>3, <2>4
<1>6. CASE r.k # Len(AllTables)
  <2>1. Len(AllTables) \in Nat BY <1>4
  <2>2. q.pc = "collect" /\ q.k \in 1..Len(AllTables) BY <1>2, <1>3, <1>6, <2>1
  <2>3. QED BY <1>2, <1>3, <1>5, <2>2 DEF CollectsWell
<1>7. CASE r.k = Len(AllTables)
  <2>1. q.pc = "done" BY <1>2, <1>7
  <2>2. ASSUME NEW v, Due(q, v) PROVE ReadBefore(q, v)
    <3>1. ledger[v].id \in DOMAIN rows BY <2>2 DEF Delivered, Ledgered, Due
    <3>2. rows[ledger[v].id].table \in {Tables[k] : k \in DOMAIN Tables} \cup {"members"}
        BY <3>1 DEF Delivered, Typed, TypeOK, Row
    <3>3. PICK j \in 1..Len(AllTables) : AllTables[j] = rows[ledger[v].id].table
      <4>1. /\ Len(AllTables) = Len(Tables) + 1 /\ Len(Tables) \in Nat
            /\ \A i \in 1..Len(Tables) : AllTables[i] = Tables[i]
            /\ AllTables[Len(Tables) + 1] = "members" /\ DOMAIN Tables = 1..Len(Tables)
          BY ServerConstants DEF AllTables
      <4>2. QED BY <3>2, <4>1
    <3>4. QED BY <1>2, <1>3, <1>7, <3>3 DEF ReadBefore
  <2>3. QED BY <1>2, <1>3, <1>5, <2>1, <2>2 DEF CollectsWell
<1>8. QED BY <1>6, <1>7

\* What a step makes of one request, besides reading tables.
LEMMA RequestStep ==
    ASSUME Delivered, Next, NEW s \in Slots
    PROVE  \/ req'[s] = req[s]
           \/ Quiet /\ CollectsWell(req'[s])
           \/ req'[s].pc \in {"command", "lock"} /\ req'[s].k = 1
<1> DEFINE Goal == \/ req'[s] = req[s]
                   \/ Quiet /\ CollectsWell(req'[s])
                   \/ req'[s].pc \in {"command", "lock"} /\ req'[s].k = 1
<1>1. req \in [Slots -> Request] /\ req[s] \in Request /\ CollectsWell(req[s])
    BY DEF Delivered, Typed, TypeOK
<1>2. ASSUME NEW t \in Slots, t # s, SendAny(t) \/ Serve(t) \/ Unavailable(t) \/ Release(t)
      PROVE  req'[s] = req[s]
  <2>1. SendAny(t) \/ Unavailable(t) \/ Release(t) => req'[s] = req[s]
    <3>1. ASSUME NEW x, req' = [req EXCEPT ![t] = x] PROVE req'[s] = req[s] BY <1>1, <1>2, <3>1
    <3>2. ASSUME NEW u, NEW cs, NEW tok, Send(t, u, cs, tok) PROVE req'[s] = req[s] BY <3>1, <3>2 DEF Send
    <3>3. SendAny(t) => \E u, cs, tok : Send(t, u, cs, tok) BY Zenon DEF SendAny
    <3>4. Unavailable(t) \/ Release(t) => req'[s] = req[s] BY <3>1 DEF Unavailable, Release
    <3>5. QED BY <3>2, <3>3, <3>4
  <2>2. Admit(t) \/ ReadVersion(t) \/ Collect(t) => req'[s] = req[s]
      BY <1>1, <1>2 DEF Admit, ReadVersion, Collect
  <2>3. CheckLog(t) \/ RefuseViewer(t) \/ Apply(t) => req'[s] = req[s]
      BY <1>1, <1>2 DEF CheckLog, RefuseViewer, Apply, Report
  <2>4. QED BY <1>2, <2>1, <2>2, <2>3 DEF Serve
<1>3. SendAny(s) => Goal
  <2>1. ASSUME NEW u, NEW cs, NEW tok, Send(s, u, cs, tok) PROVE req'[s].pc = "sent" /\ req'[s].k = 1
      BY <1>1, <2>1 DEF Send, Free
  <2>2. QED BY <2>1 DEF SendAny, Quiet, CollectsWell
<1>4. Unavailable(s) \/ Release(s) => Goal
  <2>1. [Free EXCEPT !.pc = "done", !.code = "unavailable"].code # "ok" /\ Free.pc = "free" BY DEF Free
  <2>2. ASSUME NEW x, req' = [req EXCEPT ![s] = x] PROVE req'[s] = x BY <1>1, <2>2
  <2>3. [Free EXCEPT !.pc = "done", !.code = "unavailable"].pc = "done" BY DEF Free
  <2>4. CollectsWell(Free) /\ CollectsWell([Free EXCEPT !.pc = "done", !.code = "unavailable"])
      BY <2>1, <2>3 DEF CollectsWell
  <2>5. QED BY <2>2, <2>4 DEF Unavailable, Release, Quiet
<1>5. Admit(s) => Goal
  <2>1. req[s].pc = "sent" /\ Admit(s) => req[s].k = 1 BY <1>1 DEF CollectsWell
  <2>2. ASSUME NEW code \in {"not_found", "forbidden"}, req' = [req EXCEPT ![s].pc = "done", ![s].code = code]
        PROVE  req'[s].pc = "done" /\ req'[s].code # "ok"
      BY <1>1, <2>2 DEF Request
  <2>3. ASSUME NEW role, req' = [req EXCEPT ![s].pc = "command", ![s].role = role]
        PROVE  req'[s].pc = "command" /\ req'[s].k = req[s].k
      BY <1>1, <2>3 DEF Request
  <2>4. QED BY <2>1, <2>2, <2>3 DEF Admit, Quiet, CollectsWell
<1>6. CheckLog(s) \/ RefuseViewer(s) \/ Apply(s) => Goal
  <2>1. req[s].pc \in {"command", "lock"} => req[s].k = 1 BY <1>1 DEF CollectsWell
  <2>2. ASSUME NEW v, Report(s, v) PROVE req'[s].pc = "command" /\ req'[s].k = req[s].k
      BY <1>1, <2>2 DEF Report, Request
  <2>3. ASSUME req' = [req EXCEPT ![s].pc = "lock"] PROVE req'[s].pc = "lock" /\ req'[s].k = req[s].k
      BY <1>1, <2>3 DEF Request
  <2>4. QED BY <2>1, <2>2, <2>3 DEF CheckLog, RefuseViewer, Apply
<1>7. ReadVersion(s) => Goal
  <2> SUFFICES ASSUME ReadVersion(s) PROVE Quiet /\ CollectsWell(req'[s]) OBVIOUS
  <2> PICK q : q = req'[s] OBVIOUS
  <2>1. q.pc = "collect" /\ q.k = 1 /\ q.upper = IF alive THEN version ELSE 0
      BY <1>1 DEF ReadVersion, CollectsWell, Request
  <2>2. Len(AllTables) \in Nat /\ Len(AllTables) >= 1 BY ServerConstants DEF AllTables
  <2>3. version \in Nat BY DEF Delivered, Typed, TypeOK
  <2>4. \A v : ~ReadBefore(q, v) BY <2>1 DEF ReadBefore
  <2>5. CollectsWell(q) BY <2>1, <2>2, <2>3, <2>4 DEF CollectsWell
  <2>6. QED BY <2>5 DEF ReadVersion, Quiet
<1>8. Collect(s) => Goal
  <2>1. Collect(s) => Quiet BY DEF Collect, Quiet
  <2>2. QED BY <2>1, CollectDelivers
<1>9. Stamps \/ DeleteWorkspace => Goal BY DEF Stamps, StampMember, DeleteWorkspace
<1>10. ASSUME NEW u \in Users, NEW role \in Roles, AcceptInvite(u, role) \/ ChangeRole(u, role)
       PROVE  Goal
    BY <1>9, <1>10, MembershipStep DEF Delivered
<1>11. ASSUME NEW u \in Users, RemoveMember(u) PROVE Goal
    BY <1>9, <1>11, MembershipStep DEF Roles, Delivered
<1>12. ASSUME NEW t \in Slots, SendAny(t) \/ Serve(t) \/ Unavailable(t) \/ Release(t)
       PROVE  Goal
    BY <1>2, <1>3, <1>4, <1>5, <1>6, <1>7, <1>8, <1>12 DEF Serve
<1>13. QED BY <1>9, <1>10, <1>11, <1>12 DEF Next

LEMMA DeliveredInit == Init => Delivered
<1> SUFFICES ASSUME Init PROVE Delivered OBVIOUS
<1>1. Typed /\ Numbered BY TypedInit, RefinedInit DEF Refined
<1>2. Counted /\ Stamped /\ Ledgered BY DEF Init, Counted, Stamped, Ledgered
<1>3. ASSUME NEW s \in Slots PROVE CollectsWell(req[s])
  <2>1. req[s].pc = "free" BY DEF Init, Free
  <2>2. QED BY <2>1 DEF CollectsWell
<1>4. QED BY <1>1, <1>2, <1>3 DEF Delivered

LEMMA DeliveredStep == Refined /\ Delivered /\ [Next]_serverVars => Delivered'
<1> SUFFICES ASSUME Refined, Delivered, [Next]_serverVars PROVE Delivered' OBVIOUS
<1>1. Typed' /\ Numbered' BY RefinedStep DEF Refined
<1>2. Forward /\ Counted' /\ Stamped' /\ Ledgered' BY ForwardStep DEF Delivered
<1>3. ASSUME NEW s \in Slots, NEW q, q = req'[s] PROVE CollectsWell(q)'
  <2>1. CASE q = req[s]
    <3>1. q \in Request /\ CollectsWell(q) BY <2>1 DEF Delivered, Typed, TypeOK
    <3>2. QED BY <1>1, <1>2, <3>1, CollectsOn DEF Delivered
  <2>2. CASE Quiet /\ CollectsWell(q)
    BY <2>2 DEF Quiet, CollectsWell, Due, ReadBefore, Covered
  <2>3. CASE q.pc \in {"command", "lock"} /\ q.k = 1 BY <2>3 DEF CollectsWell
  <2>4. CASE UNCHANGED serverVars BY <1>3, <2>1, <2>4 DEF serverVars
  <2>5. QED BY <1>3, <2>1, <2>2, <2>3, <2>4, RequestStep
<1>4. QED BY <1>1, <1>2, <1>3 DEF Delivered

\* No change falls between two tokens: what a client did not have and its reply's
\* token stands for is in the reply, or is carried by the next one; for any number
\* of tables, read one by one while others commit.
THEOREM DeliveredAtLeastOnce == Spec => []NeverZeroTimes
<1>1. Delivered => NeverZeroTimes
    BY DEF Delivered, CollectsWell, Answered, Due, Covered, NeverZeroTimes
<1>2. QED BY <1>1, RefinedInit, RefinedStep, DeliveredInit, DeliveredStep, PTL DEF Spec

=============================================================================
