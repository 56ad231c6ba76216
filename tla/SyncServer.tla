----------------------------- MODULE SyncServer -----------------------------
(***************************************************************************)
(* The sync endpoint of one workspace: the versioned rows, the command log *)
(* that makes a command idempotent, and the requests being served, each at *)
(* its own point between two transactions.                                 *)
(*                                                                         *)
(* Postgres runs READ COMMITTED.  A command's transaction takes the        *)
(* workspace row lock with its first statement and holds it to the commit, *)
(* so it is one action here; everything a request does outside that lock   *)
(* (the replay check, the version read, one SELECT per table) is an action *)
(* of its own and interleaves with the commits of other requests.          *)
(*                                                                         *)
(* Data: a command is its uuid.  An add's temp_id is the command itself; a *)
(* created object's id is the version it was created at (a fresh uuid4 in  *)
(* the code); a member row's id is the user.  A row keeps the command that *)
(* last wrote it instead of its fields.                                    *)
(***************************************************************************)
EXTENDS Naturals, Sequences, FiniteSets

CONSTANTS
    Users,      \* accounts that may send requests
    Owner,      \* the workspace's owner, never removed or demoted
    Cmds,       \* command uuids
    Adds,       \* the *_add commands
    Deletes,    \* the *_delete commands; every other command is an update
    By,         \* who issues a command
    Target,     \* what an update or delete names: an add's temp_id
    Tables,     \* the synced tables in the order collect_changes reads them
    TableOf,    \* the table an add creates its row in
    Slots,      \* requests being served at once
    Star,       \* the sync token "*"
    NoCmd,      \* marks a change that is no command
    MaxBatch,   \* bound: commands in one request (100 in the code)
    MaxVersion, \* bound: membership changes stop at this version
    Lag         \* bound: how many versions a client's token may be behind

ASSUME ServerConstants ==
    /\ Owner \in Users
    /\ Adds \subseteq Cmds /\ Deletes \subseteq Cmds \ Adds
    /\ By \in [Cmds -> Users]
    /\ Target \in [Cmds \ Adds -> Adds]
    /\ TableOf \in [Adds -> {Tables[k] : k \in DOMAIN Tables}]
    /\ Tables \in Seq({Tables[k] : k \in DOMAIN Tables})
    /\ Users \cap Nat = {} /\ Cmds \cap Nat = {} /\ Cmds \cap Users = {}
    /\ Cmds \cap {"member", "viewer"} = {}
    /\ Star \notin Nat
    /\ NoCmd \notin Cmds
    /\ MaxBatch \in Nat /\ MaxVersion \in Nat /\ Lag \in Nat

VARIABLES
    alive,    \* the workspaces row exists
    version,  \* workspaces.version
    rows,     \* id -> the row's table, version, is_deleted and content
    synced,   \* SyncedCommand: uuids stored as successful
    temps,    \* TempIdMap: temp_id -> object id
    ledger,   \* history: the changes in commit order, ledger[v] made version v
    req       \* slot -> the request being served in it

serverVars == <<alive, version, rows, synced, temps, ledger, req>>

-----------------------------------------------------------------------------
(* Types *)

Roles == {"member", "viewer"}
Ids == Users \cup Nat
Contents == Cmds \cup Roles
Row == [table : {Tables[k] : k \in DOMAIN Tables} \cup {"members"}, version : Nat,
        is_deleted : BOOLEAN, content : Contents]
Copy == [id : Ids, row : Row]
Command == [uuid : Cmds, ref : Nat \cup Adds]
Verdicts == {"ok", "forbidden", "not_found"}
Statuses == UNION {[S -> Verdicts] : S \in SUBSET Cmds}
Change == [cmd : Cmds \cup {NoCmd}, id : Ids, user : Users]

Request ==
    [ pc     : {"free", "sent", "command", "lock", "collect", "done"},
      user   : Users,
      token  : Nat \cup {Star},
      cmds   : Seq(Command),
      role   : Roles,
      i      : Nat,
      status : Statuses,
      upper  : Nat,
      k      : Nat,
      got    : SUBSET Copy,
      code   : {"ok", "forbidden", "not_found", "unavailable"} ]

TypeOK ==
    /\ alive \in BOOLEAN
    /\ version \in Nat
    /\ DOMAIN rows \subseteq Ids
    /\ \A id \in DOMAIN rows : rows[id] \in Row
    /\ synced \subseteq Cmds
    /\ DOMAIN temps \subseteq Adds
    /\ \A t \in DOMAIN temps : temps[t] \in Nat
    /\ ledger \in Seq(Change)
    /\ req \in [Slots -> Request]

-----------------------------------------------------------------------------
(* Helpers *)

Put(f, x, y) == [z \in DOMAIN f \cup {x} |-> IF z = x THEN y ELSE f[z]]

Free == [pc |-> "free", user |-> Owner, token |-> Star, cmds |-> <<>>, role |-> "viewer",
         i |-> 1, status |-> <<>>, upper |-> 0, k |-> 1, got |-> {}, code |-> "ok"]

\* The command the request in slot s is at.
Current(s) == req[s].cmds[req[s].i]
AtCommand(s) == req[s].i \in DOMAIN req[s].cmds

\* The membership row, None when it is missing or soft-deleted.
IsMember(u) == u \in DOMAIN rows /\ ~rows[u].is_deleted
MayWrite(u) == IsMember(u) /\ rows[u].content = "member"

\* A reference after temp_id resolution; an unknown one stays as it is.
Resolve(ref) == IF ref \in DOMAIN temps THEN temps[ref] ELSE ref

\* The handlers look an object up among those not soft-deleted.
IsLive(id) == id \in DOMAIN rows /\ ~rows[id].is_deleted

-----------------------------------------------------------------------------
(* Commands *)

\* Read under the lock: whether the log holds the command, and what user u may do.
NotAsked(c) == FALSE
Logged(c) == c.uuid \in synced
StillMember(u) == u \in DOMAIN rows
Permitted(u) == MayWrite(u)

\* What the transaction decides once it holds the workspace lock: the log is
\* read again, then the membership, then the handler looks its object up.
Verdict(u, c) ==
    IF ~alive THEN "not_found"
    ELSE IF Logged(c) THEN "ok"
    ELSE IF ~Permitted(u) THEN "forbidden"
    ELSE IF c.uuid \in Adds \/ IsLive(Resolve(c.ref)) THEN "ok"
    ELSE "not_found"

\* The mapping an add leaves behind.
BindToItself(c, id) == Put(temps, c, c)
Unbound(c, id) == temps
Bind(c, id) == Put(temps, c, id)

\* The bump, the handler's row change, the log and the mapping, committed together.
Commit(u, c) ==
    LET v  == version + 1
        id == IF c.uuid \in Adds THEN v ELSE Resolve(c.ref)
    IN  /\ version' = v
        /\ rows' = Put(rows, id,
                       [table      |-> IF c.uuid \in Adds THEN TableOf[c.uuid] ELSE rows[id].table,
                        version    |-> v,
                        is_deleted |-> c.uuid \in Deletes,
                        content    |-> c.uuid])
        /\ synced' = synced \cup {c.uuid}
        /\ temps' = IF c.uuid \in Adds THEN Bind(c.uuid, id) ELSE temps
        /\ ledger' = Append(ledger, [cmd |-> c.uuid, id |-> id, user |-> u])
        /\ UNCHANGED alive

Report(s, verdict) ==
    req' = [req EXCEPT ![s].pc = "command",
                       ![s].i = @ + 1,
                       ![s].status = Put(@, Current(s).uuid, verdict)]

\* A request arrives: nothing is decided yet.
Send(s, u, cs, tok) ==
    /\ req[s].pc = "free"
    /\ req' = [req EXCEPT ![s] = [Free EXCEPT !.pc = "sent", !.user = u, !.cmds = cs, !.token = tok]]

\* The router's own membership check; its role is trusted only to deny.
Admit(s) ==
    /\ req[s].pc = "sent"
    /\ LET u == req[s].user IN
       \/ /\ u \notin DOMAIN rows
          /\ req' = [req EXCEPT ![s].pc = "done", ![s].code = "not_found"]
       \/ /\ u \in DOMAIN rows /\ rows[u].is_deleted
          /\ req' = [req EXCEPT ![s].pc = "done", ![s].code = "forbidden"]
       \/ /\ IsMember(u)
          /\ req' = [req EXCEPT ![s].pc = "command", ![s].role = rows[u].content]
    /\ UNCHANGED <<alive, version, rows, synced, temps, ledger>>

\* The lock-free look into the log: a stored success is reported again.
CheckLog(s) ==
    /\ req[s].pc = "command" /\ AtCommand(s)
    /\ IF Current(s).uuid \in synced
       THEN Report(s, "ok")
       ELSE req' = [req EXCEPT ![s].pc = "lock"]
    /\ UNCHANGED <<alive, version, rows, synced, temps, ledger>>

\* A viewer's command is refused before it takes the lock.
RefuseViewer(s) ==
    /\ req[s].pc = "lock" /\ req[s].role = "viewer"
    /\ Report(s, "forbidden")
    /\ UNCHANGED <<alive, version, rows, synced, temps, ledger>>

\* One command's transaction, from the workspace lock to the commit or rollback.
Apply(s) ==
    /\ req[s].pc = "lock" /\ req[s].role = "member"
    /\ LET u == req[s].user
           c == Current(s)
           verdict == Verdict(u, c)
       IN  /\ Report(s, verdict)
           /\ IF verdict = "ok" /\ ~Logged(c)
              THEN Commit(u, c)
              ELSE UNCHANGED <<alive, version, rows, synced, temps, ledger>>

\* A transient database failure, at any statement, ends the request with a 503;
\* what it committed stays.  Right after Apply this is the commit that went
\* through while its acknowledgement was lost.
Unavailable(s) ==
    /\ req[s].pc \in {"sent", "command", "lock", "collect"}
    /\ req' = [req EXCEPT ![s] = [Free EXCEPT !.pc = "done", !.code = "unavailable"]]
    /\ UNCHANGED <<alive, version, rows, synced, temps, ledger>>

\* The counter is read before any table; it is 0 once the workspace is gone.
ReadVersion(s) ==
    /\ req[s].pc = "command" /\ ~AtCommand(s)
    /\ req' = [req EXCEPT ![s].pc = "collect", ![s].upper = IF alive THEN version ELSE 0]
    /\ UNCHANGED <<alive, version, rows, synced, temps, ledger>>

\* The rows one SELECT of collect_changes returns.
Fetch(table, token, upper) ==
    { [id |-> id, row |-> rows[id]] :
        id \in { x \in DOMAIN rows :
                   /\ rows[x].table = table
                   /\ IF token = Star THEN ~rows[x].is_deleted ELSE rows[x].version > token
                   /\ rows[x].version <= upper } }

\* Members are synced rows too and are read after every other table.
AllTables == Append(Tables, "members")

CollectThenReadVersion(s) ==
    /\ req[s].pc = "collect"
    /\ req' = [req EXCEPT ![s].got = @ \cup Fetch(AllTables[req[s].k], req[s].token, req[s].upper),
                          ![s].upper = version,
                          ![s].k = @ + 1,
                          ![s].pc = IF req[s].k = Len(AllTables) THEN "done" ELSE "collect"]
    /\ UNCHANGED <<alive, version, rows, synced, temps, ledger>>

Collect(s) ==
    /\ req[s].pc = "collect"
    /\ req' = [req EXCEPT ![s].got = @ \cup Fetch(AllTables[req[s].k], req[s].token, req[s].upper),
                          ![s].k = @ + 1,
                          ![s].pc = IF req[s].k = Len(AllTables) THEN "done" ELSE "collect"]
    /\ UNCHANGED <<alive, version, rows, synced, temps, ledger>>

\* The reply leaves, or the connection it belonged to is gone.
Release(s) ==
    /\ req[s].pc = "done"
    /\ req' = [req EXCEPT ![s] = Free]
    /\ UNCHANGED <<alive, version, rows, synced, temps, ledger>>

-----------------------------------------------------------------------------
(* Changes that are no command of a request here *)

\* A member row and the bump it is stamped with commit together.
StampMember(u, role, removed) ==
    /\ alive /\ version < MaxVersion
    /\ version' = version + 1
    /\ rows' = Put(rows, u, [table |-> "members", version |-> version + 1,
                             is_deleted |-> removed, content |-> role])
    /\ ledger' = Append(ledger, [cmd |-> NoCmd, id |-> u, user |-> Owner])
    /\ UNCHANGED <<alive, synced, temps, req>>

\* An invite is accepted, by a new user or by one removed earlier.
AcceptInvite(u, role) == ~IsMember(u) /\ StampMember(u, role, FALSE)

ChangeRole(u, role) ==
    /\ u # Owner /\ IsMember(u) /\ rows[u].content # role
    /\ StampMember(u, role, FALSE)

RemoveMember(u) ==
    /\ u # Owner /\ IsMember(u)
    /\ StampMember(u, rows[u].content, TRUE)

\* The workspace is deleted: every row of it goes with it.
DeleteWorkspace ==
    /\ alive
    /\ alive' = FALSE
    /\ rows' = <<>> /\ temps' = <<>> /\ synced' = {}
    /\ UNCHANGED <<version, ledger, req>>

-----------------------------------------------------------------------------
Init ==
    /\ alive = TRUE
    /\ version = 1
    /\ rows = [u \in {Owner} |-> [table |-> "members", version |-> 1,
                                  is_deleted |-> FALSE, content |-> "member"]]
    /\ synced = {}
    /\ temps = <<>>
    /\ ledger = <<[cmd |-> NoCmd, id |-> Owner, user |-> Owner]>>
    /\ req = [s \in Slots |-> Free]

\* A command as its author may send it: under the temp_id of the object it
\* changes, or under the real id once a reply has told it.
Forms(c) ==
    LET names == IF c \in Adds THEN {c}
                 ELSE {Target[c]} \cup {temps[t] : t \in {Target[c]} \cap DOMAIN temps}
    IN  {[uuid |-> c, ref |-> x] : x \in names}

\* The batches a user's devices may send: its own commands, each once.
Batches(u) ==
    LET own == {c \in Cmds : By[c] = u} IN
    { b \in UNION {[1..n -> UNION {Forms(c) : c \in own}] : n \in 0..MaxBatch} :
        \A m, n \in DOMAIN b : b[m].uuid = b[n].uuid => m = n }

SendAny(s) ==
    /\ \E u \in Users, tok \in {v \in 0..version : v + Lag >= version} \cup {Star} : \E cs \in Batches(u) : Send(s, u, cs, tok)
    /\ UNCHANGED <<alive, version, rows, synced, temps, ledger>>

Serve(s) ==
    \/ Admit(s) \/ CheckLog(s) \/ RefuseViewer(s) \/ Apply(s)
    \/ ReadVersion(s) \/ Collect(s)

Next ==
    \/ \E s \in Slots : SendAny(s) \/ Serve(s) \/ Unavailable(s) \/ Release(s)
    \/ \E u \in Users, role \in Roles : AcceptInvite(u, role) \/ ChangeRole(u, role)
    \/ \E u \in Users : RemoveMember(u)
    \/ DeleteWorkspace

Spec == Init /\ [][Next]_serverVars

-----------------------------------------------------------------------------
(* Properties *)

Answered(s) == req[s].pc = "done" /\ req[s].code = "ok"

\* Nothing a command does is ever done twice, however often and however
\* concurrently its uuid is sent: each uuid makes at most one version.
ExactlyOnce ==
    \A v, w \in DOMAIN ledger : ledger[v].cmd = ledger[w].cmd /\ ledger[v].cmd # NoCmd => v = w

\* A reply's "ok" is final: the command made a version, and for an add the
\* temp_id names exactly the object created by that version.
OkIsFinal ==
    \A s \in Slots : \A c \in DOMAIN req[s].status :
        req[s].status[c] = "ok" =>
            \E v \in DOMAIN ledger :
                /\ ledger[v].cmd = c
                /\ alive /\ c \in Adds => c \in DOMAIN temps /\ temps[c] = ledger[v].id

\* Delivered at least once: a change above the client's token and not above the
\* token it is handed back is in the reply (in this or a later state of its
\* object), or its object changed again above that token, so the next sync
\* carries it.  Only a full reply leaves deleted objects out.
NeverZeroTimes ==
    \A s \in Slots : Answered(s) /\ alive =>
        \A v \in DOMAIN ledger :
            LET id == ledger[v].id IN
            v <= req[s].upper /\ (req[s].token = Star \/ v > req[s].token) =>
                \/ \E c \in req[s].got : c.id = id /\ c.row.version >= v
                \/ rows[id].version > req[s].upper
                \/ req[s].token = Star /\ rows[id].is_deleted

\* CONTRACT.md says a reply is "one coherent moment": a full reply would then
\* hold every object that exists and already existed when its counter was read.
OneMoment ==
    \A s \in Slots : Answered(s) /\ req[s].token = Star =>
        \A v \in DOMAIN ledger :
            v <= req[s].upper /\ IsLive(ledger[v].id) =>
                \E c \in req[s].got : c.id = ledger[v].id

\* Seen from outside, requests do not exist: the workspace changes by whole
\* commands, each once, by a user who may write at that moment.
Outside == INSTANCE SharedWorkspace WITH
    objects <- [id \in DOMAIN rows |-> [content |-> rows[id].content, is_deleted |-> rows[id].is_deleted]],
    done    <- synced,
    names   <- temps

ImplementsWorkspace == Outside!Spec

=============================================================================
