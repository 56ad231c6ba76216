----------------------------- MODULE SyncClient -----------------------------
(***************************************************************************)
(* One device of a workspace on top of the sync endpoint: the optimistic   *)
(* replica, the durable queue, and the lane that runs one flush or pull at *)
(* a time.  The device can be killed between any two storage writes, its   *)
(* requests and replies can be lost or overtaken, and other devices keep   *)
(* changing the same objects.                                              *)
(*                                                                         *)
(* JavaScript runs a handler without interruption up to its next await, so *)
(* one action is the code between two awaits.  Storage applies writes in   *)
(* the order they were issued; "writes" holds those not yet on disk, and a *)
(* kill loses them.  Waiting for one's own write is waiting for all the    *)
(* writes issued before it.                                                *)
(***************************************************************************)
EXTENDS SyncServer, SequencesExt

CONSTANTS
    Device,       \* the user signed in on this device
    Mine,         \* commands made on this device; the others come from elsewhere
    BatchSize,    \* commands per request (maxBatch)
    MaxFaults,    \* bound: kills, lost messages, failed writes and 503s
    KillAnywhere, \* FALSE: no kill while a reply is written to storage or a workspace purged
    WritesFail,   \* TRUE: storage may refuse a write
    CachedBoot,   \* TRUE: the app may start offline, from the cached session
    ActsEarly,    \* TRUE: the user and the timers do not wait for the reads of a start
    ServerStays   \* TRUE: the workspace is not deleted in this instance

ASSUME ClientConstants ==
    /\ Device \in Users
    /\ Mine \subseteq {c \in Cmds : By[c] = Device}
    /\ BatchSize \in Nat \ {0}
    /\ MaxFaults \in Nat
    /\ KillAnywhere \in BOOLEAN /\ WritesFail \in BOOLEAN
    /\ CachedBoot \in BOOLEAN /\ ActsEarly \in BOOLEAN /\ ServerStays \in BOOLEAN

VARIABLES
    up,             \* the app's process: "down", "up"
    stored,         \* what a start's reads will answer, while it awaits them
    purge,          \* the purge of a workspace that a start found gone
    queue,          \* commands not yet acknowledged, in order
    replica,        \* id or temp_id -> what the screen shows
    syncToken,
    needsFullSync,  \* the replica holds a refused command's effect
    idAliases,      \* temp_id -> real id, as replies told
    lane,           \* the flush or pull holding the exclusive lane, and its step
    rejected,       \* refused commands the app has not been told about
    disk,           \* the five keys of the workspace in storage
    writes,         \* storage writes issued and not settled
    faults,         \* faults so far
    made, saved, refused, discarded, lossTold, waived, swallowed  \* history, see below

(***************************************************************************)
(* History: made are the commands the user made, saved those whose queue   *)
(* write settled, refused those the server answered with an error,         *)
(* discarded those thrown away with the local data of a lost workspace,    *)
(* lossTold the number of discarded changes the user was told, waived the  *)
(* number in notices dropped because the workspace was back, and swallowed *)
(* the number that a start's purge had counted and a kill kept it from     *)
(* telling after the queue was gone.                                       *)
(***************************************************************************)

volatile == <<queue, replica, syncToken, needsFullSync, idAliases, lane, rejected>>
history  == <<made, saved, refused, discarded, lossTold, waived, swallowed>>
dataVars == <<alive, version, rows, synced, temps, ledger>>
process == <<up, stored, purge>>
clientVars == <<process, volatile, disk, writes, faults, history>>
vars == <<serverVars, clientVars>>

-----------------------------------------------------------------------------
Entry == [content : Contents, is_deleted : BOOLEAN]
IsReplica(rep) == DOMAIN rep \subseteq Ids \cup Adds /\ \A x \in DOMAIN rep : rep[x] \in Entry
Idle == [job |-> "idle", step |-> "start", slots |-> {}, batch |-> {}, full |-> FALSE]

NoReplica == [x \in {} |-> x]
EmptyDisk == [queue |-> <<>>, token |-> Star, replica |-> NoReplica,
              needsFullSync |-> FALSE, lossNotice |-> 0]

Uuids(q) == {q[k].uuid : k \in DOMAIN q}
Applied == {ledger[v].cmd : v \in DOMAIN ledger} \ {NoCmd}

-----------------------------------------------------------------------------
(* The replica *)

\* The optimistic effect of a command.
ApplyCommand(rep, c) ==
    IF c.uuid \in Adds
    THEN Put(rep, c.uuid, [content |-> c.uuid, is_deleted |-> FALSE])
    ELSE IF c.ref \in DOMAIN rep
    THEN Put(rep, c.ref, [content    |-> c.uuid,
                          is_deleted |-> rep[c.ref].is_deleted \/ c.uuid \in Deletes])
    ELSE rep

\* References to temp ids a mapping knows become real ids.
RewriteRefs(q, mapping) ==
    [k \in DOMAIN q |-> [q[k] EXCEPT !.ref = IF @ \in DOMAIN mapping THEN mapping[@] ELSE @]]

\* temp_id_mapping of a reply: the adds it reports as ok, each with the id of the
\* object it created, which is the version it was created at.
Mapping(s) ==
    [c \in {x \in Adds \cap DOMAIN req[s].status : req[s].status[x] = "ok"} |->
        CHOOSE v \in DOMAIN ledger : ledger[v].cmd = c]

LiveCopies(got) == {c \in got : ~c.row.is_deleted}
RowOf(got, id) == (CHOOSE c \in got : c.id = id).row
EntryOf(row) == [content |-> row.content, is_deleted |-> FALSE]

\* A full reply replaces the replica; what is still queued is applied again.
Replaced(got, stillQueued) ==
    LET base == [id \in {c.id : c \in LiveCopies(got)} |-> EntryOf(RowOf(got, id))]
    IN  FoldLeft(ApplyCommand, base, stillQueued)

MergedKeepingTemps(rep, mapping, got) ==
    LET live == {c.id : c \in LiveCopies(got)}
        gone == {c.id : c \in got \ LiveCopies(got)}
    IN  [id \in (DOMAIN rep \ gone) \cup live |->
           IF id \in live THEN EntryOf(RowOf(got, id)) ELSE rep[id]]

MergedKeepingDeleted(rep, mapping, got) ==
    LET live == {c.id : c \in LiveCopies(got)}
    IN  [id \in (DOMAIN rep \ DOMAIN mapping) \cup live |->
           IF id \in live THEN EntryOf(RowOf(got, id)) ELSE rep[id]]

\* A delta drops the temp entries it maps and upserts or removes by id.
Merged(rep, mapping, got) ==
    LET live == {c.id : c \in LiveCopies(got)}
        gone == {c.id : c \in got \ LiveCopies(got)}
    IN  [id \in ((DOMAIN rep \ DOMAIN mapping) \ gone) \cup live |->
           IF id \in live THEN EntryOf(RowOf(got, id)) ELSE rep[id]]

\* The reply in slot s is folded in; stillQueued is what it did not acknowledge.
ApplyResponse(s, stillQueued) ==
    LET mapping == Mapping(s)
        full    == req[s].token = Star
        q       == RewriteRefs(stillQueued, mapping)
    IN  /\ queue' = q
        /\ replica' = IF full THEN Replaced(req[s].got, q)
                      ELSE Merged(replica, mapping, req[s].got)
        /\ idAliases' = [t \in DOMAIN mapping \cup DOMAIN idAliases |->
                           IF t \in DOMAIN mapping THEN mapping[t] ELSE idAliases[t]]
        /\ syncToken' = req[s].upper

-----------------------------------------------------------------------------
(* Storage *)

Write(key, value) == [key |-> key, value |-> value, awaited |-> TRUE]
Forgotten(key, value) == [key |-> key, value |-> value, awaited |-> FALSE]
Settled == writes = <<>>

\* hydrate has asked for the stored keys; later writes settle after the answer.
NoAnswer == [is |-> "nothing"]
NoPurge == [is |-> "nothing", removed |-> 0, count |-> 0]
Reading == stored # NoAnswer
Purging == purge # NoPurge
Active == up = "up" /\ (~Reading \/ ActsEarly)

\* A write reaches the disk.
Settle ==
    /\ ~Settled /\ ~Reading
    /\ LET w == Head(writes) IN
       /\ disk' = [disk EXCEPT ![w.key] = w.value]
       /\ saved' = IF w.key = "queue" THEN saved \cup Uuids(w.value) ELSE saved
    /\ writes' = Tail(writes)
    /\ UNCHANGED <<serverVars, process, volatile, faults,
                   made, refused, discarded, lossTold, waived, swallowed>>

-----------------------------------------------------------------------------
(* Editing *)

\* The ids under which the user can see (or a stale screen still holds) the
\* object a command is about.
ShownAs(c) ==
    IF c \in Adds THEN {c}
    ELSE {x \in DOMAIN replica :
             /\ ~replica[x].is_deleted
             /\ x = Target[c] \/ (x \in Nat /\ ledger[x].cmd = Target[c])}
         \cup ({Target[c]} \cap DOMAIN idAliases)

Mutate(c) ==
    /\ Active /\ lane.job \notin {"lost", "gone"}
    /\ c \in Mine \ made
    /\ \E x \in ShownAs(c) :
         LET cmd == RewriteRefs(<<[uuid |-> c, ref |-> x]>>, idAliases)[1] IN
         /\ replica' = ApplyCommand(replica, cmd)
         /\ queue' = Append(queue, cmd)
    /\ writes' = writes \o <<Forgotten("queue", queue'), Forgotten("replica", replica')>>
    /\ made' = made \cup {c}
    /\ UNCHANGED <<serverVars, process, syncToken, needsFullSync, idAliases, lane, rejected,
                   disk, faults, saved, refused, discarded, lossTold, waived, swallowed>>

-----------------------------------------------------------------------------
(* The lane: requests *)

\* While a refusal is outstanding every request asks for everything.
AskForDelta == syncToken
AskFor == IF needsFullSync THEN Star ELSE syncToken

DoSync(batch) ==
    \E s \in Slots :
        /\ Send(s, Device, batch, AskFor)
        /\ lane' = [lane EXCEPT !.step = "reply", !.slots = {s}, !.batch = Uuids(batch)]
    
StartFlush ==
    /\ Active /\ lane.job = "idle" /\ queue # <<>>
    /\ lane' = [Idle EXCEPT !.job = "flush"]
    /\ UNCHANGED <<serverVars, process, queue, replica, syncToken, needsFullSync, idAliases, rejected,
                   disk, writes, faults, history>>

SendBatch ==
    /\ lane.job = "flush" /\ lane.step = "start" /\ queue # <<>>
    /\ DoSync(SubSeq(queue, 1, IF Len(queue) < BatchSize THEN Len(queue) ELSE BatchSize))
    /\ UNCHANGED <<dataVars, process, queue, replica, syncToken, needsFullSync, idAliases, rejected,
                   disk, writes, faults, history>>

\* A pull on its own (focus, tick, retry), or the one that recovers from a refusal.
SendPull ==
    /\ \/ Active /\ lane.job = "idle" /\ queue = <<>>
       \/ lane.job = "recover" /\ lane.step = "start"
    /\ \E s \in Slots :
         /\ Send(s, Device, <<>>, AskFor)
         /\ lane' = [Idle EXCEPT !.job = IF lane.job = "idle" THEN "pull" ELSE "recover",
                                 !.step = "reply", !.slots = {s}]
    /\ UNCHANGED <<dataVars, process, queue, replica, syncToken, needsFullSync, idAliases, rejected,
                   disk, writes, faults, history>>

\* The job leaves the lane.  A flush that left a refusal behind pulls; the
\* refusals are reported when that pull is over, however it went.
LeaveLane ==
    IF lane.job = "flush" /\ needsFullSync
    THEN lane' = [Idle EXCEPT !.job = "recover"] /\ UNCHANGED rejected
    ELSE lane' = Idle /\ rejected' = {}

-----------------------------------------------------------------------------
(* The lane: replies *)

Replied(s) == lane.step = "reply" /\ s \in lane.slots /\ req[s].pc = "done"
Refusals(s) == {c \in lane.batch : req[s].status[c] # "ok"}
FreeSlot(s) == req' = [req EXCEPT ![s] = Free]

\* What is queued and not acknowledged by this reply: edits made while it was
\* under way included.
Nothing == <<>>
Without(q, batch) ==
    FoldLeft(LAMBDA rest, c : IF c.uuid \in batch THEN rest ELSE Append(rest, c), <<>>, q)
StillQueued == Without(queue, lane.batch)

WholeBatch(s) == lane.batch
NewlyRejected(s) == Refusals(s)

NoFlag == <<>>
Flag == <<Write("needsFullSync", TRUE)>>

\* The batch had refusals: the flag is on disk before anything else happens.
MarkNeedsFullSync(s) ==
    /\ lane.job = "flush" /\ Replied(s) /\ req[s].code = "ok"
    /\ Refusals(s) # {}
    /\ needsFullSync' = TRUE
    /\ rejected' = rejected \cup NewlyRejected(s)
    /\ refused' = refused \cup Refusals(s)
    /\ writes' = writes \o Flag
    /\ lane' = [lane EXCEPT !.step = "flag"]
    /\ UNCHANGED <<serverVars, process, queue, replica, syncToken, idAliases, disk, faults,
                   made, saved, discarded, lossTold, waived, swallowed>>

ApplyFlush(s) ==
    /\ lane.job = "flush" /\ s \in lane.slots /\ req[s].pc = "done" /\ req[s].code = "ok"
    /\ \/ lane.step = "reply" /\ Refusals(s) = {}
       \/ lane.step = "flag" /\ Settled
    /\ ApplyResponse(s, StillQueued)
    /\ writes' = Append(writes, Write("queue", queue'))
    /\ lane' = [lane EXCEPT !.step = "queue", !.slots = {}, !.full = req[s].token = Star]
    /\ FreeSlot(s)
    /\ UNCHANGED <<dataVars, process, needsFullSync, rejected, disk, faults, history>>

ApplyPull(s) ==
    /\ lane.job \in {"pull", "recover"} /\ Replied(s) /\ req[s].code = "ok"
    /\ ApplyResponse(s, queue)
    /\ writes' = Append(writes, Write("token", syncToken'))
    /\ lane' = [lane EXCEPT !.step = "token", !.slots = {}, !.full = req[s].token = Star]
    /\ FreeSlot(s)
    /\ UNCHANGED <<dataVars, process, needsFullSync, rejected, disk, faults, history>>

PersistToken ==
    /\ lane.step = "queue" /\ Settled
    /\ writes' = <<Write("token", syncToken)>>
    /\ lane' = [lane EXCEPT !.step = "token"]
    /\ UNCHANGED <<serverVars, process, queue, replica, syncToken, needsFullSync, idAliases, rejected,
                   disk, faults, history>>

PersistReplica ==
    /\ lane.step = "token" /\ Settled
    /\ writes' = <<Write("replica", replica)>>
    /\ lane' = [lane EXCEPT !.step = "replica"]
    /\ UNCHANGED <<serverVars, process, queue, replica, syncToken, needsFullSync, idAliases, rejected,
                   disk, faults, history>>

\* Only a full reply replaced the replica, and only now is that on disk.
ClearNeedsFullSync ==
    /\ lane.step = "replica" /\ lane.full /\ Settled
    /\ needsFullSync' = FALSE
    /\ writes' = <<Write("needsFullSync", FALSE)>>
    /\ lane' = [lane EXCEPT !.step = "clear"]
    /\ UNCHANGED <<serverVars, process, queue, replica, syncToken, idAliases, rejected, disk, faults, history>>

\* The reply is on disk: the flush loops while something is queued.
EndReply ==
    /\ (lane.step = "replica" /\ ~lane.full) \/ lane.step = "clear"
    /\ Settled
    /\ IF lane.job = "flush" /\ queue # <<>>
       THEN lane' = [Idle EXCEPT !.job = "flush"] /\ UNCHANGED rejected
       ELSE LeaveLane
    /\ UNCHANGED <<serverVars, process, queue, replica, syncToken, needsFullSync, idAliases,
                   disk, writes, faults, history>>

\* A 503 is retryable, never a refusal: everything is kept.
RetryLater(s) ==
    /\ Replied(s) /\ req[s].code = "unavailable"
    /\ FreeSlot(s)
    /\ LeaveLane
    /\ UNCHANGED <<dataVars, process, queue, replica, syncToken, needsFullSync, idAliases,
                   disk, writes, faults, history>>

-----------------------------------------------------------------------------
(* Losing access *)

\* The changes that go with the workspace: the queue, and the refused commands
\* already taken off it that the user has not heard of.
QueueOnly == Uuids(queue)
Doomed == Uuids(queue) \cup rejected

\* What goes to disk: the notice first, the queue last.
Purge(n) == << Write("lossNotice", n), Write("replica", NoReplica), Write("token", Star),
               Write("needsFullSync", FALSE), Write("queue", <<>>) >>

\* The server said 403 or 404.
LoseAccess(s) ==
    /\ Replied(s) /\ req[s].code \in {"forbidden", "not_found"}
    /\ discarded' = discarded \cup Uuids(queue) \cup rejected
    /\ writes' = writes \o Purge(Cardinality(Doomed))
    /\ lane' = [Idle EXCEPT !.job = "lost", !.batch = Doomed]
    /\ FreeSlot(s)
    /\ UNCHANGED <<dataVars, process, queue, replica, syncToken, needsFullSync, idAliases, rejected,
                   disk, faults, made, saved, refused, lossTold, waived, swallowed>>

\* onAccessLost: the user hears how many changes are gone, then the notice goes too.
ReportLoss ==
    /\ lane.job = "lost" /\ Settled
    /\ lossTold' = lossTold + Cardinality(lane.batch)
    /\ queue' = <<>>
    /\ rejected' = {}
    /\ writes' = <<Write("lossNotice", 0)>>
    /\ lane' = [Idle EXCEPT !.job = "gone"]
    /\ UNCHANGED <<serverVars, process, replica, syncToken, needsFullSync, idAliases, disk, faults,
                   made, saved, refused, discarded, waived, swallowed>>

-----------------------------------------------------------------------------
(* Faults *)

Fault == faults < MaxFaults /\ faults' = faults + 1

\* No reply in time, or the connection breaks: the job gives up and keeps
\* everything.  The request may still run at the server, unawaited.
GiveUp(s) ==
    /\ lane.step = "reply" /\ s \in lane.slots
    /\ Fault
    /\ LeaveLane
    /\ UNCHANGED <<serverVars, process, queue, replica, syncToken, needsFullSync, idAliases,
                   disk, writes, history>>

\* Storage refuses a write (quota, disk full): an awaited one ends the job.
WriteFails ==
    /\ WritesFail /\ ~Settled /\ Fault /\ lane.job \notin {"lost", "gone"}
    /\ writes' = Tail(writes)
    /\ IF Head(writes).awaited THEN LeaveLane ELSE UNCHANGED <<lane, rejected>>
    /\ UNCHANGED <<serverVars, process, queue, replica, syncToken, needsFullSync, idAliases,
                   disk, history>>

\* Nobody waits for this request any more: its reply is dropped, or it never arrives.
DropOrphan(s) ==
    /\ s \notin lane.slots /\ req[s].pc \in {"sent", "done"}
    /\ FreeSlot(s)
    /\ UNCHANGED <<dataVars, clientVars>>

Forget ==
    /\ queue' = <<>> /\ replica' = NoReplica /\ syncToken' = Star
    /\ needsFullSync' = FALSE /\ idAliases' = NoReplica /\ lane' = Idle /\ rejected' = {}

NoticePending == \E k \in DOMAIN writes : writes[k].key = "lossNotice" /\ writes[k].value > 0

\* The process dies: memory and the writes that did not settle are gone.  A purge
\* whose notice was not on disk yet has not begun: the next start finds the loss again.
Kill ==
    /\ up = "up" /\ Fault
    /\ KillAnywhere \/ (Settled /\ lane.step \in {"start", "reply"} /\ lane.job # "lost")
    /\ up' = "down" /\ stored' = NoAnswer /\ writes' = <<>> /\ Forget
    /\ discarded' = IF NoticePending THEN discarded \ lane.batch ELSE discarded
    /\ UNCHANGED <<serverVars, purge, disk, made, saved, refused, lossTold, waived, swallowed>>

\* A key that was never written leaves the memory as it is.
Fill(found) ==
    /\ queue' = IF found.queue = <<>> /\ ~found.edited THEN queue ELSE found.queue
    /\ replica' = IF found.replica = NoReplica THEN replica ELSE found.replica
    /\ syncToken' = IF found.token = Star THEN syncToken ELSE found.token
    /\ needsFullSync' = found.needsFullSync

\* The app starts: the four keys are asked for at once, and what was stored by
\* then is what the reads answer.
Found == [is |-> "found", queue |-> disk.queue, replica |-> disk.replica, token |-> disk.token,
          needsFullSync |-> disk.needsFullSync, edited |-> saved # {}]
Hydrate ==
    /\ up = "down" /\ ~Purging /\ up' = "up"
    /\ stored' = Found
    /\ UNCHANGED <<serverVars, purge, volatile, writes, faults,
                   made, saved, refused, discarded, lossTold, swallowed>>

\* The reads are back.
Hydrated ==
    /\ Reading /\ Fill(stored) /\ stored' = NoAnswer
    /\ UNCHANGED <<serverVars, up, purge, idAliases, lane, rejected, disk, writes, faults, history>>

\* Online it asks /me first: the workspace is still (or again) listed, and a
\* notice that an interrupted purge left for it is dropped.
Boot ==
    /\ IsMember(Device)
    /\ Hydrate
    /\ disk' = [disk EXCEPT !.lossNotice = 0]
    /\ waived' = waived + disk.lossNotice

\* Offline it starts from the cached session, whatever the server would say.
BootFromCache ==
    /\ CachedBoot /\ disk # EmptyDisk
    /\ Hydrate
    /\ UNCHANGED <<disk, waived>>

\* A start counts the queue, or what a notice says if that is more.
CountOnDisk == IF Len(disk.queue) > disk.lossNotice THEN Len(disk.queue) ELSE disk.lossNotice

\* /me no longer lists the workspace: the loss is counted, and its keys go.
BootPurges ==
    /\ up = "down" /\ ~Purging /\ ~IsMember(Device) /\ disk # EmptyDisk
    /\ purge' = [is |-> "purge", removed |-> 0, count |-> CountOnDisk]
    /\ discarded' = discarded \cup Uuids(disk.queue)
    /\ UNCHANGED <<serverVars, up, stored, volatile, disk, writes, faults,
                   made, saved, refused, lossTold, waived, swallowed>>

\* The keys go one after the other, the queue before the notice.
PurgeOrder == <<"replica", "token", "needsFullSync", "queue", "lossNotice">>

RemoveKey ==
    /\ Purging /\ purge.removed < Len(PurgeOrder)
    /\ LET key == PurgeOrder[purge.removed + 1] IN disk' = [disk EXCEPT ![key] = EmptyDisk[key]]
    /\ purge' = [purge EXCEPT !.removed = @ + 1]
    /\ UNCHANGED <<serverVars, up, stored, volatile, writes, faults, history>>

\* Everything is removed: the user is told how many changes are gone.
BootReports ==
    /\ Purging /\ purge.removed = Len(PurgeOrder)
    /\ lossTold' = lossTold + purge.count
    /\ purge' = NoPurge
    /\ UNCHANGED <<serverVars, up, stored, volatile, disk, writes, faults,
                   made, saved, refused, discarded, waived, swallowed>>

\* The process dies in a start's purge, which writes no notice of its own: what
\* the next start can still count is the queue or an older notice.
KillInPurge ==
    /\ Purging /\ KillAnywhere /\ Fault
    /\ purge' = NoPurge
    /\ discarded' = discarded \ Uuids(disk.queue)
    /\ swallowed' = swallowed + IF purge.count > CountOnDisk THEN purge.count - CountOnDisk ELSE 0
    /\ UNCHANGED <<serverVars, up, stored, volatile, disk, writes,
                   made, saved, refused, lossTold, waived>>

-----------------------------------------------------------------------------
(* Everyone else *)

\* Another device's command, served between two steps of ours.
OtherDevice(c) ==
    /\ c \in Cmds \ (Mine \cup synced)
    /\ \E f \in Forms(c) : Verdict(By[c], f) = "ok" /\ Commit(By[c], f)
    /\ UNCHANGED <<req, clientVars>>

Membership ==
    /\ \/ \E u \in Users, role \in Roles : AcceptInvite(u, role) \/ ChangeRole(u, role)
       \/ \E u \in Users : RemoveMember(u)
       \/ ~ServerStays /\ DeleteWorkspace
    /\ UNCHANGED clientVars

Serving(s) == Serve(s) /\ UNCHANGED clientVars

Failing(s) ==
    /\ Unavailable(s) /\ Fault
    /\ UNCHANGED <<process, volatile, disk, writes, history>>

ClientInit ==
    /\ Init
    /\ up = "down" /\ stored = NoAnswer /\ purge = NoPurge /\ disk = EmptyDisk /\ writes = <<>> /\ faults = 0
    /\ queue = <<>> /\ replica = NoReplica /\ syncToken = Star
    /\ needsFullSync = FALSE /\ idAliases = NoReplica /\ lane = Idle /\ rejected = {}
    /\ made = {} /\ saved = {} /\ refused = {} /\ discarded = {}
    /\ lossTold = 0 /\ waived = 0 /\ swallowed = 0

Step(s) ==
    \/ MarkNeedsFullSync(s) \/ ApplyFlush(s) \/ ApplyPull(s) \/ RetryLater(s) \/ LoseAccess(s)

Run ==
    \/ Settle \/ StartFlush \/ SendBatch \/ SendPull
    \/ PersistToken \/ PersistReplica \/ ClearNeedsFullSync \/ EndReply \/ ReportLoss
    \/ Boot \/ Hydrated \/ BootFromCache
    \/ BootPurges \/ RemoveKey \/ BootReports

ClientNext ==
    \/ \E c \in Cmds : Mutate(c) \/ OtherDevice(c)
    \/ \E s \in Slots : Step(s) \/ GiveUp(s) \/ DropOrphan(s) \/ Serving(s) \/ Failing(s)
    \/ Run \/ Kill \/ KillInPurge \/ WriteFails \/ Membership

ClientSpec == ClientInit /\ [][ClientNext]_vars

\* The server answers, storage settles, and the app's timers (debounce, retry,
\* 60 s tick) start the next job; nothing is assumed of the user, of the other
\* devices or of the network, whose faults only are bounded.
Fairness ==
    /\ WF_vars(Run)
    /\ \A s \in Slots : WF_vars(Serving(s)) /\ WF_vars(Step(s)) /\ WF_vars(DropOrphan(s))

FairClientSpec == ClientSpec /\ Fairness

-----------------------------------------------------------------------------
(* Properties *)

ClientTypeOK ==
    /\ TypeOK
    /\ up \in {"up", "down"} /\ (Reading => up = "up" /\ IsReplica(stored.replica))
    /\ queue \in Seq(Command) /\ disk.queue \in Seq(Command)
    /\ IsReplica(replica) /\ IsReplica(disk.replica)
    /\ syncToken \in Nat \cup {Star} /\ disk.token \in Nat \cup {Star}
    /\ needsFullSync \in BOOLEAN /\ disk.needsFullSync \in BOOLEAN
    /\ DOMAIN idAliases \subseteq Adds
    /\ lane.job \in {"idle", "flush", "pull", "recover", "lost", "gone"}
    /\ lane.step \in {"start", "reply", "flag", "queue", "token", "replica", "clear"}
    /\ lane.slots \subseteq Slots /\ Cardinality(lane.slots) <= 1
    /\ rejected \subseteq Mine /\ rejected \subseteq refused
    /\ disk.lossNotice \in Nat /\ lossTold \in Nat /\ waived \in Nat /\ swallowed \in Nat
    /\ Purging => up = "down" /\ purge.removed \in 0..5 /\ purge.count \in Nat

\* A change that reached the disk is never silently gone: through every kill,
\* lost reply and retry it is still in the stored queue, or it took effect, or
\* the server refused it, or it was discarded with a lost workspace.
SavedNotLost ==
    saved \subseteq Uuids(disk.queue) \cup Applied \cup refused \cup discarded

\* What a refused command drew on the stored screen is never stranded: until it
\* is off the disk, a restart either still has the command queued or knows that
\* it must ask for everything.
RefusalRecoverable ==
    \A id \in DOMAIN disk.replica :
        disk.replica[id].content \in (refused \cap saved) \ Applied =>
            disk.needsFullSync \/ disk.replica[id].content \in Uuids(disk.queue)

\* The commands that may still show on the running screen: those not yet
\* acknowledged, and refused ones a full sync is due for.
Pending == Uuids(queue) \cup (IF needsFullSync THEN refused ELSE {})

Running == up = "up" /\ ~Reading /\ lane.job \notin {"lost", "gone"} /\ alive

\* The token is honest: whatever the workspace holds up to the version it
\* stands for is on the screen, except where a pending change covers it.  A
\* device whose token ran ahead of its replica never hears of the difference.
TokenIsHonest ==
    Running /\ syncToken # Star =>
        \A id \in DOMAIN rows :
            rows[id].version <= syncToken =>
                \/ id \in DOMAIN replica /\ replica[id].content \in Pending
                \/ rows[id].is_deleted /\ id \notin DOMAIN replica
                \/ ~rows[id].is_deleted /\ id \in DOMAIN replica
                   /\ replica[id] = EntryOf(rows[id])

\* Two clients change the same object and the last write wins, in the order the
\* server took them (CONTRACT.md 6): a device with nothing left to send or repair
\* shows no edit of its own that was overwritten before its token.
LastWriteWins ==
    Running /\ lane.job = "idle" /\ queue = <<>> /\ ~needsFullSync /\ syncToken # Star =>
        \A id \in DOMAIN rows \cap DOMAIN replica :
            rows[id].version <= syncToken => replica[id].content = rows[id].content

\* An object is on the screen under its temp_id only while its add is pending:
\* afterwards it would be a duplicate no delta can remove.
NoStrandedTemp ==
    Running => \A t \in DOMAIN replica \cap Adds : t \in Pending

Converged ==
    /\ up = "up" /\ queue = <<>> /\ ~needsFullSync
    /\ replica = [id \in {x \in DOMAIN rows : IsLive(x)} |-> EntryOf(rows[id])]

\* Once nobody edits any more, a device whose user is still a member ends up
\* showing exactly what the workspace holds, with nothing left to send or repair.
Converges == <>[](IsMember(Device) => Converged)

\* The purge of a lost workspace is over, in the running app or at a start.
PurgeOver == lane.job = "gone" \/ (up = "down" /\ ~Purging /\ disk = EmptyDisk)

\* Then the user has heard of at least as many discarded changes as were really
\* lost (a workspace that is back by the next start waives its notice).  The code
\* says so ("a kill mid-purge cannot swallow the notice", client.ts); a kill in
\* the purge of a start, between the queue's removal and the alert, refutes it.
LossIsTold == PurgeOver => Cardinality(discarded \ Applied) <= lossTold + waived

\* That window is the only one: no discarded change is untold, whenever the app is
\* killed in its own purge and as often as a start's purge is begun again, but
\* those a start's purge had counted and taken off the disk when it was killed.
LossIsKnown == PurgeOver => Cardinality(discarded \ Applied) <= lossTold + waived + swallowed

=============================================================================
