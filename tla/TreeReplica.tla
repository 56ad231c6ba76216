----------------------------- MODULE TreeReplica ----------------------------
(***************************************************************************)
(* One device's copy of the task tree.  An edit is applied to the screen   *)
(* by the client's own version of the handler (apply.ts) and queued; the   *)
(* server later judges it by its handler (TaskTree) against a tree other   *)
(* people have changed meanwhile, and answers with the rows it stamped.    *)
(* Nothing undoes the client's own effect: screen and server agree again   *)
(* only if every row on which the two versions differ is in a reply.       *)
(*                                                                         *)
(* Abstracted: a batch is one command (batches, lost replies, storage and  *)
(* kills are SyncClient's), the reply's tables are read at the commit      *)
(* (SyncServer reads them one by one), and a temp id is the id the server  *)
(* will give, so rewriting references is the identity.                     *)
(***************************************************************************)
EXTENDS TaskTree, SequencesExt

CONSTANTS
    Star,        \* the sync token "*"
    NoReply,     \* no request is out
    MaxOthers,   \* bound: commands of other people
    MaxEdits     \* bound: edits on this device

\* Answers that carry the rows of S.
Replies(S) == [cmd : Commands \cup {None}, status : {"ok", "not_found", "invalid_args"},
               full : BOOLEAN, rows : [S -> Row], token : Nat]

ASSUME ReplicaConstants ==
    /\ Star \notin Nat /\ None \notin Commands
    /\ \A S \in SUBSET Ids : NoReply \notin Replies(S)
    /\ MaxOthers \in Nat /\ MaxEdits \in Nat

VARIABLES
    screen,         \* the replica: what the device shows
    queue,          \* commands not yet answered
    syncToken,      \* version of the last reply folded in
    needsFullSync,  \* a refused command's effect is still on the screen
    reply,          \* the answer on its way
    edits,          \* history: edits made so far
    others          \* history: other people's commands so far

deviceVars == <<screen, queue, syncToken, needsFullSync, reply, edits>>
replicaVars == <<treeVars, deviceVars, others>>

Absent == [is |-> "absent", project |-> None, section |-> None, parent |-> None, at |-> 0]

\* The replica keeps no deleted rows a reply brought, and shows no versions.
Shown(row) == IF row.is = "live" THEN [row EXCEPT !.at = 0] ELSE Absent

-----------------------------------------------------------------------------
\* applyCommand: the client's versions of the handlers, on its replica s.

ApplyProjectDelete(s, p) ==
    LET own  == {t \in Tasks : Known(s, t) /\ s[t].project = p}
        dead == own \cup UNION {LiveSubtasks(s, t) : t \in own}
    IN  Deleted(s, {p} \cup {x \in Sections : s[x].project = p}
                       \cup dead \cup NotesOn(s, dead), 0)

ApplySectionDelete(s, x) ==
    [i \in Ids |-> IF i \in Tasks /\ s[i].section = x
                   THEN [s[i] EXCEPT !.section = None]
                   ELSE Deleted(s, {x}, 0)[i]]

ApplyTaskDelete(s, t) ==
    LET dead == {t} \cup {u \in Tasks : s[u].parent = t}
    IN  Deleted(s, dead \cup NotesOn(s, dead), 0)

\* The client files the task where it was asked to; only a parent it shows
\* as live overrides that.
ApplyTaskAdd(s, c) ==
    LET to == IF Live(s, c.parent) THEN Container(s[c.parent])
              ELSE <<c.project, c.section>>
    IN  Created(s, c.id, to[1], to[2], c.parent, 0)

\* No guard but "not its own parent"; a parent still in the replica, marked
\* deleted or not, decides the container.
ApplyTaskMove(s, c) ==
    LET under == NewParent(s, c)
        to == IF Known(s, under) THEN Container(s[under])
              ELSE <<NewProject(s, c), NewSection(s, c)>>
        with == IF Known(s, under) THEN {} ELSE LiveSubtasks(s, c.id)
    IN  IF ~Known(s, c.id) \/ c.parent = c.id THEN s
        ELSE [i \in Ids |->
                IF i = c.id
                THEN [s[i] EXCEPT !.parent = under, !.project = to[1], !.section = to[2]]
                ELSE IF i \in with
                     THEN [s[i] EXCEPT !.project = to[1], !.section = to[2]]
                     ELSE s[i]]

ApplyCommand(s, c) ==
    CASE c.type = "project_add"    -> Created(s, c.id, None, None, None, 0)
      [] c.type = "section_add"    -> Created(s, c.id, c.project, None, None, 0)
      [] c.type = "task_add"       -> ApplyTaskAdd(s, c)
      [] c.type = "note_add"       -> Created(s, c.id, None, None, c.parent, 0)
      [] c.type = "project_delete" -> ApplyProjectDelete(s, c.id)
      [] c.type = "section_delete" -> ApplySectionDelete(s, c.id)
      [] c.type = "task_delete"    -> ApplyTaskDelete(s, c.id)
      [] c.type = "note_delete"    -> Deleted(s, {c.id}, 0)
      [] c.type = "task_move"      -> ApplyTaskMove(s, c)
      [] c.type = "task_update"    -> s

-----------------------------------------------------------------------------
\* Ids are fresh uuids: nobody else uses one this device made up.
Named == {q \in Ids : \E k \in DOMAIN queue : q \in {queue[k].id, queue[k].project,
                                                     queue[k].section, queue[k].parent}}
Fresh(i) == rows[i].is = "absent" /\ screen[i].is = "absent" /\ i \notin Named

\* Somebody else's command.
Teammate ==
    /\ others < MaxOthers
    /\ others' = others + 1
    /\ \E c \in Commands :
          /\ IsAdd(c) => Fresh(c.id)
          /\ Verdict(rows, c) = "ok" /\ Execute(c)
    /\ UNCHANGED deviceVars

\* The apps offer what the screen shows as possible; a new subtask is sent
\* without a container or with its parent's, a section with its own project.
Offered(c) ==
    /\ IsAdd(c) => Fresh(c.id)
    /\ Verdict(screen, c) = "ok"
    /\ \A i \in {c.project, c.section, c.parent} \cap Ids : Live(screen, i)
    /\ (c.type = "task_add" /\ c.parent # None) =>
           Container(c) \in {<<None, None>>, Container(screen[c.parent])}
    /\ (c.type = "task_add" /\ c.section # None) => screen[c.section].project = c.project

Mutate ==
    /\ edits < MaxEdits
    /\ \E c \in Commands :
          /\ Offered(c)
          /\ screen' = ApplyCommand(screen, c)
          /\ queue' = Append(queue, c)
    /\ edits' = edits + 1
    /\ UNCHANGED <<treeVars, syncToken, needsFullSync, reply, others>>

\* The rows a request is answered with: all of them, or those stamped since.
Changes(r, since) ==
    IF since = Star THEN r ELSE Restrict(r, {i \in Ids : r[i].at > since})

Answer(c, why) ==
    LET since == IF needsFullSync THEN Star ELSE syncToken
    IN  [cmd |-> c, status |-> why, full |-> since = Star,
         rows |-> Changes(rows', since), token |-> version']

\* The first queued command reaches the server.
Push ==
    /\ reply = NoReply /\ queue # <<>>
    /\ Execute(Head(queue))
    /\ reply' = Answer(Head(queue), Verdict(rows, Head(queue)))
    /\ UNCHANGED <<screen, queue, syncToken, needsFullSync, edits, others>>

\* A request without commands: focus, the poll, or the recovery; one with
\* nothing to bring is left out.  An edit may have been queued while it waited
\* for the lane.
Pull ==
    /\ reply = NoReply
    /\ needsFullSync \/ syncToken < version
    /\ UNCHANGED treeVars
    /\ reply' = Answer(None, "ok")
    /\ UNCHANGED <<screen, queue, syncToken, needsFullSync, edits, others>>

\* A full reply replaces the replica and what was not sent yet is applied to
\* it again; a delta overwrites its rows, edits waiting in the queue or not.
Merged(s, changes, full, unsent) ==
    LET base == [i \in Ids |-> IF i \in DOMAIN changes THEN Shown(changes[i]) ELSE s[i]]
    IN  IF full THEN FoldLeft(ApplyCommand, base, unsent) ELSE base

Receive ==
    /\ reply # NoReply
    /\ LET unsent == IF reply.cmd = None THEN queue ELSE Tail(queue)
       IN  /\ queue' = unsent
           /\ screen' = Merged(screen, reply.rows, reply.full, unsent)
    /\ syncToken' = reply.token
    /\ needsFullSync' = (~reply.full /\ (needsFullSync \/ reply.status # "ok"))
    /\ reply' = NoReply
    /\ UNCHANGED <<treeVars, edits, others>>

-----------------------------------------------------------------------------
ReplicaInit ==
    /\ TreeInit
    /\ screen = [i \in Ids |-> Shown(Seed[i])]
    /\ queue = <<>> /\ syncToken = 0 /\ needsFullSync = FALSE
    /\ reply = NoReply /\ edits = 0 /\ others = 0

ReplicaNext == Teammate \/ Mutate \/ Push \/ Pull \/ Receive

ReplicaSpec == ReplicaInit /\ [][ReplicaNext]_replicaVars

-----------------------------------------------------------------------------
ReplicaTypeOK ==
    /\ TreeTypeOK
    /\ screen \in [Ids -> Row] /\ \A i \in Ids : screen[i].at = 0
    /\ queue \in Seq(Commands) /\ syncToken \in 0..version
    /\ reply # NoReply => DOMAIN reply.rows \subseteq Ids /\ reply \in Replies(DOMAIN reply.rows)
    /\ needsFullSync \in BOOLEAN /\ edits \in 0..MaxEdits /\ others \in 0..MaxOthers

\* Everything is answered and pulled.
Settled == reply = NoReply /\ queue = <<>> /\ ~needsFullSync /\ syncToken = version

Agree(S) == \A i \in S : Shown(screen[i]) = Shown(rows[i])

\* Once settled, the screen shows the server's projects, sections and tasks:
\* whatever the client's version of a handler did differently, and whatever
\* others did in between, was corrected by the rows in the replies (apply.ts:
\* "the two must agree").
TasksHealed == Settled => Agree(Projects \cup Sections \cup Tasks)

\* The same of comments and attachments, which the client's cascades delete
\* along with a task.
NotesHealed == Settled => Agree(Notes)

\* A task typed on this device is refused for its parent only: one that became
\* a subtask, or whose own add was refused.  A container deleted meanwhile never
\* costs it (CONTRACT.md 5.5: rejecting it would throw away what the user typed;
\* a parent that cannot be resolved is the limitation it names).
AddLands ==
    [][ (Push /\ Head(queue).type = "task_add" /\ reply'.status # "ok") =>
            LET under == Head(queue).parent
            IN  \/ Live(rows, under) /\ rows[under].parent # None
                \/ under # None /\ ~Known(rows, under) ]_replicaVars
=============================================================================
