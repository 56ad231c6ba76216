------------------------------ MODULE TaskTree ------------------------------
(***************************************************************************)
(* The tree one workspace holds on the server: projects, their sections,   *)
(* tasks with one level of subtasks, and the notes (comments and           *)
(* attachments) on tasks.  A handler of commands.py runs inside one        *)
(* transaction under the workspace lock (SyncServer), so it is one step    *)
(* here: the rows it reads are the rows it writes to.                      *)
(*                                                                         *)
(* Data: all rows live in one function, with the containers a row may have *)
(* and the version that last stamped it.  Names, dates, order and labels   *)
(* are left out: their handlers touch the row they name and stamp it,      *)
(* which task_update stands for.                                           *)
(***************************************************************************)
EXTENDS Naturals, FiniteSets

CONSTANTS
    Projects, Sections, Tasks, Notes,   \* ids of each kind of row
    None,        \* null
    Unsent,      \* a key the command does not carry
    Seed         \* the tree at the start

Ids == Projects \cup Sections \cup Tasks \cup Notes

\* A section has a project, a subtask and a note have a parent (the task), a
\* task may have all three.  "absent": the id is not given out yet.
Row == [is: {"absent", "live", "deleted"}, project: Projects \cup {None},
        section: Sections \cup {None}, parent: Tasks \cup {None}, at: Nat]

Live(r, i) == i \in Ids /\ r[i].is = "live"
Gone(r, i) == i \in Ids /\ r[i].is = "deleted"

\* Deleted rows included; mutant: Live.
Known(r, i) == Live(r, i) \/ Gone(r, i)

Container(row) == <<row.project, row.section>>
LiveSubtasks(r, t) == {u \in Tasks : Live(r, u) /\ r[u].parent = t}

-----------------------------------------------------------------------------
\* What makes a set of rows a tree.

SectionsInLiveProjects(r) ==
    \A s \in Sections : Live(r, s) => Live(r, r[s].project)

\* A task's section belongs to the task's project.
TasksInLiveContainers(r) ==
    \A t \in Tasks : Live(r, t) =>
        /\ r[t].project # None => Live(r, r[t].project)
        /\ r[t].section # None => /\ Live(r, r[t].section)
                                  /\ r[r[t].section].project = r[t].project

\* One level, and a subtask lives where its parent does.
SubtasksFollowParents(r) ==
    \A t \in Tasks : Live(r, t) /\ r[t].parent # None =>
        /\ Live(r, r[t].parent)
        /\ r[r[t].parent].parent = None
        /\ Container(r[t]) = Container(r[r[t].parent])

NotesOnLiveTasks(r) ==
    \A n \in Notes : Live(r, n) => Live(r, r[n].parent) /\ r[n].parent \in Tasks

IsTree(r) ==
    /\ SectionsInLiveProjects(r) /\ TasksInLiveContainers(r)
    /\ SubtasksFollowParents(r) /\ NotesOnLiveTasks(r)

ASSUME TreeConstants ==
    /\ Projects \cap (Sections \cup Tasks \cup Notes) = {}
    /\ Sections \cap (Tasks \cup Notes) = {} /\ Tasks \cap Notes = {}
    /\ None \notin Ids /\ Unsent \notin Ids \cup {None}
    /\ Seed \in [Ids -> Row] /\ IsTree(Seed)
    /\ \A i \in Ids : Seed[i].at = 0

VARIABLES version, rows
treeVars == <<version, rows>>

-----------------------------------------------------------------------------
\* Commands.  An add's id is the one the server will give the row.

Cmd(types, ids, projects, sections, parents) ==
    [type: types, id: ids, project: projects, section: sections, parent: parents]

Commands ==
    LET N == {None}
        U == {Unsent}
    IN  Cmd({"project_add", "project_delete"}, Projects, N, N, N)
        \cup Cmd({"section_add"}, Sections, Projects, N, N)
        \cup Cmd({"section_delete"}, Sections, N, N, N)
        \cup Cmd({"task_add"}, Tasks, Projects \cup N, Sections \cup N, Tasks \cup N)
        \cup Cmd({"task_move"}, Tasks, Projects \cup N \cup U,
                 Sections \cup N \cup U, Tasks \cup N \cup U)
        \cup Cmd({"task_update", "task_delete"}, Tasks, N, N, N)
        \cup Cmd({"note_add"}, Notes, N, N, Tasks)
        \cup Cmd({"note_delete"}, Notes, N, N, N)

IsAdd(c) == c.type \in {"project_add", "section_add", "task_add", "note_add"}

-----------------------------------------------------------------------------
\* The handlers: the rows after command c, stamped with version v.

Created(r, i, project, section, parent, v) ==
    [r EXCEPT ![i] = [is |-> "live", project |-> project, section |-> section,
                      parent |-> parent, at |-> v]]

Deleted(r, S, v) ==
    [i \in Ids |-> IF i \in S /\ Live(r, i)
                   THEN [r[i] EXCEPT !.is = "deleted", !.at = v]
                   ELSE r[i]]

NotesOn(r, S) == {n \in Notes : r[n].parent \in S}

ProjectDelete(r, p, v) ==
    LET own  == {t \in Tasks : Live(r, t) /\ r[t].project = p}
        dead == own \cup UNION {LiveSubtasks(r, t) : t \in own}
    IN  Deleted(r, {p} \cup {s \in Sections : r[s].project = p}
                       \cup dead \cup NotesOn(r, dead), v)

\* Mutant of SectionDelete: the tasks that lose their section are not stamped.
SectionDeleteUnstamped(r, s, v) ==
    [i \in Ids |->
        IF i = s THEN [r[i] EXCEPT !.is = "deleted", !.at = v]
        ELSE IF i \in Tasks /\ Live(r, i) /\ r[i].section = s
             THEN [r[i] EXCEPT !.section = None]
             ELSE r[i]]

SectionDelete(r, s, v) ==
    [i \in Ids |->
        IF i = s THEN [r[i] EXCEPT !.is = "deleted", !.at = v]
        ELSE IF i \in Tasks /\ Live(r, i) /\ r[i].section = s
             THEN [r[i] EXCEPT !.section = None, !.at = v]
             ELSE r[i]]

TaskDelete(r, t, v) ==
    LET dead == {t} \cup LiveSubtasks(r, t)
    IN  Deleted(r, dead \cup NotesOn(r, dead), v)

\* A live parent decides where a new task goes.  Otherwise a deleted project
\* means the Inbox, a deleted section the project's body, a deleted parent a
\* top-level task.
Placed(r, c) ==
    IF Live(r, c.parent)
    THEN [parent |-> c.parent, project |-> r[c.parent].project,
          section |-> r[c.parent].section]
    ELSE [parent |-> None,
          project |-> IF Live(r, c.project) THEN c.project ELSE None,
          section |-> IF ~Gone(r, c.project) /\ Live(r, c.section)
                      THEN c.section ELSE None]

TaskAdd(r, c, v) ==
    LET to == Placed(r, c) IN Created(r, c.id, to.project, to.section, to.parent, v)

\* Where a move sends a task; keys not sent keep their value, but another
\* project without a section means no section.
NewParent(r, c) == IF c.parent = Unsent THEN r[c.id].parent ELSE c.parent
SentProject(r, c) == c.project   \* mutant of NewProject: absent keys taken as sent
NewProject(r, c) == IF c.project = Unsent THEN r[c.id].project ELSE c.project
\* Mutant of NewSection: the old project's section is kept.
KeptSection(r, c) == IF c.section # Unsent THEN c.section ELSE r[c.id].section
NewSection(r, c) ==
    IF c.section # Unsent THEN c.section
    ELSE IF c.project # Unsent THEN None ELSE r[c.id].section

\* A subtask lives where its parent does, whatever was sent.
Destination(r, c) ==
    IF NewParent(r, c) # None
    THEN Container(r[NewParent(r, c)])
    ELSE <<NewProject(r, c), NewSection(r, c)>>

TaskMove(r, c, v) ==
    LET to == Destination(r, c)
    IN  [i \in Ids |->
            IF i = c.id
            THEN [r[i] EXCEPT !.parent = NewParent(r, c),
                              !.project = to[1], !.section = to[2], !.at = v]
            ELSE IF /\ NewParent(r, c) = None
                    /\ i \in LiveSubtasks(r, c.id) /\ Container(r[i]) # to
                 THEN [r[i] EXCEPT !.project = to[1], !.section = to[2], !.at = v]
                 ELSE r[i]]

\* An update, a completion: fields left out here change, and the row is stamped.
TaskUpdate(r, t, v) == [r EXCEPT ![t].at = v]

Handle(r, c, v) ==
    CASE c.type = "project_add"    -> Created(r, c.id, None, None, None, v)
      [] c.type = "section_add"    -> Created(r, c.id, c.project, None, None, v)
      [] c.type = "task_add"       -> TaskAdd(r, c, v)
      [] c.type = "note_add"       -> Created(r, c.id, None, None, c.parent, v)
      [] c.type = "project_delete" -> ProjectDelete(r, c.id, v)
      [] c.type = "section_delete" -> SectionDelete(r, c.id, v)
      [] c.type = "task_delete"    -> TaskDelete(r, c.id, v)
      [] c.type = "note_delete"    -> Deleted(r, {c.id}, v)
      [] c.type = "task_move"      -> TaskMove(r, c, v)
      [] c.type = "task_update"    -> TaskUpdate(r, c.id, v)

-----------------------------------------------------------------------------
\* What the handlers refuse.

\* An id the command names and that must exist does not, or not any more.
\* Only an add accepts a deleted container, and with the project deleted its
\* section is not looked up at all.
NotFound(r, c) ==
    \/ ~IsAdd(c) /\ ~Live(r, c.id)
    \/ c.type = "section_add" /\ ~Live(r, c.project)
    \/ c.type = "note_add" /\ ~Live(r, c.parent)
    \/ /\ c.type = "task_add"
       /\ \/ c.parent # None /\ ~Known(r, c.parent)
          \/ /\ ~Live(r, c.parent)
             /\ \/ c.project # None /\ ~Known(r, c.project)
                \/ ~Gone(r, c.project) /\ c.section # None /\ ~Known(r, c.section)
    \/ /\ c.type = "task_move"
       /\ \/ NewParent(r, c) # None /\ ~Live(r, NewParent(r, c))
          \/ /\ NewParent(r, c) = None
             /\ \/ c.project \notin {Unsent, None} /\ ~Live(r, c.project)
                \/ c.section \notin {Unsent, None} /\ ~Live(r, c.section)

\* Subtasks nest one level: a subtask takes no subtasks, and a task that has
\* some becomes none.
Nested(r, c) ==
    \/ c.type \in {"task_add", "task_move"} /\ Live(r, c.parent) /\ r[c.parent].parent # None
    \/ /\ c.type = "task_move" /\ c.parent \in Tasks
       /\ c.parent = c.id \/ LiveSubtasks(r, c.id) # {}

\* The section sent is not one of the project's.
WrongSection(r, c) ==
    \/ /\ c.type = "task_add" /\ ~Live(r, c.parent) /\ ~Gone(r, c.project)
       /\ c.section # None /\ r[c.section].project # c.project
    \/ /\ c.type = "task_move" /\ NewParent(r, c) = None
       /\ c.section \in Sections /\ r[c.section].project # NewProject(r, c)

Verdict(r, c) ==
    CASE NotFound(r, c)     -> "not_found"
      [] ~NotFound(r, c) /\ (Nested(r, c) \/ WrongSection(r, c)) -> "invalid_args"
      [] OTHER -> "ok"

-----------------------------------------------------------------------------
TreeInit == version = 0 /\ rows = Seed

\* A refused command is rolled back, its version with it.
Execute(c) ==
    /\ IsAdd(c) => rows[c.id].is = "absent"
    /\ IF Verdict(rows, c) = "ok"
       THEN version' = version + 1 /\ rows' = Handle(rows, c, version + 1)
       ELSE UNCHANGED treeVars

TreeNext == \E c \in Commands : Execute(c)

TreeSpec == TreeInit /\ [][TreeNext]_treeVars

-----------------------------------------------------------------------------
\* Types: every row is stamped with a version that was given out.
TreeTypeOK ==
    /\ version \in Nat
    /\ rows \in [Ids -> Row]
    /\ \A i \in Ids : rows[i].at <= version

\* Whatever order people's commands arrive in, moves and adds against deletes
\* included: nothing live hangs on something deleted, a task's section is one
\* of its project's, and a subtask is one level deep and lives where its
\* parent does (CONTRACT.md 3.3, the cascades of 5.4).
Forest == IsTree(rows)
=============================================================================
