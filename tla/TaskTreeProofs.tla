--------------------------- MODULE TaskTreeProofs ---------------------------
(***************************************************************************)
(* Theorems about the task tree and a device's copy of it, for every set   *)
(* of ids, every tree to start from and every number of edits:             *)
(*                                                                         *)
(*   TreeTyped        the type invariant of the tree                       *)
(*   ForestStands     nothing live hangs on something deleted, sections    *)
(*                    and subtasks agree with the containers around them   *)
(*   ReplicaTyped     the type invariant of the replica                    *)
(*   TasksHeal        the screen shows the server's tasks once settled     *)
(*   AddsLand         an add is refused for its parent only                *)
(*                                                                         *)
(* IsTree is inductive as it stands; each handler keeps its four parts     *)
(* together: a deleted project spares a subtask only because the subtask's *)
(* container is its parent's, and so on.                                   *)
(*                                                                         *)
(* The replica's invariant needs two trees the variables do not hold: b,   *)
(* the server's rows when the device's token was current, and a, the rows  *)
(* the answer on its way was read from.  Wherever the screen differs from  *)
(* b, a queued edit accounts for the row (Explained); every row an         *)
(* accepted edit changes, on the server or on the screen, is stamped by    *)
(* the server's own step (HandleEvolves), so that it is among the rows of  *)
(* a later than the token.  A delta over the screen then leaves only what  *)
(* the edits still queued account for, and a takes the place of b.         *)
(***************************************************************************)
EXTENDS TreeReplica, TLAPS, FiniteSetTheorems, WellFoundedInduction

-----------------------------------------------------------------------------
(* Ids, rows and commands *)

\* The kinds of rows have no ids in common.
LEMMA Kinds ==
    /\ None \notin Ids /\ Unsent \notin Ids /\ Unsent # None
    /\ \A i \in Projects : i \in Ids /\ i \notin Sections /\ i \notin Tasks /\ i \notin Notes
    /\ \A i \in Sections : i \in Ids /\ i \notin Projects /\ i \notin Tasks /\ i \notin Notes
    /\ \A i \in Tasks : i \in Ids /\ i \notin Projects /\ i \notin Sections /\ i \notin Notes
    /\ \A i \in Notes : i \in Ids /\ i \notin Projects /\ i \notin Sections /\ i \notin Tasks
BY TreeConstants DEF Ids

\* What a row's fields range over.
Fields(r) ==
    \A i \in Ids : /\ r[i] \in Row
                   /\ r[i].is \in {"absent", "live", "deleted"}
                   /\ r[i].project \in Projects \cup {None}
                   /\ r[i].section \in Sections \cup {None}
                   /\ r[i].parent \in Tasks \cup {None}
                   /\ r[i].at \in Nat

\* The fields of a row, whatever its id.
LEMMA Rows == ASSUME NEW r \in [Ids -> Row] PROVE Fields(r)
<1>1. ASSUME NEW i \in Ids
      PROVE  /\ r[i] \in Row
             /\ r[i].is \in {"absent", "live", "deleted"}
             /\ r[i].project \in Projects \cup {None}
             /\ r[i].section \in Sections \cup {None}
             /\ r[i].parent \in Tasks \cup {None}
             /\ r[i].at \in Nat
  <2>1. r[i] \in Row BY <1>1
  <2>2. QED BY <2>1 DEF Row
<1>2. QED BY <1>1 DEF Fields

\* An accepted command was neither NotFound, nor Nested, nor WrongSection.
LEMMA Accepted ==
    ASSUME NEW r, NEW c, Verdict(r, c) = "ok"
    PROVE  ~NotFound(r, c) /\ ~Nested(r, c) /\ ~WrongSection(r, c)
BY DEF Verdict

-----------------------------------------------------------------------------
(* Deletes *)

\* What Deleted returns.
LEMMA DeletedRows ==
    ASSUME NEW r \in [Ids -> Row], NEW S, NEW v \in Nat
    PROVE  LET n == Deleted(r, S, v) IN
           /\ n \in [Ids -> Row]
           /\ \A i \in Ids : /\ n[i].project = r[i].project /\ n[i].section = r[i].section
                             /\ n[i].parent = r[i].parent
                             /\ Live(n, i) <=> Live(r, i) /\ i \notin S
                             /\ n[i].at \in {r[i].at, v}
<1> DEFINE n == Deleted(r, S, v)
<1>1. ASSUME NEW i \in Ids
      PROVE  /\ n[i] \in Row
             /\ n[i].project = r[i].project /\ n[i].section = r[i].section
             /\ n[i].parent = r[i].parent
             /\ Live(n, i) <=> Live(r, i) /\ i \notin S
             /\ n[i].at \in {r[i].at, v}
  <2>0. r[i] \in Row BY <1>1
  <2>1. CASE i \in S /\ Live(r, i)
    <3>1. n[i] = [r[i] EXCEPT !.is = "deleted", !.at = v] BY <1>1, <2>1 DEF Deleted
    <3> HIDE DEF n
    <3>2. /\ n[i] \in Row /\ n[i].is = "deleted" /\ n[i].at = v
          /\ n[i].project = r[i].project /\ n[i].section = r[i].section
          /\ n[i].parent = r[i].parent
          BY <3>1, <2>0 DEF Row
    <3>3. QED BY <2>1, <3>2 DEF Live
  <2>2. CASE ~(i \in S /\ Live(r, i))
    <3>1. n[i] = r[i] BY <1>1, <2>2 DEF Deleted
    <3>2. QED BY <2>0, <2>2, <3>1 DEF Live
  <2>3. QED BY <2>1, <2>2
<1>2. n \in [Ids -> Row] BY <1>1 DEF Deleted
<1>3. QED BY <1>1, <1>2

\* A set of rows may be deleted together if it takes along everything live
\* that hangs on it.
LEMMA DeletedTogether ==
    ASSUME NEW r \in [Ids -> Row], IsTree(r), NEW S, NEW v \in Nat,
           \A s \in Sections : Live(r, s) /\ r[s].project \in S => s \in S,
           \A t \in Tasks : Live(r, t) /\ (\/ r[t].project \in S \/ r[t].section \in S
                                           \/ r[t].parent \in S) => t \in S,
           \A m \in Notes : Live(r, m) /\ r[m].parent \in S => m \in S
    PROVE  IsTree(Deleted(r, S, v))
<1> DEFINE n == Deleted(r, S, v)
<1>0. /\ n \in [Ids -> Row]
      /\ \A i \in Ids : /\ n[i].project = r[i].project /\ n[i].section = r[i].section
                        /\ n[i].parent = r[i].parent
                        /\ Live(n, i) <=> Live(r, i) /\ i \notin S
      BY DeletedRows
<1>a. \A i : Live(r, i) => i \in Ids BY DEF Live
<1>b. \A i : Live(n, i) <=> Live(r, i) /\ i \notin S BY <1>0, <1>a DEF Live
<1> HIDE DEF n
<1>1. SectionsInLiveProjects(n)
      BY <1>0, <1>a, <1>b, Kinds DEF IsTree, SectionsInLiveProjects
<1>2. TasksInLiveContainers(n)
      BY <1>0, <1>a, <1>b, Kinds DEF IsTree, TasksInLiveContainers
<1>3. SubtasksFollowParents(n)
      BY <1>0, <1>a, <1>b, Kinds DEF IsTree, SubtasksFollowParents, Container
<1>4. NotesOnLiveTasks(n)
      BY <1>0, <1>a, <1>b, Kinds DEF IsTree, NotesOnLiveTasks
<1>5. QED BY <1>1, <1>2, <1>3, <1>4 DEF IsTree, n

\* The project a live task is in, and its parent's, are the same.
LEMMA ProjectDeleteTree ==
    ASSUME NEW r \in [Ids -> Row], IsTree(r), NEW p \in Projects, NEW v \in Nat
    PROVE  ProjectDelete(r, p, v) \in [Ids -> Row] /\ IsTree(ProjectDelete(r, p, v))
<1> DEFINE own == {t \in Tasks : Live(r, t) /\ r[t].project = p}
           dead == own \cup UNION {LiveSubtasks(r, t) : t \in own}
           S == {p} \cup {s \in Sections : r[s].project = p} \cup dead \cup NotesOn(r, dead)
<1>0. Fields(r) BY Rows
<1>1. ProjectDelete(r, p, v) = Deleted(r, S, v) BY DEF ProjectDelete
<1>2. \A t \in dead : t \in Tasks /\ Live(r, t) BY DEF LiveSubtasks
<1>3. \A t \in Tasks : Live(r, t) /\ r[t].parent \in own => t \in dead
      BY DEF LiveSubtasks
<1>4. \A t \in dead : r[t].project = p
  <2>1. ASSUME NEW t \in own, NEW u \in LiveSubtasks(r, t) PROVE r[u].project = p
        BY <2>1, Kinds DEF LiveSubtasks, IsTree, SubtasksFollowParents, Container
  <2>2. QED BY <2>1
<1>5. \A t \in Tasks : Live(r, t) /\ r[t].project = p => t \in own OBVIOUS
<1>6. \A i \in S : i = p \/ i \in dead \/ i \in Notes \/ (i \in Sections /\ r[i].project = p)
      BY DEF NotesOn
<1>7. p \in S /\ dead \subseteq S /\ NotesOn(r, dead) \subseteq S
      /\ \A s \in Sections : r[s].project = p => s \in S OBVIOUS
<1> HIDE DEF own, dead, S
<1>8. \A s \in Sections : Live(r, s) /\ r[s].project \in S => s \in S
      BY <1>2, <1>6, <1>7, Kinds, <1>0 DEF Fields
<1>9. \A t \in Tasks : Live(r, t) /\ (\/ r[t].project \in S \/ r[t].section \in S
                                       \/ r[t].parent \in S) => t \in S
  <2> SUFFICES ASSUME NEW t \in Tasks, Live(r, t),
                      r[t].project \in S \/ r[t].section \in S \/ r[t].parent \in S
               PROVE  r[t].project = p
      BY <1>3, <1>5, <1>7, <1>2, <1>4 DEF own, dead
  <2>1. CASE r[t].project \in S BY <2>1, <1>2, <1>6, Kinds, <1>0 DEF Fields
  <2>2. CASE r[t].section \in S
        BY <2>2, <1>2, <1>6, Kinds, <1>0 DEF Fields, IsTree, TasksInLiveContainers
  <2>3. CASE r[t].parent \in S
        BY <2>3, <1>2, <1>4, <1>6, Kinds, <1>0 DEF Fields, IsTree, SubtasksFollowParents, Container
  <2>4. QED BY <2>1, <2>2, <2>3
<1>10. \A m \in Notes : Live(r, m) /\ r[m].parent \in S => m \in S
  <2> SUFFICES ASSUME NEW m \in Notes, r[m].parent \in S PROVE r[m].parent \in dead
      BY <1>7 DEF NotesOn
  <2>1. QED BY <1>6, Kinds, <1>0 DEF Fields
<1>11. QED BY <1>1, <1>8, <1>9, <1>10, DeletedRows, DeletedTogether

\* A task takes its subtasks and all their notes along.
LEMMA TaskDeleteTree ==
    ASSUME NEW r \in [Ids -> Row], IsTree(r), NEW t \in Tasks, Live(r, t), NEW v \in Nat
    PROVE  TaskDelete(r, t, v) \in [Ids -> Row] /\ IsTree(TaskDelete(r, t, v))
<1> DEFINE dead == {t} \cup LiveSubtasks(r, t)
           S == dead \cup NotesOn(r, dead)
<1>0. Fields(r) BY Rows
<1>1. TaskDelete(r, t, v) = Deleted(r, S, v) BY DEF TaskDelete
<1>2. \A i \in S : i \in dead \/ i \in Notes BY DEF NotesOn
<1>3. \A u \in dead : u \in Tasks /\ Live(r, u) BY DEF LiveSubtasks
<1>4. \A u \in dead : u # t => r[u].parent = t BY DEF LiveSubtasks
<1>5. \A s \in Sections : Live(r, s) /\ r[s].project \in S => s \in S
      BY <1>2, <1>3, Kinds, <1>0 DEF Fields
<1>6. \A u \in Tasks : Live(r, u) /\ (\/ r[u].project \in S \/ r[u].section \in S
                                       \/ r[u].parent \in S) => u \in S
  <2> SUFFICES ASSUME NEW u \in Tasks, Live(r, u), r[u].parent \in dead
               PROVE  r[u].parent = t
      BY <1>2, <1>3, Kinds, <1>0 DEF Fields, LiveSubtasks
  <2>1. QED BY <1>3, <1>4, Kinds DEF IsTree, SubtasksFollowParents
<1>7. \A m \in Notes : Live(r, m) /\ r[m].parent \in S => m \in S
      BY <1>2, Kinds, <1>0 DEF Fields, NotesOn
<1> HIDE DEF dead, S
<1>8. QED BY <1>1, <1>5, <1>6, <1>7, DeletedRows, DeletedTogether

\* Nothing hangs on a note.
LEMMA NoteDeleteTree ==
    ASSUME NEW r \in [Ids -> Row], IsTree(r), NEW m \in Notes, NEW v \in Nat
    PROVE  Deleted(r, {m}, v) \in [Ids -> Row] /\ IsTree(Deleted(r, {m}, v))
<1>1. \A i \in Ids : r[i].project # m /\ r[i].section # m /\ r[i].parent # m
      BY Kinds, Rows DEF Fields
<1>2. QED BY <1>1, Kinds, DeletedRows, DeletedTogether

\* The tasks of a deleted section move to their project's body, a subtask
\* with its parent.
LEMMA SectionDeleteTree ==
    ASSUME NEW r \in [Ids -> Row], IsTree(r), NEW s \in Sections, Live(r, s), NEW v \in Nat
    PROVE  SectionDelete(r, s, v) \in [Ids -> Row] /\ IsTree(SectionDelete(r, s, v))
<1> DEFINE n == SectionDelete(r, s, v)
<1>0. Fields(r) BY Rows
<1>1. ASSUME NEW i \in Ids
      PROVE  /\ n[i] \in Row
             /\ n[i].project = r[i].project /\ n[i].parent = r[i].parent
             /\ n[i].is = IF i = s THEN "deleted" ELSE r[i].is
             /\ i \in Tasks /\ Live(r, i) =>
                    n[i].section = IF r[i].section = s THEN None ELSE r[i].section
  <2>0. r[i] \in Row BY <1>1
  <2>1. CASE i = s
    <3>1. n[i] = [r[i] EXCEPT !.is = "deleted", !.at = v] BY <1>1, <2>1 DEF SectionDelete
    <3>2. QED BY <3>1, <2>0, <2>1, Kinds DEF Row
  <2>2. CASE i # s /\ i \in Tasks /\ Live(r, i) /\ r[i].section = s
    <3>1. n[i] = [r[i] EXCEPT !.section = None, !.at = v] BY <1>1, <2>2 DEF SectionDelete
    <3>2. QED BY <3>1, <2>0, <2>2 DEF Row
  <2>3. CASE i # s /\ ~(i \in Tasks /\ Live(r, i) /\ r[i].section = s)
    <3>1. n[i] = r[i] BY <1>1, <2>3 DEF SectionDelete
    <3>2. QED BY <3>1, <2>0, <2>3
  <2>4. QED BY <2>1, <2>2, <2>3
<1>2. n \in [Ids -> Row] BY <1>1 DEF SectionDelete
<1>3. \A i : Live(n, i) <=> Live(r, i) /\ i # s BY <1>1 DEF Live
<1>4. \A i : Live(r, i) => i \in Ids BY DEF Live
<1>5. \A i \in Ids : /\ n[i].project = r[i].project /\ n[i].parent = r[i].parent
                     /\ i \in Tasks /\ Live(r, i) =>
                            n[i].section = IF r[i].section = s THEN None ELSE r[i].section
      BY <1>1
<1> HIDE DEF n
<1>6. SectionsInLiveProjects(n)
      BY <1>0, <1>3, <1>5, Kinds DEF IsTree, SectionsInLiveProjects, Fields
<1>7. TasksInLiveContainers(n)
      BY <1>0, <1>3, <1>4, <1>5, Kinds DEF IsTree, TasksInLiveContainers, Fields
<1>8. SubtasksFollowParents(n)
      BY <1>0, <1>3, <1>4, <1>5, Kinds DEF IsTree, SubtasksFollowParents, Container, Fields
<1>9. NotesOnLiveTasks(n)
      BY <1>0, <1>3, <1>4, <1>5, Kinds DEF IsTree, NotesOnLiveTasks, Fields
<1>10. QED BY <1>2, <1>6, <1>7, <1>8, <1>9 DEF IsTree, n

-----------------------------------------------------------------------------
(* Adds *)

\* Where a new row may be put.
Fits(r, i, row) ==
    /\ i \in Sections => Live(r, row.project)
    /\ i \in Tasks =>
          /\ row.project # None => Live(r, row.project)
          /\ row.section # None => /\ Live(r, row.section)
                                   /\ r[row.section].project = row.project
          /\ row.parent # None => /\ Live(r, row.parent) /\ r[row.parent].parent = None
                                  /\ Container(row) = Container(r[row.parent])
    /\ i \in Notes => Live(r, row.parent) /\ row.parent \in Tasks

\* A new row that fits where it is put leaves a tree.
LEMMA AddTree ==
    ASSUME NEW r \in [Ids -> Row], IsTree(r), NEW i \in Ids, ~Live(r, i),
           NEW row \in Row, Fits(r, i, row)
    PROVE  [r EXCEPT ![i] = row] \in [Ids -> Row] /\ IsTree([r EXCEPT ![i] = row])
<1> DEFINE n == [r EXCEPT ![i] = row]
<1>1. n \in [Ids -> Row] /\ n[i] = row /\ \A j \in Ids : j # i => n[j] = r[j] OBVIOUS
<1>2. \A j : Live(r, j) => j \in Ids /\ j # i /\ Live(n, j) /\ n[j] = r[j] BY <1>1 DEF Live
<1>3. \A j \in Ids : Live(n, j) => j = i \/ (Live(r, j) /\ n[j] = r[j]) BY <1>1 DEF Live
<1> HIDE DEF n
<1>4. SectionsInLiveProjects(n)
      BY <1>1, <1>2, <1>3, Kinds DEF IsTree, SectionsInLiveProjects, Fits
<1>5. TasksInLiveContainers(n)
      BY <1>1, <1>2, <1>3, Kinds DEF IsTree, TasksInLiveContainers, Fits
<1>6. SubtasksFollowParents(n)
      BY <1>1, <1>2, <1>3, Kinds DEF IsTree, SubtasksFollowParents, Fits, Container
<1>7. NotesOnLiveTasks(n)
      BY <1>1, <1>2, <1>3, Kinds DEF IsTree, NotesOnLiveTasks, Fits
<1>8. QED BY <1>1, <1>4, <1>5, <1>6, <1>7 DEF IsTree, n

\* Wherever a task_add that is accepted ends up, it fits.
LEMMA TaskAddTree ==
    ASSUME NEW r \in [Ids -> Row], IsTree(r), NEW c \in Commands, c.type = "task_add",
           Verdict(r, c) = "ok", ~Live(r, c.id), NEW v \in Nat
    PROVE  TaskAdd(r, c, v) \in [Ids -> Row] /\ IsTree(TaskAdd(r, c, v))
<1> DEFINE to == Placed(r, c)
           row == [is |-> "live", project |-> to.project, section |-> to.section,
                   parent |-> to.parent, at |-> v]
<1>0. Fields(r) BY Rows
<1>1. /\ c.id \in Tasks /\ c.project \in Projects \cup {None}
      /\ c.section \in Sections \cup {None} /\ c.parent \in Tasks \cup {None}
      BY DEF Commands, Cmd
<1>2. ~NotFound(r, c) /\ ~Nested(r, c) /\ ~WrongSection(r, c) BY Accepted
<1>3. CASE Live(r, c.parent)
  <2>1. to = [parent |-> c.parent, project |-> r[c.parent].project,
              section |-> r[c.parent].section]
        BY <1>3 DEF Placed
  <2>2. c.parent \in Tasks /\ r[c.parent].parent = None
        BY <1>1, <1>2, <1>3, Kinds DEF Nested, Live
  <2>3. row \in Row BY <1>0, <2>1, <2>2, Kinds DEF Row, Fields
  <2>4. Fits(r, c.id, row)
        BY <1>1, <1>3, <2>1, <2>2, Kinds DEF Fits, IsTree, TasksInLiveContainers, Container
  <2>5. QED BY <1>1, <2>3, <2>4, Kinds, AddTree DEF TaskAdd, Created
<1>4. CASE ~Live(r, c.parent)
  <2>1. to = [parent |-> None,
              project |-> IF Live(r, c.project) THEN c.project ELSE None,
              section |-> IF ~Gone(r, c.project) /\ Live(r, c.section)
                          THEN c.section ELSE None]
        BY <1>4 DEF Placed
  <2>2. row \in Row BY <1>1, <2>1 DEF Row
  <2>3. to.section # None => Live(r, to.section) /\ r[to.section].project = to.project
    <3> SUFFICES ASSUME to.section # None PROVE Live(r, c.section) /\ r[c.section].project = to.project
        BY <2>1
    <3>1. ~Gone(r, c.project) /\ Live(r, c.section) /\ c.section # None BY <2>1
    <3>2. r[c.section].project = c.project BY <1>2, <1>4, <3>1 DEF WrongSection
    <3>3. Live(r, r[c.section].project)
          BY <1>1, <3>1 DEF IsTree, SectionsInLiveProjects
    <3>4. QED BY <2>1, <3>1, <3>2, <3>3
  <2>4. Fits(r, c.id, row) BY <1>1, <2>1, <2>3, Kinds DEF Fits
  <2>5. QED BY <1>1, <2>2, <2>4, Kinds, AddTree DEF TaskAdd, Created
<1>5. QED BY <1>3, <1>4

-----------------------------------------------------------------------------
(* Moves *)

\* An accepted move goes somewhere live that fits, and a task that becomes a
\* subtask has none of its own.
LEMMA MoveFits ==
    ASSUME NEW r \in [Ids -> Row], IsTree(r), NEW c \in Commands, c.type = "task_move",
           Verdict(r, c) = "ok"
    PROVE  LET to == Destination(r, c)
               under == NewParent(r, c)
           IN  /\ c.id \in Tasks /\ Live(r, c.id)
               /\ to[1] \in Projects \cup {None} /\ to[2] \in Sections \cup {None}
               /\ under \in Tasks \cup {None}
               /\ to[1] # None => Live(r, to[1])
               /\ to[2] # None => Live(r, to[2]) /\ r[to[2]].project = to[1]
               /\ under # None => /\ Live(r, under) /\ r[under].parent = None
                                  /\ under # c.id /\ LiveSubtasks(r, c.id) = {}
                                  /\ to = Container(r[under])
<1> DEFINE to == Destination(r, c)
           under == NewParent(r, c)
<1>0. Fields(r) BY Rows
<1>1. /\ c.id \in Tasks
      /\ c.project \in Projects \cup {None, Unsent}
      /\ c.section \in Sections \cup {None, Unsent}
      /\ c.parent \in Tasks \cup {None, Unsent}
      BY DEF Commands, Cmd
<1>2. ~NotFound(r, c) /\ ~Nested(r, c) /\ ~WrongSection(r, c) BY Accepted
<1>3. Live(r, c.id) BY <1>2 DEF NotFound, IsAdd
<1>4. under \in Tasks \cup {None} BY <1>0, <1>1, Kinds DEF NewParent, Fields
<1>5. CASE under # None
  <2>1. Live(r, under) BY <1>2, <1>5 DEF NotFound
  <2>2. to = Container(r[under]) BY <1>5 DEF Destination
  <2>3. r[under].parent = None /\ under # c.id /\ LiveSubtasks(r, c.id) = {}
    <3>1. CASE c.parent = Unsent
      <4>1. under = r[c.id].parent BY <3>1 DEF NewParent
      <4>2. r[under].parent = None /\ r[c.id].parent # None
            BY <4>1, <1>1, <1>3, <1>5 DEF IsTree, SubtasksFollowParents
      <4>3. ASSUME NEW u \in LiveSubtasks(r, c.id) PROVE FALSE
            BY <4>2, <4>3, <1>1, Kinds DEF IsTree, SubtasksFollowParents, LiveSubtasks
      <4>4. QED BY <4>2, <4>3
    <3>2. CASE c.parent # Unsent
      <4>1. under = c.parent /\ c.parent \in Tasks BY <3>2, <1>1, <1>5, Kinds DEF NewParent
      <4>2. QED BY <4>1, <2>1, <1>2 DEF Nested
    <3>3. QED BY <3>1, <3>2
  <2>4. under \in Tasks BY <1>4, <1>5
  <2>5. /\ r[under].project # None => Live(r, r[under].project)
        /\ r[under].section # None => /\ Live(r, r[under].section)
                                      /\ r[r[under].section].project = r[under].project
        BY <2>1, <2>4 DEF IsTree, TasksInLiveContainers
  <2>6. to[1] = r[under].project /\ to[2] = r[under].section BY <2>2 DEF Container
  <2>7. r[under].project \in Projects \cup {None} /\ r[under].section \in Sections \cup {None}
        BY <1>0, <2>4, Kinds DEF Fields
  <2> HIDE DEF to, under
  <2>8. QED BY <1>1, <1>3, <1>4, <2>1, <2>2, <2>3, <2>5, <2>6, <2>7 DEF to, under
<1>6. CASE under = None
  <2>1. to[1] = NewProject(r, c) /\ to[2] = NewSection(r, c) BY <1>6 DEF Destination
  <2>2. /\ r[c.id].project # None => Live(r, r[c.id].project)
        /\ r[c.id].section # None => /\ Live(r, r[c.id].section)
                                     /\ r[r[c.id].section].project = r[c.id].project
        BY <1>1, <1>3 DEF IsTree, TasksInLiveContainers
  <2>3. r[c.id].project \in Projects \cup {None} /\ r[c.id].section \in Sections \cup {None}
        BY <1>0, <1>1, Kinds DEF Fields
  <2>4. /\ NewProject(r, c) \in Projects \cup {None}
        /\ NewProject(r, c) # None => Live(r, NewProject(r, c))
        BY <1>1, <1>2, <1>6, <2>2, <2>3 DEF NewProject, NotFound
  <2>5. /\ NewSection(r, c) \in Sections \cup {None}
        /\ NewSection(r, c) # None => /\ Live(r, NewSection(r, c))
                                      /\ r[NewSection(r, c)].project = NewProject(r, c)
    <3>1. CASE c.section \in Sections
          BY <3>1, <1>2, <1>6, Kinds DEF NewSection, NotFound, WrongSection
    <3>2. CASE c.section = None BY <3>2, Kinds DEF NewSection
    <3>3. CASE c.section = Unsent /\ c.project # Unsent BY <3>3 DEF NewSection
    <3>4. CASE c.section = Unsent /\ c.project = Unsent
          BY <3>4, <2>2, <2>3 DEF NewSection, NewProject
    <3>5. QED BY <1>1, <3>1, <3>2, <3>3, <3>4
  <2> HIDE DEF to, under
  <2>6. QED BY <1>1, <1>3, <1>4, <1>6, <2>1, <2>4, <2>5 DEF to, under
<1>7. QED BY <1>5, <1>6

\* The moved task fits, and its subtasks go where it goes.
LEMMA TaskMoveTree ==
    ASSUME NEW r \in [Ids -> Row], IsTree(r), NEW c \in Commands, c.type = "task_move",
           Verdict(r, c) = "ok", NEW v \in Nat
    PROVE  TaskMove(r, c, v) \in [Ids -> Row] /\ IsTree(TaskMove(r, c, v))
<1> DEFINE n == TaskMove(r, c, v)
           to == Destination(r, c)
           under == NewParent(r, c)
           with == {i \in Ids : under = None /\ i \in LiveSubtasks(r, c.id)}
<1>0. Fields(r) BY Rows
<1>1. /\ c.id \in Tasks /\ Live(r, c.id)
      /\ to[1] \in Projects \cup {None} /\ to[2] \in Sections \cup {None}
      /\ under \in Tasks \cup {None}
      /\ to[1] # None => Live(r, to[1])
      /\ to[2] # None => Live(r, to[2]) /\ r[to[2]].project = to[1]
      /\ under # None => /\ Live(r, under) /\ r[under].parent = None
                         /\ under # c.id /\ LiveSubtasks(r, c.id) = {}
                         /\ to = Container(r[under])
      BY MoveFits
<1>2. ASSUME NEW i \in Ids
      PROVE  /\ n[i] \in Row /\ n[i].is = r[i].is
             /\ n[i].parent = IF i = c.id THEN under ELSE r[i].parent
             /\ i = c.id \/ i \in with => n[i].project = to[1] /\ n[i].section = to[2]
             /\ i # c.id /\ i \notin with =>
                    n[i].project = r[i].project /\ n[i].section = r[i].section
  <2>0. r[i] \in Row BY <1>2
  <2>1. CASE i = c.id
    <3>1. n[i] = [r[i] EXCEPT !.parent = under, !.project = to[1], !.section = to[2], !.at = v]
          BY <1>2, <2>1 DEF TaskMove
    <3> HIDE DEF to, under
    <3>2. QED BY <1>1, <2>0, <2>1, <3>1 DEF Row
  <2>2. CASE i # c.id /\ i \in with /\ Container(r[i]) # to
    <3>1. n[i] = [r[i] EXCEPT !.project = to[1], !.section = to[2], !.at = v]
          BY <1>2, <2>2 DEF TaskMove
    <3> HIDE DEF to, under
    <3>2. QED BY <1>1, <2>0, <2>2, <3>1 DEF Row
  <2>3. CASE i # c.id /\ ~(i \in with /\ Container(r[i]) # to)
    <3>1. n[i] = r[i] BY <1>2, <2>3 DEF TaskMove
    <3>2. i \in with => r[i].project = to[1] /\ r[i].section = to[2]
          BY <2>3 DEF Container
    <3>3. QED BY <2>0, <2>3, <3>1, <3>2
  <2>4. QED BY <2>1, <2>2, <2>3
<1>3. n \in [Ids -> Row] BY <1>2 DEF TaskMove
<1>4. \A i : Live(n, i) <=> Live(r, i) BY <1>2 DEF Live
<1>5. \A i : Live(r, i) => i \in Ids BY DEF Live
<1>6. \A i \in with : /\ under = None /\ i \in Tasks /\ Live(r, i) /\ i # c.id
                      /\ r[i].parent = c.id /\ r[c.id].parent = None
      BY <1>1, Kinds DEF LiveSubtasks, IsTree, SubtasksFollowParents
<1>7. \A i \in Tasks : Live(r, i) /\ i # c.id /\ r[i].parent = c.id => i \in with
      BY <1>1, <1>5 DEF LiveSubtasks
<1>8. /\ n[c.id].parent = under /\ n[c.id].project = to[1] /\ n[c.id].section = to[2]
      /\ \A i \in Ids : i # c.id => n[i].parent = r[i].parent
      /\ \A i \in with : n[i].project = to[1] /\ n[i].section = to[2]
      /\ \A i \in Ids : i # c.id /\ i \notin with =>
             n[i].project = r[i].project /\ n[i].section = r[i].section
      BY <1>1, <1>2, Kinds
<1>9. to = Container(r[under]) => to[1] = r[under].project /\ to[2] = r[under].section
      BY DEF Container
<1> HIDE DEF n, to, under, with
<1>10. SectionsInLiveProjects(n)
       BY <1>1, <1>4, <1>6, <1>8, Kinds DEF IsTree, SectionsInLiveProjects
<1>11. TasksInLiveContainers(n)
  <2> SUFFICES ASSUME NEW t \in Tasks, Live(r, t)
               PROVE  /\ n[t].project # None => Live(r, n[t].project)
                      /\ n[t].section # None => /\ Live(r, n[t].section)
                                               /\ n[n[t].section].project = n[t].project
      BY <1>4 DEF TasksInLiveContainers
  <2>1. \A s \in Sections : n[s].project = r[s].project BY <1>1, <1>6, <1>8, Kinds
  <2>2. CASE t = c.id \/ t \in with BY <2>1, <2>2, <1>1, <1>8, Kinds
  <2>3. CASE t # c.id /\ t \notin with
        BY <2>1, <2>3, <1>0, <1>8, Kinds DEF IsTree, TasksInLiveContainers, Fields
  <2>4. QED BY <2>2, <2>3
<1>12. SubtasksFollowParents(n)
  <2> SUFFICES ASSUME NEW t \in Tasks, Live(r, t), n[t].parent # None
               PROVE  /\ Live(r, n[t].parent) /\ n[n[t].parent].parent = None
                      /\ n[t].project = n[n[t].parent].project
                      /\ n[t].section = n[n[t].parent].section
      BY <1>4 DEF SubtasksFollowParents, Container
  <2>1. CASE t = c.id
    <3>1. under # None /\ under \in Tasks /\ under # c.id /\ under \notin with
          BY <2>1, <1>1, <1>6, <1>8
    <3>2. QED BY <2>1, <3>1, <1>1, <1>8, <1>9, Kinds
  <2>2. CASE t \in with
        BY <2>2, <1>1, <1>6, <1>8, Kinds
  <2>3. CASE t # c.id /\ t \notin with
    <3>1. r[t].parent # None /\ r[t].parent \in Tasks /\ n[t].parent = r[t].parent
          BY <2>3, <1>0, <1>8, Kinds DEF Fields
    <3>2. /\ Live(r, r[t].parent) /\ r[r[t].parent].parent = None
          /\ r[t].project = r[r[t].parent].project
          /\ r[t].section = r[r[t].parent].section
          BY <3>1 DEF IsTree, SubtasksFollowParents, Container
    <3>3. r[t].parent # c.id BY <2>3, <1>7
    <3>4. r[t].parent \notin with BY <3>2, <1>1, <1>6, Kinds
    <3>5. QED BY <2>3, <3>1, <3>2, <3>3, <3>4, <1>8, Kinds
  <2>4. QED BY <2>1, <2>2, <2>3
<1>13. NotesOnLiveTasks(n)
       BY <1>1, <1>4, <1>6, <1>8, Kinds DEF IsTree, NotesOnLiveTasks
<1>14. QED BY <1>3, <1>10, <1>11, <1>12, <1>13 DEF IsTree, n

\* A row stamped and otherwise left alone.
LEMMA TaskUpdateTree ==
    ASSUME NEW r \in [Ids -> Row], IsTree(r), NEW t \in Tasks, NEW v \in Nat
    PROVE  TaskUpdate(r, t, v) \in [Ids -> Row] /\ IsTree(TaskUpdate(r, t, v))
<1> DEFINE n == [r EXCEPT ![t].at = v]
<1>0. Fields(r) BY Rows
<1>1. ASSUME NEW i \in Ids
      PROVE  /\ n[i] \in Row /\ n[i].is = r[i].is /\ n[i].project = r[i].project
             /\ n[i].section = r[i].section /\ n[i].parent = r[i].parent
  <2>0. r[i] \in Row BY <1>1
  <2>1. CASE i = t
    <3>1. n[i] = [r[i] EXCEPT !.at = v] BY <1>1, <2>1
    <3>2. QED BY <2>0, <3>1 DEF Row
  <2>2. CASE i # t BY <2>0, <2>2
  <2>3. QED BY <2>1, <2>2
<1>2. n \in [Ids -> Row] BY <1>1
<1>3. \A i : Live(n, i) <=> Live(r, i) BY <1>1 DEF Live
<1>4. \A i \in Ids : /\ n[i].project = r[i].project /\ n[i].section = r[i].section
                     /\ n[i].parent = r[i].parent
      BY <1>1
<1> HIDE DEF n
<1>5. SectionsInLiveProjects(n)
      BY <1>3, <1>4, Kinds DEF IsTree, SectionsInLiveProjects
<1>6. TasksInLiveContainers(n)
      BY <1>0, <1>3, <1>4, Kinds DEF IsTree, TasksInLiveContainers, Fields
<1>7. SubtasksFollowParents(n)
      BY <1>0, <1>3, <1>4, Kinds DEF IsTree, SubtasksFollowParents, Container, Fields
<1>8. NotesOnLiveTasks(n) BY <1>3, <1>4, Kinds DEF IsTree, NotesOnLiveTasks
<1>9. QED BY <1>2, <1>5, <1>6, <1>7, <1>8 DEF IsTree, TaskUpdate, n

-----------------------------------------------------------------------------
(* All handlers *)

\* A handler leaves a row's version alone or stamps its own.
Stamps(r, n, v) == \A i \in Ids : n[i].at \in {r[i].at, v}

\* A new row carries the version of its command.
LEMMA CreatedStamps ==
    ASSUME NEW r \in [Ids -> Row], NEW i \in Ids, NEW v \in Nat,
           NEW project, NEW section, NEW parent
    PROVE  Stamps(r, Created(r, i, project, section, parent, v), v)
BY DEF Stamps, Created

\* A move stamps the task and the subtasks that follow it.
LEMMA TaskMoveStamps ==
    ASSUME NEW r \in [Ids -> Row], NEW c, NEW v \in Nat
    PROVE  Stamps(r, TaskMove(r, c, v), v)
<1> DEFINE n == TaskMove(r, c, v)
           to == Destination(r, c)
<1> SUFFICES ASSUME NEW i \in Ids PROVE n[i].at \in {r[i].at, v} BY DEF Stamps
<1>0. r[i] \in Row OBVIOUS
<1>1. \/ n[i] = [r[i] EXCEPT !.parent = NewParent(r, c), !.project = to[1],
                             !.section = to[2], !.at = v]
      \/ n[i] = [r[i] EXCEPT !.project = to[1], !.section = to[2], !.at = v]
      \/ n[i] = r[i]
      BY DEF TaskMove
<1> HIDE DEF n, to
<1>2. QED BY <1>0, <1>1 DEF Row, n

\* A deleted section stamps itself and the tasks that lose it.
LEMMA SectionDeleteStamps ==
    ASSUME NEW r \in [Ids -> Row], NEW s, NEW v \in Nat
    PROVE  Stamps(r, SectionDelete(r, s, v), v)
<1> DEFINE n == SectionDelete(r, s, v)
<1> SUFFICES ASSUME NEW i \in Ids PROVE n[i].at \in {r[i].at, v} BY DEF Stamps
<1>0. r[i] \in Row OBVIOUS
<1>1. \/ n[i] = [r[i] EXCEPT !.is = "deleted", !.at = v]
      \/ n[i] = [r[i] EXCEPT !.section = None, !.at = v]
      \/ n[i] = r[i]
      BY DEF SectionDelete
<1> HIDE DEF n
<1>2. QED BY <1>0, <1>1 DEF Row, n

\* A delete stamps what it deletes.
LEMMA DeletedStamps ==
    ASSUME NEW r \in [Ids -> Row], NEW S, NEW v \in Nat
    PROVE  Stamps(r, Deleted(r, S, v), v)
BY DeletedRows DEF Stamps

\* An accepted command leaves a tree, its rows stamped.
LEMMA HandleTree ==
    ASSUME NEW r \in [Ids -> Row], IsTree(r), NEW c \in Commands, NEW v \in Nat,
           Verdict(r, c) = "ok", IsAdd(c) => r[c.id].is = "absent"
    PROVE  LET n == Handle(r, c, v)
           IN  n \in [Ids -> Row] /\ IsTree(n) /\ Stamps(r, n, v)
<1> DEFINE n == Handle(r, c, v)
<1>1. ~NotFound(r, c) BY Accepted
<1>2. CASE c.type = "project_add"
  <2>1. c.id \in Projects BY <1>2 DEF Commands, Cmd
  <2> DEFINE row == [is |-> "live", project |-> None, section |-> None, parent |-> None, at |-> v]
  <2>2. n = [r EXCEPT ![c.id] = row]
        BY <1>2 DEF Handle, Created
  <2>3. row \in Row /\ Fits(r, c.id, row) /\ ~Live(r, c.id)
        BY <1>2, <2>1, Kinds DEF Row, Fits, Live, IsAdd
  <2>4. Stamps(r, n, v)
    <3>1. row.at = v OBVIOUS
    <3> HIDE DEF n, row
    <3>2. QED BY <2>2, <3>1 DEF Stamps
  <2>5. [r EXCEPT ![c.id] = row] \in [Ids -> Row] /\ IsTree([r EXCEPT ![c.id] = row])
    <3> HIDE DEF row
    <3>1. QED BY <2>1, <2>3, Kinds, AddTree
  <2>6. QED BY <2>2, <2>4, <2>5
<1>3. CASE c.type = "section_add"
  <2>1. c.id \in Sections /\ c.project \in Projects BY <1>3 DEF Commands, Cmd
  <2> DEFINE row == [is |-> "live", project |-> c.project, section |-> None, parent |-> None,
                     at |-> v]
  <2>2. n = [r EXCEPT ![c.id] = row]
        BY <1>3 DEF Handle, Created
  <2>3. row \in Row /\ Fits(r, c.id, row) /\ ~Live(r, c.id)
        BY <1>1, <1>3, <2>1, Kinds DEF Row, Fits, Live, IsAdd, NotFound
  <2>4. Stamps(r, n, v)
    <3>1. row.at = v OBVIOUS
    <3> HIDE DEF n, row
    <3>2. QED BY <2>2, <3>1 DEF Stamps
  <2>5. [r EXCEPT ![c.id] = row] \in [Ids -> Row] /\ IsTree([r EXCEPT ![c.id] = row])
    <3> HIDE DEF row
    <3>1. QED BY <2>1, <2>3, Kinds, AddTree
  <2>6. QED BY <2>2, <2>4, <2>5
<1>4. CASE c.type = "note_add"
  <2>1. c.id \in Notes /\ c.parent \in Tasks BY <1>4 DEF Commands, Cmd
  <2> DEFINE row == [is |-> "live", project |-> None, section |-> None, parent |-> c.parent,
                     at |-> v]
  <2>2. n = [r EXCEPT ![c.id] = row]
        BY <1>4 DEF Handle, Created
  <2>3. row \in Row /\ Fits(r, c.id, row) /\ ~Live(r, c.id)
        BY <1>1, <1>4, <2>1, Kinds DEF Row, Fits, Live, IsAdd, NotFound
  <2>4. Stamps(r, n, v)
    <3>1. row.at = v OBVIOUS
    <3> HIDE DEF n, row
    <3>2. QED BY <2>2, <3>1 DEF Stamps
  <2>5. [r EXCEPT ![c.id] = row] \in [Ids -> Row] /\ IsTree([r EXCEPT ![c.id] = row])
    <3> HIDE DEF row
    <3>1. QED BY <2>1, <2>3, Kinds, AddTree
  <2>6. QED BY <2>2, <2>4, <2>5
<1>5. CASE c.type = "task_add"
  <2>1. n = TaskAdd(r, c, v) /\ c.id \in Ids /\ ~Live(r, c.id)
        BY <1>5, Kinds DEF Handle, IsAdd, Live, Commands, Cmd
  <2>2. Stamps(r, n, v) BY <2>1, CreatedStamps DEF TaskAdd
  <2> HIDE DEF n
  <2>3. QED BY <1>5, <2>1, <2>2, TaskAddTree DEF n
<1>6. CASE c.type = "project_delete"
  <2>1. n = ProjectDelete(r, c.id, v) /\ c.id \in Projects
        BY <1>6 DEF Handle, Commands, Cmd
  <2>2. Stamps(r, n, v) BY <2>1, DeletedStamps DEF ProjectDelete
  <2> HIDE DEF n
  <2>3. QED BY <2>1, <2>2, ProjectDeleteTree DEF n
<1>7. CASE c.type = "section_delete"
  <2>1. n = SectionDelete(r, c.id, v) /\ c.id \in Sections /\ Live(r, c.id)
        BY <1>1, <1>7 DEF Handle, NotFound, IsAdd, Commands, Cmd
  <2> HIDE DEF n
  <2>2. QED BY <2>1, SectionDeleteStamps, SectionDeleteTree DEF n
<1>8. CASE c.type = "task_delete"
  <2>1. n = TaskDelete(r, c.id, v) /\ c.id \in Tasks /\ Live(r, c.id)
        BY <1>1, <1>8 DEF Handle, NotFound, IsAdd, Commands, Cmd
  <2>2. Stamps(r, n, v) BY <2>1, DeletedStamps DEF TaskDelete
  <2> HIDE DEF n
  <2>3. QED BY <2>1, <2>2, TaskDeleteTree DEF n
<1>9. CASE c.type = "note_delete"
  <2>1. n = Deleted(r, {c.id}, v) /\ c.id \in Notes
        BY <1>9 DEF Handle, Commands, Cmd
  <2> HIDE DEF n
  <2>2. QED BY <2>1, DeletedStamps, NoteDeleteTree DEF n
<1>10. CASE c.type = "task_move"
  <2>1. n = TaskMove(r, c, v) BY <1>10 DEF Handle
  <2> HIDE DEF n
  <2>2. QED BY <1>10, <2>1, TaskMoveTree, TaskMoveStamps DEF n
<1>11. CASE c.type = "task_update"
  <2>1. n = TaskUpdate(r, c.id, v) /\ c.id \in Tasks
        BY <1>11 DEF Handle, Commands, Cmd
  <2>2. Stamps(r, n, v) BY <2>1, Kinds DEF Stamps, TaskUpdate, Row
  <2> HIDE DEF n
  <2>3. QED BY <2>1, <2>2, TaskUpdateTree DEF n
<1>12. c.type \in {"project_add", "section_add", "note_add", "task_add", "project_delete",
                   "section_delete", "task_delete", "note_delete", "task_move", "task_update"}
       BY DEF Commands, Cmd
<1>13. QED BY <1>2, <1>3, <1>4, <1>5, <1>6, <1>7, <1>8, <1>9, <1>10, <1>11, <1>12

-----------------------------------------------------------------------------
(* The theorems *)

TreeInv == TreeTypeOK /\ Forest

\* The tree at the start is a tree.
LEMMA TreeStarts == TreeInit => TreeInv
BY TreeConstants DEF TreeInit, TreeInv, TreeTypeOK, Forest

\* Every command leaves a tree.
LEMMA TreeSteps == TreeInv /\ [TreeNext]_treeVars => TreeInv'
<1> SUFFICES ASSUME TreeInv, [TreeNext]_treeVars PROVE TreeInv' OBVIOUS
<1>1. CASE UNCHANGED treeVars
      BY <1>1 DEF treeVars, TreeInv, TreeTypeOK, Forest, IsTree, SectionsInLiveProjects,
                  TasksInLiveContainers, SubtasksFollowParents, NotesOnLiveTasks, Live, Container
<1>2. ASSUME NEW c \in Commands, Execute(c), Verdict(rows, c) = "ok" PROVE TreeInv'
  <2>1. version' = version + 1 /\ rows' = Handle(rows, c, version + 1)
        BY <1>2 DEF Execute
  <2>2. rows \in [Ids -> Row] /\ IsTree(rows) /\ version \in Nat /\ version + 1 \in Nat
        /\ \A i \in Ids : rows[i].at <= version
        BY DEF TreeInv, TreeTypeOK, Forest
  <2>3. IsAdd(c) => rows[c.id].is = "absent" BY <1>2 DEF Execute
  <2> DEFINE n == Handle(rows, c, version + 1)
  <2>4. n \in [Ids -> Row] /\ IsTree(n) /\ Stamps(rows, n, version + 1)
        BY <1>2, <2>2, <2>3, HandleTree
  <2> HIDE DEF n
  <2>5. \A i \in Ids : n[i].at <= version + 1
    <3> SUFFICES ASSUME NEW i \in Ids PROVE n[i].at <= version + 1 OBVIOUS
    <3>1. rows[i].at \in Nat BY <2>2, Rows DEF Fields
    <3>2. n[i].at = rows[i].at \/ n[i].at = version + 1 BY <2>4 DEF Stamps
    <3>3. QED BY <2>2, <3>1, <3>2
  <2>6. rows' = n BY <2>1 DEF n
  <2>7. TreeTypeOK' BY <2>1, <2>2, <2>4, <2>5, <2>6 DEF TreeTypeOK
  <2>8. Forest' BY <2>4, <2>6 DEF Forest, IsTree, SectionsInLiveProjects,
                TasksInLiveContainers, SubtasksFollowParents, NotesOnLiveTasks, Live, Container
  <2>9. QED BY <2>7, <2>8 DEF TreeInv
<1>3. QED BY <1>1, <1>2 DEF TreeNext, Execute

\* Every row is a row, stamped with a version that was given out.
THEOREM TreeTyped == TreeSpec => []TreeTypeOK
BY TreeStarts, TreeSteps, PTL DEF TreeSpec, TreeInv

\* No order of adds, moves and deletes breaks the tree: nothing live hangs on
\* something deleted, a task's section is one of its project's, a subtask is
\* one level deep and lives where its parent does.
THEOREM ForestStands == TreeSpec => []Forest
BY TreeStarts, TreeSteps, PTL DEF TreeSpec, TreeInv

-----------------------------------------------------------------------------
(* A device's copy: what a queued command may have changed *)

\* What the replica shares with the server.
Kept == Projects \cup Sections \cup Tasks

\* Where a move asks for.
To(r, c) == <<NewProject(r, c), NewSection(r, c)>>

\* In the tree r, command c files the top-level task i elsewhere: by a move of
\* it, or by deleting its section.
Moves(r, c, i) ==
    c.type = "task_move" /\ c.id = i /\ (c.parent \in Tasks \/ To(r, c) # Container(r[i]))
Loses(r, c, i) == c.type = "section_delete" /\ r[i].section = c.id

\* Row i is one that c changes, on one side or the other.
Hit(r, c, i) ==
    \/ c.id = i
    \/ /\ i \in Sections \cup Tasks /\ Live(r, i)
       /\ c.type = "project_delete" /\ r[i].project = c.id
    \/ /\ i \in Tasks /\ Live(r, i)
       /\ \/ Loses(r, c, i)
          \/ c.type = "task_delete" /\ r[i].parent = c.id
          \/ r[i].parent \in Tasks /\ Moves(r, c, r[i].parent)

\* Row i is shown as it is, or one of the commands C changes it.
ShownOrHit(r, s, C, i) == Shown(s[i]) = Shown(r[i]) \/ \E c \in C : Hit(r, c, i)

\* Task i is where the tree has it, or one of the commands C files it
\* elsewhere.
FiledOrMoved(r, s, C, i) ==
    \/ Container(s[i]) = Container(r[i]) /\ s[i].parent = None
    \/ \E c \in C : Moves(r, c, i) \/ Loses(r, c, i)

\* Where the screen s differs from the tree r, one of the commands C accounts
\* for it; for a top-level task's container even where the screen has lost it.
Explained(r, s, C) ==
    /\ \A i \in Kept : ShownOrHit(r, s, C, i)
    /\ \A i \in Tasks : Live(r, i) /\ r[i].parent = None => FiledOrMoved(r, s, C, i)

\* The rows shared with the server, by kind.
LEMMA KeptIds == Kept \subseteq Ids /\ \A i \in Kept : i \notin Notes
BY Kinds DEF Kept

\* Two rows shown alike, one of them live, agree in everything but the version.
LEMMA ShownAlike ==
    ASSUME NEW x \in Row, NEW y \in Row, Shown(x) = Shown(y), x.is = "live"
    PROVE  /\ y.is = "live" /\ y.project = x.project /\ y.section = x.section
           /\ y.parent = x.parent
<1>1. Shown(x) = [x EXCEPT !.at = 0] BY DEF Shown
<1>2. Shown(x).is = "live" /\ Shown(x).project = x.project
      /\ Shown(x).section = x.section /\ Shown(x).parent = x.parent
      BY <1>1 DEF Row
<1>3. Absent.is = "absent" BY DEF Absent
<1>4. y.is = "live" /\ Shown(y) = [y EXCEPT !.at = 0] BY <1>2, <1>3 DEF Shown
<1>5. Shown(y).project = y.project /\ Shown(y).section = y.section
      /\ Shown(y).parent = y.parent
      BY <1>4 DEF Row
<1>6. QED BY <1>2, <1>4, <1>5

\* A row of the screen no command accounts for is the tree's.
LEMMA SameRow ==
    ASSUME NEW r \in [Ids -> Row], NEW s \in [Ids -> Row], NEW C, NEW i \in Kept,
           ShownOrHit(r, s, C, i), ~ \E c \in C : Hit(r, c, i), Live(s, i)
    PROVE  /\ Live(r, i) /\ r[i].project = s[i].project /\ r[i].section = s[i].section
           /\ r[i].parent = s[i].parent
<1>1. i \in Ids /\ s[i] \in Row /\ r[i] \in Row /\ s[i].is = "live" BY KeptIds DEF Live
<1>2. Shown(s[i]) = Shown(r[i]) BY DEF ShownOrHit
<1>3. QED BY <1>1, <1>2, ShownAlike DEF Live

\* A subtask follows its parent.
LEMMA Follows ==
    ASSUME NEW r \in [Ids -> Row], IsTree(r), NEW i \in Tasks, Live(r, i),
           r[i].parent # None
    PROVE  LET j == r[i].parent
           IN  /\ j \in Tasks /\ Live(r, j) /\ r[j].parent = None
               /\ r[i].project = r[j].project /\ r[i].section = r[j].section
               /\ Container(r[i]) = Container(r[j])
<1>1. r[i].parent \in Tasks BY Rows, Kinds DEF Fields
<1>2. QED BY <1>1 DEF IsTree, SubtasksFollowParents, Container

\* What files a parent elsewhere changes its subtasks.
LEMMA FollowsHit ==
    ASSUME NEW r \in [Ids -> Row], IsTree(r), NEW i \in Tasks, Live(r, i),
           r[i].parent # None, NEW c, Moves(r, c, r[i].parent) \/ Loses(r, c, r[i].parent)
    PROVE  Hit(r, c, i)
<1>1. r[i].parent \in Tasks /\ r[i].section = r[r[i].parent].section BY Follows
<1>2. QED BY <1>1 DEF Hit, Loses

\* A step of the screen is accounted for if each row it changes is.
LEMMA StepExplained ==
    ASSUME NEW r \in [Ids -> Row], NEW s, NEW n, NEW C, NEW c, Explained(r, s, C),
           \A i \in Kept : \/ Shown(n[i]) = Shown(s[i])
                           \/ \E d \in C \cup {c} : Hit(r, d, i),
           \A i \in Tasks : Live(r, i) /\ r[i].parent = None =>
               \/ Container(n[i]) = Container(s[i]) /\ n[i].parent = s[i].parent
               \/ FiledOrMoved(r, n, C \cup {c}, i)
    PROVE  Explained(r, n, C \cup {c})
<1>1. ASSUME NEW i \in Kept PROVE ShownOrHit(r, n, C \cup {c}, i)
      BY DEF Explained, ShownOrHit
<1>2. ASSUME NEW i \in Tasks, Live(r, i), r[i].parent = None
      PROVE  FiledOrMoved(r, n, C \cup {c}, i)
      BY <1>2 DEF Explained, FiledOrMoved
<1>3. QED BY <1>1, <1>2 DEF Explained

\* Every live row in S is one the commands D change.
AllHit(r, s, S, D) == \A i \in Kept : i \in S /\ Live(s, i) => \E d \in D : Hit(r, d, i)

\* A row the screen adds.
LEMMA CreatedExplained ==
    ASSUME NEW r \in [Ids -> Row], NEW s \in [Ids -> Row], NEW C, NEW c, Explained(r, s, C),
           c.id \in Ids, ~Live(r, c.id), NEW project, NEW section, NEW parent
    PROVE  Explained(r, Created(s, c.id, project, section, parent, 0), C \cup {c})
<1> DEFINE n == Created(s, c.id, project, section, parent, 0)
<1>1. \A i \in Ids : i # c.id => n[i] = s[i] BY DEF Created
<1> HIDE DEF n
<1>2. Hit(r, c, c.id) BY DEF Hit
<1>3. \A i \in Kept : Shown(n[i]) = Shown(s[i]) \/ \E d \in C \cup {c} : Hit(r, d, i)
      BY <1>1, <1>2, KeptIds
<1>4. \A i \in Tasks : Live(r, i) => n[i] = s[i] BY <1>1, Kinds
<1>5. Explained(r, n, C \cup {c}) BY <1>3, <1>4, StepExplained
<1>6. QED BY <1>5 DEF n

\* Rows the screen marks deleted, each of them one that some command deletes.
LEMMA DeletedExplained ==
    ASSUME NEW r \in [Ids -> Row], NEW s \in [Ids -> Row], NEW C, NEW c, Explained(r, s, C),
           NEW S, AllHit(r, s, S, C \cup {c})
    PROVE  Explained(r, Deleted(s, S, 0), C \cup {c})
<1> DEFINE n == Deleted(s, S, 0)
<1>1. \A i \in Ids : ~(i \in S /\ Live(s, i)) => n[i] = s[i] BY DEF Deleted
<1>2. \A i \in Ids : /\ n[i].project = s[i].project /\ n[i].section = s[i].section
                     /\ n[i].parent = s[i].parent
      BY DeletedRows
<1> HIDE DEF n
<1>3. \A i \in Kept : Shown(n[i]) = Shown(s[i]) \/ \E d \in C \cup {c} : Hit(r, d, i)
      BY <1>1, KeptIds DEF AllHit
<1>4. \A i \in Tasks : Container(n[i]) = Container(s[i]) /\ n[i].parent = s[i].parent
      BY <1>2, Kinds DEF Container
<1>5. Explained(r, n, C \cup {c}) BY <1>3, <1>4, StepExplained
<1>6. QED BY <1>5 DEF n

\* A project deleted on the screen: what the client deletes that the server
\* would not, or the reverse, is explained by the commands before it.
LEMMA ProjectDeleteExplained ==
    ASSUME NEW r \in [Ids -> Row], IsTree(r), NEW s \in [Ids -> Row], NEW C, NEW c,
           Explained(r, s, C), c.type = "project_delete"
    PROVE  Explained(r, ApplyProjectDelete(s, c.id), C \cup {c})
<1> DEFINE own  == {t \in Tasks : Known(s, t) /\ s[t].project = c.id}
           dead == own \cup UNION {LiveSubtasks(s, t) : t \in own}
           S == {c.id} \cup {x \in Sections : s[x].project = c.id} \cup dead \cup NotesOn(s, dead)
<1>1. ApplyProjectDelete(s, c.id) = Deleted(s, S, 0) BY DEF ApplyProjectDelete
<1>2. ASSUME NEW i \in Kept, i \in S, Live(s, i), ~ \E d \in C : Hit(r, d, i)
      PROVE  Hit(r, c, i)
  <2>0. ShownOrHit(r, s, C, i) BY DEF Explained
  <2>1. /\ Live(r, i) /\ r[i].project = s[i].project /\ r[i].section = s[i].section
        /\ r[i].parent = s[i].parent
        BY <1>2, <2>0, SameRow
  <2>2. CASE i = c.id BY <2>2 DEF Hit
  <2>3. CASE i \in Sections /\ s[i].project = c.id BY <2>1, <2>3 DEF Hit
  <2>4. CASE i \in own BY <2>1, <2>4 DEF Hit
  <2>5. ASSUME NEW t \in own, i \in LiveSubtasks(s, t) PROVE Hit(r, c, i)
    <3>1. i \in Tasks /\ t \in Tasks /\ s[i].parent = t /\ s[t].project = c.id
          BY <2>5 DEF LiveSubtasks
    <3>2. r[i].parent = t /\ t # None BY <2>1, <3>1, Kinds
    <3>3. Live(r, t) /\ r[t].parent = None /\ r[i].project = r[t].project
          BY <2>1, <3>1, <3>2, Follows
    <3>4. \A d \in C : ~Moves(r, d, t) /\ ~Loses(r, d, t)
          BY <1>2, <2>1, <3>1, <3>2, FollowsHit
    <3>5. Container(s[t]) = Container(r[t])
          BY <3>1, <3>3, <3>4 DEF Explained, FiledOrMoved
    <3>6. r[i].project = c.id BY <3>1, <3>3, <3>5 DEF Container
    <3>7. QED BY <2>1, <3>1, <3>6, <1>2 DEF Hit
  <2>6. i \notin NotesOn(s, dead) BY KeptIds DEF NotesOn
  <2>7. QED BY <1>2, <2>2, <2>3, <2>4, <2>5, <2>6
<1> HIDE DEF S
<1>3. AllHit(r, s, S, C \cup {c}) BY <1>2 DEF AllHit
<1>4. Explained(r, Deleted(s, S, 0), C \cup {c}) BY <1>3, DeletedExplained
<1>5. QED BY <1>1, <1>4

\* A task deleted on the screen with its subtasks.
LEMMA TaskDeleteExplained ==
    ASSUME NEW r \in [Ids -> Row], IsTree(r), NEW s \in [Ids -> Row], NEW C, NEW c,
           Explained(r, s, C), c.type = "task_delete", c.id \in Tasks
    PROVE  Explained(r, ApplyTaskDelete(s, c.id), C \cup {c})
<1> DEFINE dead == {c.id} \cup {u \in Tasks : s[u].parent = c.id}
           S == dead \cup NotesOn(s, dead)
<1>1. ApplyTaskDelete(s, c.id) = Deleted(s, S, 0) BY DEF ApplyTaskDelete
<1>2. ASSUME NEW i \in Kept, i \in S, Live(s, i), ~ \E d \in C : Hit(r, d, i)
      PROVE  Hit(r, c, i)
  <2>0. ShownOrHit(r, s, C, i) BY DEF Explained
  <2>1. Live(r, i) /\ r[i].parent = s[i].parent BY <1>2, <2>0, SameRow
  <2>2. i \notin NotesOn(s, dead) BY KeptIds DEF NotesOn
  <2>3. QED BY <1>2, <2>1, <2>2 DEF Hit
<1> HIDE DEF S
<1>3. AllHit(r, s, S, C \cup {c}) BY <1>2 DEF AllHit
<1>4. Explained(r, Deleted(s, S, 0), C \cup {c}) BY <1>3, DeletedExplained
<1>5. QED BY <1>1, <1>4

\* A section deleted on the screen: its tasks lose it.
LEMMA SectionDeleteExplained ==
    ASSUME NEW r \in [Ids -> Row], NEW s \in [Ids -> Row], NEW C, NEW c,
           Explained(r, s, C), c.type = "section_delete", c.id \in Sections
    PROVE  Explained(r, ApplySectionDelete(s, c.id), C \cup {c})
<1> DEFINE n == ApplySectionDelete(s, c.id)
<1>1. ASSUME NEW i \in Ids PROVE n[i] = IF i \in Tasks /\ s[i].section = c.id
                                       THEN [s[i] EXCEPT !.section = None]
                                       ELSE Deleted(s, {c.id}, 0)[i]
      BY DEF ApplySectionDelete
<1>2. ASSUME NEW i \in Ids, i # c.id, ~(i \in Tasks /\ s[i].section = c.id)
      PROVE  n[i] = s[i]
  <2>1. n[i] = Deleted(s, {c.id}, 0)[i] BY <1>1, <1>2
  <2> HIDE DEF n
  <2>2. QED BY <1>2, <2>1 DEF Deleted
<1>3. ASSUME NEW i \in Kept
      PROVE  Shown(n[i]) = Shown(s[i]) \/ \E d \in C \cup {c} : Hit(r, d, i)
  <2>0. i \in Ids BY KeptIds
  <2>1. CASE i = c.id BY <2>1 DEF Hit
  <2>2. CASE i # c.id /\ ~(i \in Tasks /\ s[i].section = c.id) BY <2>0, <2>2, <1>2
  <2>3. CASE i \in Tasks /\ s[i].section = c.id /\ ~Live(s, i)
    <3>1. n[i] = [s[i] EXCEPT !.section = None] BY <1>1, <2>0, <2>3
    <3>2. s[i] \in Row /\ s[i].is # "live" BY <2>0, <2>3 DEF Live
    <3> HIDE DEF n
    <3>3. n[i].is # "live" BY <3>1, <3>2 DEF Row
    <3>4. QED BY <3>2, <3>3 DEF Shown
  <2>4. CASE i \in Tasks /\ s[i].section = c.id /\ Live(s, i) /\ ~ \E d \in C : Hit(r, d, i)
    <3>1. ShownOrHit(r, s, C, i) BY DEF Explained
    <3>2. Live(r, i) /\ r[i].section = s[i].section BY <2>4, <3>1, SameRow
    <3>3. QED BY <2>4, <3>2 DEF Hit, Loses
  <2>5. QED BY <2>1, <2>2, <2>3, <2>4
<1>4. ASSUME NEW i \in Tasks, Live(r, i), r[i].parent = None
      PROVE  \/ Container(n[i]) = Container(s[i]) /\ n[i].parent = s[i].parent
             \/ FiledOrMoved(r, n, C \cup {c}, i)
  <2>1. CASE \E d \in C : Moves(r, d, i) \/ Loses(r, d, i) BY <2>1 DEF FiledOrMoved
  <2>2. CASE ~ \E d \in C : Moves(r, d, i) \/ Loses(r, d, i)
    <3>1. Container(s[i]) = Container(r[i]) BY <1>4, <2>2 DEF Explained, FiledOrMoved
    <3>2. CASE s[i].section = c.id
      <4>1. r[i].section = c.id BY <3>1, <3>2 DEF Container
      <4>2. Loses(r, c, i) BY <4>1 DEF Loses
      <4>3. QED BY <4>2 DEF FiledOrMoved
    <3>3. CASE s[i].section # c.id
      <4>1. n[i] = s[i] BY <1>2, <3>3, Kinds
      <4>2. QED BY <4>1
    <3>4. QED BY <3>2, <3>3
  <2>3. QED BY <2>1, <2>2
<1> HIDE DEF n
<1>5. Explained(r, n, C \cup {c}) BY <1>3, <1>4, StepExplained
<1>6. QED BY <1>5 DEF n

\* A task moved on the screen, with its subtasks or under a parent.
LEMMA TaskMoveExplained ==
    ASSUME NEW r \in [Ids -> Row], IsTree(r), NEW s \in [Ids -> Row], NEW C, NEW c \in Commands,
           Explained(r, s, C), c.type = "task_move"
    PROVE  Explained(r, ApplyTaskMove(s, c), C \cup {c})
<1> DEFINE n == ApplyTaskMove(s, c)
           under == NewParent(s, c)
           to == IF Known(s, under) THEN Container(s[under]) ELSE To(s, c)
           with == IF Known(s, under) THEN {} ELSE LiveSubtasks(s, c.id)
<1>0. c.id \in Tasks /\ c.parent \in Tasks \cup {None, Unsent} BY DEF Commands, Cmd
<1>1. CASE ~Known(s, c.id) \/ c.parent = c.id
  <2>1. n = s BY <1>1 DEF ApplyTaskMove
  <2> HIDE DEF n
  <2>2. Explained(r, n, C \cup {c}) BY <2>1, StepExplained
  <2>3. QED BY <2>2 DEF n
<1>2. CASE ~(~Known(s, c.id) \/ c.parent = c.id)
  <2>1. ASSUME NEW i \in Ids
        PROVE  n[i] = IF i = c.id
                      THEN [s[i] EXCEPT !.parent = under, !.project = to[1], !.section = to[2]]
                      ELSE IF i \in with
                           THEN [s[i] EXCEPT !.project = to[1], !.section = to[2]]
                           ELSE s[i]
        BY <1>2 DEF ApplyTaskMove, To
  <2>2. \A i \in with : i \in Tasks /\ Live(s, i) /\ s[i].parent = c.id /\ ~Known(s, under)
        BY DEF LiveSubtasks
  <2> HIDE DEF n
  \* A top-level task no queued command files elsewhere: c does, or leaves it.
  <2>3. ASSUME NEW i \in Tasks, Live(r, i), r[i].parent = None, i = c.id,
               ~ \E d \in C : Moves(r, d, i) \/ Loses(r, d, i), ~Moves(r, c, i)
        PROVE  under = None /\ ~Known(s, under) /\ to = Container(r[i])
               /\ Container(s[i]) = Container(r[i])
    <3>1. Container(s[i]) = Container(r[i]) /\ s[i].parent = None
          BY <2>3 DEF Explained, FiledOrMoved
    <3>2. c.parent \notin Tasks /\ To(r, c) = Container(r[i]) BY <1>2, <2>3, <1>0 DEF Moves
    <3>3. under = None BY <1>0, <2>3, <3>1, <3>2, Kinds DEF NewParent
    <3>4. ~Known(s, under) BY <3>3, Kinds DEF Known, Live, Gone
    <3>5. s[i].project = r[i].project /\ s[i].section = r[i].section BY <3>1 DEF Container
    <3>6. To(s, c) = To(r, c) BY <2>3, <3>5 DEF To, NewProject, NewSection
    <3>7. to = To(s, c) BY <3>4
    <3> HIDE DEF to, under
    <3>8. QED BY <3>1, <3>2, <3>3, <3>4, <3>6, <3>7
  <2>4. ASSUME NEW i \in Kept
        PROVE  Shown(n[i]) = Shown(s[i]) \/ \E d \in C \cup {c} : Hit(r, d, i)
    <3>0. i \in Ids /\ s[i] \in Row BY KeptIds
    <3>1. CASE i = c.id BY <3>1 DEF Hit
    <3>2. CASE i # c.id /\ i \notin with
      <4>1. n[i] = s[i] BY <3>0, <3>2, <2>1
      <4>2. QED BY <4>1
    <3>3. CASE i # c.id /\ i \in with /\ ~ \E d \in C \cup {c} : Hit(r, d, i)
      <4>0. i \in Tasks /\ Live(s, i) /\ s[i].parent = c.id BY <2>2, <3>3
      <4>1. ShownOrHit(r, s, C, i) BY DEF Explained
      <4>2. /\ Live(r, i) /\ r[i].project = s[i].project /\ r[i].section = s[i].section
            /\ r[i].parent = c.id
            BY <3>3, <4>0, <4>1, SameRow
      <4>3. c.id # None BY <1>0, Kinds
      <4>4. /\ Live(r, c.id) /\ r[c.id].parent = None
            /\ Container(r[i]) = Container(r[c.id])
            BY <4>0, <4>2, <4>3, Follows
      <4>5. \A d \in C \cup {c} : ~Moves(r, d, c.id) /\ ~Loses(r, d, c.id)
            BY <3>3, <4>0, <4>2, <4>3, FollowsHit
      <4>6. to = Container(r[c.id]) BY <1>0, <2>3, <4>4, <4>5
      <4>7. to = Container(s[i]) BY <4>2, <4>4, <4>6 DEF Container
      <4>8. to[1] = s[i].project /\ to[2] = s[i].section BY <4>7 DEF Container
      <4>9. n[i] = [s[i] EXCEPT !.project = to[1], !.section = to[2]] BY <3>0, <3>3, <2>1
      <4> HIDE DEF to
      <4>10. n[i] = [s[i] EXCEPT !.project = s[i].project, !.section = s[i].section]
             BY <4>8, <4>9
      <4>11. n[i] = s[i] BY <3>0, <4>10 DEF Row
      <4>12. QED BY <4>11
    <3>4. QED BY <3>1, <3>2, <3>3
  <2>5. ASSUME NEW i \in Tasks, Live(r, i), r[i].parent = None
        PROVE  \/ Container(n[i]) = Container(s[i]) /\ n[i].parent = s[i].parent
               \/ FiledOrMoved(r, n, C \cup {c}, i)
    <3>0. i \in Ids /\ s[i] \in Row BY Kinds
    <3>1. CASE \E d \in C \cup {c} : Moves(r, d, i) \/ Loses(r, d, i)
          BY <3>1 DEF FiledOrMoved
    <3>2. CASE ~ \E d \in C \cup {c} : Moves(r, d, i) \/ Loses(r, d, i)
      <4>1. s[i].parent = None BY <2>5, <3>2 DEF Explained, FiledOrMoved
      <4>2. CASE i = c.id
        <5>1. under = None /\ to = Container(r[i]) BY <2>3, <2>5, <3>2, <4>2
        <5>2. n[i] = [s[i] EXCEPT !.parent = under, !.project = to[1], !.section = to[2]]
              BY <3>0, <4>2, <2>1
        <5> HIDE DEF under, to
        <5>3. n[i].parent = None /\ n[i].project = to[1] /\ n[i].section = to[2]
              BY <3>0, <5>1, <5>2 DEF Row
        <5>4. Container(n[i]) = Container(r[i]) BY <5>1, <5>3 DEF Container
        <5>5. QED BY <5>3, <5>4 DEF FiledOrMoved
      <4>3. CASE i # c.id
        <5>1. i \notin with BY <1>0, <2>2, <4>1, Kinds
        <5>2. n[i] = s[i] BY <3>0, <4>3, <5>1, <2>1
        <5>3. QED BY <5>2
      <4>4. QED BY <4>2, <4>3
    <3>3. QED BY <3>1, <3>2
  <2>6. Explained(r, n, C \cup {c}) BY <2>4, <2>5, StepExplained
  <2>7. QED BY <2>6 DEF n
<1>3. QED BY <1>1, <1>2

\* An edit of the device accounts for what it changes on the screen.
LEMMA ApplyExplained ==
    ASSUME NEW r \in [Ids -> Row], IsTree(r), NEW s \in [Ids -> Row], NEW C, NEW c \in Commands,
           IsAdd(c) => r[c.id].is = "absent", Explained(r, s, C)
    PROVE  Explained(r, ApplyCommand(s, c), C \cup {c})
<1> DEFINE n == ApplyCommand(s, c)
<1>0. c.id \in Ids BY Kinds DEF Commands, Cmd
<1>1. CASE IsAdd(c)
  <2>1. ~Live(r, c.id) BY <1>1 DEF Live
  <2>2. PICK project, section, parent : n = Created(s, c.id, project, section, parent, 0)
        BY <1>1 DEF ApplyCommand, ApplyTaskAdd, IsAdd
  <2> HIDE DEF n
  <2>3. Explained(r, n, C \cup {c}) BY <1>0, <2>1, <2>2, CreatedExplained
  <2>4. QED BY <2>3 DEF n
<1>2. CASE c.type = "project_delete"
  <2>1. n = ApplyProjectDelete(s, c.id) BY <1>2 DEF ApplyCommand
  <2> HIDE DEF n
  <2>2. QED BY <1>2, <2>1, ProjectDeleteExplained DEF n
<1>3. CASE c.type = "section_delete"
  <2>1. n = ApplySectionDelete(s, c.id) /\ c.id \in Sections
        BY <1>3 DEF ApplyCommand, Commands, Cmd
  <2> HIDE DEF n
  <2>2. QED BY <1>3, <2>1, SectionDeleteExplained DEF n
<1>4. CASE c.type = "task_delete"
  <2>1. n = ApplyTaskDelete(s, c.id) /\ c.id \in Tasks
        BY <1>4 DEF ApplyCommand, Commands, Cmd
  <2> HIDE DEF n
  <2>2. QED BY <1>4, <2>1, TaskDeleteExplained DEF n
<1>5. CASE c.type = "note_delete"
  <2>1. n = Deleted(s, {c.id}, 0) BY <1>5 DEF ApplyCommand
  <2>2. AllHit(r, s, {c.id}, C \cup {c}) BY DEF Hit, AllHit
  <2> HIDE DEF n
  <2>3. Explained(r, Deleted(s, {c.id}, 0), C \cup {c}) BY <2>2, DeletedExplained
  <2>4. QED BY <2>1, <2>3 DEF n
<1>6. CASE c.type = "task_move"
  <2>1. n = ApplyTaskMove(s, c) BY <1>6 DEF ApplyCommand
  <2> HIDE DEF n
  <2>2. QED BY <1>6, <2>1, TaskMoveExplained DEF n
<1>7. CASE c.type = "task_update"
  <2>1. n = s BY <1>7 DEF ApplyCommand
  <2> HIDE DEF n
  <2>2. QED BY <2>1, StepExplained DEF n
<1>8. c.type \in {"project_add", "section_add", "note_add", "task_add", "project_delete",
                  "section_delete", "task_delete", "note_delete", "task_move", "task_update"}
      BY DEF Commands, Cmd
<1>9. QED BY <1>1, <1>2, <1>3, <1>4, <1>5, <1>6, <1>7, <1>8 DEF IsAdd

\* Two trees with the same row i: what changes it in one changes it in the other.
LEMMA HitTransfers ==
    ASSUME NEW r \in [Ids -> Row], IsTree(r), NEW n \in [Ids -> Row], IsTree(n),
           NEW i \in Kept, n[i] = r[i], NEW c, Hit(r, c, i)
    PROVE  Hit(n, c, i)
<1>1. i \in Ids /\ (Live(r, i) <=> Live(n, i)) BY KeptIds DEF Live
<1>2. CASE i \in Tasks /\ Live(r, i) /\ r[i].parent \in Tasks /\ Moves(r, c, r[i].parent)
  <2> DEFINE j == r[i].parent
  <2>0. r[i].parent # None /\ n[i].parent = j BY <1>2, Kinds
  <2>1. r[i].project = r[j].project /\ r[i].section = r[j].section BY <1>2, <2>0, Follows
  <2>2. n[i].project = n[j].project /\ n[i].section = n[j].section
        BY <1>1, <1>2, <2>0, Follows
  <2> HIDE DEF j
  <2>3. n[j].project = r[j].project /\ n[j].section = r[j].section BY <2>1, <2>2
  <2>4. Moves(r, c, j) /\ c.id = j BY <1>2 DEF j, Moves
  <2>5. To(n, c) = To(r, c) BY <2>3, <2>4 DEF To, NewProject, NewSection
  <2>6. Moves(n, c, j) BY <2>3, <2>4, <2>5 DEF Moves, Container
  <2>7. QED BY <1>1, <1>2, <2>0, <2>6 DEF Hit, j
<1>3. CASE ~(i \in Tasks /\ Live(r, i) /\ r[i].parent \in Tasks /\ Moves(r, c, r[i].parent))
      BY <1>1, <1>3 DEF Hit, Loses
<1>4. QED BY <1>2, <1>3

\* What a step of the server does to its rows: it stamps those it changes, never
\* takes a row back, and keeps a section in its project.
Evolves(r, n, c, v) ==
    \A i \in Ids : /\ n[i] = r[i] \/ n[i].at = v
                   /\ Known(r, i) => Known(n, i)
                   /\ Gone(r, i) => Gone(n, i)
                   /\ Known(n, i) => Known(r, i) \/ (IsAdd(c) /\ c.id = i)
                   /\ i \in Sections /\ Known(r, i) => n[i].project = r[i].project

\* A row the server adds is stamped.
LEMMA CreatedEvolves ==
    ASSUME NEW r \in [Ids -> Row], NEW c, IsAdd(c), c.id \in Ids, r[c.id].is = "absent",
           NEW v, NEW project, NEW section, NEW parent
    PROVE  LET n == Created(r, c.id, project, section, parent, v)
           IN  Evolves(r, n, c, v) /\ n[c.id].at = v
<1> DEFINE row == [is |-> "live", project |-> project, section |-> section,
                   parent |-> parent, at |-> v]
           n == [r EXCEPT ![c.id] = row]
<1>1. n[c.id] = row /\ \A i \in Ids : i # c.id => n[i] = r[i] OBVIOUS
<1>2. row.at = v OBVIOUS
<1>3. n = Created(r, c.id, project, section, parent, v) BY DEF Created
<1> HIDE DEF n, row
<1>4. ~Known(r, c.id) BY DEF Known, Live, Gone
<1>5. \A i \in Ids : i # c.id => (Known(n, i) <=> Known(r, i)) /\ (Gone(n, i) <=> Gone(r, i))
      BY <1>1 DEF Known, Live, Gone
<1>6. \A i \in Ids : Gone(r, i) => Known(r, i) BY DEF Known
<1>7. Evolves(r, n, c, v) BY <1>1, <1>2, <1>4, <1>5, <1>6 DEF Evolves
<1>8. QED BY <1>1, <1>2, <1>3, <1>7

\* So is every live row it deletes.
LEMMA DeletedEvolves ==
    ASSUME NEW r \in [Ids -> Row], NEW c, NEW v \in Nat, NEW S
    PROVE  LET n == Deleted(r, S, v)
           IN  Evolves(r, n, c, v) /\ \A i \in Ids : i \in S /\ Live(r, i) => n[i].at = v
<1> DEFINE n == Deleted(r, S, v)
<1>1. ASSUME NEW i \in Ids, i \in S, Live(r, i)
      PROVE  /\ n[i].at = v /\ n[i].is = "deleted" /\ n[i].project = r[i].project
  <2>1. n[i] = [r[i] EXCEPT !.is = "deleted", !.at = v] BY <1>1 DEF Deleted
  <2>2. r[i] \in Row OBVIOUS
  <2> HIDE DEF n
  <2>3. QED BY <2>1, <2>2 DEF Row
<1>2. ASSUME NEW i \in Ids, ~(i \in S /\ Live(r, i)) PROVE n[i] = r[i]
      BY <1>2 DEF Deleted
<1> HIDE DEF n
<1>3. ASSUME NEW i \in Ids
      PROVE  /\ n[i] = r[i] \/ n[i].at = v
             /\ Known(r, i) => Known(n, i)
             /\ Gone(r, i) => Gone(n, i)
             /\ Known(n, i) => Known(r, i)
             /\ i \in Sections /\ Known(r, i) => n[i].project = r[i].project
  <2>1. CASE i \in S /\ Live(r, i) BY <1>1, <2>1 DEF Known, Live, Gone
  <2>2. CASE ~(i \in S /\ Live(r, i)) BY <1>2, <2>2 DEF Known, Live, Gone
  <2>3. QED BY <2>1, <2>2
<1>4. Evolves(r, n, c, v) BY <1>3 DEF Evolves
<1>5. QED BY <1>1, <1>4 DEF n

\* A section deleted on the server: it and the tasks it held are stamped.
LEMMA SectionDeleteEvolves ==
    ASSUME NEW r \in [Ids -> Row], NEW c, c.id \in Sections, Live(r, c.id), NEW v \in Nat
    PROVE  LET n == SectionDelete(r, c.id, v)
           IN  /\ Evolves(r, n, c, v) /\ n[c.id].at = v
               /\ \A i \in Tasks : Live(r, i) /\ r[i].section = c.id => n[i].at = v
<1> DEFINE n == SectionDelete(r, c.id, v)
<1>0. c.id \in Ids /\ c.id \notin Tasks BY Kinds
<1>1. n[c.id].at = v /\ n[c.id].is = "deleted" /\ n[c.id].project = r[c.id].project
  <2>1. n[c.id] = [r[c.id] EXCEPT !.is = "deleted", !.at = v] BY <1>0 DEF SectionDelete
  <2>2. r[c.id] \in Row BY <1>0
  <2> HIDE DEF n
  <2>3. QED BY <2>1, <2>2 DEF Row
<1>2. ASSUME NEW i \in Tasks, Live(r, i), r[i].section = c.id
      PROVE  n[i].at = v /\ n[i].is = "live"
  <2>0. i \in Ids /\ i # c.id BY <1>0, Kinds
  <2>1. n[i] = [r[i] EXCEPT !.section = None, !.at = v] BY <1>2, <2>0 DEF SectionDelete
  <2>2. r[i] \in Row /\ r[i].is = "live" BY <1>2, <2>0 DEF Live
  <2> HIDE DEF n
  <2>3. QED BY <2>1, <2>2 DEF Row
<1>3. ASSUME NEW i \in Ids, i # c.id, ~(i \in Tasks /\ Live(r, i) /\ r[i].section = c.id)
      PROVE  n[i] = r[i]
      BY <1>3 DEF SectionDelete
<1> HIDE DEF n
<1>4. ASSUME NEW i \in Ids
      PROVE  /\ n[i] = r[i] \/ n[i].at = v
             /\ Known(r, i) => Known(n, i)
             /\ Gone(r, i) => Gone(n, i)
             /\ Known(n, i) => Known(r, i)
             /\ i \in Sections /\ Known(r, i) => n[i].project = r[i].project
  <2>1. CASE i = c.id BY <1>1, <2>1 DEF Known, Live, Gone
  <2>2. CASE i \in Tasks /\ Live(r, i) /\ r[i].section = c.id
        BY <1>2, <2>2, Kinds DEF Known, Live, Gone
  <2>3. CASE i # c.id /\ ~(i \in Tasks /\ Live(r, i) /\ r[i].section = c.id)
        BY <1>3, <2>3 DEF Known, Live, Gone
  <2>4. QED BY <2>1, <2>2, <2>3
<1>5. Evolves(r, n, c, v) BY <1>4 DEF Evolves
<1>6. QED BY <1>1, <1>2, <1>5 DEF n

\* A task moved on the server: it is stamped, and the subtasks that follow it
\* elsewhere are too.
LEMMA TaskMoveEvolves ==
    ASSUME NEW r \in [Ids -> Row], IsTree(r), NEW c \in Commands, c.type = "task_move",
           Verdict(r, c) = "ok", NEW v \in Nat
    PROVE  LET n == TaskMove(r, c, v)
           IN  /\ Evolves(r, n, c, v) /\ n[c.id].at = v
               /\ \A i \in LiveSubtasks(r, c.id) :
                      NewParent(r, c) = None /\ Container(r[i]) # Destination(r, c) => n[i].at = v
<1> DEFINE n == TaskMove(r, c, v)
           to == Destination(r, c)
           with == {i \in LiveSubtasks(r, c.id) : NewParent(r, c) = None /\ Container(r[i]) # to}
<1>0. c.id \in Tasks /\ Live(r, c.id) BY MoveFits
<1>1. \A i \in with : i \in Tasks /\ Live(r, i) BY DEF LiveSubtasks
<1>2. ASSUME NEW i \in Ids, i = c.id \/ i \in with
      PROVE  n[i].at = v /\ n[i].is = r[i].is
  <2>1. \/ n[i] = [r[i] EXCEPT !.parent = NewParent(r, c), !.project = to[1],
                               !.section = to[2], !.at = v]
        \/ n[i] = [r[i] EXCEPT !.project = to[1], !.section = to[2], !.at = v]
        BY <1>2 DEF TaskMove
  <2>2. r[i] \in Row OBVIOUS
  <2> HIDE DEF n, to, with
  <2>3. QED BY <2>1, <2>2 DEF Row
<1>3. ASSUME NEW i \in Ids, i # c.id, i \notin with PROVE n[i] = r[i]
      BY <1>3 DEF TaskMove
<1> HIDE DEF n, with
<1>4. ASSUME NEW i \in Ids
      PROVE  /\ n[i] = r[i] \/ n[i].at = v
             /\ Known(r, i) => Known(n, i)
             /\ Gone(r, i) => Gone(n, i)
             /\ Known(n, i) => Known(r, i)
             /\ i \in Sections /\ Known(r, i) => n[i].project = r[i].project
  <2>1. CASE i = c.id \/ i \in with
        BY <1>0, <1>1, <1>2, <2>1, Kinds DEF Known, Live, Gone
  <2>2. CASE i # c.id /\ i \notin with BY <1>3, <2>2 DEF Known, Live, Gone
  <2>3. QED BY <2>1, <2>2
<1>5. Evolves(r, n, c, v) BY <1>4 DEF Evolves
<1>6. \A i \in with : n[i].at = v BY <1>1, <1>2, Kinds
<1>7. n[c.id].at = v BY <1>0, <1>2, Kinds
<1>8. QED BY <1>5, <1>6, <1>7 DEF n, with

\* An update of a task stamps it and changes nothing else here.
LEMMA TaskUpdateEvolves ==
    ASSUME NEW r \in [Ids -> Row], NEW c, c.id \in Tasks, NEW v \in Nat
    PROVE  LET n == TaskUpdate(r, c.id, v) IN Evolves(r, n, c, v) /\ n[c.id].at = v
<1> DEFINE n == [r EXCEPT ![c.id].at = v]
<1>0. c.id \in Ids BY Kinds
<1>1. n[c.id].at = v /\ n[c.id].is = r[c.id].is
  <2>1. n[c.id] = [r[c.id] EXCEPT !.at = v] BY <1>0
  <2>2. r[c.id] \in Row BY <1>0
  <2> HIDE DEF n
  <2>3. QED BY <2>1, <2>2 DEF Row
<1>2. \A i \in Ids : i # c.id => n[i] = r[i] OBVIOUS
<1>3. n = TaskUpdate(r, c.id, v) BY DEF TaskUpdate
<1> HIDE DEF n
<1>4. Evolves(r, n, c, v) BY <1>0, <1>1, <1>2, Kinds DEF Evolves, Known, Live, Gone
<1>5. QED BY <1>1, <1>3, <1>4

\* The server stamps every row a command it accepts changes here or there.
LEMMA HandleEvolves ==
    ASSUME NEW r \in [Ids -> Row], IsTree(r), NEW c \in Commands, NEW v \in Nat,
           Verdict(r, c) = "ok", IsAdd(c) => r[c.id].is = "absent"
    PROVE  LET n == Handle(r, c, v)
           IN  /\ Evolves(r, n, c, v)
               /\ \A i \in Kept : Hit(r, c, i) => n[i].at = v
<1> DEFINE n == Handle(r, c, v)
<1>0. c.id \in Ids BY Kinds DEF Commands, Cmd
<1>1. ~IsAdd(c) => Live(r, c.id) BY Accepted DEF NotFound
<1>2. CASE IsAdd(c)
  <2>1. PICK project, section, parent : n = Created(r, c.id, project, section, parent, v)
        BY <1>2 DEF Handle, TaskAdd, IsAdd
  <2> HIDE DEF n
  <2>2. Evolves(r, n, c, v) /\ n[c.id].at = v BY <1>0, <1>2, <2>1, CreatedEvolves
  <2>3. \A i : Hit(r, c, i) => i = c.id BY <1>2 DEF Hit, IsAdd, Loses, Moves
  <2>4. QED BY <2>2, <2>3 DEF n
<1>3. CASE c.type = "project_delete"
  <2> DEFINE own  == {t \in Tasks : Live(r, t) /\ r[t].project = c.id}
             dead == own \cup UNION {LiveSubtasks(r, t) : t \in own}
             S == {c.id} \cup {s \in Sections : r[s].project = c.id} \cup dead \cup NotesOn(r, dead)
  <2>1. n = Deleted(r, S, v) BY <1>3 DEF Handle, ProjectDelete
  <2>2. ASSUME NEW i \in Kept, Hit(r, c, i) PROVE i \in S /\ Live(r, i)
        BY <1>1, <1>3, <2>2 DEF Hit, Loses, Moves, IsAdd
  <2> HIDE DEF n, S
  <2>3. Evolves(r, n, c, v) /\ \A i \in Ids : i \in S /\ Live(r, i) => n[i].at = v
        BY <2>1, DeletedEvolves
  <2>4. QED BY <2>2, <2>3, KeptIds DEF n
<1>4. CASE c.type = "section_delete"
  <2>1. n = SectionDelete(r, c.id, v) /\ c.id \in Sections /\ Live(r, c.id)
        BY <1>1, <1>4 DEF Handle, IsAdd, Commands, Cmd
  <2>2. ASSUME NEW i \in Kept, Hit(r, c, i)
        PROVE  i = c.id \/ (i \in Tasks /\ Live(r, i) /\ r[i].section = c.id)
        BY <1>4, <2>2 DEF Hit, Loses, Moves
  <2> HIDE DEF n
  <2>3. /\ Evolves(r, n, c, v) /\ n[c.id].at = v
        /\ \A i \in Tasks : Live(r, i) /\ r[i].section = c.id => n[i].at = v
        BY <2>1, SectionDeleteEvolves
  <2>4. QED BY <2>2, <2>3 DEF n
<1>5. CASE c.type = "task_delete"
  <2> DEFINE dead == {c.id} \cup LiveSubtasks(r, c.id)
             S == dead \cup NotesOn(r, dead)
  <2>1. n = Deleted(r, S, v) BY <1>5 DEF Handle, TaskDelete
  <2>2. ASSUME NEW i \in Kept, Hit(r, c, i) PROVE i \in S /\ Live(r, i)
        BY <1>1, <1>5, <2>2 DEF Hit, Loses, Moves, IsAdd, LiveSubtasks
  <2> HIDE DEF n, S
  <2>3. Evolves(r, n, c, v) /\ \A i \in Ids : i \in S /\ Live(r, i) => n[i].at = v
        BY <2>1, DeletedEvolves
  <2>4. QED BY <2>2, <2>3, KeptIds DEF n
<1>6. CASE c.type = "note_delete"
  <2> DEFINE S == {c.id}
  <2>1. n = Deleted(r, S, v) BY <1>6 DEF Handle
  <2>2. ASSUME NEW i \in Kept, Hit(r, c, i) PROVE i \in S /\ Live(r, i)
        BY <1>1, <1>6, <2>2 DEF Hit, Loses, Moves, IsAdd
  <2> HIDE DEF n, S
  <2>3. Evolves(r, n, c, v) /\ \A i \in Ids : i \in S /\ Live(r, i) => n[i].at = v
        BY <2>1, DeletedEvolves
  <2>4. QED BY <2>2, <2>3, KeptIds DEF n
<1>7. CASE c.type = "task_move"
  <2>1. n = TaskMove(r, c, v) BY <1>7 DEF Handle
  <2> HIDE DEF n
  <2>2. /\ Evolves(r, n, c, v) /\ n[c.id].at = v
        /\ \A i \in LiveSubtasks(r, c.id) :
               NewParent(r, c) = None /\ Container(r[i]) # Destination(r, c) => n[i].at = v
        BY <1>7, <2>1, TaskMoveEvolves
  <2>3. ASSUME NEW i \in Kept, Hit(r, c, i), i # c.id PROVE n[i].at = v
    <3>1. i \in Tasks /\ Live(r, i) /\ r[i].parent \in Tasks /\ Moves(r, c, r[i].parent)
          BY <1>7, <2>3 DEF Hit, Loses
    <3>2. c.id = r[i].parent /\ r[i].parent # None /\ i \in LiveSubtasks(r, c.id)
          BY <3>1, Kinds DEF Moves, LiveSubtasks
    <3>3. r[c.id].parent = None /\ Container(r[i]) = Container(r[c.id]) BY <3>1, <3>2, Follows
    <3>4. c.parent \notin Tasks BY <1>7, <3>2, Accepted DEF Nested
    <3>5. To(r, c) # Container(r[i]) BY <3>1, <3>2, <3>3, <3>4 DEF Moves
    <3>6. NewParent(r, c) = None
          BY <1>7, <3>3, <3>4, Kinds DEF NewParent, Commands, Cmd
    <3>7. Destination(r, c) = To(r, c) BY <3>6 DEF Destination, To
    <3>8. QED BY <2>2, <3>2, <3>5, <3>6, <3>7
  <2>4. QED BY <2>2, <2>3 DEF n
<1>8. CASE c.type = "task_update"
  <2>1. n = TaskUpdate(r, c.id, v) /\ c.id \in Tasks
        BY <1>8 DEF Handle, Commands, Cmd
  <2> HIDE DEF n
  <2>2. Evolves(r, n, c, v) /\ n[c.id].at = v BY <2>1, TaskUpdateEvolves
  <2>3. \A i : Hit(r, c, i) => i = c.id BY <1>8 DEF Hit, Loses, Moves
  <2>4. QED BY <2>2, <2>3 DEF n
<1>9. c.type \in {"project_add", "section_add", "note_add", "task_add", "project_delete",
                  "section_delete", "task_delete", "note_delete", "task_move", "task_update"}
      BY DEF Commands, Cmd
<1>10. QED BY <1>2, <1>3, <1>4, <1>5, <1>6, <1>7, <1>8, <1>9 DEF IsAdd

-----------------------------------------------------------------------------
(* Induction over the natural numbers, and the fold that applies a queue *)

\* The order of the numbers, as a relation.
Less == {pair \in Nat \X Nat : pair[1] < pair[2]}

\* The order of the numbers is well founded.
LEMMA LessWellFounded == IsWellFoundedOn(Less, Nat)
<1>1. IsWellFoundedOn(OpToRel(<, Nat), Nat) BY NatLessThanWellFounded
<1>2. Less = OpToRel(<, Nat) BY DEF OpToRel, Less
<1>3. QED BY <1>1, <1>2

\* A set of numbers that is not empty has a least element.
LEMMA Least ==
    ASSUME NEW T, T \subseteq Nat, T # {}
    PROVE  \E x \in T : \A y \in T : x <= y
<1>1. PICK x \in T : \A y \in T : ~(<<y, x>> \in Less) BY LessWellFounded, WFMin
<1>2. ASSUME NEW y \in T, y < x PROVE FALSE
  <2>1. <<y, x>> \in Nat \X Nat /\ <<y, x>>[1] < <<y, x>>[2] BY <1>2
  <2>2. <<y, x>> \in Less BY <2>1 DEF Less
  <2>3. QED BY <1>1, <2>2
<1>3. x \in Nat /\ \A y \in T : y \in Nat OBVIOUS
<1>4. \A y \in T : x <= y BY <1>2, <1>3
<1>5. QED BY <1>4

\* The step from n to n + 1 carries a set from 0 to every number.
LEMMA Induction ==
    ASSUME NEW T, 0 \in T, \A n \in Nat : n \in T => n + 1 \in T
    PROVE  Nat \subseteq T
<1> SUFFICES ASSUME Nat \ T # {} PROVE FALSE OBVIOUS
<1>1. PICK x \in Nat \ T : \A y \in Nat \ T : x <= y BY Least
<1>2. x # 0 /\ x - 1 \in Nat BY <1>1
<1>3. x - 1 \in T BY <1>1, <1>2
<1>4. QED BY <1>1, <1>2, <1>3

\* The largest position of a set of positions is one of them.
LEMMA MaxIsIn ==
    ASSUME NEW m \in Nat, NEW S \in SUBSET (1..m), S # {}
    PROVE  Max(S) \in S /\ \A y \in S : Max(S) >= y
<1> DEFINE T == {n \in Nat : \A y \in S : n >= y}
<1>1. PICK x \in T : \A y \in T : x <= y
  <2>1. m \in T OBVIOUS
  <2>2. T \subseteq Nat /\ T # {} BY <2>1
  <2> HIDE DEF T
  <2>3. QED BY <2>2, Least
<1>2. x \in Nat /\ \A y \in S : x >= y OBVIOUS
<1>3. x \in S
  <2> SUFFICES ASSUME x \notin S PROVE FALSE OBVIOUS
  <2>1. \A y \in S : y \in 1..m /\ x > y BY <1>2
  <2> PICK y \in S : TRUE OBVIOUS
  <2>2. y \in Nat /\ y > 0 /\ x > y BY <2>1
  <2>3. x > 0 /\ x - 1 \in Nat BY <1>2, <2>2
  <2>4. \A z \in S : x - 1 >= z BY <1>2, <2>1
  <2>5. x - 1 \in T BY <2>3, <2>4
  <2> HIDE DEF T
  <2>6. QED BY <1>1, <1>2, <2>5
<1>4. QED BY <1>2, <1>3 DEF Max

\* It is the one no other exceeds.
LEMMA MaxIs ==
    ASSUME NEW m \in Nat, NEW S \in SUBSET (1..m), NEW x \in S, \A y \in S : x >= y
    PROVE  Max(S) = x
<1>1. \A y \in S : y \in 1..m OBVIOUS
<1>2. PICK z : z = Max(S) OBVIOUS
<1>3. z \in S /\ z >= x BY <1>2, MaxIsIn
<1>4. z \in Nat /\ x \in Nat /\ x >= z BY <1>1, <1>3
<1>5. z = x BY <1>3, <1>4
<1>6. QED BY <1>2, <1>5

\* One step of the recursion that defines a fold over the positions in S.
Unfold(base, q, it, S) ==
    IF S = {} THEN base ELSE ApplyCommand(it[S \ {Max(S)}], q[Max(S)])
\* The function it solves that recursion up to position m.
Folds(base, q, it, m) == it = [S \in SUBSET (1..m) |-> Unfold(base, q, it, S)]

\* The recursion that defines a fold over a queue has a solution, whatever its
\* length.
LEMMA FoldExists ==
    ASSUME NEW base, NEW q
    PROVE  \A m \in Nat : \E it : Folds(base, q, it, m)
<1> DEFINE T == {m \in Nat : \E it : Folds(base, q, it, m)}
<1>1. 0 \in T
  <2>1. SUBSET (1..0) = {{}} OBVIOUS
  <2> DEFINE it == [S \in {{}} |-> base]
  <2>2. it = [S \in SUBSET (1..0) |-> Unfold(base, q, it, S)] BY <2>1 DEF Unfold
  <2>3. QED BY <2>2 DEF Folds
<1>2. ASSUME NEW m \in Nat, m \in T PROVE m + 1 \in T
  <2>1. PICK it : Folds(base, q, it, m) BY <1>2
  <2> DEFINE more == [S \in SUBSET (1..(m + 1)) |->
                        IF m + 1 \in S THEN ApplyCommand(it[S \ {m + 1}], q[m + 1]) ELSE it[S]]
  <2>2. \A S \in SUBSET (1..m) : it[S] = Unfold(base, q, it, S) BY <2>1 DEF Folds
  <2>3. ASSUME NEW S \in SUBSET (1..(m + 1)) PROVE more[S] = Unfold(base, q, more, S)
    <3>1. CASE m + 1 \in S
      <4>1. Max(S) = m + 1
        <5>1. m + 1 \in Nat /\ \A y \in S : m + 1 >= y OBVIOUS
        <5>2. QED BY <3>1, <5>1, MaxIs
      <4>2. S \ {m + 1} \in SUBSET (1..m) /\ S \ {m + 1} \in SUBSET (1..(m + 1)) OBVIOUS
      <4>3. more[S \ {m + 1}] = it[S \ {m + 1}] BY <4>2
      <4>4. more[S] = ApplyCommand(it[S \ {m + 1}], q[m + 1]) BY <3>1
      <4>5. S # {} BY <3>1
      <4> HIDE DEF more
      <4>6. QED BY <4>1, <4>3, <4>4, <4>5 DEF Unfold
    <3>2. CASE m + 1 \notin S
      <4>1. S \in SUBSET (1..m) BY <3>2
      <4>2. more[S] = it[S] BY <3>2
      <4>3. ASSUME S # {} PROVE more[S \ {Max(S)}] = it[S \ {Max(S)}] BY <3>2
      <4> HIDE DEF more
      <4>4. QED BY <2>2, <4>1, <4>2, <4>3 DEF Unfold
    <3>3. QED BY <3>1, <3>2
  <2>4. more = [S \in SUBSET (1..(m + 1)) |-> more[S]] OBVIOUS
  <2> HIDE DEF more
  <2>5. Folds(base, q, more, m + 1) BY <2>3, <2>4 DEF Folds
  <2>6. QED BY <2>5
<1>3. Nat \subseteq T
  <2> HIDE DEF T
  <2>1. QED BY <1>1, <1>2, Induction
<1>4. QED BY <1>3

\* The fold over all of q.
FoldOf(base, q) ==
    (CHOOSE it : it = [S \in SUBSET (DOMAIN q) |-> Unfold(base, q, it, S)])[DOMAIN q]

\* A fold is what its steps, one command after the other, lead to.
Leads(f, base, q) ==
    /\ f[0] = base /\ f[Len(q)] = FoldOf(base, q)
    /\ \A k \in 1..Len(q) : f[k] = ApplyCommand(f[k - 1], q[k])

\* A fold over a queue applies its commands one after the other.
LEMMA FoldSteps ==
    ASSUME NEW base, NEW q \in Seq(Commands)
    PROVE  \E f : Leads(f, base, q)
<1>1. DOMAIN q = 1..Len(q) /\ Len(q) \in Nat OBVIOUS
<1> DEFINE it == CHOOSE i : Folds(base, q, i, Len(q))
           f  == [k \in 0..Len(q) |-> it[1..k]]
<1>2. Folds(base, q, it, Len(q)) BY <1>1, FoldExists
<1>3. FoldOf(base, q) = it[1..Len(q)] BY <1>1 DEF Folds, FoldOf
<1> HIDE DEF it
<1>4. \A S \in SUBSET (1..Len(q)) : it[S] = Unfold(base, q, it, S) BY <1>2 DEF Folds
<1>5. f[0] = base
  <2>1. 1..0 = {} OBVIOUS
  <2>2. it[{}] = base BY <1>4 DEF Unfold
  <2>3. f[0] = it[1..0] BY <1>1
  <2>4. QED BY <2>1, <2>2, <2>3
<1>6. ASSUME NEW k \in 1..Len(q) PROVE f[k] = ApplyCommand(f[k - 1], q[k])
  <2>1. k \in Nat /\ k >= 1 BY <1>1
  <2>2. (1..k) \ {k} = 1..(k - 1) /\ k \in 1..k BY <2>1
  <2>3. 1..k \in SUBSET (1..Len(q)) BY <1>1, <2>1
  <2>4. Max(1..k) = k
    <3>1. \A y \in 1..k : k >= y BY <2>1
    <3>2. QED BY <2>1, <2>2, <3>1, MaxIs
  <2>5. it[1..k] = ApplyCommand(it[1..(k - 1)], q[k]) BY <1>4, <2>2, <2>3, <2>4 DEF Unfold
  <2>6. f[k] = it[1..k] /\ f[k - 1] = it[1..(k - 1)] BY <1>1, <2>1
  <2>7. QED BY <2>5, <2>6
<1>7. f[Len(q)] = FoldOf(base, q) BY <1>1, <1>3
<1>8. Leads(f, base, q) BY <1>5, <1>6, <1>7 DEF Leads
<1>9. QED BY <1>8

\* The library's fold is that recursion.
LEMMA FoldIs ==
    ASSUME NEW base, NEW q
    PROVE  FoldLeft(ApplyCommand, base, q) = FoldOf(base, q)
BY DEF FoldLeft, MapThenFoldSet, FoldOf, Unfold

-----------------------------------------------------------------------------
(* What the operators of the replica return *)

\* What a screen ranges over: rows without versions.
Screens == {s \in [Ids -> Row] : \A i \in Ids : s[i].at = 0}

\* How an edit changes the projects and sections on the screen.
Roots(s, n, c) ==
    /\ \A i \in Projects : Live(n, i) => Live(s, i) \/ (c.type = "project_add" /\ c.id = i)
    /\ \A i \in Sections : Live(n, i) =>
           \/ Live(s, i) /\ n[i].project = s[i].project
           \/ c.type = "section_add" /\ c.id = i /\ n[i].project = c.project

\* What is shown of a row.
LEMMA ShownTyped ==
    ASSUME NEW x \in Row
    PROVE  /\ Shown(x) \in Row /\ Shown(x).at = 0 /\ Shown(Shown(x)) = Shown(x)
           /\ x.is = "live" => /\ Shown(x).project = x.project /\ Shown(x).section = x.section
                               /\ Shown(x).parent = x.parent
           /\ Shown(x).is = "live" => x.is = "live"
<1>0. Absent \in Row /\ Absent.at = 0 /\ Absent.is = "absent" BY DEF Absent, Row
<1>1. CASE x.is = "live"
  <2>1. Shown(x) = [x EXCEPT !.at = 0] BY <1>1 DEF Shown
  <2>2. [x EXCEPT !.at = 0] \in Row /\ [x EXCEPT !.at = 0].at = 0
        /\ [x EXCEPT !.at = 0].is = "live"
        BY <1>1 DEF Row
  <2>3. Shown([x EXCEPT !.at = 0]) = [[x EXCEPT !.at = 0] EXCEPT !.at = 0]
        BY <2>2 DEF Shown
  <2>4. [[x EXCEPT !.at = 0] EXCEPT !.at = 0] = [x EXCEPT !.at = 0] BY DEF Row
  <2>5. [x EXCEPT !.at = 0].project = x.project /\ [x EXCEPT !.at = 0].section = x.section
        /\ [x EXCEPT !.at = 0].parent = x.parent
        BY DEF Row
  <2>6. QED BY <1>1, <2>1, <2>2, <2>3, <2>4, <2>5
<1>2. CASE x.is # "live"
  <2>1. Shown(x) = Absent BY <1>2 DEF Shown
  <2>2. Shown(Absent) = Absent BY <1>0 DEF Shown
  <2>3. QED BY <1>0, <1>2, <2>1, <2>2
<1>3. QED BY <1>1, <1>2

\* An added row keeps the screen a screen, and is the only new root.
LEMMA CreatedTyped ==
    ASSUME NEW s \in Screens, NEW c, c.id \in Ids,
           NEW project \in Projects \cup {None}, NEW section \in Sections \cup {None},
           NEW parent \in Tasks \cup {None},
           c.id \in Projects => c.type = "project_add",
           c.id \in Sections => c.type = "section_add" /\ c.project = project
    PROVE  LET n == Created(s, c.id, project, section, parent, 0)
           IN  n \in Screens /\ Roots(s, n, c)
<1> DEFINE row == [is |-> "live", project |-> project, section |-> section,
                   parent |-> parent, at |-> 0]
           n == [s EXCEPT ![c.id] = row]
<1>1. s \in [Ids -> Row] /\ \A i \in Ids : s[i].at = 0 BY DEF Screens
<1>2. row \in Row /\ row.at = 0 /\ row.project = project BY DEF Row
<1>3. n \in [Ids -> Row] /\ n[c.id] = row /\ \A i \in Ids : i # c.id => n[i] = s[i]
  <2> HIDE DEF row
  <2>1. QED BY <1>1, <1>2
<1>4. n = Created(s, c.id, project, section, parent, 0) BY DEF Created
<1> HIDE DEF n, row
<1>5. n \in Screens BY <1>1, <1>2, <1>3 DEF Screens
<1>6. \A i \in Ids : i # c.id => (Live(n, i) <=> Live(s, i)) BY <1>3 DEF Live
<1>7. Roots(s, n, c) BY <1>2, <1>3, <1>6, Kinds DEF Roots
<1>8. QED BY <1>4, <1>5, <1>7

\* Deleting rows adds no root.
LEMMA DeletedTyped ==
    ASSUME NEW s \in Screens, NEW c, NEW S
    PROVE  LET n == Deleted(s, S, 0) IN n \in Screens /\ Roots(s, n, c)
<1>1. s \in [Ids -> Row] /\ \A i \in Ids : s[i].at = 0 BY DEF Screens
<1> DEFINE n == Deleted(s, S, 0)
<1>2. /\ n \in [Ids -> Row]
      /\ \A i \in Ids : /\ n[i].project = s[i].project
                        /\ Live(n, i) <=> Live(s, i) /\ i \notin S
                        /\ n[i].at \in {s[i].at, 0}
      BY <1>1, DeletedRows
<1> HIDE DEF n
<1>3. n \in Screens BY <1>1, <1>2 DEF Screens
<1>4. Roots(s, n, c) BY <1>2, Kinds DEF Roots
<1>5. QED BY <1>3, <1>4 DEF n

\* Nor does deleting a section.
LEMMA SectionDeleteTyped ==
    ASSUME NEW s \in Screens, NEW c, NEW x
    PROVE  LET n == ApplySectionDelete(s, x) IN n \in Screens /\ Roots(s, n, c)
<1>1. s \in [Ids -> Row] /\ \A i \in Ids : s[i].at = 0 BY DEF Screens
<1> DEFINE n == ApplySectionDelete(s, x)
           d == Deleted(s, {x}, 0)
<1>2. d \in Screens /\ Roots(s, d, c) BY DeletedTyped
<1>3. \A i \in Ids : i \notin Tasks => n[i] = d[i] BY DEF ApplySectionDelete
<1>4. ASSUME NEW i \in Ids PROVE n[i] \in Row /\ n[i].at = 0
  <2>1. CASE i \in Tasks /\ s[i].section = x
    <3>1. n[i] = [s[i] EXCEPT !.section = None] BY <2>1 DEF ApplySectionDelete
    <3>2. s[i] \in Row /\ s[i].at = 0 BY <1>1
    <3> HIDE DEF n
    <3>3. QED BY <3>1, <3>2 DEF Row
  <2>2. CASE ~(i \in Tasks /\ s[i].section = x)
    <3>1. n[i] = d[i] BY <2>2 DEF ApplySectionDelete
    <3> HIDE DEF n, d
    <3>2. QED BY <1>2, <3>1 DEF Screens
  <2>3. QED BY <2>1, <2>2
<1>5. n = [i \in Ids |-> n[i]] BY DEF ApplySectionDelete
<1> HIDE DEF n, d
<1>6. n \in Screens BY <1>4, <1>5 DEF Screens
<1>7. Roots(s, n, c) BY <1>2, <1>3, Kinds DEF Roots, Live
<1>8. QED BY <1>6, <1>7 DEF n

\* Nor does moving a task.
LEMMA MoveTyped ==
    ASSUME NEW s \in Screens, NEW c \in Commands, c.type = "task_move"
    PROVE  LET n == ApplyTaskMove(s, c) IN n \in Screens /\ Roots(s, n, c)
<1>1. s \in [Ids -> Row] /\ \A i \in Ids : s[i].at = 0 BY DEF Screens
<1>2. /\ c.id \in Tasks /\ c.project \in Projects \cup {None, Unsent}
      /\ c.section \in Sections \cup {None, Unsent} /\ c.parent \in Tasks \cup {None, Unsent}
      BY DEF Commands, Cmd
<1> DEFINE n == ApplyTaskMove(s, c)
           under == NewParent(s, c)
           to == IF Known(s, under) THEN Container(s[under])
                 ELSE <<NewProject(s, c), NewSection(s, c)>>
           with == IF Known(s, under) THEN {} ELSE LiveSubtasks(s, c.id)
<1>3. CASE ~Known(s, c.id) \/ c.parent = c.id
  <2>1. n = s BY <1>3 DEF ApplyTaskMove
  <2> HIDE DEF n
  <2>2. Roots(s, n, c) BY <2>1 DEF Roots
  <2>3. QED BY <2>1, <2>2 DEF n
<1>4. CASE ~(~Known(s, c.id) \/ c.parent = c.id)
  <2>1. Fields(s) BY <1>1, Rows
  <2>2. under \in Tasks \cup {None} BY <1>2, <2>1, Kinds DEF NewParent, Fields
  <2>3. to[1] \in Projects \cup {None} /\ to[2] \in Sections \cup {None}
    <3>1. CASE Known(s, under)
      <4>1. under \in Ids BY <3>1 DEF Known, Live, Gone
      <4>2. to[1] = s[under].project /\ to[2] = s[under].section BY <3>1 DEF Container
      <4> HIDE DEF to, under
      <4>3. QED BY <4>1, <4>2, <2>1 DEF Fields
    <3>2. CASE ~Known(s, under)
      <4>1. to[1] = NewProject(s, c) /\ to[2] = NewSection(s, c) BY <3>2
      <4> HIDE DEF to
      <4>2. QED BY <4>1, <1>2, <2>1, Kinds DEF NewProject, NewSection, Fields
    <3>3. QED BY <3>1, <3>2
  <2>4. with \subseteq Tasks BY DEF LiveSubtasks
  <2>5. ASSUME NEW i \in Ids
        PROVE  /\ n[i] \in Row /\ n[i].at = 0
               /\ i \notin Tasks => n[i] = s[i]
    <3>0. s[i] \in Row /\ s[i].at = 0 BY <1>1
    <3>1. \/ i \in Tasks /\ n[i] = [s[i] EXCEPT !.parent = under, !.project = to[1],
                                                !.section = to[2]]
          \/ i \in Tasks /\ n[i] = [s[i] EXCEPT !.project = to[1], !.section = to[2]]
          \/ n[i] = s[i]
          BY <1>2, <1>4, <2>4 DEF ApplyTaskMove
    <3> HIDE DEF n, to, under
    <3>2. QED BY <2>2, <2>3, <3>0, <3>1 DEF Row
  <2>6. n = [i \in Ids |-> n[i]] BY <1>4 DEF ApplyTaskMove
  <2> HIDE DEF n
  <2>7. n \in Screens BY <2>5, <2>6 DEF Screens
  <2>8. Roots(s, n, c) BY <2>5, Kinds DEF Roots, Live
  <2>9. QED BY <2>7, <2>8 DEF n
<1>5. QED BY <1>3, <1>4

\* Every edit keeps the screen a screen and adds at most the root it names.
LEMMA ApplyTyped ==
    ASSUME NEW s \in Screens, NEW c \in Commands
    PROVE  LET n == ApplyCommand(s, c) IN n \in Screens /\ Roots(s, n, c)
<1> DEFINE n == ApplyCommand(s, c)
<1>0. s \in [Ids -> Row] /\ Fields(s) BY Rows DEF Screens
<1>1. CASE c.type = "project_add"
  <2>1. c.id \in Projects /\ n = Created(s, c.id, None, None, None, 0)
        BY <1>1 DEF ApplyCommand, Commands, Cmd
  <2> HIDE DEF n
  <2>2. QED BY <1>1, <2>1, Kinds, CreatedTyped DEF n
<1>2. CASE c.type = "section_add"
  <2>1. c.id \in Sections /\ c.project \in Projects /\ n = Created(s, c.id, c.project, None, None, 0)
        BY <1>2 DEF ApplyCommand, Commands, Cmd
  <2> HIDE DEF n
  <2>2. QED BY <1>2, <2>1, Kinds, CreatedTyped DEF n
<1>3. CASE c.type = "task_add"
  <2> DEFINE to == IF Live(s, c.parent) THEN Container(s[c.parent]) ELSE <<c.project, c.section>>
  <2>1. /\ c.id \in Tasks /\ c.project \in Projects \cup {None}
        /\ c.section \in Sections \cup {None} /\ c.parent \in Tasks \cup {None}
        BY <1>3 DEF Commands, Cmd
  <2>2. n = Created(s, c.id, to[1], to[2], c.parent, 0) BY <1>3 DEF ApplyCommand, ApplyTaskAdd
  <2>3. to[1] \in Projects \cup {None} /\ to[2] \in Sections \cup {None}
        BY <1>0, <2>1 DEF Live, Container, Fields
  <2>4. c.id \in Ids /\ c.id \notin Projects /\ c.id \notin Sections BY <2>1, Kinds
  <2> HIDE DEF n, to
  <2>5. PICK project, section : project = to[1] /\ section = to[2] OBVIOUS
  <2>6. n = Created(s, c.id, project, section, c.parent, 0) BY <2>2, <2>5
  <2>7. project \in Projects \cup {None} /\ section \in Sections \cup {None} BY <2>3, <2>5
  <2>8. QED BY <2>1, <2>4, <2>6, <2>7, CreatedTyped DEF n
<1>4. CASE c.type = "note_add"
  <2>1. c.id \in Notes /\ c.parent \in Tasks /\ n = Created(s, c.id, None, None, c.parent, 0)
        BY <1>4 DEF ApplyCommand, Commands, Cmd
  <2>2. c.id \in Ids /\ c.id \notin Projects /\ c.id \notin Sections BY <2>1, Kinds
  <2> HIDE DEF n
  <2>3. QED BY <2>1, <2>2, CreatedTyped DEF n
<1>5. CASE c.type \in {"project_delete", "task_delete", "note_delete"}
  <2>1. \E S : n = Deleted(s, S, 0)
        BY <1>5 DEF ApplyCommand, ApplyProjectDelete, ApplyTaskDelete
  <2> HIDE DEF n
  <2>2. QED BY <2>1, DeletedTyped DEF n
<1>6. CASE c.type = "section_delete"
  <2>1. n = ApplySectionDelete(s, c.id) BY <1>6 DEF ApplyCommand
  <2> HIDE DEF n
  <2>2. QED BY <2>1, SectionDeleteTyped DEF n
<1>7. CASE c.type = "task_move"
  <2>1. n = ApplyTaskMove(s, c) BY <1>7 DEF ApplyCommand
  <2> HIDE DEF n
  <2>2. QED BY <1>7, <2>1, MoveTyped DEF n
<1>8. CASE c.type = "task_update"
  <2>1. n = s BY <1>8 DEF ApplyCommand
  <2> HIDE DEF n
  <2>2. QED BY <2>1 DEF Roots, n
<1>9. c.type \in {"project_add", "section_add", "note_add", "task_add", "project_delete",
                  "section_delete", "task_delete", "note_delete", "task_move", "task_update"}
      BY DEF Commands, Cmd
<1>10. QED BY <1>1, <1>2, <1>3, <1>4, <1>5, <1>6, <1>7, <1>8, <1>9

-----------------------------------------------------------------------------
(* Queues *)

\* A queue with one more command.
LEMMA AppendIs ==
    ASSUME NEW T, NEW q \in Seq(T), NEW c \in T
    PROVE  LET l == Append(q, c)
           IN  /\ l \in Seq(T) /\ Len(l) = Len(q) + 1 /\ Len(q) \in Nat
               /\ DOMAIN q = 1..Len(q) /\ DOMAIN l = 1..(Len(q) + 1)
               /\ l[Len(q) + 1] = c /\ \A k \in DOMAIN q : l[k] = q[k]
               /\ Range(l) = Range(q) \cup {c}
<1> DEFINE l == Append(q, c)
<1>1. /\ l \in Seq(T) /\ Len(l) = Len(q) + 1 /\ Len(q) \in Nat
      /\ DOMAIN q = 1..Len(q) /\ DOMAIN l = 1..(Len(q) + 1)
      /\ l[Len(q) + 1] = c /\ \A k \in DOMAIN q : l[k] = q[k]
      OBVIOUS
<1> HIDE DEF l
<1>2. \A k \in DOMAIN l : k = Len(q) + 1 \/ k \in DOMAIN q BY <1>1
<1>3. Len(q) + 1 \in DOMAIN l /\ DOMAIN q \subseteq DOMAIN l BY <1>1
<1>4. Range(l) = Range(q) \cup {c} BY <1>1, <1>2, <1>3 DEF Range
<1>5. QED BY <1>1, <1>4 DEF l

\* A queue without its first command.
LEMMA TailIs ==
    ASSUME NEW T, NEW q \in Seq(T), q # <<>>
    PROVE  /\ Len(q) \in Nat /\ Len(q) >= 1 /\ DOMAIN q = 1..Len(q)
           /\ Head(q) = q[1] /\ Head(q) \in T /\ 1 \in DOMAIN q
           /\ Tail(q) \in Seq(T) /\ Len(Tail(q)) = Len(q) - 1
           /\ DOMAIN Tail(q) = 1..(Len(q) - 1)
           /\ \A k \in DOMAIN Tail(q) : k + 1 \in DOMAIN q /\ Tail(q)[k] = q[k + 1]
           /\ Range(q) = {Head(q)} \cup Range(Tail(q))
<1>1. /\ Len(q) \in Nat /\ Len(q) >= 1 /\ DOMAIN q = 1..Len(q)
      /\ Head(q) = q[1] /\ Head(q) \in T /\ 1 \in DOMAIN q
      /\ Tail(q) \in Seq(T) /\ Len(Tail(q)) = Len(q) - 1
      /\ DOMAIN Tail(q) = 1..(Len(q) - 1)
      /\ \A k \in DOMAIN Tail(q) : k + 1 \in DOMAIN q /\ Tail(q)[k] = q[k + 1]
      OBVIOUS
<1> DEFINE t == Tail(q)
<1>2. \A k \in DOMAIN q : k = 1 \/ (k - 1 \in DOMAIN t /\ t[k - 1] = q[k])
  <2> SUFFICES ASSUME NEW k \in DOMAIN q, k # 1
               PROVE  k - 1 \in DOMAIN t /\ t[k - 1] = q[k]
      OBVIOUS
  <2>1. k \in 2..Len(q) /\ k - 1 \in 1..(Len(q) - 1) /\ (k - 1) + 1 = k BY <1>1
  <2> HIDE DEF t
  <2>2. QED BY <1>1, <2>1 DEF t
<1> HIDE DEF t
<1>3. Range(q) = {Head(q)} \cup Range(t)
  <2>1. ASSUME NEW c \in Range(q) PROVE c = Head(q) \/ c \in Range(t)
    <3>1. PICK k \in DOMAIN q : c = q[k] BY DEF Range
    <3>2. QED BY <1>1, <1>2, <3>1 DEF Range
  <2>2. ASSUME NEW c \in Range(t) PROVE c \in Range(q)
    <3>1. PICK k \in DOMAIN t : c = t[k] BY DEF Range
    <3>2. QED BY <1>1, <3>1 DEF Range, t
  <2>3. Head(q) \in Range(q) BY <1>1 DEF Range
  <2>4. QED BY <2>1, <2>2, <2>3
<1>4. QED BY <1>1, <1>3 DEF t

\* Queueing at the end leaves the first command first.
LEMMA AppendTail ==
    ASSUME NEW T, NEW q \in Seq(T), q # <<>>, NEW c \in T
    PROVE  /\ Tail(Append(q, c)) = Append(Tail(q), c) /\ Head(Append(q, c)) = Head(q)
           /\ Append(q, c) # <<>>
OBVIOUS

-----------------------------------------------------------------------------
(* The two trees behind a screen: b, the rows when its token was current, and *)
(* a, the rows the answer on its way was read from.                           *)

\* From old to r every change is stamped later than v; nothing known is
\* forgotten, and a section stays in its project.
Since(old, v, r) ==
    \A i \in Ids : /\ r[i] = old[i] \/ r[i].at > v
                   /\ Known(old, i) => Known(r, i)
                   /\ Gone(old, i) => Gone(r, i)
                   /\ i \in Sections /\ Known(old, i) => r[i].project = old[i].project

\* The tree b is what the rows were when v was current.
Behind(b, v, r) == b \in [Ids -> Row] /\ IsTree(b) /\ Since(b, v, r)

\* The edits the answer on its way does not answer.
Unanswered(q, rep) == IF rep # NoReply /\ rep.cmd # None THEN Tail(q) ELSE q

\* What they add is new to the server, each under its own id.
AddsNew(r, q) ==
    /\ \A k \in DOMAIN q : IsAdd(q[k]) => r[q[k].id].is = "absent"
    /\ \A j, k \in DOMAIN q : IsAdd(q[j]) /\ IsAdd(q[k]) /\ q[j].id = q[k].id => j = k

\* The rows of a that a device at tok has not seen.
Delta(a, tok) == Restrict(a, {i \in Ids : a[i].at > tok})

\* An answer brings the rows of a, or those stamped after the token; after an
\* accepted command, every row that command changes is among them.
Carries(b, a, r, v, q, tok, need, rep) ==
    /\ Behind(a, rep.token, r) /\ Since(b, tok, a)
    /\ rep.token \in Nat /\ tok <= rep.token /\ rep.token <= v
    /\ rep.full => rep.rows = a
    /\ ~rep.full => ~need /\ rep.rows = Delta(a, tok)
    /\ rep.cmd = None => rep.status = "ok"
    /\ rep.cmd # None => q # <<>> /\ rep.cmd = Head(q)
    /\ rep.cmd # None /\ rep.status = "ok" =>
           \A i \in Kept : Hit(b, rep.cmd, i) => a[i].at > tok

\* The queue accounts for where the screen differs from b, unless the device
\* knows that it must draw everything anew.
Drawn(b, s, q, need) == need \/ Explained(b, s, Range(q))

\* The two trees behind the screen and the answer on its way.
Healing(b, a) ==
    /\ Behind(b, syncToken, rows)
    /\ Drawn(b, screen, queue, needsFullSync)
    /\ AddsNew(rows, Unanswered(queue, reply))
    /\ reply # NoReply => Carries(b, a, rows, version, queue, syncToken, needsFullSync, reply)

\* The server's next step is stamped later than any token.
LEMMA SinceEvolves ==
    ASSUME NEW b, NEW r, NEW n, NEW c, NEW v, NEW tok, Since(b, tok, r), Evolves(r, n, c, v),
           v > tok
    PROVE  Since(b, tok, n)
BY DEF Since, Evolves

\* What the queue adds stays new while others use other ids.
LEMMA AddsStay ==
    ASSUME NEW r \in [Ids -> Row], NEW n \in [Ids -> Row], NEW c, NEW v, Evolves(r, n, c, v),
           NEW q \in Seq(Commands), AddsNew(r, q),
           IsAdd(c) => \A k \in DOMAIN q : IsAdd(q[k]) => q[k].id # c.id
    PROVE  AddsNew(n, q)
<1>1. ASSUME NEW k \in DOMAIN q, IsAdd(q[k]) PROVE n[q[k].id].is = "absent"
  <2>1. q[k] \in Commands OBVIOUS
  <2>2. q[k].id \in Ids BY <2>1, Kinds DEF Commands, Cmd
  <2>3. r[q[k].id].is = "absent" BY <1>1 DEF AddsNew
  <2>4. ~Known(r, q[k].id) BY <2>3 DEF Known, Live, Gone
  <2>5. ~Known(n, q[k].id) BY <1>1, <2>2, <2>4 DEF Evolves
  <2>6. n[q[k].id].is \in {"absent", "live", "deleted"} BY <2>2, Rows DEF Fields
  <2>7. QED BY <2>2, <2>5, <2>6 DEF Known, Live, Gone
<1>2. QED BY <1>1 DEF AddsNew

\* The first add answered, the rest are still new and differ from it.
LEMMA AddsTail ==
    ASSUME NEW r, NEW q \in Seq(Commands), q # <<>>, AddsNew(r, q)
    PROVE  /\ AddsNew(r, Tail(q))
           /\ IsAdd(Head(q)) =>
                  \A k \in DOMAIN Tail(q) : IsAdd(Tail(q)[k]) => Tail(q)[k].id # Head(q).id
<1> DEFINE t == Tail(q)
           c == Head(q)
<1>1. /\ Len(q) \in Nat /\ DOMAIN t = 1..(Len(q) - 1) /\ c = q[1] /\ 1 \in DOMAIN q
      /\ \A k \in DOMAIN t : k + 1 \in DOMAIN q /\ t[k] = q[k + 1]
      BY TailIs
<1> HIDE DEF t, c
<1>2. \A k \in DOMAIN t : k \in Nat /\ k + 1 # 1 BY <1>1
<1>3. ASSUME NEW k \in DOMAIN t, IsAdd(t[k]) PROVE r[t[k].id].is = "absent"
      BY <1>1, <1>3 DEF AddsNew
<1>4. ASSUME NEW j \in DOMAIN t, NEW k \in DOMAIN t, IsAdd(t[j]), IsAdd(t[k]), t[j].id = t[k].id
      PROVE  j = k
  <2>1. j + 1 = k + 1 BY <1>1, <1>4 DEF AddsNew
  <2>2. QED BY <2>1, <1>2
<1>5. ASSUME IsAdd(c), NEW k \in DOMAIN t, IsAdd(t[k]), t[k].id = c.id PROVE FALSE
  <2>1. 1 = k + 1 BY <1>1, <1>5 DEF AddsNew
  <2>2. QED BY <2>1, <1>2
<1>6. AddsNew(r, t) BY <1>3, <1>4 DEF AddsNew
<1>7. QED BY <1>5, <1>6 DEF t, c

\* An add under a fresh id.
LEMMA AddsAppend ==
    ASSUME NEW r, NEW q \in Seq(Commands), AddsNew(r, q), NEW c \in Commands,
           IsAdd(c) => /\ r[c.id].is = "absent"
                       /\ \A k \in DOMAIN q : q[k].id # c.id
    PROVE  AddsNew(r, Append(q, c))
<1> DEFINE l == Append(q, c)
<1>1. /\ DOMAIN q = 1..Len(q) /\ DOMAIN l = 1..(Len(q) + 1) /\ Len(q) \in Nat
      /\ l[Len(q) + 1] = c /\ \A k \in DOMAIN q : l[k] = q[k]
      BY AppendIs
<1> HIDE DEF l
<1>2. \A k \in DOMAIN l : k = Len(q) + 1 \/ (k \in DOMAIN q /\ l[k] = q[k]) BY <1>1
<1>3. ASSUME NEW k \in DOMAIN l, IsAdd(l[k]) PROVE r[l[k].id].is = "absent"
      BY <1>1, <1>2, <1>3 DEF AddsNew
<1>4. ASSUME NEW j \in DOMAIN l, NEW k \in DOMAIN l, IsAdd(l[j]), IsAdd(l[k]), l[j].id = l[k].id
      PROVE  j = k
      BY <1>1, <1>2, <1>4 DEF AddsNew
<1>5. AddsNew(r, l) BY <1>3, <1>4 DEF AddsNew
<1>6. QED BY <1>5 DEF l

-----------------------------------------------------------------------------
(* Folding an answer in *)

\* A full reply: the screen is drawn again from the rows it brought.
Fresh0(a) == [i \in Ids |-> Shown(a[i])]

\* A screen drawn from rows a shows them exactly.
LEMMA DrawnFresh ==
    ASSUME NEW a \in [Ids -> Row]
    PROVE  Fresh0(a) \in Screens /\ Explained(a, Fresh0(a), {})
<1> DEFINE s == Fresh0(a)
<1>1. ASSUME NEW i \in Ids
      PROVE  /\ s[i] = Shown(a[i]) /\ s[i] \in Row /\ s[i].at = 0 /\ Shown(s[i]) = Shown(a[i])
             /\ Live(a, i) => s[i].parent = a[i].parent /\ Container(s[i]) = Container(a[i])
  <2>1. a[i] \in Row /\ s[i] = Shown(a[i]) BY DEF Fresh0
  <2> HIDE DEF s
  <2>2. QED BY <2>1, ShownTyped DEF Live, Container
<1>2. s = [i \in Ids |-> s[i]] BY DEF Fresh0
<1> HIDE DEF s
<1>3. s \in Screens BY <1>1, <1>2 DEF Screens
<1>4. \A i \in Kept : ShownOrHit(a, s, {}, i) BY <1>1, KeptIds DEF ShownOrHit
<1>5. \A i \in Tasks : Live(a, i) /\ a[i].parent = None => FiledOrMoved(a, s, {}, i)
      BY <1>1, Kinds DEF FiledOrMoved
<1>6. QED BY <1>3, <1>4, <1>5 DEF Explained, s

\* With the queue applied to it again, the queue accounts for what differs.
LEMMA DrawnAgain ==
    ASSUME NEW a \in [Ids -> Row], IsTree(a), NEW q \in Seq(Commands), AddsNew(a, q)
    PROVE  LET s == FoldLeft(ApplyCommand, Fresh0(a), q)
           IN  s \in Screens /\ Explained(a, s, Range(q))
<1>1. DOMAIN q = 1..Len(q) /\ Len(q) \in Nat OBVIOUS
<1> DEFINE base == Fresh0(a)
           Up(n) == {q[k] : k \in 1..n}
<1> PICK f : Leads(f, base, q) BY FoldSteps
<1>2. /\ f[0] = base /\ f[Len(q)] = FoldLeft(ApplyCommand, base, q)
      /\ \A k \in 1..Len(q) : f[k] = ApplyCommand(f[k - 1], q[k])
      BY FoldIs DEF Leads
<1> DEFINE T == {n \in Nat : n <= Len(q) => f[n] \in Screens /\ Explained(a, f[n], Up(n))}
<1>3. 0 \in T
  <2>1. Up(0) = {} OBVIOUS
  <2>2. QED BY <1>2, <2>1, DrawnFresh
<1>4. ASSUME NEW n \in Nat, n \in T PROVE n + 1 \in T
  <2> SUFFICES ASSUME n + 1 <= Len(q)
               PROVE  f[n + 1] \in Screens /\ Explained(a, f[n + 1], Up(n + 1))
      OBVIOUS
  <2>1. f[n] \in Screens /\ Explained(a, f[n], Up(n)) BY <1>1, <1>4
  <2>2. n + 1 \in DOMAIN q /\ (n + 1) - 1 = n BY <1>1
  <2>3. PICK c : c = q[n + 1] OBVIOUS
  <2>4. f[n + 1] = ApplyCommand(f[n], c) BY <1>1, <1>2, <2>2, <2>3
  <2>5. c \in Commands BY <2>2, <2>3
  <2>6. IsAdd(c) => a[c.id].is = "absent" BY <2>2, <2>3 DEF AddsNew
  <2>7. Up(n + 1) = Up(n) \cup {c}
    <3>1. 1..(n + 1) = (1..n) \cup {n + 1} OBVIOUS
    <3>2. QED BY <2>3, <3>1
  <2> HIDE DEF Up, T
  <2>8. f[n] \in [Ids -> Row] BY <2>1 DEF Screens
  <2>9. PICK s : s = f[n] OBVIOUS
  <2>10. Explained(a, ApplyCommand(s, c), Up(n) \cup {c})
         BY <2>1, <2>5, <2>6, <2>8, <2>9, ApplyExplained
  <2>11. ApplyCommand(s, c) \in Screens BY <2>1, <2>5, <2>9, ApplyTyped
  <2>12. QED BY <2>4, <2>7, <2>9, <2>10, <2>11
<1>5. Nat \subseteq T
  <2> HIDE DEF T
  <2>1. QED BY <1>3, <1>4, Induction
<1>6. f[Len(q)] \in Screens /\ Explained(a, f[Len(q)], Up(Len(q)))
  <2>1. PICK m : m = Len(q) OBVIOUS
  <2>2. m \in T /\ m <= Len(q)
    <3>1. m \in Nat /\ m <= Len(q) BY <1>1, <2>1
    <3> HIDE DEF T
    <3>2. QED BY <1>5, <3>1
  <2> HIDE DEF Up
  <2>3. f[m] \in Screens /\ Explained(a, f[m], Up(m)) BY <2>2
  <2>4. QED BY <2>1, <2>3
<1>7. Up(Len(q)) = Range(q) BY <1>1 DEF Range
<1>8. QED BY <1>2, <1>6, <1>7

\* A delta: the rows it brings are the server's, the others are as they were.
Patched(s, a, tok) == [i \in Ids |-> IF a[i].at > tok THEN Shown(a[i]) ELSE s[i]]

\* A delta keeps the screen a screen.
LEMMA PatchedTyped ==
    ASSUME NEW a \in [Ids -> Row], NEW s \in Screens, NEW tok
    PROVE  Patched(s, a, tok) \in Screens
<1> DEFINE n == Patched(s, a, tok)
<1>1. ASSUME NEW i \in Ids PROVE n[i] \in Row /\ n[i].at = 0
  <2>1. a[i] \in Row /\ s[i] \in Row /\ s[i].at = 0 BY DEF Screens
  <2>2. n[i] = Shown(a[i]) \/ n[i] = s[i] BY DEF Patched
  <2> HIDE DEF n
  <2>3. QED BY <2>1, <2>2, ShownTyped
<1>2. n = [i \in Ids |-> n[i]] BY DEF Patched
<1> HIDE DEF n
<1>3. QED BY <1>1, <1>2 DEF Screens, n

\* What was queued and is not answered still accounts for what the delta
\* leaves; the command it answers changed only rows the delta brings.
LEMMA PatchedExplained ==
    ASSUME NEW b \in [Ids -> Row], IsTree(b), NEW a \in [Ids -> Row], IsTree(a),
           NEW tok, Since(b, tok, a), NEW s \in Screens, NEW C, NEW D, Explained(b, s, C),
           \A c \in C \ D : \A i \in Kept : Hit(b, c, i) => a[i].at > tok
    PROVE  Explained(a, Patched(s, a, tok), D)
<1> DEFINE n == Patched(s, a, tok)
<1>1. ASSUME NEW i \in Ids, a[i].at > tok
      PROVE  /\ Shown(n[i]) = Shown(a[i])
             /\ Live(a, i) => n[i].parent = a[i].parent /\ Container(n[i]) = Container(a[i])
  <2>1. a[i] \in Row /\ n[i] = Shown(a[i]) BY <1>1 DEF Patched
  <2> HIDE DEF n
  <2>2. QED BY <2>1, ShownTyped DEF Live, Container
<1>2. ASSUME NEW i \in Ids, ~(a[i].at > tok) PROVE n[i] = s[i] /\ a[i] = b[i]
      BY <1>2 DEF Patched, Since
<1> HIDE DEF n
<1>3. ASSUME NEW i \in Kept PROVE ShownOrHit(a, n, D, i)
  <2>0. i \in Ids BY KeptIds
  <2>1. CASE a[i].at > tok BY <1>1, <2>0, <2>1 DEF ShownOrHit
  <2>2. CASE ~(a[i].at > tok)
    <3>1. n[i] = s[i] /\ a[i] = b[i] BY <1>2, <2>0, <2>2
    <3>2. CASE Shown(s[i]) = Shown(b[i]) BY <3>1, <3>2 DEF ShownOrHit
    <3>3. CASE \E c \in C : Hit(b, c, i)
      <4>1. PICK c \in C : Hit(b, c, i) BY <3>3
      <4>2. c \in D BY <2>2, <4>1
      <4>3. Hit(a, c, i) BY <3>1, <4>1, HitTransfers
      <4>4. QED BY <4>2, <4>3 DEF ShownOrHit
    <3>4. QED BY <3>2, <3>3 DEF Explained, ShownOrHit
  <2>3. QED BY <2>1, <2>2
<1>4. ASSUME NEW i \in Tasks, Live(a, i), a[i].parent = None PROVE FiledOrMoved(a, n, D, i)
  <2>0. i \in Ids /\ i \in Kept BY Kinds DEF Kept
  <2>1. CASE a[i].at > tok BY <1>1, <1>4, <2>0, <2>1 DEF FiledOrMoved
  <2>2. CASE ~(a[i].at > tok)
    <3>1. n[i] = s[i] /\ a[i] = b[i] BY <1>2, <2>0, <2>2
    <3>2. Live(b, i) /\ b[i].parent = None BY <1>4, <2>0, <3>1 DEF Live
    <3>3. FiledOrMoved(b, s, C, i) BY <3>2 DEF Explained
    <3>4. CASE \E c \in C : Moves(b, c, i) \/ Loses(b, c, i)
      <4>1. PICK c \in C : Moves(b, c, i) \/ Loses(b, c, i) BY <3>4
      <4>2. Hit(b, c, i) BY <3>2, <4>1 DEF Hit, Moves
      <4>3. c \in D BY <2>0, <2>2, <4>2
      <4>4. Moves(a, c, i) \/ Loses(a, c, i)
            BY <3>1, <4>1 DEF Moves, Loses, To, NewProject, NewSection
      <4>5. QED BY <4>3, <4>4 DEF FiledOrMoved
    <3>5. CASE Container(s[i]) = Container(b[i]) /\ s[i].parent = None
          BY <3>1, <3>5 DEF FiledOrMoved
    <3>6. QED BY <3>3, <3>4, <3>5 DEF FiledOrMoved
  <2>3. QED BY <2>1, <2>2
<1>5. Explained(a, n, D) BY <1>3, <1>4 DEF Explained
<1>6. QED BY <1>5 DEF n

-----------------------------------------------------------------------------
(* What stands on the screen has a place on the server, or will have *)

\* The server knows the project, or one of the first queued edits adds it.
HasProject(r, q, m, p) ==
    Known(r, p) \/ \E k \in DOMAIN q : k < m /\ q[k].type = "project_add" /\ q[k].id = p

\* The same of a section in its project; with the project deleted, the server
\* does not look at the section.
HasSection(r, q, m, x, p) ==
    /\ x \in Sections /\ p \in Projects /\ HasProject(r, q, m, p)
    /\ \/ Known(r, x) /\ r[x].project = p
       \/ \E k \in DOMAIN q : /\ k < m /\ q[k].type = "section_add"
                              /\ q[k].id = x /\ q[k].project = p
       \/ Gone(r, p)

\* What the screen shows is known to the server or added by the first edits.
ScreenRooted(r, s, q, m) ==
    /\ \A i \in Projects : Live(s, i) => HasProject(r, q, m, i)
    /\ \A i \in Sections : Live(s, i) => HasSection(r, q, m, i, s[i].project)

\* What a queued add needs is there when its turn comes.
AddRooted(r, q, k) ==
    /\ (q[k].type \in {"section_add", "task_add"} /\ q[k].project # None) =>
           HasProject(r, q, k, q[k].project)
    /\ (q[k].type = "task_add" /\ q[k].section # None) =>
           HasSection(r, q, k, q[k].section, q[k].project)

\* The screen and every queued add.
Rooted(r, s, q) ==
    ScreenRooted(r, s, q, Len(q) + 1) /\ \A k \in DOMAIN q : AddRooted(r, q, k)

\* The server moves on, the queue stays.
LEMMA RootedEvolves ==
    ASSUME NEW r, NEW n, NEW c, NEW v, Evolves(r, n, c, v), NEW s, NEW q, Rooted(r, s, q)
    PROVE  Rooted(n, s, q)
<1>1. \A i : (Known(r, i) => Known(n, i)) /\ (Gone(r, i) => Gone(n, i))
      BY DEF Evolves, Known, Live, Gone
<1>2. \A i : Known(r, i) => i \in Ids BY DEF Known, Live, Gone
<1>3. \A m, p : HasProject(r, q, m, p) => HasProject(n, q, m, p) BY <1>1 DEF HasProject
<1>4. \A m, x, p : HasSection(r, q, m, x, p) => HasSection(n, q, m, x, p)
      BY <1>1, <1>2, <1>3 DEF HasSection, Evolves
<1>5. ScreenRooted(n, s, q, Len(q) + 1) BY <1>3, <1>4 DEF Rooted, ScreenRooted
<1>6. \A k \in DOMAIN q : AddRooted(n, q, k) BY <1>3, <1>4 DEF Rooted, AddRooted
<1>7. QED BY <1>5, <1>6 DEF Rooted

\* The server answers the first command: what that added is known now, or its
\* project was deleted meanwhile.
LEMMA RootedAnswered ==
    ASSUME NEW r \in [Ids -> Row], IsTree(r), NEW v \in Nat, NEW s,
           NEW q \in Seq(Commands), q # <<>>, Rooted(r, s, q), AddsNew(r, q), NEW n,
           IF Verdict(r, Head(q)) = "ok" THEN n = Handle(r, Head(q), v) ELSE n = r
    PROVE  Rooted(n, s, Tail(q))
<1> DEFINE t == Tail(q)
           c == Head(q)
<1>1. /\ Len(q) \in Nat /\ DOMAIN q = 1..Len(q) /\ c = q[1] /\ 1 \in DOMAIN q /\ c \in Commands
      /\ Len(t) = Len(q) - 1 /\ DOMAIN t = 1..(Len(q) - 1)
      /\ \A k \in DOMAIN t : k + 1 \in DOMAIN q /\ t[k] = q[k + 1]
      BY TailIs
<1>2. IF Verdict(r, c) = "ok" THEN n = Handle(r, c, v) ELSE n = r OBVIOUS
<1> HIDE DEF t, c
<1>3. \A k \in DOMAIN q : k \in Nat /\ (k = 1 \/ (k - 1 \in DOMAIN t /\ t[k - 1] = q[k]))
  <2> SUFFICES ASSUME NEW k \in DOMAIN q, k # 1
               PROVE  k - 1 \in DOMAIN t /\ t[k - 1] = q[k]
      BY <1>1
  <2>1. k \in 2..Len(q) /\ k - 1 \in 1..(Len(q) - 1) /\ (k - 1) + 1 = k BY <1>1
  <2>2. QED BY <1>1, <2>1
<1>4. \A i \in Ids : /\ Known(r, i) => Known(n, i)
                     /\ Gone(r, i) => Gone(n, i)
                     /\ i \in Sections /\ Known(r, i) => n[i].project = r[i].project
  <2>1. CASE Verdict(r, c) = "ok"
    <3>1. IsAdd(c) => r[c.id].is = "absent" BY <1>1 DEF AddsNew
    <3>2. n = Handle(r, c, v) BY <1>2, <2>1
    <3>3. Evolves(r, n, c, v) BY <1>1, <2>1, <3>1, <3>2, HandleEvolves
    <3>4. QED BY <3>3 DEF Evolves
  <2>2. CASE Verdict(r, c) # "ok"
    <3>1. n = r BY <1>2, <2>2
    <3>2. QED BY <3>1
  <2>3. QED BY <2>1, <2>2
<1>5. \A i : Known(r, i) => i \in Ids BY DEF Known, Live, Gone
<1>6. \A i : Gone(r, i) => i \in Ids BY DEF Gone
<1>7. c.type = "project_add" => Known(n, c.id)
  <2> SUFFICES ASSUME c.type = "project_add" PROVE Known(n, c.id) OBVIOUS
  <2>1. Verdict(r, c) = "ok" BY DEF Verdict, NotFound, Nested, WrongSection, IsAdd
  <2>2. c.id \in Ids BY <1>1, Kinds DEF Commands, Cmd
  <2>3. n = Created(r, c.id, None, None, None, v) BY <1>2, <2>1 DEF Handle
  <2>4. n[c.id].is = "live" BY <2>2, <2>3 DEF Created
  <2>5. QED BY <2>2, <2>4 DEF Known, Live
<1>8. c.type = "section_add" =>
          \/ Known(n, c.id) /\ n[c.id].project = c.project
          \/ Gone(n, c.project)
  <2> SUFFICES ASSUME c.type = "section_add", ~Gone(n, c.project)
               PROVE  Known(n, c.id) /\ n[c.id].project = c.project
      OBVIOUS
  <2>1. c.id \in Sections /\ c.id \in Ids /\ c.project \in Projects /\ c.project # None
        BY <1>1, Kinds DEF Commands, Cmd
  <2>2. HasProject(r, q, 1, c.project) BY <1>1, <2>1 DEF Rooted, AddRooted
  <2>3. Known(r, c.project) BY <1>3, <2>2 DEF HasProject
  <2>4. Live(r, c.project) BY <1>4, <1>5, <2>3 DEF Known
  <2>5. Verdict(r, c) = "ok" BY <2>4 DEF Verdict, NotFound, Nested, WrongSection, IsAdd
  <2>6. n = Created(r, c.id, c.project, None, None, v) BY <1>2, <2>5 DEF Handle
  <2>7. n[c.id].is = "live" /\ n[c.id].project = c.project BY <2>1, <2>6 DEF Created
  <2>8. QED BY <2>1, <2>7 DEF Known, Live
<1>9. ASSUME NEW m \in Nat, NEW p, HasProject(r, q, m, p) PROVE HasProject(n, t, m - 1, p)
  <2>1. CASE Known(r, p) BY <1>4, <1>5, <2>1 DEF HasProject
  <2>2. ASSUME NEW k \in DOMAIN q, k < m, q[k].type = "project_add", q[k].id = p
        PROVE  HasProject(n, t, m - 1, p)
    <3>1. CASE k = 1 BY <1>1, <1>7, <2>2, <3>1 DEF HasProject
    <3>2. CASE k # 1
      <4>1. k - 1 \in DOMAIN t /\ t[k - 1] = q[k] /\ k - 1 < m - 1 BY <1>3, <2>2, <3>2
      <4>2. QED BY <2>2, <4>1 DEF HasProject
    <3>3. QED BY <3>1, <3>2
  <2>3. QED BY <1>9, <2>1, <2>2 DEF HasProject
<1>10. ASSUME NEW m \in Nat, NEW x, NEW p, HasSection(r, q, m, x, p)
       PROVE  HasSection(n, t, m - 1, x, p)
  <2>1. x \in Sections /\ x \in Ids /\ p \in Projects /\ HasProject(n, t, m - 1, p)
        BY <1>9, <1>10, Kinds DEF HasSection
  <2>2. CASE Known(r, x) /\ r[x].project = p BY <1>4, <2>1, <2>2 DEF HasSection
  <2>3. CASE Gone(r, p) BY <1>4, <1>6, <2>1, <2>3 DEF HasSection
  <2>4. ASSUME NEW k \in DOMAIN q, k < m, q[k].type = "section_add", q[k].id = x,
               q[k].project = p
        PROVE  HasSection(n, t, m - 1, x, p)
    <3>1. CASE k = 1 BY <1>1, <1>8, <2>1, <2>4, <3>1 DEF HasSection
    <3>2. CASE k # 1
      <4>1. k - 1 \in DOMAIN t /\ t[k - 1] = q[k] /\ k - 1 < m - 1 BY <1>3, <2>4, <3>2
      <4>2. QED BY <2>1, <2>4, <4>1 DEF HasSection
    <3>3. QED BY <3>1, <3>2
  <2>5. QED BY <1>10, <2>2, <2>3, <2>4 DEF HasSection
<1>11. ScreenRooted(n, s, t, Len(t) + 1)
  <2>1. ScreenRooted(r, s, q, Len(q) + 1) /\ Len(q) + 1 \in Nat
        /\ (Len(q) + 1) - 1 = Len(t) + 1
        BY <1>1 DEF Rooted
  <2>2. QED BY <1>9, <1>10, <2>1 DEF ScreenRooted
<1>12. ASSUME NEW k \in DOMAIN t PROVE AddRooted(n, t, k)
  <2>1. k \in Nat /\ k + 1 \in Nat /\ k + 1 \in DOMAIN q /\ t[k] = q[k + 1] /\ (k + 1) - 1 = k
        BY <1>1
  <2>2. AddRooted(r, q, k + 1) BY <2>1 DEF Rooted
  <2>3. QED BY <1>9, <1>10, <2>1, <2>2 DEF AddRooted
<1>13. Rooted(n, s, t) BY <1>11, <1>12 DEF Rooted
<1>14. QED BY <1>13 DEF t

\* Longer queues and later places see no less.
LEMMA HasMore ==
    ASSUME NEW r, NEW q \in Seq(Commands), NEW c \in Commands
    PROVE  LET l == Append(q, c)
           IN  /\ \A m, p : HasProject(r, q, m, p) => HasProject(r, l, m, p)
               /\ \A m, x, p : HasSection(r, q, m, x, p) => HasSection(r, l, m, x, p)
<1> DEFINE l == Append(q, c)
<1>1. \A k \in DOMAIN q : k \in DOMAIN l /\ l[k] = q[k]
  <2>1. /\ DOMAIN q = 1..Len(q) /\ DOMAIN l = 1..(Len(q) + 1) /\ Len(q) \in Nat
        /\ \A k \in DOMAIN q : l[k] = q[k]
        BY AppendIs
  <2> HIDE DEF l
  <2>2. QED BY <2>1
<1> HIDE DEF l
<1>2. \A m, p : HasProject(r, q, m, p) => HasProject(r, l, m, p) BY <1>1 DEF HasProject
<1>3. \A m, x, p : HasSection(r, q, m, x, p) => HasSection(r, l, m, x, p)
      BY <1>1, <1>2 DEF HasSection
<1>4. QED BY <1>2, <1>3 DEF l

\* A later place in the queue sees no less.
LEMMA HasLater ==
    ASSUME NEW r, NEW q \in Seq(Commands), NEW m \in Nat
    PROVE  /\ \A p : HasProject(r, q, m, p) => HasProject(r, q, m + 1, p)
           /\ \A x, p : HasSection(r, q, m, x, p) => HasSection(r, q, m + 1, x, p)
<1>1. \A k \in DOMAIN q : k < m => k < m + 1 OBVIOUS
<1>2. \A p : HasProject(r, q, m, p) => HasProject(r, q, m + 1, p) BY <1>1 DEF HasProject
<1>3. \A x, p : HasSection(r, q, m, x, p) => HasSection(r, q, m + 1, x, p)
      BY <1>1, <1>2 DEF HasSection
<1>4. QED BY <1>2, <1>3

\* The k-th edit leaves the screen rooted, one place further on.
LEMMA ScreenRootedStep ==
    ASSUME NEW r, NEW q \in Seq(Commands), NEW k \in DOMAIN q, AddRooted(r, q, k),
           NEW s, NEW n, Roots(s, n, q[k]), ScreenRooted(r, s, q, k)
    PROVE  ScreenRooted(r, n, q, k + 1)
<1>1. k \in Nat /\ k < k + 1 /\ q[k] \in Commands OBVIOUS
<1>2. ASSUME NEW i \in Projects, Live(n, i) PROVE HasProject(r, q, k + 1, i)
  <2>1. CASE Live(s, i) BY <1>1, <2>1, HasLater DEF ScreenRooted
  <2>2. CASE q[k].type = "project_add" /\ q[k].id = i BY <1>1, <2>2 DEF HasProject
  <2>3. QED BY <1>2, <2>1, <2>2 DEF Roots
<1>3. ASSUME NEW i \in Sections, Live(n, i) PROVE HasSection(r, q, k + 1, i, n[i].project)
  <2>1. CASE Live(s, i) /\ n[i].project = s[i].project
    <3>1. HasSection(r, q, k, i, n[i].project) BY <2>1 DEF ScreenRooted
    <3>2. QED BY <1>1, <3>1, HasLater
  <2>2. CASE q[k].type = "section_add" /\ q[k].id = i /\ n[i].project = q[k].project
    <3>1. q[k].project \in Projects BY <1>1, <2>2 DEF Commands, Cmd
    <3>2. HasProject(r, q, k, q[k].project) BY <2>2, <3>1, Kinds DEF AddRooted
    <3>3. HasProject(r, q, k + 1, q[k].project) BY <1>1, <3>2, HasLater
    <3>4. QED BY <1>1, <2>2, <3>1, <3>3 DEF HasSection
  <2>3. QED BY <1>3, <2>1, <2>2 DEF Roots
<1>4. QED BY <1>2, <1>3 DEF ScreenRooted

\* An edit the screen offers.
LEMMA RootedAppend ==
    ASSUME NEW r, NEW s, NEW q \in Seq(Commands), Rooted(r, s, q), NEW c \in Commands,
           (c.type \in {"section_add", "task_add"} /\ c.project # None) => Live(s, c.project),
           (c.type = "task_add" /\ c.section # None) =>
               Live(s, c.section) /\ s[c.section].project = c.project,
           NEW n, Roots(s, n, c)
    PROVE  Rooted(r, n, Append(q, c))
<1> DEFINE l == Append(q, c)
<1>1. /\ l \in Seq(Commands) /\ Len(l) = Len(q) + 1 /\ Len(q) \in Nat /\ Len(q) + 1 \in Nat
      /\ DOMAIN q = 1..Len(q) /\ DOMAIN l = 1..(Len(q) + 1)
      /\ l[Len(q) + 1] = c /\ \A k \in DOMAIN q : l[k] = q[k]
      BY AppendIs
<1>2. /\ \A m, p : HasProject(r, q, m, p) => HasProject(r, l, m, p)
      /\ \A m, x, p : HasSection(r, q, m, x, p) => HasSection(r, l, m, x, p)
      BY HasMore
<1> HIDE DEF l
<1>3. ScreenRooted(r, s, l, Len(q) + 1) BY <1>2 DEF Rooted, ScreenRooted
<1>4. AddRooted(r, l, Len(q) + 1)
  <2>1. /\ c.type \in {"section_add", "task_add"} => c.project \in Projects \cup {None}
        /\ c.type = "task_add" => c.section \in Sections \cup {None}
        BY DEF Commands, Cmd
  <2>2. QED BY <1>1, <1>3, <2>1 DEF AddRooted, ScreenRooted
<1>5. ASSUME NEW k \in DOMAIN q PROVE AddRooted(r, l, k)
      BY <1>1, <1>2 DEF Rooted, AddRooted
<1>6. ScreenRooted(r, n, l, (Len(q) + 1) + 1)
      BY <1>1, <1>3, <1>4, ScreenRootedStep
<1>7. \A k \in DOMAIN l : AddRooted(r, l, k)
  <2>1. \A k \in DOMAIN l : k = Len(q) + 1 \/ k \in DOMAIN q BY <1>1
  <2>2. QED BY <1>4, <1>5, <2>1
<1>8. Rooted(r, n, l) BY <1>1, <1>6, <1>7 DEF Rooted
<1>9. QED BY <1>8 DEF l

\* What an answer brings is known to the server.
LEMMA BroughtRooted ==
    ASSUME NEW r, NEW v, NEW a, Behind(a, v, r), NEW i, Live(a, i), NEW q, NEW m
    PROVE  /\ i \in Projects => HasProject(r, q, m, i)
           /\ i \in Sections => HasSection(r, q, m, i, a[i].project)
<1>1. i \in Ids /\ Known(a, i) /\ Known(r, i) BY DEF Live, Known, Behind, Since
<1>2. CASE i \in Sections
  <2>1. Live(a, a[i].project) BY <1>2 DEF Behind, IsTree, SectionsInLiveProjects
  <2>2. Known(a, a[i].project) /\ a[i].project \in Ids BY <2>1 DEF Known, Live
  <2>3. Known(r, a[i].project) BY <2>2 DEF Behind, Since
  <2>4. a[i].project \in Projects BY <1>1, <2>2, Rows, Kinds DEF Fields, Behind
  <2>5. r[i].project = a[i].project BY <1>1, <1>2 DEF Behind, Since
  <2>6. HasSection(r, q, m, i, a[i].project)
        BY <1>1, <1>2, <2>3, <2>4, <2>5 DEF HasSection, HasProject
  <2>7. QED BY <1>2, <2>6, Kinds
<1>3. CASE i \notin Sections BY <1>1, <1>3 DEF HasProject
<1>4. QED BY <1>2, <1>3

\* A delta shows no project or section the server does not know.
LEMMA RootedPatched ==
    ASSUME NEW r, NEW v, NEW a, Behind(a, v, r), NEW s, NEW q, Rooted(r, s, q), NEW tok
    PROVE  Rooted(r, Patched(s, a, tok), q)
<1> DEFINE n == Patched(s, a, tok)
<1>1. ASSUME NEW i \in Ids, Live(n, i)
      PROVE  \/ Live(a, i) /\ n[i].project = a[i].project
             \/ Live(s, i) /\ n[i].project = s[i].project
  <2>1. CASE a[i].at > tok
    <3>1. n[i] = Shown(a[i]) /\ a[i] \in Row BY <2>1 DEF Patched, Behind
    <3>2. Shown(a[i]).is = "live" BY <1>1, <3>1 DEF Live
    <3> HIDE DEF n
    <3>3. QED BY <3>1, <3>2, ShownTyped DEF Live
  <2>2. CASE ~(a[i].at > tok)
    <3>1. n[i] = s[i] BY <2>2 DEF Patched
    <3>2. QED BY <1>1, <3>1 DEF Live
  <2>3. QED BY <2>1, <2>2
<1> HIDE DEF n
<1>2. ScreenRooted(r, n, q, Len(q) + 1)
  <2>1. ASSUME NEW i \in Projects, Live(n, i) PROVE HasProject(r, q, Len(q) + 1, i)
        BY <1>1, <2>1, Kinds, BroughtRooted DEF Rooted, ScreenRooted
  <2>2. ASSUME NEW i \in Sections, Live(n, i)
        PROVE  HasSection(r, q, Len(q) + 1, i, n[i].project)
        BY <1>1, <2>2, Kinds, BroughtRooted DEF Rooted, ScreenRooted
  <2>3. QED BY <2>1, <2>2 DEF ScreenRooted
<1>3. Rooted(r, n, q) BY <1>2 DEF Rooted
<1>4. QED BY <1>3 DEF n

\* Nor does a screen drawn anew.
LEMMA FreshRooted ==
    ASSUME NEW r, NEW v, NEW a, Behind(a, v, r), NEW q, NEW m
    PROVE  ScreenRooted(r, Fresh0(a), q, m)
<1> DEFINE base == Fresh0(a)
<1>1. a \in [Ids -> Row] BY DEF Behind
<1>2. ASSUME NEW i \in Ids, Live(base, i) PROVE Live(a, i) /\ base[i].project = a[i].project
  <2>1. base[i] = Shown(a[i]) /\ a[i] \in Row BY <1>1 DEF Fresh0
  <2> HIDE DEF base
  <2>2. QED BY <1>2, <2>1, ShownTyped DEF Live
<1> HIDE DEF base
<1>3. ScreenRooted(r, base, q, m) BY <1>2, Kinds, BroughtRooted DEF ScreenRooted
<1>4. QED BY <1>3 DEF base

\* With the queue applied to it again it is rooted in the server's rows and
\* the queue.
LEMMA RootedAgain ==
    ASSUME NEW r, NEW v, NEW a, Behind(a, v, r), NEW q \in Seq(Commands),
           \A k \in DOMAIN q : AddRooted(r, q, k)
    PROVE  Rooted(r, FoldLeft(ApplyCommand, Fresh0(a), q), q)
<1>1. DOMAIN q = 1..Len(q) /\ Len(q) \in Nat OBVIOUS
<1>a. a \in [Ids -> Row] BY DEF Behind
<1> DEFINE base == Fresh0(a)
<1> PICK f : Leads(f, base, q) BY FoldSteps
<1>2. /\ f[0] = base /\ f[Len(q)] = FoldLeft(ApplyCommand, base, q)
      /\ \A k \in 1..Len(q) : f[k] = ApplyCommand(f[k - 1], q[k])
      BY FoldIs DEF Leads
<1> DEFINE T == {n \in Nat : n <= Len(q) =>
                      f[n] \in Screens /\ ScreenRooted(r, f[n], q, n + 1)}
<1>3. 0 \in T
  <2>1. base \in Screens /\ ScreenRooted(r, base, q, 1) BY <1>a, DrawnFresh, FreshRooted
  <2> HIDE DEF base
  <2>2. QED BY <1>2, <2>1
<1>4. ASSUME NEW n \in Nat, n \in T PROVE n + 1 \in T
  <2> SUFFICES ASSUME n + 1 <= Len(q)
               PROVE  f[n + 1] \in Screens /\ ScreenRooted(r, f[n + 1], q, (n + 1) + 1)
      OBVIOUS
  <2>1. f[n] \in Screens /\ ScreenRooted(r, f[n], q, n + 1) BY <1>1, <1>4
  <2>2. n + 1 \in DOMAIN q /\ (n + 1) - 1 = n BY <1>1
  <2>3. f[n + 1] = ApplyCommand(f[n], q[n + 1]) BY <1>1, <1>2, <2>2
  <2>4. PICK s : s = f[n] OBVIOUS
  <2>5. q[n + 1] \in Commands /\ s \in Screens BY <2>1, <2>2, <2>4
  <2>6. f[n + 1] \in Screens /\ Roots(s, f[n + 1], q[n + 1])
        BY <2>3, <2>4, <2>5, ApplyTyped
  <2>7. ScreenRooted(r, f[n + 1], q, (n + 1) + 1)
        BY <2>1, <2>2, <2>4, <2>6, ScreenRootedStep
  <2>8. QED BY <2>6, <2>7
<1>5. Nat \subseteq T
  <2> HIDE DEF T
  <2>1. QED BY <1>3, <1>4, Induction
<1>6. ScreenRooted(r, f[Len(q)], q, Len(q) + 1) BY <1>1, <1>5
<1>7. QED BY <1>2, <1>6 DEF Rooted

-----------------------------------------------------------------------------
(* The invariant of the replica *)

\* The inductive invariant.
ReplicaInv ==
    /\ TreeInv /\ ReplicaTypeOK
    /\ \E b, a : Healing(b, a)
    /\ Rooted(rows, screen, Unanswered(queue, reply))

\* The verdicts a command can get.
LEMMA Verdicts ==
    ASSUME NEW r, NEW c
    PROVE  Verdict(r, c) \in {"ok", "not_found", "invalid_args"}
BY DEF Verdict

\* A command's server step, taken or refused.
LEMMA ExecuteIs ==
    ASSUME TreeInv, NEW c \in Commands, Execute(c)
    PROVE  /\ rows \in [Ids -> Row] /\ IsTree(rows) /\ version \in Nat
           /\ IsAdd(c) => rows[c.id].is = "absent"
           /\ IF Verdict(rows, c) = "ok"
              THEN /\ version' = version + 1 /\ rows' = Handle(rows, c, version + 1)
                   /\ Evolves(rows, rows', c, version + 1)
                   /\ \A i \in Kept : Hit(rows, c, i) => rows'[i].at = version + 1
              ELSE version' = version /\ rows' = rows
           /\ TreeInv' /\ version' \in Nat /\ version <= version'
           /\ rows' \in [Ids -> Row] /\ IsTree(rows')
<1>1. /\ rows \in [Ids -> Row] /\ IsTree(rows) /\ version \in Nat /\ version + 1 \in Nat
      BY DEF TreeInv, TreeTypeOK, Forest
<1>2. IsAdd(c) => rows[c.id].is = "absent" BY DEF Execute
<1>3. TreeInv' BY TreeSteps DEF TreeNext
<1>4. IF Verdict(rows, c) = "ok"
      THEN version' = version + 1 /\ rows' = Handle(rows, c, version + 1)
      ELSE version' = version /\ rows' = rows
      BY DEF Execute, treeVars
<1>5. CASE Verdict(rows, c) = "ok"
  <2>1. PICK n : n = Handle(rows, c, version + 1) OBVIOUS
  <2>2. /\ Evolves(rows, n, c, version + 1)
        /\ \A i \in Kept : Hit(rows, c, i) => n[i].at = version + 1
        BY <1>1, <1>2, <1>5, <2>1, HandleEvolves
  <2>3. n \in [Ids -> Row] /\ IsTree(n) BY <1>1, <1>2, <1>5, <2>1, HandleTree
  <2>4. rows' = n /\ version' = version + 1 BY <1>4, <1>5, <2>1
  <2>5. QED BY <1>1, <1>2, <1>3, <1>5, <2>1, <2>2, <2>3, <2>4
<1>6. CASE Verdict(rows, c) # "ok" BY <1>1, <1>2, <1>3, <1>4, <1>6
<1>7. QED BY <1>5, <1>6

\* The rows a command changed in b and everything changed since are stamped.
LEMMA HitsStamped ==
    ASSUME NEW b, NEW r \in [Ids -> Row], IsTree(r), NEW tok \in Nat, Behind(b, tok, r),
           NEW n \in [Ids -> Row], NEW c, NEW v \in Nat, v > tok, Evolves(r, n, c, v),
           \A i \in Kept : Hit(r, c, i) => n[i].at = v, NEW i \in Kept, Hit(b, c, i)
    PROVE  n[i].at > tok
<1>1. i \in Ids BY KeptIds
<1>2. CASE n[i].at = v BY <1>2
<1>3. CASE n[i] = r[i] /\ ~(n[i].at > tok)
  <2>1. r[i] = b[i] BY <1>1, <1>3 DEF Behind, Since
  <2>2. Hit(r, c, i) BY <2>1, HitTransfers DEF Behind
  <2>3. QED BY <2>2
<1>4. QED BY <1>1, <1>2, <1>3 DEF Evolves

\* Nothing has changed since now.
LEMMA SinceSelf == ASSUME NEW r, NEW v PROVE Since(r, v, r)
BY DEF Since

\* What is new to the server was new to it before.
LEMMA AddsBack ==
    ASSUME NEW a \in [Ids -> Row], NEW r, NEW v, Since(a, v, r),
           NEW q \in Seq(Commands), AddsNew(r, q)
    PROVE  AddsNew(a, q)
<1>1. ASSUME NEW k \in DOMAIN q, IsAdd(q[k]) PROVE a[q[k].id].is = "absent"
  <2>1. q[k] \in Commands OBVIOUS
  <2>2. q[k].id \in Ids BY <2>1, Kinds DEF Commands, Cmd
  <2>3. ~Known(r, q[k].id) BY <1>1 DEF AddsNew, Known, Live, Gone
  <2>4. ~Known(a, q[k].id) BY <2>2, <2>3 DEF Since
  <2>5. QED BY <2>2, <2>4, Rows DEF Fields, Known, Live, Gone
<1>2. QED BY <1>1 DEF AddsNew

\* The tree at the start is on the screen.
LEMMA ReplicaStarts == ReplicaInit => ReplicaInv
<1> SUFFICES ASSUME ReplicaInit PROVE ReplicaInv OBVIOUS
<1>1. /\ version = 0 /\ rows = Seed /\ screen = Fresh0(Seed) /\ queue = <<>> /\ syncToken = 0
      /\ needsFullSync = FALSE /\ reply = NoReply /\ edits = 0 /\ others = 0
      BY DEF ReplicaInit, TreeInit, Fresh0
<1>2. TreeInv BY TreeStarts DEF ReplicaInit
<1>3. Seed \in [Ids -> Row] /\ IsTree(Seed) BY TreeConstants
<1>4. Fresh0(Seed) \in Screens /\ Explained(Seed, Fresh0(Seed), {}) BY <1>3, DrawnFresh
<1>5. ReplicaTypeOK
  <2>1. screen \in [Ids -> Row] /\ \A i \in Ids : screen[i].at = 0
    <3>1. PICK s : s = Fresh0(Seed) OBVIOUS
    <3>2. s \in [Ids -> Row] /\ \A i \in Ids : s[i].at = 0 BY <1>4, <3>1 DEF Screens
    <3>3. QED BY <1>1, <3>1, <3>2
  <2>2. queue \in Seq(Commands) /\ syncToken \in 0..version BY <1>1
  <2>3. edits \in 0..MaxEdits /\ others \in 0..MaxOthers BY <1>1, ReplicaConstants
  <2>4. QED BY <1>1, <1>2, <2>1, <2>2, <2>3 DEF ReplicaTypeOK, TreeInv
<1>6. Behind(Seed, 0, Seed) BY <1>3, SinceSelf DEF Behind
<1>7. Unanswered(queue, reply) = <<>> BY <1>1 DEF Unanswered
<1>8. Range(<<>>) = {} BY DEF Range
<1>9. AddsNew(Seed, <<>>) BY DEF AddsNew
<1>10. Healing(Seed, Seed) BY <1>1, <1>4, <1>6, <1>7, <1>8, <1>9 DEF Healing, Drawn
<1>11. Rooted(Seed, Fresh0(Seed), <<>>)
  <2>1. ScreenRooted(Seed, Fresh0(Seed), <<>>, Len(<<>>) + 1) BY <1>6, FreshRooted
  <2>2. QED BY <2>1 DEF Rooted
<1>12. QED BY <1>1, <1>2, <1>5, <1>7, <1>10, <1>11 DEF ReplicaInv

\* What the types say of the answer on its way.
LEMMA ReplyIs ==
    ASSUME ReplicaTypeOK, NEW b, NEW a, Healing(b, a)
    PROVE  LET u == Unanswered(queue, reply)
           IN  /\ u \in Seq(Commands) /\ queue \in Seq(Commands)
               /\ screen \in Screens /\ syncToken \in Nat /\ syncToken <= version
               /\ \A k \in DOMAIN u : \E j \in DOMAIN queue : u[k] = queue[j]
               /\ reply # NoReply /\ reply.cmd # None => queue # <<>>
<1>1. /\ queue \in Seq(Commands) /\ screen \in Screens /\ syncToken \in Nat
      /\ syncToken <= version
      BY DEF ReplicaTypeOK, TreeTypeOK, Screens
<1>2. CASE reply # NoReply /\ reply.cmd # None
  <2>1. queue # <<>> BY <1>2 DEF Healing, Carries
  <2>2. PICK u : u = Tail(queue) OBVIOUS
  <2>3. Unanswered(queue, reply) = u BY <1>2, <2>2 DEF Unanswered
  <2>4. u \in Seq(Commands) /\ \A k \in DOMAIN u : k + 1 \in DOMAIN queue /\ u[k] = queue[k + 1]
        BY <1>1, <2>1, <2>2, TailIs
  <2>5. QED BY <1>1, <2>1, <2>3, <2>4
<1>3. CASE ~(reply # NoReply /\ reply.cmd # None)
  <2>1. Unanswered(queue, reply) = queue BY <1>3 DEF Unanswered
  <2>2. QED BY <1>1, <1>3, <2>1
<1>4. QED BY <1>2, <1>3

\* Somebody else's command keeps the invariant: b stays, and what changed is
\* stamped later than the token.
LEMMA TeammateSteps == ReplicaInv /\ Teammate => ReplicaInv'
<1> SUFFICES ASSUME ReplicaInv, Teammate PROVE ReplicaInv' OBVIOUS
<1> DEFINE u == Unanswered(queue, reply)
<1>1. PICK c \in Commands : (IsAdd(c) => Fresh(c.id)) /\ Verdict(rows, c) = "ok" /\ Execute(c)
      BY DEF Teammate
<1>2. PICK b, a : Healing(b, a) BY DEF ReplicaInv
<1>3. /\ TreeInv /\ ReplicaTypeOK /\ Rooted(rows, screen, u) BY DEF ReplicaInv
<1>4. /\ others' = others + 1 /\ others < MaxOthers
      /\ screen' = screen /\ queue' = queue /\ syncToken' = syncToken
      /\ needsFullSync' = needsFullSync /\ reply' = reply /\ edits' = edits
      BY DEF Teammate, deviceVars
<1>5. /\ rows \in [Ids -> Row] /\ version \in Nat
      /\ version' = version + 1 /\ Evolves(rows, rows', c, version + 1)
      /\ TreeInv' /\ rows' \in [Ids -> Row]
      BY <1>1, <1>3, ExecuteIs
<1>6. ReplicaTypeOK'
  <2>1. /\ screen \in [Ids -> Row] /\ \A i \in Ids : screen[i].at = 0
        /\ queue \in Seq(Commands) /\ syncToken \in 0..version
        /\ reply # NoReply => DOMAIN reply.rows \subseteq Ids /\ reply \in Replies(DOMAIN reply.rows)
        /\ needsFullSync \in BOOLEAN /\ edits \in 0..MaxEdits /\ others \in 0..MaxOthers
        BY <1>3 DEF ReplicaTypeOK
  <2>2. TreeTypeOK' BY <1>5 DEF TreeInv
  <2>3. others' \in 0..MaxOthers /\ syncToken' \in 0..version'
        BY <1>4, <1>5, <2>1, ReplicaConstants
  <2>4. QED BY <1>4, <2>1, <2>2, <2>3 DEF ReplicaTypeOK
<1>7. u \in Seq(Commands) /\ syncToken \in Nat /\ syncToken <= version
      /\ \A k \in DOMAIN u : \E j \in DOMAIN queue : u[k] = queue[j]
      BY <1>2, <1>3, ReplyIs
<1>8. Behind(b, syncToken, rows')
      BY <1>2, <1>5, <1>7, SinceEvolves DEF Healing, Behind
<1>9. AddsNew(rows', u)
  <2>1. IsAdd(c) => \A k \in DOMAIN u : u[k].id # c.id
    <3> SUFFICES ASSUME IsAdd(c), NEW k \in DOMAIN u, u[k].id = c.id PROVE FALSE OBVIOUS
    <3>1. PICK j \in DOMAIN queue : u[k] = queue[j] BY <1>7
    <3>2. c.id \in Ids BY Kinds DEF Commands, Cmd
    <3>3. c.id \in Named BY <3>1, <3>2 DEF Named
    <3>4. QED BY <1>1, <3>3 DEF Fresh
  <2>2. AddsNew(rows, u) BY <1>2 DEF Healing
  <2> HIDE DEF u
  <2>3. QED BY <1>5, <1>7, <2>1, <2>2, AddsStay
<1>10. reply # NoReply =>
          Carries(b, a, rows', version', queue, syncToken, needsFullSync, reply)
  <2> SUFFICES ASSUME reply # NoReply
               PROVE  Carries(b, a, rows', version', queue, syncToken, needsFullSync, reply)
      OBVIOUS
  <2>1. Carries(b, a, rows, version, queue, syncToken, needsFullSync, reply)
        BY <1>2 DEF Healing
  <2>2. reply.token \in Nat /\ reply.token < version + 1 BY <1>5, <2>1 DEF Carries
  <2>3. Behind(a, reply.token, rows') BY <1>5, <2>1, <2>2, SinceEvolves DEF Carries, Behind
  <2>4. reply.token <= version' BY <1>5, <2>2
  <2>5. QED BY <2>1, <2>3, <2>4 DEF Carries
<1>11. Healing(b, a)' BY <1>2, <1>4, <1>8, <1>9, <1>10 DEF Healing
<1>12. Rooted(rows', screen, u) BY <1>3, <1>5, RootedEvolves
<1>13. QED BY <1>4, <1>5, <1>6, <1>11, <1>12 DEF ReplicaInv

\* An edit keeps it: the edit accounts for what it changes on the screen.
LEMMA MutateSteps == ReplicaInv /\ Mutate => ReplicaInv'
<1> SUFFICES ASSUME ReplicaInv, Mutate PROVE ReplicaInv' OBVIOUS
<1> DEFINE u == Unanswered(queue, reply)
<1>1. PICK c \in Commands : Offered(c) /\ screen' = ApplyCommand(screen, c)
                            /\ queue' = Append(queue, c)
      BY DEF Mutate
<1>2. PICK b, a : Healing(b, a) BY DEF ReplicaInv
<1>3. TreeInv /\ ReplicaTypeOK /\ Rooted(rows, screen, u) BY DEF ReplicaInv
<1>4. /\ edits' = edits + 1 /\ edits < MaxEdits /\ version' = version /\ rows' = rows
      /\ syncToken' = syncToken /\ needsFullSync' = needsFullSync /\ reply' = reply
      /\ others' = others
      BY DEF Mutate, treeVars
<1>5. /\ u \in Seq(Commands) /\ queue \in Seq(Commands) /\ screen \in Screens
      /\ \A k \in DOMAIN u : \E j \in DOMAIN queue : u[k] = queue[j]
      /\ reply # NoReply /\ reply.cmd # None => queue # <<>>
      BY <1>2, <1>3, ReplyIs
<1>6. screen' \in Screens /\ Roots(screen, screen', c)
      BY <1>1, <1>5, ApplyTyped
<1>7. queue' \in Seq(Commands) /\ Range(queue') = Range(queue) \cup {c}
      BY <1>1, <1>5, AppendIs
<1>8. Unanswered(queue', reply) = Append(u, c)
  <2>1. CASE reply # NoReply /\ reply.cmd # None
    <3>1. Tail(queue') = Append(Tail(queue), c) BY <1>1, <1>5, <2>1, AppendTail
    <3>2. QED BY <2>1, <3>1 DEF Unanswered
  <2>2. CASE ~(reply # NoReply /\ reply.cmd # None) BY <1>1, <2>2 DEF Unanswered
  <2>3. QED BY <2>1, <2>2
<1>9. TreeInv' BY <1>3, <1>4, TreeSteps DEF treeVars
<1>10. ReplicaTypeOK'
  <2>1. /\ syncToken \in 0..version
        /\ reply # NoReply => DOMAIN reply.rows \subseteq Ids /\ reply \in Replies(DOMAIN reply.rows)
        /\ needsFullSync \in BOOLEAN /\ edits \in 0..MaxEdits /\ others \in 0..MaxOthers
        BY <1>3 DEF ReplicaTypeOK
  <2>2. TreeTypeOK' BY <1>9 DEF TreeInv
  <2>3. edits' \in 0..MaxEdits BY <1>4, <2>1, ReplicaConstants
  <2>4. screen' \in [Ids -> Row] /\ \A i \in Ids : screen'[i].at = 0 BY <1>6 DEF Screens
  <2>5. QED BY <1>4, <1>7, <2>1, <2>2, <2>3, <2>4 DEF ReplicaTypeOK
<1>11. IsAdd(c) => rows[c.id].is = "absent" /\ \A k \in DOMAIN u : u[k].id # c.id
  <2> SUFFICES ASSUME IsAdd(c)
               PROVE  rows[c.id].is = "absent" /\ \A k \in DOMAIN u : u[k].id # c.id
      OBVIOUS
  <2>1. Fresh(c.id) BY <1>1 DEF Offered
  <2>2. ASSUME NEW k \in DOMAIN u, u[k].id = c.id PROVE FALSE
    <3>1. PICK j \in DOMAIN queue : u[k] = queue[j] BY <1>5
    <3>2. c.id \in Ids BY Kinds DEF Commands, Cmd
    <3>3. c.id \in Named BY <2>2, <3>1, <3>2 DEF Named
    <3>4. QED BY <2>1, <3>3 DEF Fresh
  <2>3. QED BY <2>1, <2>2 DEF Fresh
<1>12. AddsNew(rows, Append(u, c))
  <2>1. AddsNew(rows, u) BY <1>2 DEF Healing
  <2> HIDE DEF u
  <2>2. QED BY <1>5, <1>11, <2>1, AddsAppend
<1>13. Drawn(b, screen', queue', needsFullSync)
  <2> SUFFICES ASSUME ~needsFullSync PROVE Explained(b, screen', Range(queue'))
      BY DEF Drawn
  <2>1. b \in [Ids -> Row] /\ IsTree(b) /\ Since(b, syncToken, rows) BY <1>2 DEF Healing, Behind
  <2>2. Explained(b, screen, Range(queue)) BY <1>2 DEF Healing, Drawn
  <2>3. IsAdd(c) => b[c.id].is = "absent"
    <3>1. c.id \in Ids BY Kinds DEF Commands, Cmd
    <3>2. IsAdd(c) => ~Known(rows, c.id) BY <1>11 DEF Known, Live, Gone
    <3>3. IsAdd(c) => ~Known(b, c.id) BY <2>1, <3>1, <3>2 DEF Since
    <3>4. QED BY <2>1, <3>1, <3>3, Rows DEF Fields, Known, Live, Gone
  <2>4. screen \in [Ids -> Row] BY <1>5 DEF Screens
  <2>5. Explained(b, ApplyCommand(screen, c), Range(queue) \cup {c})
        BY <2>1, <2>2, <2>3, <2>4, ApplyExplained
  <2>6. QED BY <1>1, <1>7, <2>5
<1>14. reply # NoReply =>
          Carries(b, a, rows, version, queue', syncToken, needsFullSync, reply)
  <2> SUFFICES ASSUME reply # NoReply
               PROVE  Carries(b, a, rows, version, queue', syncToken, needsFullSync, reply)
      OBVIOUS
  <2>1. Carries(b, a, rows, version, queue, syncToken, needsFullSync, reply)
        BY <1>2 DEF Healing
  <2>2. queue # <<>> => queue' # <<>> /\ Head(queue') = Head(queue) BY <1>1, <1>5, AppendTail
  <2>3. QED BY <2>1, <2>2 DEF Carries
<1>15. Healing(b, a)' BY <1>2, <1>4, <1>8, <1>12, <1>13, <1>14 DEF Healing
<1>16. Rooted(rows, screen', Append(u, c))
  <2>1. (c.type \in {"section_add", "task_add"} /\ c.project # None) => Live(screen, c.project)
    <3>1. c.type \in {"section_add", "task_add"} => c.project \in Projects \cup {None}
          BY DEF Commands, Cmd
    <3>2. QED BY <1>1, <3>1, Kinds DEF Offered
  <2>2. (c.type = "task_add" /\ c.section # None) =>
            Live(screen, c.section) /\ screen[c.section].project = c.project
    <3>1. c.type = "task_add" => c.section \in Sections \cup {None} BY DEF Commands, Cmd
    <3>2. QED BY <1>1, <3>1, Kinds DEF Offered
  <2> HIDE DEF u
  <2>3. QED BY <1>3, <1>5, <1>6, <2>1, <2>2, RootedAppend
<1>17. QED BY <1>4, <1>8, <1>9, <1>10, <1>15, <1>16 DEF ReplicaInv

\* An answer is an answer.
LEMMA AnswerIs ==
    ASSUME NEW c \in Commands \cup {None}, NEW why \in {"ok", "not_found", "invalid_args"},
           ReplicaTypeOK, NEW a, a = rows', a \in [Ids -> Row], version' \in Nat,
           NEW ans, ans = Answer(c, why)
    PROVE  /\ DOMAIN ans.rows \subseteq Ids /\ ans \in Replies(DOMAIN ans.rows)
           /\ ans # NoReply
           /\ ans.cmd = c /\ ans.status = why /\ ans.token = version'
           /\ ans.full <=> needsFullSync
           /\ ans.full => ans.rows = a
           /\ ~ans.full => ans.rows = Delta(a, syncToken)
<1> DEFINE since == IF needsFullSync THEN Star ELSE syncToken
           brought == Changes(a, since)
           rep == [cmd |-> c, status |-> why, full |-> since = Star, rows |-> brought,
                   token |-> version']
           full == (since = Star)
<1>1. needsFullSync \in BOOLEAN /\ syncToken \in Nat
  <2>1. version \in Nat /\ syncToken \in 0..version BY DEF ReplicaTypeOK, TreeTypeOK
  <2>2. QED BY <2>1 DEF ReplicaTypeOK
<1>2. full <=> needsFullSync BY <1>1, ReplicaConstants
<1>3. full => brought = a BY DEF Changes
<1>4. ~full => brought = Delta(a, syncToken) BY <1>1, <1>2 DEF Changes, Delta
<1>5. DOMAIN brought \subseteq Ids /\ brought \in [DOMAIN brought -> Row]
  <2>1. CASE full
    <3>1. DOMAIN a = Ids OBVIOUS
    <3>2. QED BY <1>3, <2>1, <3>1
  <2>2. CASE ~full
    <3> DEFINE S == {i \in Ids : a[i].at > syncToken}
    <3>1. S \subseteq Ids OBVIOUS
    <3>2. brought = [i \in S |-> a[i]] BY <1>4, <2>2 DEF Restrict, Delta
    <3> HIDE DEF S, brought
    <3>3. DOMAIN brought = S /\ \A i \in S : brought[i] \in Row BY <3>1, <3>2
    <3>4. QED BY <3>1, <3>2, <3>3
  <2>3. QED BY <2>1, <2>2
<1>6. full \in BOOLEAN OBVIOUS
<1> HIDE DEF since, brought, full
<1>7. rep = [cmd |-> c, status |-> why, full |-> full, rows |-> brought, token |-> version']
      BY DEF full
<1>8. PICK v \in Nat : v = version' OBVIOUS
<1>9. PICK x : x = [cmd |-> c, status |-> why, full |-> full, rows |-> brought, token |-> v]
      OBVIOUS
<1>10. rep = x BY <1>7, <1>8, <1>9
<1>11. x.cmd = c /\ x.status = why /\ x.full = full /\ x.rows = brought /\ x.token = v
       BY <1>9
<1>12. x \in Replies(DOMAIN brought) BY <1>5, <1>6, <1>8, <1>9 DEF Replies
<1>13. x # NoReply BY <1>5, <1>12, ReplicaConstants
<1>14. Answer(c, why) = rep BY DEF Answer, since, brought
<1> HIDE DEF rep
<1>15. QED BY <1>2, <1>3, <1>4, <1>5, <1>8, <1>10, <1>11, <1>12, <1>13, <1>14

\* The server's step of a push keeps it: a is now the rows it answers from.
LEMMA PushSteps == ReplicaInv /\ Push => ReplicaInv'
<1> SUFFICES ASSUME ReplicaInv, Push PROVE ReplicaInv' OBVIOUS
<1>1. PICK c : c = Head(queue) OBVIOUS
<1>2. PICK b, a : Healing(b, a) BY DEF ReplicaInv
<1>3. TreeInv /\ ReplicaTypeOK /\ Rooted(rows, screen, Unanswered(queue, reply)) BY DEF ReplicaInv
<1>4. /\ reply = NoReply /\ queue # <<>> /\ Execute(c)
      /\ reply' = Answer(c, Verdict(rows, c))
      /\ screen' = screen /\ queue' = queue /\ syncToken' = syncToken
      /\ needsFullSync' = needsFullSync /\ edits' = edits /\ others' = others
      BY <1>1 DEF Push
<1>5. queue \in Seq(Commands) /\ syncToken \in Nat /\ syncToken <= version
      BY <1>2, <1>3, ReplyIs
<1>6. c \in Commands /\ Tail(queue) \in Seq(Commands) BY <1>1, <1>4, <1>5, TailIs
<1>7. Unanswered(queue, reply) = queue BY <1>4 DEF Unanswered
<1>8. /\ rows \in [Ids -> Row] /\ IsTree(rows) /\ version \in Nat
      /\ IF Verdict(rows, c) = "ok"
         THEN /\ version' = version + 1 /\ rows' = Handle(rows, c, version + 1)
              /\ Evolves(rows, rows', c, version + 1)
              /\ \A i \in Kept : Hit(rows, c, i) => rows'[i].at = version + 1
         ELSE version' = version /\ rows' = rows
      /\ TreeInv' /\ version' \in Nat /\ version <= version'
      /\ rows' \in [Ids -> Row] /\ IsTree(rows')
      BY <1>3, <1>4, <1>6, ExecuteIs
<1>9. PICK n : n = rows' OBVIOUS
<1>10. PICK rep : rep = reply' OBVIOUS
<1>11. /\ DOMAIN rep.rows \subseteq Ids /\ rep \in Replies(DOMAIN rep.rows)
       /\ rep # NoReply /\ rep.cmd = c /\ rep.status = Verdict(rows, c) /\ rep.token = version'
       /\ rep.full <=> needsFullSync
       /\ rep.full => rep.rows = n
       /\ ~rep.full => rep.rows = Delta(n, syncToken)
  <2>1. Verdict(rows, c) \in {"ok", "not_found", "invalid_args"} BY Verdicts
  <2>2. PICK why : why = Verdict(rows, c) OBVIOUS
  <2>3. n = rows' /\ n \in [Ids -> Row] /\ version' \in Nat /\ c \in Commands \cup {None}
        /\ ReplicaTypeOK /\ why \in {"ok", "not_found", "invalid_args"}
        BY <1>3, <1>6, <1>8, <1>9, <2>1, <2>2
  <2>4. PICK ans : ans = Answer(c, why) OBVIOUS
  <2>5. /\ DOMAIN ans.rows \subseteq Ids /\ ans \in Replies(DOMAIN ans.rows)
        /\ ans # NoReply /\ ans.cmd = c /\ ans.status = why /\ ans.token = version'
        /\ ans.full <=> needsFullSync
        /\ ans.full => ans.rows = n
        /\ ~ans.full => ans.rows = Delta(n, syncToken)
        BY <2>3, <2>4, AnswerIs
  <2>6. reply' = Answer(c, Verdict(rows, c)) BY <1>4
  <2>7. ans = rep BY <1>10, <2>2, <2>4, <2>6
  <2>8. QED BY <2>2, <2>5, <2>7
<1>12. c # None BY <1>6, ReplicaConstants
<1>13. Unanswered(queue, rep) = Tail(queue) BY <1>11, <1>12 DEF Unanswered
<1>14. ReplicaTypeOK'
  <2>1. /\ screen \in [Ids -> Row] /\ \A i \in Ids : screen[i].at = 0
        /\ needsFullSync \in BOOLEAN /\ edits \in 0..MaxEdits /\ others \in 0..MaxOthers
        BY <1>3 DEF ReplicaTypeOK
  <2>2. TreeTypeOK' BY <1>8 DEF TreeInv
  <2>3. syncToken \in 0..version' BY <1>5, <1>8
  <2>4. QED BY <1>4, <1>5, <1>10, <1>11, <2>1, <2>2, <2>3 DEF ReplicaTypeOK
<1>15. Behind(b, syncToken, rows) /\ AddsNew(rows, queue) /\ Drawn(b, screen, queue, needsFullSync)
       BY <1>2, <1>7 DEF Healing
<1>16. Behind(b, syncToken, n)
  <2>1. CASE Verdict(rows, c) = "ok"
        BY <1>5, <1>8, <1>9, <1>15, <2>1, SinceEvolves DEF Behind
  <2>2. CASE Verdict(rows, c) # "ok" BY <1>8, <1>9, <1>15, <2>2
  <2>3. QED BY <2>1, <2>2
<1>17. AddsNew(n, Tail(queue))
  <2>1. PICK t : t = Tail(queue) OBVIOUS
  <2>2. AddsNew(rows, t) /\ t \in Seq(Commands)
        /\ (IsAdd(c) => \A k \in DOMAIN t : IsAdd(t[k]) => t[k].id # c.id)
        BY <1>1, <1>4, <1>5, <1>6, <1>15, <2>1, AddsTail
  <2>3. CASE Verdict(rows, c) = "ok" BY <1>8, <1>9, <2>1, <2>2, <2>3, AddsStay
  <2>4. CASE Verdict(rows, c) # "ok" BY <1>8, <1>9, <2>1, <2>2, <2>4
  <2>5. QED BY <2>3, <2>4
<1>18. Carries(b, n, n, version', queue, syncToken, needsFullSync, rep)
  <2>1. Behind(n, rep.token, n) BY <1>8, <1>9, SinceSelf DEF Behind
  <2>2. Since(b, syncToken, n) BY <1>16 DEF Behind
  <2>3. rep.token \in Nat /\ syncToken <= rep.token /\ rep.token <= version'
        BY <1>5, <1>8, <1>11
  <2>4. ASSUME rep.status = "ok", NEW i \in Kept, Hit(b, c, i) PROVE n[i].at > syncToken
    <3>1. Verdict(rows, c) = "ok" BY <1>11, <2>4
    <3>2. /\ Evolves(rows, n, c, version + 1) /\ n \in [Ids -> Row]
          /\ \A j \in Kept : Hit(rows, c, j) => n[j].at = version + 1
          BY <1>8, <1>9, <3>1
    <3>3. version + 1 \in Nat /\ version + 1 > syncToken BY <1>5, <1>8
    <3>4. QED BY <1>5, <1>8, <1>15, <2>4, <3>2, <3>3, HitsStamped
  <2>5. QED BY <1>1, <1>4, <1>11, <1>12, <2>1, <2>2, <2>3, <2>4 DEF Carries
<1>19. Healing(b, n)'
       BY <1>4, <1>9, <1>10, <1>13, <1>15, <1>16, <1>17, <1>18 DEF Healing
<1>20. Rooted(n, screen, Tail(queue))
  <2>1. PICK t : t = Tail(queue) OBVIOUS
  <2>2. Rooted(rows, screen, queue) BY <1>3, <1>7
  <2>3. IF Verdict(rows, Head(queue)) = "ok" THEN n = Handle(rows, Head(queue), version + 1)
        ELSE n = rows
        BY <1>1, <1>8, <1>9
  <2>4. version + 1 \in Nat BY <1>8
  <2>5. QED BY <1>4, <1>5, <1>8, <1>15, <2>2, <2>3, <2>4, RootedAnswered
<1>21. QED BY <1>4, <1>8, <1>9, <1>10, <1>13, <1>14, <1>19, <1>20 DEF ReplicaInv

\* So does that of a pull.
LEMMA PullSteps == ReplicaInv /\ Pull => ReplicaInv'
<1> SUFFICES ASSUME ReplicaInv, Pull PROVE ReplicaInv' OBVIOUS
<1>2. PICK b, a : Healing(b, a) BY DEF ReplicaInv
<1>3. TreeInv /\ ReplicaTypeOK /\ Rooted(rows, screen, Unanswered(queue, reply)) BY DEF ReplicaInv
<1>4. /\ reply = NoReply /\ reply' = Answer(None, "ok") /\ version' = version /\ rows' = rows
      /\ screen' = screen /\ queue' = queue /\ syncToken' = syncToken
      /\ needsFullSync' = needsFullSync /\ edits' = edits /\ others' = others
      BY DEF Pull, treeVars
<1>5. queue \in Seq(Commands) /\ syncToken \in Nat /\ syncToken <= version
      BY <1>2, <1>3, ReplyIs
<1>6. Unanswered(queue, reply) = queue BY <1>4 DEF Unanswered
<1>7. TreeInv' BY <1>3, <1>4, TreeSteps DEF treeVars
<1>8. rows \in [Ids -> Row] /\ IsTree(rows) /\ version \in Nat
      BY <1>3 DEF TreeInv, TreeTypeOK, Forest
<1>9. PICK n : n = rows OBVIOUS
<1>10. PICK rep : rep = reply' OBVIOUS
<1>11. /\ DOMAIN rep.rows \subseteq Ids /\ rep \in Replies(DOMAIN rep.rows)
       /\ rep # NoReply /\ rep.cmd = None /\ rep.status = "ok" /\ rep.token = version
       /\ rep.full <=> needsFullSync
       /\ rep.full => rep.rows = n
       /\ ~rep.full => rep.rows = Delta(n, syncToken)
  <2>1. n = rows' /\ n \in [Ids -> Row] /\ version' \in Nat /\ "ok" \in {"ok", "not_found", "invalid_args"}
        /\ None \in Commands \cup {None}
        BY <1>4, <1>8, <1>9
  <2>2. rep = Answer(None, "ok") BY <1>4, <1>10
  <2>3. QED BY <1>3, <1>4, <2>1, <2>2, AnswerIs
<1>12. Unanswered(queue, rep) = queue BY <1>11 DEF Unanswered
<1>13. ReplicaTypeOK'
  <2>1. /\ screen \in [Ids -> Row] /\ \A i \in Ids : screen[i].at = 0
        /\ needsFullSync \in BOOLEAN /\ edits \in 0..MaxEdits /\ others \in 0..MaxOthers
        /\ syncToken \in 0..version
        BY <1>3 DEF ReplicaTypeOK
  <2>2. TreeTypeOK' BY <1>7 DEF TreeInv
  <2>3. QED BY <1>4, <1>5, <1>10, <1>11, <2>1, <2>2 DEF ReplicaTypeOK
<1>14. Behind(b, syncToken, rows) /\ AddsNew(rows, queue) /\ Drawn(b, screen, queue, needsFullSync)
       BY <1>2, <1>6 DEF Healing
<1>15. Carries(b, n, rows, version, queue, syncToken, needsFullSync, rep)
  <2>1. Behind(n, rep.token, rows) BY <1>8, <1>9, SinceSelf DEF Behind
  <2>2. Since(b, syncToken, n) BY <1>9, <1>14 DEF Behind
  <2>3. rep.token \in Nat /\ syncToken <= rep.token /\ rep.token <= version
        BY <1>5, <1>8, <1>11
  <2>4. QED BY <1>11, <2>1, <2>2, <2>3 DEF Carries
<1>16. Healing(b, n)' BY <1>4, <1>10, <1>12, <1>14, <1>15 DEF Healing
<1>17. QED BY <1>3, <1>4, <1>6, <1>7, <1>10, <1>12, <1>13, <1>16 DEF ReplicaInv

\* What a reply leaves on the screen.
LEMMA MergedAll ==
    ASSUME NEW a \in [Ids -> Row], NEW s, NEW q
    PROVE  Merged(s, a, TRUE, q) = FoldLeft(ApplyCommand, Fresh0(a), q)
<1>1. [i \in Ids |-> IF i \in DOMAIN a THEN Shown(a[i]) ELSE s[i]] = Fresh0(a) BY DEF Fresh0
<1>2. QED BY <1>1 DEF Merged

\* A delta puts the answer's new rows over the screen.
LEMMA MergedDelta ==
    ASSUME NEW a, NEW s, NEW q, NEW tok
    PROVE  Merged(s, Delta(a, tok), FALSE, q) = Patched(s, a, tok)
<1> DEFINE S == {i \in Ids : a[i].at > tok}
<1>0. PICK d : d = Delta(a, tok) OBVIOUS
<1>1. d = [i \in S |-> a[i]] BY <1>0 DEF Restrict, Delta
<1>2. Merged(s, d, FALSE, q) = [i \in Ids |-> IF i \in DOMAIN d THEN Shown(d[i]) ELSE s[i]]
      BY DEF Merged
<1>3. DOMAIN d = S /\ \A i \in S : d[i] = a[i] BY <1>1
<1>4. \A i \in Ids : i \in S <=> a[i].at > tok OBVIOUS
<1> HIDE DEF S
<1>5. \A i \in Ids : (IF i \in DOMAIN d THEN Shown(d[i]) ELSE s[i])
                     = (IF a[i].at > tok THEN Shown(a[i]) ELSE s[i])
      BY <1>3, <1>4
<1>6. Merged(s, d, FALSE, q) = Patched(s, a, tok) BY <1>2, <1>5 DEF Patched
<1>7. QED BY <1>0, <1>6

\* A reply keeps it: the rows a it was read from take the place of b.
LEMMA ReceiveSteps == ReplicaInv /\ Receive => ReplicaInv'
<1> SUFFICES ASSUME ReplicaInv, Receive PROVE ReplicaInv' OBVIOUS
<1>1. PICK u : u = Unanswered(queue, reply) OBVIOUS
<1>2. PICK b, a : Healing(b, a) BY DEF ReplicaInv
<1>3. TreeInv /\ ReplicaTypeOK /\ Rooted(rows, screen, u) BY <1>1 DEF ReplicaInv
<1>4. /\ reply # NoReply /\ queue' = u /\ screen' = Merged(screen, reply.rows, reply.full, u)
      /\ syncToken' = reply.token
      /\ needsFullSync' = (~reply.full /\ (needsFullSync \/ reply.status # "ok"))
      /\ reply' = NoReply /\ version' = version /\ rows' = rows /\ edits' = edits
      /\ others' = others
      BY <1>1 DEF Receive, Unanswered, treeVars
<1>5. u \in Seq(Commands) /\ queue \in Seq(Commands) /\ screen \in Screens /\ syncToken \in Nat
      BY <1>1, <1>2, <1>3, ReplyIs
<1>6. Unanswered(queue', NoReply) = u BY <1>4 DEF Unanswered
<1>7. Carries(b, a, rows, version, queue, syncToken, needsFullSync, reply)
      BY <1>2, <1>4 DEF Healing
<1>8. /\ Behind(b, syncToken, rows) /\ AddsNew(rows, u)
      /\ Drawn(b, screen, queue, needsFullSync)
      BY <1>1, <1>2 DEF Healing
<1>9. /\ Behind(a, reply.token, rows) /\ Since(b, syncToken, a)
      /\ reply.token \in Nat /\ reply.token <= version
      BY <1>7 DEF Carries
<1>10. /\ a \in [Ids -> Row] /\ IsTree(a) /\ Since(a, reply.token, rows)
       /\ b \in [Ids -> Row] /\ IsTree(b)
       BY <1>8, <1>9 DEF Behind
<1>11. AddsNew(a, u) BY <1>5, <1>8, <1>10, AddsBack
<1>12. reply.full \in BOOLEAN BY <1>3, <1>4 DEF ReplicaTypeOK, Replies
<1>13. TreeInv' BY <1>3, <1>4, TreeSteps DEF treeVars
<1>14. /\ screen' \in Screens /\ Rooted(rows, screen', u)
       /\ Drawn(a, screen', u, needsFullSync')
  <2>1. CASE reply.full
    <3>1. screen' = FoldLeft(ApplyCommand, Fresh0(a), u)
      <4>1. reply.rows = a /\ reply.full = TRUE BY <1>7, <1>12, <2>1 DEF Carries
      <4>2. QED BY <1>4, <1>10, <4>1, MergedAll
    <3>2. PICK n : n = FoldLeft(ApplyCommand, Fresh0(a), u) OBVIOUS
    <3>3. n \in Screens /\ Explained(a, n, Range(u)) BY <1>5, <1>10, <1>11, <3>2, DrawnAgain
    <3>4. \A k \in DOMAIN u : AddRooted(rows, u, k) BY <1>3 DEF Rooted
    <3>5. Rooted(rows, n, u) BY <1>5, <1>9, <3>2, <3>4, RootedAgain
    <3>6. QED BY <3>1, <3>2, <3>3, <3>5 DEF Drawn
  <2>2. CASE ~reply.full
    <3>1. ~needsFullSync /\ screen' = Patched(screen, a, syncToken)
      <4>1. /\ ~needsFullSync /\ reply.full = FALSE
            /\ reply.rows = Delta(a, syncToken)
            BY <1>7, <1>12, <2>2 DEF Carries
      <4>2. PICK old : old = screen OBVIOUS
      <4>3. PICK tok : tok = syncToken OBVIOUS
      <4>5. PICK d : d = Delta(a, tok) OBVIOUS
      <4>6. Merged(old, Delta(a, tok), FALSE, u) = Patched(old, a, tok) BY MergedDelta
      <4>7. Merged(old, d, FALSE, u) = Patched(old, a, tok) BY <4>5, <4>6
      <4>8. reply.rows = d BY <4>1, <4>3, <4>5
      <4>9. screen' = Merged(old, d, FALSE, u) BY <1>4, <4>1, <4>2, <4>8
      <4>10. screen' = Patched(old, a, tok) BY <4>7, <4>9
      <4>11. QED BY <4>1, <4>2, <4>3, <4>10
    <3>2. PICK n : n = Patched(screen, a, syncToken) OBVIOUS
    <3>3. n \in Screens BY <1>5, <1>10, <3>2, PatchedTyped
    <3>4. Rooted(rows, n, u) BY <1>3, <1>9, <3>2, RootedPatched
    <3>5. ASSUME reply.status = "ok" PROVE Explained(a, n, Range(u))
      <4>1. Explained(b, screen, Range(queue)) BY <1>8, <3>1 DEF Drawn
      <4>2. ASSUME NEW c \in Range(queue) \ Range(u), NEW i \in Kept, Hit(b, c, i)
            PROVE  a[i].at > syncToken
        <5>1. reply.cmd # None BY <1>1, <4>2 DEF Unanswered
        <5>2. queue # <<>> /\ reply.cmd = Head(queue) BY <1>7, <5>1 DEF Carries
        <5>3. u = Tail(queue) BY <1>1, <1>4, <5>1 DEF Unanswered
        <5>4. Range(queue) = {Head(queue)} \cup Range(u) BY <1>5, <5>2, <5>3, TailIs
        <5>5. c = reply.cmd BY <4>2, <5>2, <5>4
        <5>6. QED BY <1>7, <3>5, <4>2, <5>1, <5>5 DEF Carries
      <4>3. QED BY <1>5, <1>9, <1>10, <3>2, <4>1, <4>2, PatchedExplained
    <3>6. needsFullSync' \/ reply.status = "ok" BY <1>4, <2>2
    <3>7. QED BY <3>1, <3>2, <3>3, <3>4, <3>5, <3>6 DEF Drawn
  <2>3. QED BY <2>1, <2>2
<1>15. ReplicaTypeOK'
  <2>1. /\ edits \in 0..MaxEdits /\ others \in 0..MaxOthers
        BY <1>3 DEF ReplicaTypeOK
  <2>2. TreeTypeOK' /\ version \in Nat BY <1>3, <1>13 DEF TreeInv, TreeTypeOK
  <2>3. screen' \in [Ids -> Row] /\ \A i \in Ids : screen'[i].at = 0 BY <1>14 DEF Screens
  <2>4. syncToken' \in 0..version' /\ queue' \in Seq(Commands) /\ needsFullSync' \in BOOLEAN
        BY <1>4, <1>5, <1>9, <2>2
  <2>5. QED BY <1>4, <2>1, <2>2, <2>3, <2>4 DEF ReplicaTypeOK
<1>16. Behind(a, syncToken', rows) BY <1>4, <1>9
<1>17. Healing(a, a)' BY <1>4, <1>6, <1>8, <1>14, <1>16 DEF Healing
<1>18. QED BY <1>4, <1>6, <1>13, <1>14, <1>15, <1>17 DEF ReplicaInv

\* Every step of the device and of other people keeps the invariant.
LEMMA ReplicaSteps == ReplicaInv /\ [ReplicaNext]_replicaVars => ReplicaInv'
<1>1. ASSUME ReplicaInv, UNCHANGED replicaVars PROVE ReplicaInv'
  <2>1. /\ version' = version /\ rows' = rows /\ screen' = screen /\ queue' = queue
        /\ syncToken' = syncToken /\ needsFullSync' = needsFullSync /\ reply' = reply
        /\ edits' = edits /\ others' = others
        BY <1>1 DEF replicaVars, treeVars, deviceVars
  <2>2. TreeInv' BY <1>1, <2>1, TreeSteps DEF ReplicaInv, treeVars
  <2>3. ReplicaTypeOK' BY <1>1, <2>1, <2>2 DEF ReplicaInv, ReplicaTypeOK, TreeInv
  <2>4. PICK b, a : Healing(b, a) BY <1>1 DEF ReplicaInv
  <2>5. Healing(b, a)' BY <2>1, <2>4 DEF Healing
  <2>6. QED BY <1>1, <2>1, <2>2, <2>3, <2>5 DEF ReplicaInv
<1>2. QED BY <1>1, TeammateSteps, MutateSteps, PushSteps, PullSteps, ReceiveSteps DEF ReplicaNext

\* With nothing queued, nothing accounts for a difference.
LEMMA HealedNow == ReplicaInv => TasksHealed
<1> SUFFICES ASSUME ReplicaInv, Settled, NEW i \in Kept
             PROVE  Shown(screen[i]) = Shown(rows[i])
    BY DEF TasksHealed, Agree, Kept
<1>1. reply = NoReply /\ queue = <<>> /\ ~needsFullSync /\ syncToken = version BY DEF Settled
<1>2. PICK b, a : Healing(b, a) BY DEF ReplicaInv
<1>3. Range(queue) = {} BY <1>1 DEF Range
<1>4. Shown(screen[i]) = Shown(b[i]) BY <1>1, <1>2, <1>3 DEF Healing, Drawn, Explained, ShownOrHit
<1>5. i \in Ids BY KeptIds
<1>6. rows[i].at <= version /\ version \in Nat /\ rows[i].at \in Nat
      BY <1>5, Rows DEF ReplicaInv, TreeInv, TreeTypeOK, Fields
<1>7. rows[i] = b[i] \/ rows[i].at > version BY <1>1, <1>2, <1>5 DEF Healing, Behind, Since
<1>8. QED BY <1>4, <1>6, <1>7

\* An add that is refused names a parent that takes no subtasks.
LEMMA AddLandsNow ==
    ReplicaInv /\ Push /\ Head(queue).type = "task_add" /\ reply'.status # "ok" =>
        LET under == Head(queue).parent
        IN  \/ Live(rows, under) /\ rows[under].parent # None
            \/ under # None /\ ~Known(rows, under)
<1> SUFFICES ASSUME ReplicaInv, Push, Head(queue).type = "task_add", reply'.status # "ok",
                    Head(queue).parent = None \/ Known(rows, Head(queue).parent)
             PROVE  Live(rows, Head(queue).parent) /\ rows[Head(queue).parent].parent # None
    OBVIOUS
<1>1. PICK c : c = Head(queue) OBVIOUS
<1>2. PICK b, a : Healing(b, a) BY DEF ReplicaInv
<1>3. /\ reply = NoReply /\ queue # <<>> /\ reply' = Answer(c, Verdict(rows, c))
      /\ queue \in Seq(Commands)
      BY <1>1, <1>2, ReplyIs DEF Push, ReplicaInv
<1>4. c \in Commands /\ c = queue[1] /\ 1 \in DOMAIN queue BY <1>1, <1>3, TailIs
<1>5. Verdict(rows, c) # "ok" BY <1>1, <1>3 DEF Answer
<1>6. Rooted(rows, screen, queue) BY <1>3 DEF ReplicaInv, Unanswered
<1>7. AddRooted(rows, queue, 1) BY <1>4, <1>6 DEF Rooted
<1>8. /\ c.type = "task_add" /\ c.project \in Projects \cup {None}
      /\ c.section \in Sections \cup {None} /\ c.parent \in Tasks \cup {None}
      BY <1>1, <1>4 DEF Commands, Cmd
<1>9. \A k \in DOMAIN queue : ~(k < 1) BY <1>3
<1>10. c.project # None => Known(rows, c.project)
       BY <1>4, <1>7, <1>8, <1>9 DEF AddRooted, HasProject
<1>11. c.section # None =>
           Gone(rows, c.project) \/ (Known(rows, c.section) /\ rows[c.section].project = c.project)
       BY <1>4, <1>7, <1>8, <1>9 DEF AddRooted, HasSection
<1>12. c.parent # None => Known(rows, c.parent) BY <1>1
<1>13. ~NotFound(rows, c) BY <1>8, <1>10, <1>11, <1>12 DEF NotFound, IsAdd
<1>14. ~WrongSection(rows, c) BY <1>8, <1>11 DEF WrongSection
<1>15. Nested(rows, c) BY <1>5, <1>13, <1>14 DEF Verdict
<1>16. QED BY <1>1, <1>8, <1>15 DEF Nested

\* What the replica is made of has its type.
THEOREM ReplicaTyped == ReplicaSpec => []ReplicaTypeOK
BY ReplicaStarts, ReplicaSteps, PTL DEF ReplicaSpec, ReplicaInv

\* Whatever the client's version of a handler did differently, and whatever
\* others did meanwhile: once everything is answered and pulled, the screen
\* shows the server's projects, sections and tasks.
THEOREM TasksHeal == ReplicaSpec => []TasksHealed
BY ReplicaStarts, ReplicaSteps, HealedNow, PTL DEF ReplicaSpec

\* A task typed on this device is refused only for its parent: one that became
\* a subtask, or that the server never took itself.
THEOREM AddsLand == ReplicaSpec => AddLands
<1>1. ReplicaInv /\ [ReplicaNext]_replicaVars =>
          [(Push /\ Head(queue).type = "task_add" /\ reply'.status # "ok") =>
               LET under == Head(queue).parent
               IN  \/ Live(rows, under) /\ rows[under].parent # None
                   \/ under # None /\ ~Known(rows, under)]_replicaVars
      BY AddLandsNow
<1>2. QED BY <1>1, ReplicaStarts, ReplicaSteps, PTL DEF ReplicaSpec, AddLands
=============================================================================
