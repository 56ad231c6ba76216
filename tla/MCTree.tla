------------------------------- MODULE MCTree -------------------------------
(***************************************************************************)
(* A small tree: project p with section s, task t in it with subtask u,    *)
(* a note on u; a second project and a third task may be added.            *)
(***************************************************************************)
EXTENDS TreeReplica

CONSTANTS p, q, s, t, u, w, n

At(project, section, parent) ==
    [is |-> "live", project |-> project, section |-> section, parent |-> parent, at |-> 0]

MCSeed == [i \in Ids |->
    CASE i = p -> At(None, None, None)
      [] i = s -> At(p, None, None)
      [] i = t -> At(p, s, None)
      [] i = u -> At(p, s, t)
      [] i = n -> At(None, None, u)
      [] OTHER -> Absent]

=============================================================================
