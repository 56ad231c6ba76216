----------------------------- MODULE MCServices -----------------------------
(***************************************************************************)
(* Five parts of the server that share no state the models look at:        *)
(* accounts, sessions, attachments, reminders, recurring tasks.  A         *)
(* behaviour is a behaviour of one of them, chosen at the start, the       *)
(* others at rest: the reachable states are those of the five, one beside  *)
(* the other.                                                              *)
(*                                                                         *)
(* Accounts 1 and 2 share workspaces a (both own it) and b (2 owns it, 1   *)
(* is a member); account 3 has none and holds an open invite to a.         *)
(***************************************************************************)
EXTENDS Accounts, Sessions, Attachments, Reminders, Recurrence

VARIABLE part
allVars == <<part, accountVars, sessionVars, attachmentVars, reminderVars, rollVars>>

MCSeedRole == [w \in Spaces |->
    CASE w = "a" -> [u \in Users |-> IF u = 3 THEN "none" ELSE "owner"]
      [] w = "b" -> [u \in Users |-> CASE u = 1 -> "member" [] u = 2 -> "owner" [] u = 3 -> "none"]
      [] OTHER -> Nobody]

MCSeedInvite == [x \in Invites |-> [is |-> IF x = "i" THEN "open" ELSE "unused",
                                    space |-> "a", role |-> "admin", to |-> 3]]

Of(ops, by, spaces, on, roles, inv) ==
    [op : ops, by : by, space : spaces, on : on, role : roles, inv : inv]

MCAsks ==
    Of({"role"}, {1, 2}, {"a", "b"}, {1, 2}, {"owner", "member"}, {"i"})
    \cup Of({"remove"}, {1, 2}, {"a", "b"}, {1, 2}, {"member"}, {"i"})
    \cup Of({"delete"}, {1, 2}, {"a", "b"}, {1}, {"member"}, {"i"})
    \cup Of({"create"}, {3}, {"a"}, {3}, {"member"}, {"i"})
    \cup Of({"invite"}, {1}, {"a"}, {1}, {"viewer"}, {"j"})
    \cup Of({"revoke"}, {2}, {"a"}, {2}, {"member"}, {"i"})
    \cup Of({"accept"}, {3}, {"a"}, {3}, {"member"}, {"i", "j"})
    \cup Of({"rescue"}, {3}, {"a"}, {3}, {"member"}, {"i"})

\* The first login is ann's, the second bob's.
MCUserOf == [x \in Families |-> IF x = 1 THEN "ann" ELSE "bob"]

MCTaskOf == [u \in Uploads |-> IF u = "u1" THEN "p" ELSE "q"]

\* Jan 31, Feb 29 and Mar 14, 2024, all a task can be given; days around them.
Rule(freq, interval, byday) == [freq |-> freq, interval |-> interval, byday |-> byday]
MCRules ==
    {Rule("DAILY", 3, {}), Rule("WEEKLY", 2, {}), Rule("WEEKLY", 2, {0, 3}),
     Rule("WEEKLY", 1, {6}), Rule("MONTHLY", 1, {}), Rule("MONTHLY", 2, {}),
     Rule("YEARLY", 1, {})}
MCAnchors == {30, 59, 73}
MCInstants == {24 * 62 + 20}
MCTodays == {59, 89}

ServicesInit ==
    /\ part \in {"accounts", "sessions", "attachments", "reminders", "recurrence"}
    /\ AccountsInit /\ SessionsInit /\ AttachmentsInit /\ RemindersInit /\ RecurrenceInit

ServicesNext ==
    /\ UNCHANGED part
    /\ \/ /\ part = "accounts" /\ AccountsNext
          /\ UNCHANGED <<sessionVars, attachmentVars, reminderVars, rollVars>>
       \/ /\ part = "sessions" /\ SessionsNext
          /\ UNCHANGED <<accountVars, attachmentVars, reminderVars, rollVars>>
       \/ /\ part = "attachments" /\ AttachmentsNext
          /\ UNCHANGED <<accountVars, sessionVars, reminderVars, rollVars>>
       \/ /\ part = "reminders" /\ RemindersNext
          /\ UNCHANGED <<accountVars, sessionVars, attachmentVars, rollVars>>
       \/ /\ part = "recurrence" /\ RecurrenceNext
          /\ UNCHANGED <<accountVars, sessionVars, attachmentVars, reminderVars>>

\* Each part with the fairness of its module; a part at rest has nothing to do.
ServicesSpec ==
    /\ ServicesInit /\ [][ServicesNext]_allVars
    /\ AccountsFairness /\ SessionsFairness /\ RemindersFairness
=============================================================================
