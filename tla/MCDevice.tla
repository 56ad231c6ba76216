------------------------------ MODULE MCDevice ------------------------------
(***************************************************************************)
(* Two parts of a device that share no state the models look at: a tree of *)
(* tasks and its optimistic copy, and the sessions of a phone.  A          *)
(* behaviour is a behaviour of one of them, chosen at the start, the other *)
(* at rest.                                                                *)
(***************************************************************************)
EXTENDS MCTree, MCPhone

VARIABLE part
allVars == <<part, replicaVars, phoneVars>>

DeviceInit == part \in {"tree", "phone"} /\ ReplicaInit /\ PhoneInit

\* Bounds: ann signs in first; a membership that changes takes the place of two
\* taps and a trouble.
PhoneBounds ==
    /\ taps = 1 => tokens # bob
    /\ 2 * changes + taps <= MaxTaps /\ changes + troubles <= MaxTroubles

DeviceNext ==
    /\ UNCHANGED part
    /\ \/ part = "tree" /\ ReplicaNext /\ UNCHANGED phoneVars
       \/ part = "phone" /\ PhoneNext /\ PhoneBounds' /\ UNCHANGED replicaVars

DeviceSpec == DeviceInit /\ [][DeviceNext]_allVars

\* Types of both parts, and one loop of a session that waits for a workspace.
DeviceTypeOK == ReplicaTypeOK /\ PhoneTypeOK /\ OneHold
=============================================================================
