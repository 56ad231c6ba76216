----------------------------- MODULE Reminders -----------------------------
(***************************************************************************)
(* Reminder delivery (reminders.py, delivery.py) beside the commands that  *)
(* set, move and withdraw reminders (_apply_task_fields and                *)
(* h_task_complete of sync/commands.py).  The tick reads the rows that are *)
(* due, sends them one by one, and commits their stamps at the end; a      *)
(* stamp is written, and its row locked, when the next message goes out.   *)
(*                                                                         *)
(* Time passes in units; an arming is one value a reminder was given.      *)
(* Left out: texts, recipients, which channels there are.                  *)
(***************************************************************************)
EXTENDS Naturals, FiniteSets

CONSTANTS
    Tasked,      \* tasks with a reminder to set
    Recurring,   \* those with a recurrence rule
    Broken,      \* those whose recipient's channels always fail
    Horizon,     \* bound: the clock
    MaxEdits,    \* bound: commands
    MaxSlips     \* bound: ticks that fail

ASSUME ReminderConstants ==
    /\ IsFiniteSet(Tasked) /\ Recurring \subseteq Tasked /\ Broken \subseteq Tasked
    /\ Horizon \in Nat /\ MaxEdits \in Nat /\ MaxSlips \in Nat

VARIABLES
    clock,
    rem,       \* the task: reminder_at (0: none), sent, which arming, open, ...
    batch,     \* the tick: what it read as due
    handled,   \* ... went through
    stamped,   \* ... and wrote stamps for, not committed yet
    heard,     \* history: how often an arming was sent
    silent,    \* history: armings used up in silence on purpose
    overrun,   \* history: armings stamped by a tick that had read an older one
    slips,     \* ticks that failed
    edits      \* commands so far

tickVars == <<batch, handled, stamped>>
reminderVars == <<clock, rem, tickVars, heard, silent, overrun, slips, edits>>

Arms == 0 .. MaxEdits
Ripe(t) ==
    /\ rem[t].there /\ rem[t].open /\ ~rem[t].sent
    /\ rem[t].at # 0 /\ rem[t].at <= clock

RemindersInit ==
    /\ clock = 1
    /\ rem = [t \in Tasked |-> [at |-> 0, sent |-> FALSE, arm |-> 0, open |-> TRUE,
                                hidden |-> FALSE, there |-> TRUE]]
    /\ batch = {} /\ handled = {} /\ stamped = {}
    /\ heard = [t \in Tasked |-> [a \in Arms |-> 0]]
    /\ silent = [t \in Tasked |-> {}] /\ overrun = [t \in Tasked |-> {}]
    /\ slips = 0 /\ edits = 0

Passes ==
    /\ clock < Horizon /\ clock' = clock + 1
    /\ UNCHANGED <<rem, tickVars, heard, silent, overrun, slips, edits>>

-----------------------------------------------------------------------------
(* Commands: none gets past a row the tick has written *)

Edit(t, r) ==
    /\ rem[t].there /\ rem' = [rem EXCEPT ![t] = r]
    /\ edits < MaxEdits /\ edits' = edits + 1
    /\ UNCHANGED <<clock, tickVars, heard, overrun, slips>>
Touch(t, r) == t \notin stamped /\ Edit(t, r)

\* Setting a reminder arms it, whatever was sent before.
KeepStamp(r, when) == [r EXCEPT !.at = when, !.arm = @ + 1]   \* mutant
Armed(r, when) == [r EXCEPT !.at = when, !.arm = @ + 1, !.sent = FALSE]
SetReminder(t) ==
    /\ \E when \in 0 .. Horizon : Touch(t, Armed(rem[t], when))
    /\ UNCHANGED silent

\* A recurring task rolls on; a reminder still in the past is marked sent.
AlwaysArmed(r, when) == Armed(r, when)   \* mutant
Rolled(r, when) == [Armed(r, when) EXCEPT !.sent = when <= clock]
Complete(t) ==
    /\ rem[t].open
    /\ IF t \in Recurring
       THEN /\ rem[t].at # 0
            /\ \E when \in rem[t].at + 1 .. Horizon :
                 /\ Touch(t, Rolled(rem[t], when))
                 /\ silent' = [silent EXCEPT ![t] = IF when <= clock
                                                    THEN @ \cup {rem[t].arm + 1} ELSE @]
       ELSE Touch(t, [rem[t] EXCEPT !.open = FALSE]) /\ UNCHANGED silent

Uncomplete(t) ==
    /\ ~rem[t].open /\ Touch(t, [rem[t] EXCEPT !.open = TRUE])
    /\ UNCHANGED silent

\* The task's project is archived or taken out again.
Archive(t) == Edit(t, [rem[t] EXCEPT !.hidden = ~@]) /\ UNCHANGED silent

\* With its workspace, for good.
Vanish(t) == Touch(t, [rem[t] EXCEPT !.there = FALSE]) /\ UNCHANGED silent

-----------------------------------------------------------------------------
(* The tick *)

SelectDue ==
    /\ batch = {} /\ \E t \in Tasked : Ripe(t)
    /\ batch' = {<<t, rem[t].arm>> : t \in {u \in Tasked : Ripe(u)}}
    /\ handled' = {} /\ stamped' = {}
    /\ UNCHANGED <<clock, rem, heard, silent, overrun, slips, edits>>

KeepsHandled == batch' = {} /\ UNCHANGED <<handled, stamped>>   \* mutant
Slip == slips' = IF slips < MaxSlips + Cardinality(Tasked) THEN slips + 1 ELSE slips
NoTick == batch' = {} /\ handled' = {} /\ stamped' = {}

\* A stamp that finds its row gone fails the whole tick.
Lost == \E t \in handled : ~rem[t].there

\* A channel that fails is logged, no more.
OnBroken(t) == t \in Broken   \* mutant
Fails(t) == FALSE

\* Sending reads the channels, which writes the stamps so far.
Deliver(t, a) ==
    /\ <<t, a>> \in batch /\ t \notin handled
    /\ IF rem[t].hidden
       THEN /\ handled' = handled \cup {t}
            /\ silent' = [silent EXCEPT ![t] = @ \cup {a}]
            /\ UNCHANGED <<batch, stamped, heard, slips>>
       ELSE IF Lost \/ Fails(t)
       THEN NoTick /\ Slip /\ UNCHANGED <<heard, silent>>
       ELSE /\ heard' = [heard EXCEPT ![t][a] = @ + 1]
            /\ stamped' = stamped \cup handled
            /\ handled' = handled \cup {t}
            /\ UNCHANGED <<batch, silent, slips>>
    /\ UNCHANGED <<clock, rem, overrun, edits>>

\* The rest of the stamps, and the commit.
Stamps(t) == t \in handled
CommitTick ==
    /\ batch # {} /\ handled = {b[1] : b \in batch}
    /\ NoTick
    /\ IF Lost THEN Slip /\ UNCHANGED <<rem, overrun>>
       ELSE /\ rem' = [t \in Tasked |-> IF Stamps(t) THEN [rem[t] EXCEPT !.sent = TRUE] ELSE rem[t]]
            /\ overrun' = [t \in Tasked |->
                             IF t \in handled /\ <<t, rem[t].arm>> \notin batch
                             THEN overrun[t] \cup {rem[t].arm} ELSE overrun[t]]
            /\ UNCHANGED slips
    /\ UNCHANGED <<clock, heard, silent, edits>>

\* A crash, or the database gone.
Abandon ==
    /\ batch # {} /\ slips < MaxSlips /\ Slip
    /\ NoTick /\ UNCHANGED <<clock, rem, heard, silent, overrun, edits>>

Tick == SelectDue \/ (\E t \in Tasked, a \in Arms : Deliver(t, a)) \/ CommitTick

RemindersNext ==
    \/ Passes \/ Tick \/ Abandon
    \/ \E t \in Tasked :
         SetReminder(t) \/ Complete(t) \/ Uncomplete(t) \/ Archive(t) \/ Vanish(t)

RemindersSpec == RemindersInit /\ [][RemindersNext]_reminderVars

\* The loop never dies.
RemindersFairness == WF_reminderVars(Tick)

-----------------------------------------------------------------------------
(* Properties *)

\* Types; the tick's three sets lie in each other, and an arming it read is not
\* newer than the task's.
Reminder == [at : 0 .. Horizon, sent : BOOLEAN, arm : Arms,
             open : BOOLEAN, hidden : BOOLEAN, there : BOOLEAN]
RemindersTypeOK ==
    /\ clock \in Nat /\ slips \in Nat /\ edits \in Arms
    /\ rem \in [Tasked -> Reminder]
    /\ heard \in [Tasked -> [Arms -> Nat]]
    /\ silent \in [Tasked -> SUBSET Arms] /\ overrun \in [Tasked -> SUBSET Arms]
    /\ batch \subseteq Tasked \X Arms
    /\ stamped \subseteq handled /\ handled \subseteq {b[1] : b \in batch}
    /\ \A t \in Tasked, a \in Arms : <<t, a>> \in batch => a <= rem[t].arm

\* A reminder counts as sent only if it was: sent, used up in silence in an
\* archived project or by a roll into the past, or lost to a tick that read the
\* row before it was set (the race README.md describes).
NoneSwallowed ==
    \A t \in Tasked : rem[t].sent =>
        \/ heard[t][rem[t].arm] > 0
        \/ rem[t].arm \in silent[t] \cup overrun[t]

\* However commands and ticks interleave, a reminder is used up once, sent or in
\* silence (one a completion leaves in the past never pushes); again only for a
\* tick that failed.
Uses(t, a) == heard[t][a] + (IF a \in silent[t] THEN 1 ELSE 0)
UsedOnce == \A t \in Tasked, a \in Arms : Uses(t, a) <= 1 + slips

\* Every due reminder is dealt with in the end: again and again none is left.
NoneWaitsForever == []<>(\A t \in Tasked : ~Ripe(t))
=============================================================================
