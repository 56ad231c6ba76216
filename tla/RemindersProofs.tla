--------------------------- MODULE RemindersProofs ---------------------------
(***************************************************************************)
(* Reminders are not swallowed, and are used once, for any tasks and any   *)
(* number of commands, ticks and failures.                                 *)
(***************************************************************************)
EXTENDS Reminders, FiniteSetTheorems, TLAPS

\* The tick read a task once, and what it went through it sent or passed over.
TickHonest ==
    /\ \A t \in Tasked, a, b \in Arms : <<t, a>> \in batch /\ <<t, b>> \in batch => a = b
    /\ \A t \in Tasked, a \in Arms :
         <<t, a>> \in batch /\ t \in handled => heard[t][a] > 0 \/ a \in silent[t]

ArmsCounted == \A t \in Tasked : rem[t].arm <= edits

RemindersInv == RemindersTypeOK /\ TickHonest /\ ArmsCounted /\ NoneSwallowed

LEMMA RemindersInitHolds == RemindersInit => RemindersInv
  BY ReminderConstants
     DEF RemindersInit, RemindersInv, RemindersTypeOK, TickHonest, ArmsCounted, NoneSwallowed,
         Reminder, Arms

\* A task as a command may write it.
Edited == [at : 0 .. Horizon, sent : BOOLEAN, arm : Nat,
           open : BOOLEAN, hidden : BOOLEAN, there : BOOLEAN]

\* Commands: a new value of one task.
LEMMA EditStep ==
    ASSUME RemindersInv, NEW t \in Tasked, NEW r \in Edited,
           Edit(t, r), r.arm \in {rem[t].arm, rem[t].arm + 1},
           silent' \in [Tasked -> SUBSET Arms],
           \A s \in Tasked : silent[s] \subseteq silent'[s],
           r.sent => (rem[t].sent /\ r.arm = rem[t].arm) \/ r.arm \in silent'[t]
    PROVE  RemindersInv'
  <1>. USE ReminderConstants DEF RemindersInv, RemindersTypeOK, Edited
  <1>1. /\ rem' = [rem EXCEPT ![t] = r] /\ edits' = edits + 1 /\ edits < MaxEdits
        /\ UNCHANGED <<clock, batch, handled, stamped, heard, overrun, slips>>
    BY DEF Edit, tickVars
  <1>2. r \in Reminder /\ edits' \in Arms /\ r.arm <= edits'
    <2>1. rem[t].arm <= edits /\ rem[t].arm \in Nat /\ edits \in Nat
      BY DEF ArmsCounted, Reminder, Arms
    <2>. QED
      BY <1>1, <2>1 DEF Reminder, Arms
  <1>3. rem' \in [Tasked -> Reminder] /\ rem'[t] = r /\ \A s \in Tasked \ {t} : rem'[s] = rem[s]
    BY <1>1, <1>2
  <1>4. rem[t].arm <= r.arm
    BY DEF Reminder, Arms
  <1>5. \A s \in Tasked, a \in Arms : <<s, a>> \in batch => a <= rem'[s].arm
    <2>. SUFFICES ASSUME NEW s \in Tasked, NEW a \in Arms, <<s, a>> \in batch
                  PROVE  a <= rem'[s].arm
      OBVIOUS
    <2>1. a <= rem[s].arm /\ rem[s].arm \in Int /\ a \in Int /\ r.arm \in Int
      BY <1>2 DEF Reminder, Arms
    <2>2. CASE s = t
      BY <1>3, <1>4, <2>1, <2>2
    <2>3. CASE s # t
      BY <1>3, <2>1, <2>3
    <2>. QED
      BY <2>2, <2>3
  <1>6. RemindersTypeOK'
    BY <1>1, <1>2, <1>3, <1>5
  <1>7. TickHonest'
    BY <1>1 DEF TickHonest
  <1>8. ArmsCounted'
    <2>. SUFFICES ASSUME NEW s \in Tasked PROVE rem'[s].arm <= edits'
      BY DEF ArmsCounted
    <2>1. rem[s].arm <= edits /\ rem[s].arm \in Int /\ edits \in Int
      BY DEF ArmsCounted, Reminder, Arms
    <2>. QED
      BY <1>1, <1>2, <1>3, <2>1
  <1>9. NoneSwallowed'
    BY <1>1, <1>3 DEF NoneSwallowed
  <1>. QED
    BY <1>6, <1>7, <1>8, <1>9

LEMMA RemindersStep ==
    RemindersInv /\ [RemindersNext]_reminderVars => RemindersInv'
  <1>. SUFFICES ASSUME RemindersInv, [RemindersNext]_reminderVars PROVE RemindersInv'
    OBVIOUS
  <1>0. RemindersTypeOK /\ rem \in [Tasked -> Reminder]
    BY DEF RemindersInv, RemindersTypeOK
  <1>1. CASE UNCHANGED reminderVars
    BY <1>1 DEF reminderVars, tickVars, RemindersInv, RemindersTypeOK, TickHonest, ArmsCounted, NoneSwallowed
  <1>2. CASE Passes
    BY <1>2 DEF Passes, tickVars, RemindersInv, RemindersTypeOK, TickHonest, ArmsCounted, NoneSwallowed
  <1>3. ASSUME NEW t \in Tasked, SetReminder(t) PROVE RemindersInv'
    <2>1. PICK when \in 0 .. Horizon : Edit(t, Armed(rem[t], when)) /\ silent' = silent
      BY <1>3 DEF SetReminder, Touch
    <2> DEFINE r == Armed(rem[t], when)
    <2>2. r \in Edited /\ r.arm = rem[t].arm + 1 /\ r.sent = FALSE
      <3>1. rem[t] \in Reminder /\ rem[t].arm + 1 \in Nat
        BY <1>0, ReminderConstants DEF Reminder, Arms
      <3>. QED
        BY <3>1 DEF Armed, Edited, Reminder
    <2>3. silent' \in [Tasked -> SUBSET Arms]
      BY <1>0, <2>1 DEF RemindersTypeOK
    <2>4. Edit(t, r)
      BY <2>1
    <2>. HIDE DEF r
    <2>. QED
      BY <2>1, <2>2, <2>3, <2>4, EditStep
  <1>13. ASSUME NEW t \in Tasked, NEW r \in Reminder, Edit(t, r), silent' = silent,
               r.arm = rem[t].arm, r.sent = rem[t].sent
        PROVE  RemindersInv'
    <2>1. r \in Edited
      BY DEF Edited, Reminder, Arms
    <2>2. silent' \in [Tasked -> SUBSET Arms]
      BY <1>0, <1>13 DEF RemindersTypeOK
    <2>. QED
      BY <1>13, <2>1, <2>2, EditStep
  <1>4. ASSUME NEW t \in Tasked, Complete(t) PROVE RemindersInv'
    <2>1. CASE t \in Recurring
      <3>1. PICK when \in rem[t].at + 1 .. Horizon :
              /\ Edit(t, Rolled(rem[t], when))
              /\ silent' = [silent EXCEPT ![t] = IF when <= clock
                                                 THEN @ \cup {rem[t].arm + 1} ELSE @]
        BY <1>4, <2>1 DEF Complete, Touch
      <3>2. when \in 0 .. Horizon /\ rem[t] \in Reminder
        BY <1>0, ReminderConstants DEF Reminder
      <3> DEFINE r == Rolled(rem[t], when)
      <3>3. /\ r \in Edited
            /\ r.arm = rem[t].arm + 1 /\ r.sent = (when <= clock)
        <4>1. rem[t].arm + 1 \in Nat
          BY <3>2, ReminderConstants DEF Reminder, Arms
        <4>2. PICK past \in BOOLEAN : past = (when <= clock)
          <5>1. CASE when <= clock
            BY <5>1, TRUE \in BOOLEAN, (when <= clock) = TRUE, Zenon
          <5>2. CASE ~(when <= clock)
            BY <5>2, FALSE \in BOOLEAN, (when <= clock) = FALSE, Zenon
          <5>. QED
            BY <5>1, <5>2
        <4>3. r = [Armed(rem[t], when) EXCEPT !.sent = past]
          BY <4>2 DEF Rolled
        <4>4. [Armed(rem[t], when) EXCEPT !.sent = past] \in Edited
          BY <3>2, <4>1 DEF Armed, Edited, Reminder
        <4>5. /\ [Armed(rem[t], when) EXCEPT !.sent = past].arm = rem[t].arm + 1
              /\ [Armed(rem[t], when) EXCEPT !.sent = past].sent = past
          BY <3>2, <4>1 DEF Armed, Reminder
        <4>. QED
          BY <4>2, <4>3, <4>4, <4>5
      <3>4. rem[t].arm + 1 \in Arms
        <4>1. edits < MaxEdits
          BY <3>1 DEF Edit
        <4>2. rem[t].arm <= edits /\ rem[t].arm \in Int /\ rem[t].arm >= 0 /\ edits \in Int
          BY <1>0, <3>2 DEF RemindersInv, RemindersTypeOK, ArmsCounted, Reminder, Arms
        <4>. QED
          BY <4>1, <4>2, ReminderConstants DEF Arms
      <3>5. /\ silent' \in [Tasked -> SUBSET Arms]
            /\ \A s \in Tasked : silent[s] \subseteq silent'[s]
            /\ when <= clock => rem[t].arm + 1 \in silent'[t]
        BY <1>0, <3>1, <3>4 DEF RemindersTypeOK
      <3>. HIDE DEF r
      <3>6. Edit(t, r)
        BY <3>1 DEF r
      <3>. QED
        BY <3>3, <3>5, <3>6, EditStep
    <2>2. CASE t \notin Recurring
      <3>1. Edit(t, [rem[t] EXCEPT !.open = FALSE]) /\ silent' = silent
        BY <1>4, <2>2 DEF Complete, Touch
      <3>2. [rem[t] EXCEPT !.open = FALSE] \in Reminder
        BY <1>0 DEF Reminder
      <3>3. /\ [rem[t] EXCEPT !.open = FALSE].arm = rem[t].arm
            /\ [rem[t] EXCEPT !.open = FALSE].sent = rem[t].sent
        BY <1>0 DEF Reminder
      <3>. QED
        BY <3>1, <3>2, <3>3, <1>13
    <2>. QED
      BY <2>1, <2>2
  <1>5. ASSUME NEW t \in Tasked, Uncomplete(t) \/ Archive(t) \/ Vanish(t) PROVE RemindersInv'
    <2>1. CASE Uncomplete(t)
      <3>1. Edit(t, [rem[t] EXCEPT !.open = TRUE]) /\ silent' = silent
        BY <2>1 DEF Uncomplete, Touch
      <3>2. [rem[t] EXCEPT !.open = TRUE] \in Reminder
        BY <1>0 DEF Reminder
      <3>3. /\ [rem[t] EXCEPT !.open = TRUE].arm = rem[t].arm
            /\ [rem[t] EXCEPT !.open = TRUE].sent = rem[t].sent
        BY <1>0 DEF Reminder
      <3>. QED
        BY <3>1, <3>2, <3>3, <1>13
    <2>2. CASE Archive(t)
      <3>1. Edit(t, [rem[t] EXCEPT !.hidden = ~rem[t].hidden]) /\ silent' = silent
        BY <2>2 DEF Archive
      <3>2. [rem[t] EXCEPT !.hidden = ~rem[t].hidden] \in Reminder
        BY <1>0 DEF Reminder
      <3>3. /\ [rem[t] EXCEPT !.hidden = ~rem[t].hidden].arm = rem[t].arm
            /\ [rem[t] EXCEPT !.hidden = ~rem[t].hidden].sent = rem[t].sent
        BY <1>0 DEF Reminder
      <3>. QED
        BY <3>1, <3>2, <3>3, <1>13
    <2>3. CASE Vanish(t)
      <3>1. Edit(t, [rem[t] EXCEPT !.there = FALSE]) /\ silent' = silent
        BY <2>3 DEF Vanish, Touch
      <3>2. [rem[t] EXCEPT !.there = FALSE] \in Reminder
        BY <1>0 DEF Reminder
      <3>3. /\ [rem[t] EXCEPT !.there = FALSE].arm = rem[t].arm
            /\ [rem[t] EXCEPT !.there = FALSE].sent = rem[t].sent
        BY <1>0 DEF Reminder
      <3>. QED
        BY <3>1, <3>2, <3>3, <1>13
    <2>. QED
      BY <1>5, <2>1, <2>2, <2>3
  <1>6. CASE SelectDue
    BY <1>6 DEF SelectDue, RemindersInv, RemindersTypeOK, TickHonest, ArmsCounted, NoneSwallowed, Reminder, Arms
  <1>7. ASSUME NoTick, slips' \in Nat, UNCHANGED <<clock, edits, heard, silent>>,
               rem' \in [Tasked -> Reminder], overrun' \in [Tasked -> SUBSET Arms],
               \A t \in Tasked : rem'[t].arm = rem[t].arm, NoneSwallowed'
        PROVE  RemindersInv'
    BY <1>7 DEF NoTick, RemindersInv, RemindersTypeOK, TickHonest, ArmsCounted
  <1>8. Slip => slips' \in Nat
    <2>1. slips \in Nat
      BY <1>0 DEF RemindersTypeOK
    <2>. QED
      BY <2>1 DEF Slip
  <1>9. ASSUME NoTick, Slip, UNCHANGED <<clock, rem, overrun, edits, heard, silent>>
        PROVE  RemindersInv'
    BY <1>0, <1>7, <1>8, <1>9 DEF RemindersInv, RemindersTypeOK, NoneSwallowed
  <1>10. ASSUME NEW t \in Tasked, NEW a \in Arms, Deliver(t, a) PROVE RemindersInv'
    <2>1. <<t, a>> \in batch /\ t \notin handled /\ UNCHANGED <<clock, rem, overrun, edits>>
      BY <1>10 DEF Deliver
    <2>2. CASE rem[t].hidden
      <3>1. /\ handled' = handled \cup {t} /\ silent' = [silent EXCEPT ![t] = @ \cup {a}]
            /\ UNCHANGED <<batch, stamped, heard, slips>>
        BY <1>10, <2>2 DEF Deliver
      <3>2. RemindersTypeOK'
        BY <1>0, <2>1, <3>1 DEF RemindersTypeOK
      <3>3. \A s \in Tasked : silent[s] \subseteq silent'[s]
        BY <1>0, <3>1 DEF RemindersTypeOK
      <3>4. TickHonest'
        BY <1>0, <2>1, <3>1, <3>3 DEF RemindersInv, RemindersTypeOK, TickHonest
      <3>. QED
        BY <2>1, <3>1, <3>2, <3>3, <3>4 DEF RemindersInv, ArmsCounted, NoneSwallowed
    <2>3. CASE ~rem[t].hidden /\ (Lost \/ Fails(t))
      BY <1>9, <1>10, <2>1, <2>3 DEF Deliver
    <2>4. CASE ~rem[t].hidden /\ ~(Lost \/ Fails(t))
      <3>1. /\ heard' = [heard EXCEPT ![t][a] = @ + 1]
            /\ stamped' = stamped \cup handled /\ handled' = handled \cup {t}
            /\ UNCHANGED <<batch, silent, slips>>
        BY <1>10, <2>4 DEF Deliver
      <3>2. heard \in [Tasked -> [Arms -> Nat]]
        BY <1>0 DEF RemindersTypeOK
      <3>3. /\ heard' \in [Tasked -> [Arms -> Nat]] /\ heard'[t][a] > 0
            /\ \A s \in Tasked, b \in Arms : heard'[s][b] >= heard[s][b]
        BY <3>1, <3>2
      <3>4. RemindersTypeOK'
        BY <1>0, <2>1, <3>1, <3>3 DEF RemindersTypeOK
      <3>5. TickHonest'
        BY <1>0, <2>1, <3>1, <3>2, <3>3 DEF RemindersInv, RemindersTypeOK, TickHonest
      <3>6. NoneSwallowed'
        BY <1>0, <2>1, <3>1, <3>2, <3>3 DEF RemindersInv, NoneSwallowed, Reminder
      <3>. QED
        BY <2>1, <3>4, <3>5, <3>6 DEF RemindersInv, ArmsCounted
    <2>. QED
      BY <2>2, <2>3, <2>4
  <1>11. CASE CommitTick
    <2>1. CASE Lost
      BY <1>9, <1>11, <2>1 DEF CommitTick
    <2>2. CASE ~Lost
      <3>1. /\ rem' = [t \in Tasked |-> IF t \in handled THEN [rem[t] EXCEPT !.sent = TRUE] ELSE rem[t]]
            /\ overrun' = [t \in Tasked |->
                             IF t \in handled /\ <<t, rem[t].arm>> \notin batch
                             THEN overrun[t] \cup {rem[t].arm} ELSE overrun[t]]
            /\ NoTick /\ UNCHANGED <<clock, slips, heard, silent, edits>>
        BY <1>11, <2>2 DEF CommitTick, Stamps
      <3>2. /\ rem' \in [Tasked -> Reminder]
            /\ \A t \in Tasked : rem'[t].arm = rem[t].arm /\ (rem'[t].sent => t \in handled \/ rem[t].sent)
        BY <1>0, <3>1 DEF Reminder
      <3>3. /\ overrun' \in [Tasked -> SUBSET Arms]
            /\ \A t \in Tasked : overrun[t] \subseteq overrun'[t]
        BY <1>0, <3>1 DEF RemindersTypeOK, Reminder
      <3>4. NoneSwallowed'
        <4>. SUFFICES ASSUME NEW t \in Tasked, rem'[t].sent
                      PROVE  heard[t][rem[t].arm] > 0 \/ rem[t].arm \in silent[t] \cup overrun'[t]
          BY <3>1, <3>2 DEF NoneSwallowed
        <4>1. rem[t].arm \in Arms
          BY <1>0 DEF Reminder
        <4>2. CASE t \in handled /\ <<t, rem[t].arm>> \in batch
          BY <4>1, <4>2 DEF RemindersInv, TickHonest
        <4>3. CASE t \in handled /\ <<t, rem[t].arm>> \notin batch
          BY <3>1, <4>3
        <4>4. CASE rem[t].sent
          BY <3>3, <4>4 DEF RemindersInv, NoneSwallowed
        <4>. QED
          BY <3>2, <4>2, <4>3, <4>4
      <3>5. slips' \in Nat
        BY <1>0, <3>1 DEF RemindersTypeOK
      <3>. QED
        BY <1>7, <3>1, <3>2, <3>3, <3>4, <3>5
    <2>. QED
      BY <2>1, <2>2
  <1>12. CASE Abandon
    BY <1>9, <1>12 DEF Abandon
  <1>. QED
    BY <1>1, <1>2, <1>3, <1>4, <1>5, <1>6, <1>10, <1>11, <1>12 DEF RemindersNext, Tick

\* Types, and the order between what a tick read, went through and stamped.
THEOREM RemindersTypeCorrect == RemindersSpec => []RemindersTypeOK
  <1>1. RemindersInv => RemindersTypeOK
    BY DEF RemindersInv
  <1>. QED
    BY <1>1, RemindersInitHolds, RemindersStep, PTL DEF RemindersSpec

\* A reminder counts as sent only if it was, was used up in silence on purpose, or
\* was set while a tick that had read the row before was under way.
THEOREM NotSwallowed == RemindersSpec => []NoneSwallowed
  <1>1. RemindersInv => NoneSwallowed
    BY DEF RemindersInv
  <1>. QED
    BY <1>1, RemindersInitHolds, RemindersStep, PTL DEF RemindersSpec

-----------------------------------------------------------------------------
(* Used once *)

Gone == {t \in Tasked : ~rem[t].there}
Read == {b[1] : b \in batch}

\* A tick fails by accident, or because a task vanished while it ran; each
\* task does that to one tick.
SlipsCounted == slips <= MaxSlips + Cardinality(Gone \ Read)

\* An arming that may still be used has a failed tick for each use so far.
UsesCounted ==
    \A t \in Tasked, a \in Arms :
        /\ Uses(t, a) <= 1 + slips
        /\ <<t, a>> \in batch /\ t \notin handled => Uses(t, a) <= slips
        /\ a = rem[t].arm /\ ~rem[t].sent /\ ~(<<t, a>> \in batch /\ t \in handled) => Uses(t, a) <= slips
        /\ a > rem[t].arm => Uses(t, a) = 0

LEMMA UsesType ==
    ASSUME RemindersTypeOK, NEW t \in Tasked, NEW a \in Arms
    PROVE  Uses(t, a) \in Nat /\ heard[t][a] \in Nat
  <1>1. heard[t][a] \in Nat
    BY DEF RemindersTypeOK
  <1>. QED
    BY <1>1 DEF Uses

LEMMA GoneCounted ==
    ASSUME NEW S, NEW T, S \subseteq T, T \subseteq Tasked
    PROVE  /\ IsFiniteSet(T) /\ Cardinality(S) \in Nat /\ Cardinality(T) \in Nat
           /\ Cardinality(S) <= Cardinality(T) /\ Cardinality(Tasked) \in Nat
           /\ Cardinality(T) <= Cardinality(Tasked)
           /\ S # T => Cardinality(S) + 1 <= Cardinality(T)
  <1>1. IsFiniteSet(Tasked) /\ IsFiniteSet(T) /\ IsFiniteSet(S)
    BY ReminderConstants, FS_Subset
  <1>2. /\ Cardinality(S) \in Nat /\ Cardinality(T) \in Nat /\ Cardinality(Tasked) \in Nat
        /\ Cardinality(S) <= Cardinality(T) /\ Cardinality(T) <= Cardinality(Tasked)
        /\ (S = T \/ Cardinality(S) < Cardinality(T))
    BY <1>1, FS_CardinalityType, FS_Subset
  <1>. QED
    BY <1>1, <1>2

\* Commands: the same arming as before, or a new one that nobody has used, unless
\* a completion leaves it in the past.
LEMMA EditUses ==
    ASSUME RemindersInv, SlipsCounted, UsesCounted, NEW t \in Tasked, NEW r \in Reminder,
           Edit(t, r), r.there => rem[t].there,
           \/ r.arm = rem[t].arm /\ r.sent = rem[t].sent /\ silent' = silent
           \/ r.arm = rem[t].arm + 1 /\ silent' = silent
           \/ /\ r.arm = rem[t].arm + 1 /\ r.sent
              /\ silent' = [silent EXCEPT ![t] = @ \cup {r.arm}]
    PROVE  SlipsCounted' /\ UsesCounted'
  <1>0. RemindersTypeOK
    BY DEF RemindersInv
  <1>1. /\ rem' = [rem EXCEPT ![t] = r] /\ UNCHANGED <<batch, handled, heard, slips>>
    BY DEF Edit, tickVars
  <1>2. /\ rem'[t] = r /\ \A s \in Tasked \ {t} : rem'[s] = rem[s]
        /\ slips \in Nat /\ MaxSlips \in Nat
    BY <1>0, <1>1, ReminderConstants DEF RemindersTypeOK
  <1>3. SlipsCounted'
    <2> DEFINE S == Gone \ Read
               T == {s \in Tasked : ~rem'[s].there} \ Read
    <2>1. S \subseteq T /\ T \subseteq Tasked
      BY <1>2 DEF Gone
    <2>2. Cardinality(S) \in Nat /\ Cardinality(T) \in Nat /\ Cardinality(S) <= Cardinality(T)
      BY <2>1, GoneCounted
    <2>3. T = (Gone \ Read)'
      BY <1>1 DEF Gone, Read
    <2>4. slips <= MaxSlips + Cardinality(S)
      BY DEF SlipsCounted
    <2>. HIDE DEF S, T
    <2>5. slips <= MaxSlips + Cardinality(T)
      BY <1>2, <2>2, <2>4
    <2>. QED
      BY <1>1, <2>3, <2>5 DEF SlipsCounted
  <1>4. ASSUME NEW s \in Tasked, NEW a \in Arms
        PROVE  /\ Uses(s, a)' <= 1 + slips
               /\ <<s, a>> \in batch /\ s \notin handled => Uses(s, a)' <= slips
               /\ a = rem'[s].arm /\ ~rem'[s].sent /\ ~(<<s, a>> \in batch /\ s \in handled) => Uses(s, a)' <= slips
               /\ a > rem'[s].arm => Uses(s, a)' = 0
    <2>1. /\ Uses(s, a) <= 1 + slips
          /\ <<s, a>> \in batch /\ s \notin handled => Uses(s, a) <= slips
          /\ a = rem[s].arm /\ ~rem[s].sent /\ ~(<<s, a>> \in batch /\ s \in handled) => Uses(s, a) <= slips
          /\ a > rem[s].arm => Uses(s, a) = 0
      BY DEF UsesCounted
    <2>2. a \in Nat /\ rem[s].arm \in Nat /\ Uses(s, a) \in Nat /\ heard[s][a] \in Nat
          /\ (<<s, a>> \in batch => a <= rem[s].arm)
      <3>1. Uses(s, a) \in Nat /\ heard[s][a] \in Nat
        BY <1>0, UsesType
      <3>2. rem[s] \in Reminder /\ (<<s, a>> \in batch => a <= rem[s].arm)
        BY <1>0 DEF RemindersTypeOK
      <3>3. Arms \subseteq Nat
        BY ReminderConstants DEF Arms
      <3>4. rem[s].arm \in Arms
        BY <3>2 DEF Reminder
      <3>. QED
        BY <3>1, <3>2, <3>3, <3>4
    <2>3. CASE s # t
      <3>1. rem'[s] = rem[s] /\ silent'[s] = silent[s]
        BY <1>0, <1>2, <2>3 DEF RemindersTypeOK
      <3>2. Uses(s, a)' = Uses(s, a)
        BY <1>1, <3>1 DEF Uses
      <3>. QED
        BY <2>1, <3>1, <3>2
    <2>4. CASE s = t /\ silent' = silent
      <3>1. Uses(s, a)' = Uses(s, a) /\ rem'[s] = r
        BY <1>1, <1>2, <2>4 DEF Uses
      <3>2. CASE r.arm = rem[t].arm /\ r.sent = rem[t].sent
        BY <2>1, <2>4, <3>1, <3>2
      <3>3. CASE r.arm = rem[t].arm + 1
        <4>1. a >= r.arm => Uses(s, a) = 0
          BY <2>1, <2>2, <2>4, <3>3
        <4>. QED
          BY <1>2, <2>1, <2>2, <2>4, <3>1, <3>3, <4>1
      <3>. QED
        BY <3>2, <3>3, <2>4
    <2>5. CASE s = t /\ r.arm = rem[t].arm + 1 /\ r.sent /\ silent' = [silent EXCEPT ![t] = @ \cup {r.arm}]
      <3>1. rem'[s] = r /\ silent'[s] = silent[s] \cup {r.arm}
        BY <1>0, <1>2, <2>5 DEF RemindersTypeOK
      <3>2. CASE a = r.arm
        <4>1. Uses(s, a) = 0 /\ <<s, a>> \notin batch
          BY <2>1, <2>2, <2>5, <3>2
        <4>2. heard[s][a] = 0
          BY <2>2, <4>1 DEF Uses
        <4>3. Uses(s, a)' = 1
          BY <1>1, <3>1, <3>2, <4>2 DEF Uses
        <4>4. ~(a > rem'[s].arm) /\ rem'[s].sent
          BY <2>2, <2>5, <3>1, <3>2
        <4>5. Uses(s, a)' <= 1 + slips
          BY <1>2, <4>3
        <4>. QED
          BY <4>1, <4>4, <4>5
      <3>3. CASE a # r.arm
        <4>1. Uses(s, a)' = Uses(s, a)
          BY <1>1, <3>1, <3>3 DEF Uses
        <4>2. a > r.arm => a > rem[s].arm
          BY <2>2, <2>5
        <4>. QED
          BY <2>1, <2>5, <3>1, <3>3, <4>1, <4>2
      <3>. QED
        BY <3>2, <3>3
    <2>. QED
      BY <2>3, <2>4, <2>5
  <1>5. UsesCounted'
    BY <1>1, <1>4 DEF UsesCounted
  <1>. QED
    BY <1>3, <1>5

\* A tick that ends without a commit counts.
LEMMA FailUses ==
    ASSUME RemindersInv, SlipsCounted, UsesCounted, NoTick, Slip,
           UNCHANGED <<rem, heard, silent>>, slips < MaxSlips \/ Lost
    PROVE  SlipsCounted' /\ UsesCounted'
  <1>0. RemindersTypeOK
    BY DEF RemindersInv
  <1>1. slips \in Nat /\ MaxSlips \in Nat /\ handled \subseteq Read
    BY <1>0, ReminderConstants DEF RemindersTypeOK, Read
  <1> DEFINE S == Gone \ Read
             T == Gone
  <1>2. /\ Cardinality(S) \in Nat /\ Cardinality(T) \in Nat /\ Cardinality(S) <= Cardinality(T)
        /\ Cardinality(Tasked) \in Nat /\ Cardinality(T) <= Cardinality(Tasked)
        /\ S # T => Cardinality(S) + 1 <= Cardinality(T)
    <2>1. S \subseteq T /\ T \subseteq Tasked
      BY DEF Gone
    <2>. HIDE DEF S, T
    <2>. QED
      BY <2>1, GoneCounted
  <1>3. Lost => S # T
    <2>. SUFFICES ASSUME Lost PROVE S # T
      OBVIOUS
    <2>1. PICK t \in handled : ~rem[t].there
      BY DEF Lost
    <2>2. t \in Read /\ t \in Tasked
      BY <1>0, <1>1, <2>1 DEF RemindersTypeOK
    <2>. QED
      BY <2>1, <2>2 DEF Gone
  <1>4. slips <= MaxSlips + Cardinality(S)
    BY DEF SlipsCounted
  <1>5. (Gone \ Read)' = T
    <2>1. batch' = {} /\ rem' = rem
      BY DEF NoTick
    <2>. QED
      BY <2>1 DEF Gone, Read
  <1>. HIDE DEF S, T
  <1>6. slips < MaxSlips + Cardinality(T)
    BY <1>1, <1>2, <1>3, <1>4
  <1>7. slips' = slips + 1
    BY <1>1, <1>2, <1>6 DEF Slip
  <1>8. SlipsCounted'
    <2>1. slips + 1 <= MaxSlips + Cardinality(T)
      BY <1>1, <1>2, <1>6
    <2>. QED
      BY <1>5, <1>7, <2>1 DEF SlipsCounted
  <1>9. UsesCounted'
    <2>1. ASSUME NEW t \in Tasked, NEW a \in Arms
          PROVE  /\ Uses(t, a)' <= slips'
                 /\ Uses(t, a)' <= 1 + slips'
                 /\ a > rem[t].arm => Uses(t, a)' = 0
      <3>1. Uses(t, a)' = Uses(t, a)
        BY DEF Uses
      <3>2. Uses(t, a) \in Nat /\ Uses(t, a) <= 1 + slips /\ (a > rem[t].arm => Uses(t, a) = 0)
        BY <1>0, UsesType DEF UsesCounted
      <3>. QED
        BY <1>1, <1>7, <3>1, <3>2
    <2>. QED
      BY <2>1 DEF UsesCounted
  <1>. QED
    BY <1>8, <1>9

\* A tick sends a reminder it has not gone through, or passes over it.
LEMMA DeliverUses ==
    ASSUME RemindersInv, SlipsCounted, UsesCounted, NEW t \in Tasked, NEW a \in Arms, Deliver(t, a)
    PROVE  SlipsCounted' /\ UsesCounted'
  <1>0. RemindersTypeOK
    BY DEF RemindersInv
  <1>1. <<t, a>> \in batch /\ t \notin handled /\ rem' = rem
    BY DEF Deliver
  <1>2. CASE ~rem[t].hidden /\ Lost
    BY <1>2, FailUses DEF Deliver
  <1>3. CASE rem[t].hidden \/ ~Lost
    <2>1. /\ handled' = handled \cup {t} /\ batch' = batch /\ slips' = slips
          /\ \/ heard' = heard /\ silent' = [silent EXCEPT ![t] = @ \cup {a}]
             \/ silent' = silent /\ heard' = [heard EXCEPT ![t][a] = @ + 1]
      BY <1>3 DEF Deliver, Fails
    <2>2. SlipsCounted'
      BY <1>1, <2>1 DEF SlipsCounted, Gone, Read
    <2>3. slips \in Nat
      BY <1>0 DEF RemindersTypeOK
    <2>4. ASSUME NEW s \in Tasked, NEW b \in Arms
          PROVE  /\ Uses(s, b)' <= 1 + slips
                 /\ <<s, b>> \in batch /\ s \notin handled' => Uses(s, b)' <= slips
                 /\ b = rem[s].arm /\ ~rem[s].sent /\ ~(<<s, b>> \in batch /\ s \in handled') => Uses(s, b)' <= slips
                 /\ b > rem[s].arm => Uses(s, b)' = 0
      <3>1. /\ Uses(s, b) <= 1 + slips
            /\ <<s, b>> \in batch /\ s \notin handled => Uses(s, b) <= slips
            /\ b = rem[s].arm /\ ~rem[s].sent /\ ~(<<s, b>> \in batch /\ s \in handled) => Uses(s, b) <= slips
            /\ b > rem[s].arm => Uses(s, b) = 0
        BY DEF UsesCounted
      <3>2. Uses(s, b) \in Nat /\ heard[s][b] \in Nat
        BY <1>0, UsesType
      <3>3. CASE <<s, b>> = <<t, a>>
        <4>1. Uses(s, b)' <= Uses(s, b) + 1
          <5>1. CASE heard' = heard /\ silent' = [silent EXCEPT ![t] = @ \cup {a}]
            <6>1. heard'[s][b] = heard[s][b]
              BY <5>1
            <6>. QED
              BY <3>2, <6>1 DEF Uses
          <5>2. CASE silent' = silent /\ heard' = [heard EXCEPT ![t][a] = @ + 1]
            <6>1. heard'[s][b] = heard[s][b] + 1
              BY <1>0, <3>3, <5>2 DEF RemindersTypeOK
            <6>. QED
              BY <3>2, <5>2, <6>1 DEF Uses
          <5>. QED
            BY <2>1, <5>1, <5>2
        <4>2. Uses(s, b)' \in Nat
          <5>1. CASE heard' = heard
            BY <3>2, <5>1 DEF Uses
          <5>2. CASE silent' = silent /\ heard' = [heard EXCEPT ![t][a] = @ + 1]
            <6>1. heard'[s][b] = heard[s][b] + 1
              BY <1>0, <3>3, <5>2 DEF RemindersTypeOK
            <6>. QED
              BY <3>2, <6>1 DEF Uses
          <5>. QED
            BY <2>1, <5>1, <5>2
        <4>3. s \in handled' /\ <<s, b>> \in batch /\ s \notin handled
          BY <1>1, <2>1, <3>3
        <4>4. ~(b > rem[s].arm)
          <5>1. b <= rem[s].arm /\ b \in Nat /\ rem[s].arm \in Nat
            BY <1>0, <4>3, ReminderConstants DEF RemindersTypeOK, Reminder, Arms
          <5>. QED
            BY <5>1
        <4>. QED
          BY <2>3, <3>1, <3>2, <4>1, <4>2, <4>3, <4>4
      <3>4. CASE <<s, b>> # <<t, a>>
        <4>1. heard'[s][b] = heard[s][b] /\ (b \in silent'[s] <=> b \in silent[s])
          <5>1. CASE heard' = heard /\ silent' = [silent EXCEPT ![t] = @ \cup {a}]
            BY <1>0, <3>4, <5>1 DEF RemindersTypeOK
          <5>2. CASE silent' = silent /\ heard' = [heard EXCEPT ![t][a] = @ + 1]
            BY <1>0, <3>4, <5>2 DEF RemindersTypeOK
          <5>. QED
            BY <2>1, <5>1, <5>2
        <4>2. Uses(s, b)' = Uses(s, b)
          BY <4>1 DEF Uses
        <4>3. <<s, b>> \in batch => (s \in handled' <=> s \in handled)
          <5>1. <<s, b>> \in batch /\ s = t => b = a
            BY <1>1 DEF RemindersInv, TickHonest
          <5>. QED
            BY <2>1, <3>4, <5>1
        <4>. QED
          BY <3>1, <4>2, <4>3
      <3>. QED
        BY <3>3, <3>4
    <2>. QED
      BY <1>1, <2>1, <2>2, <2>4 DEF UsesCounted
  <1>. QED
    BY <1>2, <1>3

LEMMA UsesStep ==
    ASSUME RemindersInv, SlipsCounted, UsesCounted, [RemindersNext]_reminderVars
    PROVE  SlipsCounted' /\ UsesCounted'
  <1>0. RemindersTypeOK /\ rem \in [Tasked -> Reminder] /\ slips \in Nat
    BY DEF RemindersInv, RemindersTypeOK
  <1>1. CASE UNCHANGED <<rem, batch, handled, heard, silent, slips>>
    BY <1>1 DEF SlipsCounted, UsesCounted, Uses, Gone, Read
  <1>2. CASE Passes \/ UNCHANGED reminderVars
    BY <1>1, <1>2 DEF Passes, reminderVars, tickVars
  <1>3. ASSUME NEW t \in Tasked, NEW r, Edit(t, r), RemindersInv' PROVE r \in Reminder
    <2>1. rem' = [rem EXCEPT ![t] = r] /\ rem' \in [Tasked -> Reminder]
      BY <1>3 DEF Edit, RemindersInv, RemindersTypeOK
    <2>. QED
      BY <1>0, <2>1
  <1>4. RemindersInv'
    BY RemindersStep
  <1>5. ASSUME NEW t \in Tasked, SetReminder(t) PROVE SlipsCounted' /\ UsesCounted'
    <2>1. PICK when \in 0 .. Horizon : Edit(t, Armed(rem[t], when)) /\ silent' = silent
      BY <1>5 DEF SetReminder, Touch
    <2>2. Armed(rem[t], when).arm = rem[t].arm + 1 /\ Armed(rem[t], when).there = rem[t].there
      BY <1>0 DEF Armed, Reminder
    <2> DEFINE r == Armed(rem[t], when)
    <2>3. r \in Reminder /\ Edit(t, r) /\ r.arm = rem[t].arm + 1 /\ r.there = rem[t].there
      BY <1>3, <1>4, <2>1, <2>2
    <2>. HIDE DEF r
    <2>. QED
      BY <2>1, <2>3, EditUses
  <1>6. ASSUME NEW t \in Tasked, Complete(t), t \in Recurring PROVE SlipsCounted' /\ UsesCounted'
    <2>1. PICK when \in rem[t].at + 1 .. Horizon :
            /\ Edit(t, Rolled(rem[t], when))
            /\ silent' = [silent EXCEPT ![t] = IF when <= clock THEN @ \cup {rem[t].arm + 1} ELSE @]
      BY <1>6 DEF Complete, Touch
    <2>2. /\ Rolled(rem[t], when).arm = rem[t].arm + 1 /\ Rolled(rem[t], when).there = rem[t].there
          /\ Rolled(rem[t], when).sent = (when <= clock)
      BY <1>0 DEF Rolled, Armed, Reminder
    <2> DEFINE r == Rolled(rem[t], when)
    <2>3. r \in Reminder /\ Edit(t, r) /\ r.arm = rem[t].arm + 1 /\ r.there = rem[t].there
          /\ r.sent = (when <= clock)
      BY <1>3, <1>4, <2>1, <2>2
    <2>. HIDE DEF r
    <2>4. CASE when <= clock
      <3>1. silent' = [silent EXCEPT ![t] = @ \cup {r.arm}] /\ r.sent
        BY <2>1, <2>3, <2>4
      <3>. QED
        BY <2>3, <3>1, EditUses
    <2>5. CASE ~(when <= clock)
      <3>1. silent' = silent
        BY <1>0, <2>1, <2>5 DEF RemindersTypeOK
      <3>. QED
        BY <2>3, <3>1, EditUses
    <2>. QED
      BY <2>4, <2>5
  <1>7. ASSUME NEW t \in Tasked,
               (Complete(t) /\ t \notin Recurring) \/ Uncomplete(t) \/ Archive(t) \/ Vanish(t)
        PROVE  SlipsCounted' /\ UsesCounted'
    <2>1. \E r : /\ Edit(t, r) /\ silent' = silent /\ r.arm = rem[t].arm /\ r.sent = rem[t].sent
                 /\ r.there => rem[t].there
      <3>1. CASE Complete(t) /\ t \notin Recurring
        <4>1. Edit(t, [rem[t] EXCEPT !.open = FALSE]) /\ silent' = silent
          BY <3>1 DEF Complete, Touch
        <4>2. /\ [rem[t] EXCEPT !.open = FALSE].arm = rem[t].arm
              /\ [rem[t] EXCEPT !.open = FALSE].sent = rem[t].sent
              /\ [rem[t] EXCEPT !.open = FALSE].there = rem[t].there
          BY <1>0 DEF Reminder
        <4>. QED
          BY <4>1, <4>2
      <3>2. CASE Uncomplete(t)
        <4>1. Edit(t, [rem[t] EXCEPT !.open = TRUE]) /\ silent' = silent
          BY <3>2 DEF Uncomplete, Touch
        <4>2. /\ [rem[t] EXCEPT !.open = TRUE].arm = rem[t].arm
              /\ [rem[t] EXCEPT !.open = TRUE].sent = rem[t].sent
              /\ [rem[t] EXCEPT !.open = TRUE].there = rem[t].there
          BY <1>0 DEF Reminder
        <4>. QED
          BY <4>1, <4>2
      <3>3. CASE Archive(t)
        <4>1. Edit(t, [rem[t] EXCEPT !.hidden = ~rem[t].hidden]) /\ silent' = silent
          BY <3>3 DEF Archive
        <4>2. /\ [rem[t] EXCEPT !.hidden = ~rem[t].hidden].arm = rem[t].arm
              /\ [rem[t] EXCEPT !.hidden = ~rem[t].hidden].sent = rem[t].sent
              /\ [rem[t] EXCEPT !.hidden = ~rem[t].hidden].there = rem[t].there
          BY <1>0 DEF Reminder
        <4>. QED
          BY <4>1, <4>2
      <3>4. CASE Vanish(t)
        <4>1. Edit(t, [rem[t] EXCEPT !.there = FALSE]) /\ silent' = silent
          BY <3>4 DEF Vanish, Touch
        <4>2. /\ [rem[t] EXCEPT !.there = FALSE].arm = rem[t].arm
              /\ [rem[t] EXCEPT !.there = FALSE].sent = rem[t].sent
              /\ [rem[t] EXCEPT !.there = FALSE].there = FALSE
          BY <1>0 DEF Reminder
        <4>. QED
          BY <4>1, <4>2
      <3>. QED
        BY <1>7, <3>1, <3>2, <3>3, <3>4
    <2>2. PICK r : /\ Edit(t, r) /\ silent' = silent /\ r.arm = rem[t].arm /\ r.sent = rem[t].sent
                   /\ r.there => rem[t].there
      BY <2>1
    <2>. QED
      BY <1>3, <1>4, <2>2, EditUses
  <1>8. CASE SelectDue
    <2>1. /\ batch = {} /\ batch' = {<<t, rem[t].arm>> : t \in {u \in Tasked : Ripe(u)}}
          /\ handled' = {} /\ UNCHANGED <<rem, heard, silent, slips>>
      BY <1>8 DEF SelectDue
    <2>2. SlipsCounted'
      <3>1. Gone' = Gone
        BY <2>1 DEF Gone
      <3>2. Gone \ Read = Gone
        BY <2>1 DEF Read
      <3>3. \A b \in batch' : b[1] \notin Gone
        BY <2>1 DEF Ripe, Gone
      <3>4. (Gone \ Read)' = Gone
        BY <3>1, <3>3 DEF Read
      <3>. QED
        BY <2>1, <3>2, <3>4 DEF SlipsCounted
    <2>3. ASSUME NEW t \in Tasked, NEW a \in Arms, <<t, a>> \in batch'
          PROVE  Uses(t, a) <= slips
      <3>1. a = rem[t].arm /\ Ripe(t)
        BY <2>1, <2>3
      <3>2. ~rem[t].sent /\ <<t, a>> \notin batch
        BY <2>1, <3>1 DEF Ripe
      <3>. QED
        BY <3>1, <3>2 DEF UsesCounted
    <2>4. ASSUME NEW t \in Tasked, NEW a \in Arms, a = rem[t].arm, ~rem[t].sent
          PROVE  Uses(t, a) <= slips
      BY <2>1, <2>4 DEF UsesCounted
    <2>5. \A t \in Tasked, a \in Arms : Uses(t, a)' = Uses(t, a)
      BY <2>1 DEF Uses
    <2>6. UsesCounted'
      BY <2>1, <2>3, <2>4, <2>5 DEF UsesCounted
    <2>. QED
      BY <2>2, <2>6
  <1>9. ASSUME NEW t \in Tasked, NEW a \in Arms, Deliver(t, a) PROVE SlipsCounted' /\ UsesCounted'
    BY <1>9, DeliverUses
  <1>10. CASE CommitTick
    <2>1. CASE Lost
      BY <1>10, <2>1, FailUses DEF CommitTick
    <2>2. CASE ~Lost
      <3>1. /\ rem' = [t \in Tasked |-> IF t \in handled THEN [rem[t] EXCEPT !.sent = TRUE] ELSE rem[t]]
            /\ batch' = {} /\ handled' = {} /\ UNCHANGED <<slips, heard, silent>>
            /\ handled = Read
        BY <1>10, <2>2 DEF CommitTick, Stamps, NoTick, Read
      <3>2. \A t \in Tasked : /\ rem'[t].arm = rem[t].arm /\ rem'[t].there = rem[t].there
                              /\ ~rem'[t].sent => t \notin handled /\ ~rem[t].sent
        BY <1>0, <3>1 DEF Reminder
      <3>3. SlipsCounted'
        <4>1. Gone' = Gone
          BY <3>2 DEF Gone
        <4>2. (Gone \ Read)' = Gone
          BY <3>1, <4>1 DEF Read
        <4>3. /\ Cardinality(Gone \ Read) \in Nat /\ Cardinality(Gone) \in Nat
              /\ Cardinality(Gone \ Read) <= Cardinality(Gone)
          <5>1. Gone \ Read \subseteq Gone /\ Gone \subseteq Tasked
            BY DEF Gone
          <5>. QED
            BY <5>1, GoneCounted
        <4>4. slips <= MaxSlips + Cardinality(Gone)
          BY <1>0, <4>3, ReminderConstants DEF SlipsCounted
        <4>. QED
          BY <3>1, <4>2, <4>4 DEF SlipsCounted
      <3>4. \A t \in Tasked, a \in Arms : Uses(t, a)' = Uses(t, a)
        BY <3>1 DEF Uses
      <3>5. ASSUME NEW t \in Tasked, NEW a \in Arms, a = rem[t].arm, ~rem'[t].sent
            PROVE  Uses(t, a) <= slips
        <4>1. t \notin handled /\ ~rem[t].sent
          BY <3>2, <3>5
        <4>. QED
          BY <3>5, <4>1 DEF UsesCounted
      <3>6. UsesCounted'
        BY <3>1, <3>2, <3>4, <3>5 DEF UsesCounted
      <3>. QED
        BY <3>3, <3>6
    <2>. QED
      BY <2>1, <2>2
  <1>11. CASE Abandon
    BY <1>11, FailUses DEF Abandon
  <1>. QED
    BY <1>2, <1>5, <1>6, <1>7, <1>8, <1>9, <1>10, <1>11 DEF RemindersNext, Tick

\* However commands and ticks interleave, a reminder is used up once, sent or in
\* silence, and again only for a tick that failed (reminders.py: the stamps are
\* committed when every message is out).
THEOREM OnceEach == RemindersSpec => []UsedOnce
  <1>1. RemindersInit => RemindersInv /\ SlipsCounted /\ UsesCounted
    <2>. SUFFICES ASSUME RemindersInit PROVE SlipsCounted /\ UsesCounted
      BY RemindersInitHolds
    <2>1. slips = 0 /\ MaxSlips \in Nat /\ \A t \in Tasked, a \in Arms : Uses(t, a) = 0
      BY ReminderConstants DEF RemindersInit, Uses
    <2>2. Cardinality(Gone \ Read) \in Nat
      <3>1. Gone \ Read \subseteq Gone /\ Gone \subseteq Tasked
        BY DEF Gone
      <3>. QED
        BY <3>1, GoneCounted
    <2>. QED
      BY <2>1, <2>2 DEF SlipsCounted, UsesCounted
  <1>2. RemindersInv /\ SlipsCounted /\ UsesCounted /\ [RemindersNext]_reminderVars
          => (RemindersInv /\ SlipsCounted /\ UsesCounted)'
    BY RemindersStep, UsesStep
  <1>3. UsesCounted => UsedOnce
    BY DEF UsesCounted, UsedOnce
  <1>. QED
    BY <1>1, <1>2, <1>3, PTL DEF RemindersSpec
=============================================================================
