----------------------------- MODULE Recurrence -----------------------------
(***************************************************************************)
(* Completing a recurring task: next_occurrence and roll_forward           *)
(* (sync/recurrence.py, mirrored by the client's recurrence.ts) under      *)
(* h_task_complete's choice of the day.                                    *)
(*                                                                         *)
(* A day is a number, 0 being Monday 2024-01-01; an instant is an hour,    *)
(* 24 to the UTC day.  Left out: parsing of rules, the years 2101 (no leap *)
(* year) and 9999 (where dates end).                                       *)
(***************************************************************************)
EXTENDS Integers, FiniteSets, FiniteSetsExt

CONSTANTS
    Rules,      \* [freq, interval, byday]: rules tasks are given
    Anchors,    \* days they are given
    Instants,   \* reminders they are given
    Todays,     \* UTC days completions arrive on
    Offsets,    \* the device's hours east of UTC
    MaxRolls    \* bound: completions

VARIABLES
    rolling,    \* the task: rule, start_date, deadline, reminder_at
    before,     \* it before the last completion, and the completion's day and offset
    rolls       \* completions so far

rollVars == <<rolling, before, rolls>>

Unset == -1

-----------------------------------------------------------------------------
(* Dates *)

Leap(y) == y % 4 = 0
MonthLength(y, m) ==
    CASE m = 2 -> IF Leap(y) THEN 29 ELSE 28
      [] m \in {4, 6, 9, 11} -> 30
      [] OTHER -> 31
YearStart(y) == 365 * (y - 2024) + (y - 2024 + 3) \div 4
MonthStart(y, m) ==
    YearStart(y) + <<0, 31, 59, 90, 120, 151, 181, 212, 243, 273, 304, 334>>[m]
        + (IF m > 2 /\ Leap(y) THEN 1 ELSE 0)
DayOf(y, m, d) == MonthStart(y, m) + d - 1

YearOf(n) == CHOOSE y \in 2024 .. 2024 + n \div 365 : YearStart(y) <= n /\ n < YearStart(y + 1)
MonthOf(n) ==
    LET y == YearOf(n) IN
    CHOOSE m \in 1 .. 12 : MonthStart(y, m) <= n /\ n < MonthStart(y, m) + MonthLength(y, m)
DateOf(n) == n - MonthStart(YearOf(n), MonthOf(n)) + 1
Weekday(n) == n % 7

LesserOf(a, b) == IF a < b THEN a ELSE b
GreaterOf(a, b) == IF a > b THEN a ELSE b

AddMonths(n, k) ==
    LET total == MonthOf(n) - 1 + k
        y == YearOf(n) + total \div 12
        m == (total % 12) + 1
    IN DayOf(y, m, LesserOf(DateOf(n), MonthLength(y, m)))
AddYears(n, k) ==
    LET y == YearOf(n) + k
    IN DayOf(y, MonthOf(n), LesserOf(DateOf(n), MonthLength(y, MonthOf(n))))

-----------------------------------------------------------------------------
(* next_occurrence *)

Nth(anchor, rule, k) ==
    LET i == rule.interval * k IN
    CASE rule.freq = "DAILY" -> anchor + i
      [] rule.freq = "WEEKLY" -> anchor + 7 * i
      [] rule.freq = "MONTHLY" -> AddMonths(anchor, i)
      [] rule.freq = "YEARLY" -> AddYears(anchor, i)

MonthIndex(n) == 12 * YearOf(n) + MonthOf(n)

\* Where the scan begins.
StartRounded(anchor, rule, after) ==   \* mutant
    IF rule.freq = "MONTHLY" /\ after > anchor
    THEN (MonthIndex(after) - MonthIndex(anchor)) \div rule.interval + 1
    ELSE 0
StartK(anchor, rule, after) ==
    IF after <= anchor THEN 0
    ELSE CASE rule.freq = "DAILY" -> (after - anchor) \div rule.interval
           [] rule.freq = "WEEKLY" -> (after - anchor) \div (7 * rule.interval)
           [] rule.freq = "MONTHLY" ->
                (MonthIndex(after) - MonthIndex(anchor)) \div rule.interval
           [] rule.freq = "YEARLY" -> (YearOf(after) - YearOf(anchor)) \div rule.interval

ScanLimit == 64
FirstAfter(S, after) == Min({n \in S : n > after})

NextOccurrence(rule, anchor, after) ==
    IF rule.freq = "WEEKLY" /\ rule.byday # {}
    THEN LET monday == anchor - Weekday(anchor)
             first == GreaterOf(0, (after - monday) \div (7 * rule.interval))
         IN FirstAfter({monday + 7 * rule.interval * k + wd :
                            k \in first .. first + ScanLimit - 1, wd \in rule.byday}, after)
    ELSE LET first == StartK(anchor, rule, after)
             k == CHOOSE k \in first .. first + ScanLimit - 1 :
                      /\ Nth(anchor, rule, k) > after
                      /\ \A j \in first .. k - 1 : Nth(anchor, rule, j) <= after
         IN Nth(anchor, rule, k)

-----------------------------------------------------------------------------
(* roll_forward *)

\* The reminder only moves forward, by whole days.
Shifted(instant, days) ==
    IF instant # Unset /\ days > 0 THEN instant + 24 * days ELSE instant

UtcDay(instant, offset) == instant \div 24   \* mutant
LocalDay(instant, offset) == (instant + offset) \div 24

RollForward(t, today, offset) ==
    LET rule == t.rule IN
    CASE t.start # Unset ->
           LET new == NextOccurrence(rule, t.start, GreaterOf(t.start, today)) IN
           [t EXCEPT !.start = new,
                     !.due = IF @ = Unset THEN @ ELSE @ + (new - t.start),
                     !.rem = Shifted(@, new - t.start)]
      [] t.start = Unset /\ t.due # Unset ->
           LET new == NextOccurrence(rule, t.due, GreaterOf(t.due, today)) IN
           [t EXCEPT !.due = new, !.rem = Shifted(@, new - t.due)]
      [] OTHER ->
           LET new == NextOccurrence(rule, today, today) IN
           [t EXCEPT !.start = new, !.rem = Shifted(@, new - LocalDay(@, offset))]

\* The device's day, if it can be today anywhere; else the UTC day.
CompletionToday(claimed, utc) == IF claimed \in utc - 1 .. utc + 1 THEN claimed ELSE utc

-----------------------------------------------------------------------------
NoTask == [rule |-> [freq |-> "NONE", interval |-> 1, byday |-> {}],
           start |-> Unset, due |-> Unset, rem |-> Unset]

RecurrenceInit == rolling = NoTask /\ before = [task |-> NoTask, today |-> 0, offset |-> 0] /\ rolls = 0

\* task_add or task_update with a rule.
GiveRule ==
    /\ rolling = NoTask
    /\ \E rule \in Rules, start, due \in Anchors \cup {Unset}, rem \in Instants \cup {Unset} :
         rolling' = [rule |-> rule, start |-> start, due |-> due, rem |-> rem]
    /\ UNCHANGED <<before, rolls>>

RollOn ==
    /\ rolling # NoTask /\ rolls < MaxRolls /\ rolls' = rolls + 1
    /\ \E utc \in Todays, offset \in Offsets : \E claimed \in utc - 2 .. utc + 2 :
         LET today == CompletionToday(claimed, utc) IN
         /\ rolling' = RollForward(rolling, today, offset)
         /\ before' = [task |-> rolling, today |-> today, offset |-> offset]

RecurrenceNext == GiveRule \/ RollOn
RecurrenceSpec == RecurrenceInit /\ [][RecurrenceNext]_rollVars

-----------------------------------------------------------------------------
(* Properties *)

\* The series, by what a date in it looks like (docs/api/CONTRACT.md:189-195).
InSeries(rule, anchor, n) ==
    CASE rule.freq = "DAILY" -> (n - anchor) % rule.interval = 0
      [] rule.freq = "WEEKLY" /\ rule.byday = {} -> (n - anchor) % (7 * rule.interval) = 0
      [] rule.freq = "WEEKLY" /\ rule.byday # {} ->
           /\ Weekday(n) \in rule.byday
           /\ (n - Weekday(n) - (anchor - Weekday(anchor))) % (7 * rule.interval) = 0
      [] rule.freq \in {"MONTHLY", "YEARLY"} ->
           LET step == IF rule.freq = "MONTHLY" THEN rule.interval ELSE 12 * rule.interval IN
           /\ (MonthIndex(n) - MonthIndex(anchor)) % step = 0
           /\ DateOf(n) = LesserOf(DateOf(anchor), MonthLength(YearOf(n), MonthOf(n)))

NextIn(rule, anchor, after, new) ==
    /\ new > after /\ InSeries(rule, anchor, new)
    /\ \A n \in after + 1 .. new - 1 : ~InSeries(rule, anchor, n)

\* A completed task moves to the very next date of its series after today (and
\* after the date it had), no date skipped, whatever index the scan starts from.
NextIsNext ==
    rolls > 0 =>
        LET t == before.task
            today == before.today
        IN CASE t.start # Unset ->
                  NextIn(t.rule, t.start, GreaterOf(t.start, today), rolling.start)
             [] t.start = Unset /\ t.due # Unset ->
                  NextIn(t.rule, t.due, GreaterOf(t.due, today), rolling.due)
             [] OTHER -> NextIn(t.rule, today, today, rolling.start)

\* The reminder never moves back, keeps its time of day, and stays as far from
\* the date it belongs to as it was; one of a task without dates ends up on the
\* new day as the device counts days, or was on a later one already.
ReminderFollows ==
    rolls > 0 /\ before.task.rem # Unset =>
        LET t == before.task
            east == before.offset
        IN
        /\ rolling.rem >= t.rem /\ (rolling.rem - t.rem) % 24 = 0
        /\ t.start # Unset => rolling.rem - t.rem = 24 * (rolling.start - t.start)
        /\ t.start = Unset /\ t.due # Unset => rolling.rem - t.rem = 24 * (rolling.due - t.due)
        /\ t.start = Unset /\ t.due = Unset =>
             \/ (rolling.rem + east) \div 24 = rolling.start
             \/ rolling.rem = t.rem /\ (t.rem + east) \div 24 > rolling.start
=============================================================================
