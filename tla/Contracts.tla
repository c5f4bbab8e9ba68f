----------------------------- MODULE Contracts -----------------------------
(***************************************************************************)
(* One person's contract over time: the working weekdays and the weekly    *)
(* hours, each a dated history, beside the current values kept on the      *)
(* user, and the daily target every balance and report is computed from.   *)
(* Nothing computed is stored, so a history that is wrong today is wrong   *)
(* for every week ever worked.                                             *)
(*                                                                         *)
(* A week has WeekLength weekdays, all of which may be working days.  The  *)
(* rules on approvers and on who may edit whom are in Accounts.            *)
(***************************************************************************)
EXTENDS Integers, FiniteSetsExt

CONSTANTS
  FinalDay,   \* bound: days 1, 2, ... FinalDay
  WeekLength,
  HourCounts, \* weekly hours, 0 among them
  MaxUpdates  \* bound: saved user forms

Days == 1..FinalDay
Weekdays == 1..WeekLength
Weekday(d) == ((d - 1) % WeekLength) + 1
Patterns == SUBSET Weekdays \ {{}}
Roles == {"employee", "admin", "assistant"}

\* The count of an assistant, who has no fixed days.
NoFixedDays == WeekLength + 2
Unset == -1 \* a field that a form leaves out

VARIABLES
  today,
  role, tracks, archived,
  start,   \* users.start_date
  count,   \* users.workdays_per_week
  hours,   \* users.weekly_hours
  patterns,\* user_work_weekdays
  rates,   \* user_weekly_hours
  dated,   \* history: the day the last form dated new hours, 0 if it had none
  updates  \* forms saved so far

vars == <<today, role, tracks, archived, start, count, hours, patterns, rates, dated, updates>>

HasTarget(r, t) == t /\ r # "assistant"

Earliest(rows) == CHOOSE r \in rows : \A s \in rows : r.from <= s.from
Latest(rows) == CHOOSE r \in rows : \A s \in rows : s.from <= r.from
Begun(rows, d) == {r \in rows : r.from <= d}

\* Writing the same date again replaces its row.
Upsert(rows, row) == {r \in rows : r.from # row.from} \cup {row}

-----------------------------------------------------------------------------
(* What a day asks for. *)

PatternOn(d) ==
  IF Begun(patterns, d) = {} THEN Weekdays ELSE Latest(Begun(patterns, d)).days

HoursOn(d) ==
  CASE Begun(rates, d) # {} -> Latest(Begun(rates, d)).hours
    [] Begun(rates, d) = {} /\ rates # {} -> Earliest(rates).hours
    [] OTHER -> hours

NoTarget == <<0, 1>>

\* The weekly hours over the days they are spread on.
Target(d) ==
  IF d < start \/ ~HasTarget(role, tracks) \/ Weekday(d) \notin PatternOn(d) \/ HoursOn(d) = 0
  THEN NoTarget
  ELSE <<HoursOn(d), Cardinality(PatternOn(d))>>

-----------------------------------------------------------------------------
(* Writing the histories. *)

DefaultWeekdays(n) == 1..Min({n, WeekLength})

Ensure(rows, from, days) ==
  IF rows = {} THEN {[from |-> from, days |-> days]} ELSE rows

ExtendEarliest(rows, from) ==
  IF rows = {} \/ Earliest(rows).from <= from THEN rows
  ELSE (rows \ {Earliest(rows)}) \cup {[Earliest(rows) EXCEPT !.from = from]}

AlignDayCount(rows, from, n) ==
  IF Begun(rows, from) # {} /\ Cardinality(Latest(Begun(rows, from)).days) = Cardinality(DefaultWeekdays(n))
  THEN rows
  ELSE Upsert(rows, [from |-> from, days |-> DefaultWeekdays(n)])

\* A row that repeats the hours of the row before it records no change.
Distinct(rows) ==
  {r \in rows : LET before == Begun(rows, r.from - 1)
                IN before = {} \/ Latest(before).hours # r.hours}

\* Mutant: the hours worked so far are not written down.
RecordHoursOnly(rows, contractStart, previous, from, new) ==
  Distinct(Upsert(rows, [from |-> from, hours |-> new]))

RecordHours(rows, contractStart, previous, from, new) ==
  LET first == [from |-> Min({contractStart, from}), hours |-> previous]
      base == IF previous > 0 /\ rows = {} THEN {first} ELSE rows
  IN Distinct(Upsert(base, [from |-> from, hours |-> new]))

-----------------------------------------------------------------------------
Init ==
  /\ today = 1
  /\ role \in Roles
  /\ tracks \in (IF role = "admin" THEN BOOLEAN ELSE {TRUE})
  /\ archived = FALSE
  /\ start \in Days
  /\ hours \in (IF role = "assistant" THEN {0} ELSE HourCounts)
  /\ \E days \in Patterns :
       /\ count = IF role = "assistant" THEN NoFixedDays ELSE Cardinality(days)
       /\ patterns = IF HasTarget(role, tracks) THEN {[from |-> start, days |-> days]} ELSE {}
  /\ rates = {}
  /\ dated = 0
  /\ updates = 0

Either(value, old) == IF value = Unset THEN old ELSE value

NewCount(newRole, form) ==
  CASE newRole = "assistant" -> NoFixedDays
    [] newRole # "assistant" /\ form.days # {} -> Cardinality(form.days)
    [] newRole # "assistant" /\ form.days = {} /\ form.count # Unset -> form.count
    [] OTHER -> IF role = "assistant" THEN WeekLength ELSE count

NewTracks(newRole, form) == newRole # "admin" \/ form.tracks

NewStart(newTracks, form) ==
  IF form.start = Unset /\ newTracks /\ ~tracks THEN today ELSE Either(form.start, start)

\* The admin's form; no other way to change a contract that has a target.
Save(form) ==
  LET newRole == form.role
      newTracks == NewTracks(newRole, form)
      newStart == NewStart(newTracks, form)
      newCount == NewCount(newRole, form)
      latest == Max({today, newStart})
      from == Either(form.from, latest)
      given == form.days # {}
      extended == ExtendEarliest(
                    Ensure(patterns, newStart, IF given THEN form.days ELSE DefaultWeekdays(newCount)),
                    newStart)
      pulled == ExtendEarliest(rates, newStart)
      changesHours == form.hours # Unset /\ form.hours # hours
  IN /\ newRole = "assistant" => Either(form.hours, hours) = 0 /\ ~given /\ form.count = Unset
     /\ role' = newRole /\ tracks' = newTracks /\ start' = newStart /\ count' = newCount
     /\ \/ /\ ~HasTarget(newRole, newTracks)
           /\ hours' = Either(form.hours, hours)
           /\ dated' = 0
           /\ UNCHANGED <<patterns, rates>>
        \/ /\ HasTarget(newRole, newTracks)
           /\ IF changesHours
              THEN /\ newStart <= from /\ from <= latest
                   /\ rates' = RecordHours(pulled, newStart, hours, from, form.hours)
                   /\ hours' = Latest(rates').hours
                   /\ dated' = from
              ELSE rates' = pulled /\ dated' = 0 /\ UNCHANGED hours
           /\ patterns' = CASE given -> Upsert(extended, [from |-> latest, days |-> form.days])
                            [] ~given /\ newCount # count -> AlignDayCount(extended, latest, newCount)
                            [] OTHER -> extended

\* A form dates hours only if it names them; the count follows chosen days.
Forms ==
  {f \in [role : Roles, tracks : BOOLEAN, hours : HourCounts \cup {Unset}, from : Days \cup {Unset},
          count : Weekdays \cup {Unset}, days : SUBSET Weekdays, start : Days \cup {Unset}] :
     /\ f.from # Unset => f.hours # Unset
     /\ f.days # {} => f.count = Unset
     /\ f.role # "admin" => f.tracks}

Update ==
  /\ updates < MaxUpdates
  /\ updates' = updates + 1
  /\ \E form \in Forms : Save(form)
  /\ UNCHANGED <<today, archived>>

Archive ==
  /\ ~archived /\ archived' = TRUE
  /\ dated' = 0
  /\ UNCHANGED <<today, role, tracks, start, count, hours, patterns, rates, updates>>

Restore ==
  /\ archived /\ archived' = FALSE
  /\ updates < MaxUpdates /\ updates' = updates + 1
  /\ \E s \in Days \cup {Unset} : start' = Either(s, start)
  /\ patterns' = IF HasTarget(role, tracks)
                 THEN ExtendEarliest(Ensure(patterns, start', DefaultWeekdays(count)), start')
                 ELSE patterns
  /\ dated' = 0
  /\ UNCHANGED <<today, role, tracks, count, hours, rates>>

NextDay ==
  /\ today < FinalDay /\ today' = today + 1
  /\ dated' = 0
  /\ UNCHANGED <<role, tracks, archived, start, count, hours, patterns, rates, updates>>

Next == Update \/ Archive \/ Restore \/ NextDay

Spec == Init /\ [][Next]_vars

-----------------------------------------------------------------------------
(* Properties. *)

(* "The weeks already worked keep the pattern they were worked under", and  *)
(* the hours too: no form and no restoration changes what a past day of the *)
(* contract asked for, but for the days from which an admin dates new hours *)
(* and for the first hours a contract ever gets.                            *)
PastStands ==
  \A d \in start..(today - 1) :
    /\ HasTarget(role, tracks) /\ HasTarget(role', tracks')
    /\ start' <= d
    /\ ~(rates = {} /\ hours = 0)
    /\ ~(dated' # 0 /\ dated' <= d)
    => Target(d)' = Target(d)
PastTargetsStand == [][PastStands]_vars
=============================================================================
