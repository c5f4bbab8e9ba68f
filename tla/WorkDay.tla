------------------------------ MODULE WorkDay ------------------------------
(***************************************************************************)
(* What the entries of a day are worth, and the guard on work in a row     *)
(* (backend/src/time_calc.rs, services/time_entries.rs, the break rules of *)
(* services/reports.rs and handlers/settings.rs).  It adds to DayLedger    *)
(* the category of an entry, the break settings, and the requests that     *)
(* read the guard's limit, setting by setting, before their transaction    *)
(* begins.                                                                 *)
(*                                                                         *)
(* A break rule is a record [over, minus]: a day of more than `over'       *)
(* minutes of work owes a break of `minus' minutes.                        *)
(***************************************************************************)
EXTENDS DayLedger, FiniteSets, FiniteSetsExt

CONSTANTS
  Categories,   \* categories of time entries
  Working,      \* those that count as work at first
  WorkRequests, \* requests that create or change an entry, at one time
  Settings,     \* the break settings an admin may save
  MaxChanges    \* the bound on changes of entries, categories and settings

ASSUME WorkAssumption ==
  /\ Settings \subseteq
       [rules : SUBSET [over : Nat, minus : Nat], guard : BOOLEAN, pause : Nat]
  /\ \A s \in Settings : \A r, q \in s.rules : r.over = q.over => r = q
  /\ MaxChanges \in Nat
  /\ Times # {} => \E first, last \in Times : Times \subseteq first..last

VARIABLES
  category,   \* time_entries.category_id
  exempt,     \* the entries with work_stretch_exempt
  counts,     \* categories.counts_as_work
  breaks,     \* the settings auto_break_*
  reading,    \* what each request has read of them
  flip,       \* the category an admin is about to change
  judged,     \* history: the limit each entry passed, where it is booked now
  changes     \* the number of changes so far

ledger == <<entries, absences, today>>
dayVars == <<ledger, category, exempt, counts, breaks, reading, flip, judged, changes>>

----------------------------------------------------------------------------
(* The value of a day                                                      *)

\* Automatic breaks are off: no rule, no guard, the default pause.
DefaultPause == 2

BreaksOff == [rules |-> {}, guard |-> FALSE, pause |-> DefaultPause]

\* The loop of compute_day_auto_break joins entries that adjoin or overlap: a
\* block begins where no earlier entry reaches, and ends where no later one has
\* begun.
Begins(slots) ==
  {f.start : f \in {s \in slots : \A e \in slots : e.start < s.start => e.end < s.start}}

Ends(slots) ==
  {f.end : f \in {s \in slots : \A e \in slots : e.end > s.end => e.start > s.end}}

BlocksOf(slots) ==
  {[start |-> t, end |-> Min({x \in Ends(slots) : x > t})] : t \in Begins(slots)}

Hull(slots) ==
  [start |-> Min({e.start : e \in slots}), end |-> Max({e.end : e \in slots})]

LengthOf(slots) == MapThenSumSet(LAMBDA s : s.end - s.start, slots)

\* The rule that decides is the highest one the day's work exceeds.
RequiredBreakReached(worked, rules) ==  \* mutant: a day of exactly six hours owes a break
  LET exceeded == {r \in rules : worked >= r.over}
  IN  IF exceeded = {} THEN 0
      ELSE (CHOOSE r \in exceeded : \A s \in exceeded : s.over <= r.over).minus

RequiredBreak(worked, rules) ==
  LET exceeded == {r \in rules : worked > r.over}
  IN  IF exceeded = {} THEN 0
      ELSE (CHOOSE r \in exceeded : \A s \in exceeded : s.over <= r.over).minus

\* compute_day_auto_break
DayAutoBreakPerBlock(slots, rules) ==  \* mutant: each block is judged on its own
  IF slots = {} \/ rules = {} THEN 0
  ELSE MapThenSumSet(LAMBDA b : RequiredBreak(b.end - b.start, rules), BlocksOf(slots))

DayAutoBreak(slots, rules) ==
  LET blocks == BlocksOf(slots)
      worked == LengthOf(blocks)
      taken == Hull(blocks).end - Hull(blocks).start - worked
  IN  IF slots = {} \/ rules = {} THEN 0
      ELSE Max({RequiredBreak(worked, rules) - taken, 0})

SlotOf(i) == [start |-> entries[i].start, end |-> entries[i].end]

\* A day's entries of the given states in categories that count as work.
WorkOn(u, d, states) ==
  {i \in EntryIds : /\ HasEntry(i)
                    /\ entries[i].user = u
                    /\ entries[i].day = d
                    /\ entries[i].status \in states
                    /\ counts[category[i]]}

\* The minutes a report credits: actual hours take the approved entries,
\* submitted hours the submitted ones as well.
Credited(u, d, states) ==
  LET slots == {SlotOf(i) : i \in WorkOn(u, d, states)}
  IN  Max({LengthOf(slots) - DayAutoBreak(slots, breaks.rules), 0})

----------------------------------------------------------------------------
(* The guard                                                               *)

\* An entry e is in reach of a stretch that no whole pause keeps it from.
InReach(e, stretch, pause) == e.start - stretch.end < pause /\ stretch.start - e.end < pause

\* work_stretch_minutes_with: the stretch of s grows until no other entry is in
\* its reach.  What it has taken in by then are the fewest entries that leave no
\* other in reach.
StretchFrom(s, slots, pause) ==
  LET closed == {taken \in SUBSET slots :
                   \A e \in slots : InReach(e, Hull(taken \cup {s}), pause) => e \in taken}
  IN  Hull({s} \cup {e \in slots : \A taken \in closed : e \in taken})

NoLimit == [max |-> 0, pause |-> 0]

Live == {"draft", "submitted", "approved"}

\* validate_work_stretch; id is the entry being edited.
StretchFits(u, slot, c, id, limit) ==
  LET slots == {SlotOf(i) : i \in WorkOn(u, slot.day, Live) \ {id}}
      stretch == StretchFrom([start |-> slot.start, end |-> slot.end], slots, limit.pause)
  IN  counts[c] => stretch.end - stretch.start <= limit.max

\* What work_stretch_limit makes of the settings.
LimitOf(settings) ==
  IF ~settings.guard \/ settings.rules = {} THEN NoLimit
  ELSE [max |-> Min({r.over : r \in settings.rules}), pause |-> settings.pause]

----------------------------------------------------------------------------
(* Requests                                                                *)

Fresh == [at |-> "guard", max |-> 0, pause |-> 0]

\* work_stretch_limit reads the guard, the rules and the pause one after the
\* other, outside of any transaction.
ReadLimit(r) ==
  /\ changes < MaxChanges
  /\ reading[r].at \in {"guard", "rules", "pause"}
  /\ reading' = [reading EXCEPT ![r] =
       IF \/ @.at = "guard" /\ ~breaks.guard
          \/ @.at = "rules" /\ breaks.rules = {}
       THEN [at |-> "ready", max |-> 0, pause |-> 0]
       ELSE CASE @.at = "guard" -> [@ EXCEPT !.at = "rules"]
              [] @.at = "rules" ->
                   [@ EXCEPT !.at = "pause", !.max = Min({b.over : b \in breaks.rules})]
              [] @.at = "pause" -> [@ EXCEPT !.at = "ready", !.pause = breaks.pause]]
  /\ UNCHANGED <<ledger, category, exempt, counts, breaks, flip, judged, changes>>

LimitKnown(r) == reading[r].at = "ready" /\ changes < MaxChanges

LimitRead(r) == [max |-> reading[r].max, pause |-> reading[r].pause]

Changed ==
  /\ changes < MaxChanges
  /\ changes' = changes + 1

\* create_checked, with the limit read.
CreateWork(r, u, i, slot, c) ==
  /\ Changed
  /\ CreateEntry(u, i, slot)
  /\ LimitRead(r) # NoLimit => StretchFits(u, slot, c, i, LimitRead(r))
  /\ category' = [category EXCEPT ![i] = c]
  /\ exempt' = exempt \ {i}
  /\ judged' = [judged EXCEPT ![i] = LimitRead(r)]
  /\ reading' = [reading EXCEPT ![r] = Fresh]
  /\ UNCHANGED <<counts, breaks, flip>>

\* update_checked: an entry older than the guard and a change that moves
\* nothing are not judged.
Moves(i, slot, c) ==
  \/ entries[i].day # slot.day
  \/ entries[i].start # slot.start
  \/ entries[i].end # slot.end
  \/ category[i] # c

JudgedOnUpdateOfTimes(i, slot, c) ==  \* mutant: a change of category is not judged
  i \notin exempt /\ Moves(i, slot, category[i])

JudgedOnUpdate(i, slot, c) == i \notin exempt /\ Moves(i, slot, c)

UpdateWork(r, u, i, slot, c) ==
  /\ Changed
  /\ UpdateEntry(u, i, slot)
  /\ LimitRead(r) # NoLimit /\ JudgedOnUpdate(i, slot, c)
     => StretchFits(entries[i].user, slot, c, i, LimitRead(r))
  /\ category' = [category EXCEPT ![i] = c]
  /\ judged' = IF Moves(i, slot, c)
               THEN [judged EXCEPT ![i] = IF i \in exempt THEN NoLimit ELSE LimitRead(r)]
               ELSE judged
  /\ reading' = [reading EXCEPT ![r] = Fresh]
  /\ UNCHANGED <<exempt, counts, breaks, flip>>

\* The steps of the ledger that book no time.  Reopening brings rejected
\* entries back without asking the guard.
ReviewWork ==
  /\ Changed
  /\ \E u \in Users :
       \/ \E i \in EntryIds : DeleteEntry(u, i)
       \/ SubmitBatch(u, EntryIds) \/ SubmitBatchAutoApproved(u, EntryIds)
       \/ \E ids \in SUBSET EntryIds :
            BatchApprove(u, ids) \/ BatchReject(u, ids) \/ ClosePending(u, ids, {})
       \/ \E d \in Days : PerformReopen(u, WeekOf[d])
  /\ judged' = [i \in EntryIds |->
       IF HasEntry(i) /\ entries[i].status = "rejected" /\ entries'[i].status = "draft"
       THEN NoLimit ELSE judged[i]]
  /\ UNCHANGED <<category, exempt, counts, breaks, reading, flip>>

----------------------------------------------------------------------------
(* Admins                                                                  *)

\* update_admin_settings, the part on automatic breaks.
SaveBreaks(s) ==
  /\ Changed
  /\ s # breaks
  /\ breaks' = s
  /\ UNCHANGED <<ledger, category, exempt, counts, reading, flip, judged>>

\* services/categories.rs, update: the check that no entry uses the category
\* and the UPDATE are two statements.
InUse(c) == \E i \in EntryIds : HasEntry(i) /\ category[i] = c

CheckCategory(c) ==
  /\ Changed
  /\ flip = {}
  /\ ~InUse(c)
  /\ flip' = {c}
  /\ UNCHANGED <<ledger, category, exempt, counts, breaks, reading, judged>>

ChangeCategory(c) ==
  /\ Changed
  /\ c \in flip
  /\ flip' = {}
  /\ counts' = [counts EXCEPT ![c] = ~@]
  /\ judged' = [i \in EntryIds |-> IF category[i] = c THEN NoLimit ELSE judged[i]]
  /\ UNCHANGED <<ledger, category, exempt, breaks, reading>>

----------------------------------------------------------------------------
(* The specification                                                       *)

\* At most one entry is older than the guard.
DayInit ==
  /\ absences = [a \in AbsenceIds |-> NoRow]
  /\ today \in Days
  /\ category \in [EntryIds -> Categories]
  /\ \A i, j \in EntryIds : category[i] = category[j]
  /\ counts = [c \in Categories |-> c \in Working]
  /\ breaks \in Settings
  /\ reading = [r \in WorkRequests |-> Fresh]
  /\ flip = {}
  /\ judged = [i \in EntryIds |-> NoLimit]
  /\ changes = 0
  /\ \/ exempt = {} /\ entries = [i \in EntryIds |-> NoRow]
     \/ \E i \in EntryIds, u \in Trackers, d \in Days, s, t \in Times :
          /\ d <= today
          /\ s < t
          /\ exempt = {i}
          /\ entries = [j \in EntryIds |->
               IF j # i THEN NoRow
               ELSE [user |-> u, day |-> d, start |-> s, end |-> t,
                     status |-> "draft", resolved |-> FALSE, reviewer |-> NoUser]]

DayNext ==
  \/ \E r \in WorkRequests : ReadLimit(r)
  \/ \E r \in {q \in WorkRequests : LimitKnown(q)} :
       \E u \in Users, i \in EntryIds, d \in Days, c \in Categories, s, t \in Times :
         LET slot == [day |-> d, start |-> s, end |-> t]
         IN  CreateWork(r, u, i, slot, c) \/ UpdateWork(r, u, i, slot, c)
  \/ ReviewWork
  \/ \E s \in Settings : SaveBreaks(s)
  \/ \E c \in Categories : CheckCategory(c) \/ ChangeCategory(c)

DaySpec == DayInit /\ [][DayNext]_dayVars

----------------------------------------------------------------------------
(* Properties                                                              *)

\* No work in the whole of a pause that lies between two entries.
PauseBetween(e, f, pause, work) ==
  \E p \in e.end..(f.start - pause) :
    \A k \in work : entries[k].end <= p \/ p + pause <= entries[k].start

\* The guard holds for whole days, not only for the entry that was judged:
\* from the start of an entry to the end of another there is no more work
\* without a pause than the limit allows, unless an entry between them was not
\* judged by that limit where it stands (it is older than the guard, came back
\* from a rejection, or was booked while the settings were others)
\* (work_stretch_minutes_with, validate_work_stretch under the owner's lock).
NoLongStretch ==
  LET limit == LimitOf(breaks)
  IN  limit # NoLimit =>
        \A u \in Users, d \in Days :
          LET work == WorkOn(u, d, Live)
          IN  \A i, j \in work :
                /\ entries[j].end - entries[i].start > limit.max
                /\ ~PauseBetween(entries[i], entries[j], limit.pause, work)
                => \E k \in work :
                     /\ entries[i].start <= entries[k].start
                     /\ entries[k].end <= entries[j].end
                     /\ judged[k] # limit

\* The minutes of a day that are worked, and those between the first and the
\* last of them that are not.
MinutesWorked(work) ==
  UNION {entries[i].start..(entries[i].end - 1) : i \in work}

BreakOwed(worked, rules) ==
  LET highest == {r \in rules : \A s \in rules : s.over > r.over => worked <= s.over}
      due == {r \in highest : worked > r.over}
  IN  Max({0} \cup {r.minus : r \in due})

MinutesCredited(work, rules) ==
  LET worked == MinutesWorked(work)
      rested == IF worked = {} THEN {} ELSE (Min(worked)..Max(worked)) \ worked
      owed == BreakOwed(Cardinality(worked), rules) - Cardinality(rested)
  IN  Max({Cardinality(worked) - Max({owed, 0}), 0})

\* What a report credits for a day depends on its minutes alone, however they
\* are cut into entries: each worked minute once, less the break the highest
\* rule asks of the day's total that was not taken between the first and the
\* last minute (compute_day_auto_break and the sums of services/reports.rs).
CreditIsByMinutes ==
  \A u \in Users, d \in Days, states \in {{"approved"}, {"approved", "submitted"}} :
    Credited(u, d, states) = MinutesCredited(WorkOn(u, d, states), breaks.rules)
=============================================================================
