--------------------------- MODULE LeaveAccounts ---------------------------
(***************************************************************************)
(* One leave account of one person over several years: the entitlement of  *)
(* each year, what is left of it for the next year until the carryover     *)
(* expires, the rules a booking has to pass, and the balance card shown    *)
(* beside it.                                                              *)
(*                                                                         *)
(* A year has YearLength days and a week WeekLength.  Quota stands for the *)
(* weekly quota of a contract whose weekdays are not recorded; with        *)
(* recorded weekdays it is WeekLength.  Bookings of one account never      *)
(* overlap, so they are a set.  Vacation is never approved on creation.    *)
(***************************************************************************)
EXTENDS Integers, FiniteSetsExt

CONSTANTS
  YearLength, LastYear, WeekLength,
  YearMonths,       \* months in a year
  StartDay,     \* users.start_date
  Anchor,       \* hire_date, or start_date if there is none
  AccountStart, \* leave_account_start_year
  WorkDays,     \* days the contract works and that are not public holidays
  Quota,
  DefaultDays,  \* leave_account_default_days
  DayCounts,    \* what an admin may enter as a year's days
  ExpiryDays,   \* carryover expiries, as days of the year
  MaxBookings,  \* bound: bookings at a time
  MaxAdmin      \* bound: an admin's changes

ASSUME LeaveAssumption ==
  /\ YearLength \in Nat \ {0} /\ WeekLength \in Nat \ {0} /\ YearMonths \in Nat \ {0}
  /\ LastYear \in Nat /\ Quota \in Nat /\ DefaultDays \in Nat /\ DayCounts \subseteq Nat
  /\ StartDay \in 1..(YearLength * LastYear) /\ Anchor \in Int /\ AccountStart \in Int
  /\ WorkDays \subseteq Int /\ ExpiryDays \subseteq 1..YearLength

Years == 1..LastYear
Days == 1..(YearLength * LastYear)
YearOf(d) == (d - 1) \div YearLength + 1
FirstDay(y) == (y - 1) * YearLength + 1
LastDay(y) == y * YearLength
WeekOf(d) == (d - 1) \div WeekLength
MonthOf(d) == (((d - 1) % YearLength) * YearMonths) \div YearLength + 1

FirstYear == Max({YearOf(StartDay), AccountStart})

NoOverride == -1
Statuses == {"requested", "approved", "cancellation_pending"}
Bookings == [from : Days, to : Days, status : Statuses]

VARIABLES
  today,
  base,     \* user_leave_accounts.base_days
  override, \* user_leave_account_year_overrides
  access,   \* user_absence_category_access
  active,   \* absence_categories.active
  expiry,   \* leave_account_carryover_expiry
  booked,   \* the absences charged to the account that reserve days of it
  changes   \* an admin's changes so far

vars == <<today, base, override, access, active, expiry, booked, changes>>
account == <<base, override, access, active, expiry, changes>>

NotNegative(n) == Max({n, 0})

-----------------------------------------------------------------------------
(* Counting days. *)

Within(d, range) == range.from <= d /\ d <= range.to

HasWorkday(range) == \E d \in WorkDays : d >= StartDay /\ Within(d, range)

(* A week without recorded weekdays is charged its first Quota days only. *)
Charged(ranges, lo, hi) ==
  LET asked == {d \in lo..hi : d >= StartDay /\ d \in WorkDays /\ \E r \in ranges : Within(d, r)}
  IN {d \in asked : Cardinality({e \in asked : e <= d /\ WeekOf(e) = WeekOf(d)}) <= Quota}

InYear(ranges, y) == Charged(ranges, FirstDay(y), LastDay(y))

ExpiryDate(y) == FirstDay(y) + expiry - 1

Usage(ranges, y) ==
  LET days == InYear(ranges, y)
      pre == Cardinality({d \in days : d <= ExpiryDate(y)})
  IN [pre |-> pre, post |-> Cardinality(days) - pre]

-----------------------------------------------------------------------------
(* Entitlement and carryover. *)

YearDays(y) == IF override[y] # NoOverride THEN override[y] ELSE base

(* In twelfths, the month of entry counted in full. *)
ProRated(days, y) ==
  IF YearOf(Anchor) > y THEN 0
  ELSE IF Anchor > FirstDay(y)
       THEN (days * (YearMonths + 1 - MonthOf(Anchor)) + YearMonths - 1) \div YearMonths
       ELSE days

Entitlement(y) == ProRated(YearDays(y), y)

(* Mutant: days on or before the expiry are all taken for carryover. *)
LeftOverOfLate(ranges, y, incoming) ==
  NotNegative(Entitlement(y) - Usage(ranges, y).post)

LeftOver(ranges, y, incoming) ==
  LET used == Usage(ranges, y)
  IN NotNegative(Entitlement(y) - used.post - NotNegative(used.pre - incoming))

(* A year that has not begun passes nothing on. *)
CarryInto(ranges) ==
  LET into[y \in Years] ==
        IF y <= FirstYear \/ y - 1 > YearOf(today) THEN 0
        ELSE LeftOver(ranges, y - 1, into[y - 1])
  IN into

(* What the balance card shows, of all statuses that reserve days. *)
Carryover(y) == CarryInto(booked)[y]

(* What a request is judged by: the other bookings and itself. *)
CarryoverWith(range, others, y) == CarryInto(others \cup {range})[y]

Expired(y) == today > ExpiryDate(y)

(* Mutant: days taken on carryover cost entitlement once it has expired. *)
AvailableLapsed(y) ==
  LET used == Usage(booked, y)
  IN Entitlement(y) + (IF Expired(y) THEN 0 ELSE Carryover(y)) - used.pre - used.post

(* The card's "available". *)
Available(y) ==
  LET used == Usage(booked, y)
  IN IF Expired(y)
     THEN Entitlement(y) - NotNegative(used.pre - Carryover(y)) - used.post
     ELSE Entitlement(y) + Carryover(y) - used.pre - used.post

-----------------------------------------------------------------------------
(* The rules for a booking. *)

(* Mutant: the year's total is all that is checked. *)
FitsYearTotal(range, others, y) ==
  LET used == Usage(others \cup {range}, y)
      carry == CarryoverWith(range, others, y)
  IN IF Expired(y) THEN NotNegative(used.pre - carry) + used.post <= Entitlement(y)
                   ELSE used.pre + used.post <= Entitlement(y) + carry

FitsYear(range, others, y) ==
  LET before == Usage(others, y)
      with == Usage(others \cup {range}, y)
      pre == before.pre + NotNegative(with.pre - before.pre)
      post == before.post + NotNegative(with.post - before.post)
      carry == CarryoverWith(range, others, y)
      ownUse == NotNegative(pre - carry)
  IN /\ IF Expired(y) THEN ownUse + post <= Entitlement(y)
                      ELSE pre + post <= Entitlement(y) + carry
     /\ post <= NotNegative(Entitlement(y) - ownUse)

Fits(range, others) ==
  \A y \in YearOf(range.from)..YearOf(range.to) : y >= FirstYear /\ FitsYear(range, others, y)

Free(range, others) == \A b \in others : b.to < range.from \/ range.to < b.from

Acceptable(range, others) ==
  /\ range.from <= range.to /\ range.from >= StartDay
  /\ HasWorkday(range)
  /\ Free(range, others)
  /\ Fits(range, others)

-----------------------------------------------------------------------------
Init ==
  /\ today = StartDay
  /\ base = DefaultDays
  /\ override = [y \in Years |-> NoOverride]
  /\ access = TRUE /\ active = TRUE
  /\ expiry \in ExpiryDays
  /\ booked = {}
  /\ changes = 0

Create ==
  /\ access /\ active
  /\ Cardinality(booked) < MaxBookings
  /\ \E from, to \in Days :
       LET range == [from |-> from, to |-> to, status |-> "requested"]
       IN /\ Acceptable(range, booked)
          /\ booked' = booked \cup {range}
  /\ UNCHANGED <<today, account>>

(* The category is kept, so neither access nor activity is asked for. *)
Update(b) ==
  /\ b.status = "requested"
  /\ \E from, to \in Days :
       LET range == [b EXCEPT !.from = from, !.to = to]
           others == booked \ {b}
       IN /\ Acceptable(range, others)
          /\ booked' = others \cup {range}
  /\ UNCHANGED <<today, account>>

Approve(b) ==
  /\ b.status = "requested"
  /\ Fits(b, booked \ {b})
  /\ booked' = (booked \ {b}) \cup {[b EXCEPT !.status = "approved"]}
  /\ UNCHANGED <<today, account>>

(* The owner withdraws or an approver rejects a request; an approver
   confirms a cancellation or revokes an approved absence. *)
End(b) ==
  /\ booked' = booked \ {b}
  /\ UNCHANGED <<today, account>>

RequestCancellation(b) ==
  /\ b.status = "approved"
  /\ booked' = (booked \ {b}) \cup {[b EXCEPT !.status = "cancellation_pending"]}
  /\ UNCHANGED <<today, account>>

RejectCancellation(b) ==
  /\ b.status = "cancellation_pending"
  /\ booked' = (booked \ {b}) \cup {[b EXCEPT !.status = "approved"]}
  /\ UNCHANGED <<today, account>>

NextDay ==
  /\ today < LastDay(LastYear)
  /\ today' = today + 1
  /\ UNCHANGED <<booked, account>>

-----------------------------------------------------------------------------
(* What an admin does.  None of it looks at what is booked. *)

Change == changes < MaxAdmin /\ changes' = changes + 1 /\ UNCHANGED <<today, booked>>

WithYears(current, next) ==
  [y \in Years |-> CASE y = YearOf(today) -> current
                     [] y = YearOf(today) + 1 -> next
                     [] OTHER -> override[y]]

ApplyValues ==
  /\ Change
  /\ base' \in DayCounts
  /\ \E current, next \in DayCounts : override' = WithYears(current, next)
  /\ UNCHANGED <<access, active, expiry>>

Revoke ==
  /\ Change
  /\ access /\ access' = FALSE
  /\ base' = 0
  /\ override' = [y \in Years |-> NoOverride]
  /\ UNCHANGED <<active, expiry>>

Grant ==
  /\ Change
  /\ ~access /\ access' = TRUE
  /\ base' = DefaultDays
  /\ override' = WithYears(DefaultDays, DefaultDays)
  /\ UNCHANGED <<active, expiry>>

UpdateCategory ==
  /\ Change
  /\ active' \in BOOLEAN
  /\ expiry' \in ExpiryDays
  /\ UNCHANGED <<base, override, access>>

Next ==
  \/ Create
  \/ \E b \in booked : \/ Update(b)
                       \/ Approve(b)
                       \/ End(b)
                       \/ RequestCancellation(b)
                       \/ RejectCancellation(b)
  \/ NextDay
  \/ ApplyValues
  \/ Revoke
  \/ Grant
  \/ UpdateCategory

Spec == Init /\ [][Next]_vars

-----------------------------------------------------------------------------
(* Properties. *)

(* The days of all years up to y against all their entitlements: a measure
   that knows of no carryover and no expiry. *)
Overdrawn(y) ==
  MapThenSumSet(LAMBDA z : Cardinality(InYear(booked, z)), 1..y)
    > MapThenSumSet(Entitlement, FirstYear..y)

(* A request, an edit or a decision never takes the years up to its own     *)
(* beyond what they give together, carryover included, however the bookings *)
(* before were made.  (Later years are not judged again: they may have used *)
(* carryover that a booking into an earlier year now takes back.)           *)
Backed ==
  \A b \in booked' \ booked : \A y \in 1..YearOf(b.to) :
    Overdrawn(y)' => \E z \in 1..y : Overdrawn(z)
BackedByEntitlement == [][Backed]_vars

(* A week's quota can cover days on both sides of the expiry. *)
QuotaSpansExpiry(y) ==
  Quota < WeekLength /\ WeekOf(ExpiryDate(y)) = WeekOf(ExpiryDate(y) + 1)

LateDaysUncovered(y) == Usage(booked, y).post > Entitlement(y)

(* Carryover never pays for a day after its expiry, whenever the day was    *)
(* asked for, edited or approved.  But where a quota spans the expiry a     *)
(* booking moved out of the year leaves the week's later days to be charged *)
(* in its place, and only the years it moves to are judged.                 *)
LateDaysStayCovered ==
  \A b \in booked' \ booked : \A y \in Years :
    LateDaysUncovered(y)' =>
      LateDaysUncovered(y) \/ (QuotaSpansExpiry(y) /\ y \notin YearOf(b.from)..YearOf(b.to))
CarryoverExpires == [][LateDaysStayCovered]_vars

OneSide(range, y) ==
  /\ YearOf(range.from) = y /\ YearOf(range.to) = y
  /\ IF Expired(y) THEN range.from > ExpiryDate(y) ELSE range.to <= ExpiryDate(y)

(* The balance card and the rule for requests are computed by different     *)
(* code and agree: what the card shows as available is exactly what may     *)
(* still be booked before the expiry, or after it once it has passed.       *)
(* Where a quota spans the expiry they need not: a day before it can take   *)
(* the place of a later one, which costs nothing and which the rule counts. *)
CardMatchesRule ==
  \A from, to \in Days :
    LET range == [from |-> from, to |-> to]
        y == YearOf(from)
        cost == Cardinality(InYear(booked \cup {range}, y)) - Cardinality(InYear(booked, y))
    IN /\ from <= to /\ from >= StartDay
       /\ OneSide(range, y) /\ ~(QuotaSpansExpiry(y) /\ ~Expired(y))
       /\ Free(range, booked) /\ cost > 0
       /\ y >= FirstYear /\ ~LateDaysUncovered(y)
       => (FitsYear(range, booked, y) <=> cost <= Available(y))

(* What services/absence_balance.rs says of counting requests against the   *)
(* carryover they leave: "the sum of approved days across both years cannot *)
(* exceed the real entitlement".                                            *)
ApprovedWithinEntitlement ==
  changes = 0 => \A y \in Years :
    MapThenSumSet(LAMBDA z : Cardinality(InYear({b \in booked : b.status = "approved"}, z)), 1..y)
      <= MapThenSumSet(Entitlement, FirstYear..y)
=============================================================================
