----------------------------- MODULE MCBalances -----------------------------
(* The computations over a person's days, one at a time: a leave account, a   *)
(* flextime account, a contract, and the absences in three months' payroll    *)
(* reports.  They share nothing but the length of a week and the names of     *)
(* some variables; those of another part hold 0.                              *)
EXTENDS LeaveAccounts

CONSTANTS
  FlexDays, MonthLength, FlexYearMonths, FlexWorkDays, Holidays, DayMinutes, EntryMinutes,
  Bookable, Floor, Starts, MaxSteps,   \* the flextime account
  ContractDays, HourCounts, MaxUpdates, \* the contract
  PayDays, PayWeek, PayMonth, PayHolidays, ContractStart, PatternFrom, PayPattern, Cap,
  Categories, Tracked, Threshold, MaxAbsences \* the payroll reports

ASSUME BalancesAssumption ==
  /\ FlexDays \in Nat \ {0} /\ MonthLength \in Nat \ {0} /\ FlexYearMonths \in Nat \ {0}
  /\ DayMinutes \in Int /\ EntryMinutes \in Int /\ Bookable \subseteq Int
  /\ Starts \subseteq 1..FlexDays
  /\ ContractDays \in Nat \ {0} /\ HourCounts \subseteq Nat
  /\ PayDays \in Nat \ {0} /\ PayWeek \in Nat \ {0} /\ PayMonth \in Nat \ {0}
  /\ ContractStart \in Int /\ PatternFrom \in Int /\ Cap \in Nat

MCWorkDays == Days \ {2}
MCFlexWorkDays == 1..6

VARIABLES
  part,
  start,                     \* Flextime and Contracts
  entries, adjusted, steps,  \* Flextime
  role, tracks, archived, count, hours, patterns, rates, dated, updates,  \* Contracts
  absences, sent, charged  \* PayrollDays

flextime == <<entries, adjusted, steps>>
contract == <<role, tracks, archived, count, hours, patterns, rates, dated, updates>>
payroll == <<absences, sent, charged>>
all == <<part, vars, start, flextime, contract, payroll>>

F == INSTANCE Flextime WITH
  FinalDay <- FlexDays, YearMonths <- FlexYearMonths, WorkDays <- FlexWorkDays

C == INSTANCE Contracts WITH FinalDay <- ContractDays

P == INSTANCE PayrollDays WITH
  FinalDay <- PayDays, WeekLength <- PayWeek, MonthLength <- PayMonth, Holidays <- PayHolidays,
  Pattern <- PayPattern

NoLeave == base = 0 /\ override = 0 /\ access = 0 /\ active = 0 /\ expiry = 0 /\ changes = 0
NoFlextime == entries = 0 /\ adjusted = 0 /\ steps = 0
NoContract ==
  /\ role = 0 /\ tracks = 0 /\ archived = 0 /\ count = 0 /\ hours = 0
  /\ patterns = 0 /\ rates = 0 /\ dated = 0 /\ updates = 0
NoPayroll == absences = 0 /\ sent = 0 /\ charged = 0

MCInit ==
  \/ part = "leave" /\ Init /\ start = 0 /\ NoFlextime /\ NoContract /\ NoPayroll
  \/ part = "flextime" /\ F!Init /\ NoLeave /\ NoContract /\ NoPayroll
  \/ part = "contract" /\ C!Init /\ booked = 0 /\ NoLeave /\ NoFlextime /\ NoPayroll
  \/ part = "payroll" /\ P!Init /\ today = 0 /\ booked = 0 /\ start = 0 /\ NoLeave /\ NoFlextime /\ NoContract

MCNext ==
  /\ UNCHANGED part
  /\ \/ part = "leave" /\ Next /\ UNCHANGED <<start, flextime, contract, payroll>>
     \/ part = "flextime" /\ F!Next /\ UNCHANGED <<account, contract, payroll>>
     \/ part = "contract" /\ C!Next /\ UNCHANGED <<booked, account, flextime, payroll>>
     \/ part = "payroll" /\ P!Next /\ UNCHANGED <<vars, start, flextime, contract>>

MCSpec == MCInit /\ [][MCNext]_all

\* The properties of LeaveAccounts, Flextime, Contracts and PayrollDays, each of
\* its part.
LeaveCardMatchesRule == part = "leave" => CardMatchesRule
LeaveBacked == [][part = "leave" => Backed]_all
LeaveCarryoverExpires == [][part = "leave" => LateDaysStayCovered]_all
FlextimeViewsAgree == part = "flextime" => F!ViewsAgree
ContractPastStands == [][part = "contract" => C!PastStands]_all
QuotaPaidOnce == part = "payroll" => P!PaidOnce
VerdictOfTheIllness == [][part = "payroll" => P!JudgesIllness]_all
=============================================================================
