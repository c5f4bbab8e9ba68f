------------------------------ MODULE Holidays ------------------------------
(***************************************************************************)
(* The table of public holidays (services/holidays.rs): what is imported    *)
(* for the configured country and region when the server starts, every      *)
(* Monday for the next year and when an admin changes the country, and the  *)
(* days admins add by hand, which may recur.  A save of the settings reads  *)
(* the old country and region and fetches the new holidays before its       *)
(* transaction; an import reads the settings, fetches, compares and writes  *)
(* in steps of its own.  A day carries one holiday; its name is left out    *)
(* but for the one by which two countries' holidays of a day differ.        *)
(***************************************************************************)
EXTENDS Integers, Sequences, FiniteSets

CONSTANTS
  Source,      \* country -> year -> what the holiday service publishes
  Places,      \* the <<country, region>> an admin may ask for
  Saves,       \* requests that save the settings
  Days,        \* the days of a year
  LastYear,    \* bound: the running year
  MaxSaves, MaxManual, MaxRestarts  \* bounds

None == ""

VARIABLES
  year,      \* the running year
  place,     \* app_settings: <<country, region>>
  holidays,  \* the rows of table holidays
  saves,     \* what each request has read so far
  job,       \* the import: at start, or of a Monday
  own,       \* history: days added by hand and not deleted since
  used       \* how much of each bound is used up

vars == <<year, place, holidays, saves, job, own, used>>

Years == 1..LastYear + 1
NoSave == [at |-> "none"]
NoJob == [at |-> "idle", years |-> <<>>]

Use(what) == used' = [used EXCEPT ![what] = @ + 1]

-----------------------------------------------------------------------------
(* Lists of holidays and the table. *)

Imported(country, region, y) ==
  {h \in Source[country][y] : h.regions = {} \/ region \in h.regions}

Regions(country, ys) ==
  UNION {h.regions : h \in UNION {Source[country][y] : y \in ys}}

AutoRows(list, y) ==
  {[date |-> <<y, h.day>>, name |-> h.name, auto |-> TRUE, recurs |-> FALSE, until |-> y] :
     h \in list}

\* DELETE of imported rows, then INSERT ... ON CONFLICT (holiday_date) DO NOTHING.
Replaced(old, rows) ==
  LET kept == holidays \ old
  IN kept \cup {r \in rows : \A k \in kept : k.date # r.date}

ReplacedAll(rows) == Replaced({r \in holidays : r.auto}, rows)
ReplacedYear(y, rows) == Replaced({r \in holidays : r.auto /\ r.date[1] = y}, rows)

\* A row falls on its own date and, if it recurs, on that day of later years.
FallsOn(r, y, d) ==
  \/ r.date = <<y, d>>
  \/ r.recurs /\ r.date[2] = d /\ r.date[1] <= y /\ y <= r.until

\* The view of a year: a holiday added by hand hides an imported one.
Manual(y) == {d \in Days : \E r \in holidays : ~r.auto /\ FallsOn(r, y, d)}
ShownAutos(y) == {r \in holidays : r.auto /\ r.date[1] = y /\ r.date[2] \notin Manual(y)}

\* Mutant: a year that has imported holidays is taken to be up to date.
MatchesIfAny(y, list) == ShownAutos(y) # {} \/ list = {}

\* prepared_holidays_match_existing_auto
Matches(y, list) ==
  {<<r.date[2], r.name>> : r \in ShownAutos(y)}
    = {<<h.day, h.name>> : h \in {k \in list : k.day \notin Manual(y)}}

-----------------------------------------------------------------------------
(* An admin saves the settings. *)

Serving == job.at # "starting"

BeginSave(s, p) ==
  /\ Serving /\ saves[s] = NoSave /\ used.saves < MaxSaves
  /\ saves' = [saves EXCEPT ![s] = [at |-> "country", to |-> p, country |-> place[1]]]
  /\ Use("saves")
  /\ UNCHANGED <<year, place, holidays, job, own>>

\* The holidays are fetched if what was read differs from what is asked for.
Prepared(p) ==
  IF p[1] = None THEN {}
  ELSE UNION {AutoRows(Imported(p[1], p[2], y), y) : y \in {year, year + 1}}

Selectable(p) ==
  IF p[1] = None THEN p[2] = None
  ELSE p[2] = None \/ p[2] \in Regions(p[1], {year, year + 1})

FetchForSave(s) ==
  /\ Serving /\ saves[s].at = "country"
  /\ LET p == saves[s].to
         changed == saves[s].country # p[1] \/ place[2] # p[2]
         next == [at |-> "ready", to |-> p, refresh |-> changed,
                  rows |-> IF changed THEN Prepared(p) ELSE {}]
     IN \/ ~changed /\ saves' = [saves EXCEPT ![s] = next]
        \/ changed /\ Selectable(p) /\ saves' = [saves EXCEPT ![s] = next]
        \/ changed /\ (p[1] # None \/ ~Selectable(p))   \* refused, or no answer
           /\ saves' = [saves EXCEPT ![s] = NoSave]
  /\ UNCHANGED <<year, place, holidays, job, own, used>>

Save(s) ==
  /\ Serving /\ saves[s].at = "ready"
  /\ place' = saves[s].to
  /\ holidays' = IF saves[s].refresh THEN ReplacedAll(saves[s].rows) ELSE holidays
  /\ saves' = [saves EXCEPT ![s] = NoSave]
  /\ UNCHANGED <<year, job, own, used>>

-----------------------------------------------------------------------------
(* Days added by hand. *)

\* Once, or every year up to the last one.
CreateManual(d, until) ==
  /\ Serving /\ used.manual < MaxManual
  /\ until >= year
  /\ \A r \in holidays : r.date # <<year, d>>
  /\ holidays' = holidays \cup {[date |-> <<year, d>>, name |-> "own", auto |-> FALSE,
                                 recurs |-> until > year, until |-> until]}
  /\ own' = own \cup {<<year, d>>}
  /\ Use("manual")
  /\ UNCHANGED <<year, place, saves, job>>

\* Any row, an imported one as well.
DeleteHoliday(r) ==
  /\ Serving /\ r \in holidays /\ used.manual < MaxManual
  /\ holidays' = holidays \ {r}
  /\ own' = own \ {r.date}
  /\ Use("manual")
  /\ UNCHANGED <<year, place, saves, job>>

-----------------------------------------------------------------------------
(* ensure_holidays: at start for two years, on Mondays for the next one.  *)

Monday ==
  /\ job = NoJob
  /\ job' = [at |-> "running", years |-> <<year + 1>>, step |-> "country"]
  /\ UNCHANGED <<year, place, holidays, saves, own, used>>

EnsureDone ==
  job' = IF Len(job.years) = 1 THEN NoJob
         ELSE [at |-> job.at, years |-> Tail(job.years), step |-> "country"]

ReadCountry ==
  /\ job # NoJob /\ job.step = "country"
  /\ job' = [at |-> job.at, years |-> job.years, step |-> "region", country |-> place[1]]
  /\ UNCHANGED <<year, place, holidays, saves, own, used>>

\* Without a country, whatever was imported goes.
ClearImports ==
  /\ job # NoJob /\ job.step = "region" /\ job.country = None
  /\ holidays' = ReplacedAll({})
  /\ EnsureDone
  /\ UNCHANGED <<year, place, saves, own, used>>

Fetch ==
  /\ job # NoJob /\ job.step = "region" /\ job.country # None
  /\ job' = [at |-> job.at, years |-> job.years, step |-> "compare",
             list |-> Imported(job.country, place[2], Head(job.years))]
  /\ UNCHANGED <<year, place, holidays, saves, own, used>>

\* The holiday service does not answer: logged, and tried again next Monday.
FetchFails ==
  /\ job # NoJob /\ job.step = "region" /\ job.country # None
  /\ EnsureDone
  /\ UNCHANGED <<year, place, holidays, saves, own, used>>

Compare ==
  /\ job # NoJob /\ job.step = "compare"
  /\ IF Matches(Head(job.years), job.list) THEN EnsureDone
     ELSE job' = [job EXCEPT !.step = "replace"]
  /\ UNCHANGED <<year, place, holidays, saves, own, used>>

ReplaceYear ==
  /\ job # NoJob /\ job.step = "replace"
  /\ LET y == Head(job.years)
     IN holidays' = ReplacedYear(y, AutoRows(job.list, y))
  /\ EnsureDone
  /\ UNCHANGED <<year, place, saves, own, used>>

NewYear ==
  /\ year < LastYear /\ year' = year + 1
  /\ UNCHANGED <<place, holidays, saves, job, own, used>>

\* Requests in progress are lost; both years are ensured before any other.
Restart ==
  /\ used.restarts < MaxRestarts /\ Use("restarts")
  /\ job' = [at |-> "starting", years |-> <<year, year + 1>>, step |-> "country"]
  /\ saves' = [s \in Saves |-> NoSave]
  /\ UNCHANGED <<year, place, holidays, own>>

-----------------------------------------------------------------------------
\* As the server starts for the first time, or with a day an admin has added.
Init ==
  /\ year = 1 /\ place = <<None, None>>
  /\ own \in {{}} \cup {{<<1, d>>} : d \in Days}
  /\ holidays = {[date |-> x, name |-> "own", auto |-> FALSE, recurs |-> TRUE,
                  until |-> LastYear + 1] : x \in own}
  /\ job = [at |-> "starting", years |-> <<1, 2>>, step |-> "country"]
  /\ saves = [s \in Saves |-> NoSave]
  /\ used = [saves |-> 0, manual |-> 0, restarts |-> 0]

Import == ReadCountry \/ ClearImports \/ Fetch \/ Compare \/ ReplaceYear

Next ==
  \/ \E s \in Saves : FetchForSave(s) \/ Save(s) \/ \E p \in Places : BeginSave(s, p)
  \/ \E d \in Days, until \in Years : CreateManual(d, until)
  \/ \E r \in holidays : DeleteHoliday(r)
  \/ Monday \/ Import \/ FetchFails \/ NewYear \/ Restart

\* Mondays come, the import runs on, and the service answers now and then.
Fairness == WF_vars(Monday) /\ WF_vars(Import) /\ SF_vars(Fetch)

Spec == Init /\ [][Next]_vars /\ Fairness

-----------------------------------------------------------------------------
\* The imported holidays of a year are those of the configured place.
Follows(y) ==
  IF place[1] = None THEN \A r \in holidays : ~r.auto
  ELSE Matches(y, Imported(place[1], place[2], y))

\* Whatever saves, imports and restarts cross each other, the next year ends up
\* with the holidays of the place configured last, and with every day an admin
\* added (docs/user-guide.md: "missing or changed imported holidays are
\* refreshed without removing manually added holidays").
NextYearSettled ==
  Follows(year + 1) /\ own = {r.date : r \in {k \in holidays : ~k.auto}}
NextYearFollows == <>[]NextYearSettled
=============================================================================
