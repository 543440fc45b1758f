------------------------------ MODULE FiscalYears ------------------------------
(***************************************************************************)
(* The fiscal years of one company and their accounting periods:           *)
(* apps/api/src/modules/admin/admin.service.ts, and what createCompany in  *)
(* apps/api/src/modules/org/org.service.ts starts a company with.          *)
(*                                                                         *)
(* As in PaymentVoucher a handler reads (XRead), checks its guards on the  *)
(* copy, and writes later (XWrite); a failed guard is a disabled XRead.    *)
(* Days are numbered from 0, and every month has MonthLength of them.      *)
(***************************************************************************)
EXTENDS Integers, Sequences

CONSTANTS
    Requests,      \* the requests that may be in flight together
    Years,         \* bound: rows of FiscalYear
    Names,         \* what a year can be called
    LastDay,       \* bound: the days are 0..LastDay
    MonthLength

ASSUME CalendarAssumption ==
    /\ LastDay \in Nat
    /\ MonthLength \in Nat \ {0}

VARIABLES
    years,        \* the FiscalYear rows, each with its AccountingPeriod rows
    interrupted,  \* years whose status a request did not live to write
    req           \* what each request in flight is about to do

vars == <<years, interrupted, req>>

-----------------------------------------------------------------------------
Days == 0..LastDay

Statuses == {"OPEN", "CLOSED", "LOCKED"}

Period == [first : Days, last : Days, status : Statuses]

Year ==
    [ name : Names, first : Days, last : Days, status : Statuses,
      periods : Seq(Period) ]

Absent == [status |-> "ABSENT"]

Exists(y) == years[y] # Absent

Covers(span, day) == span.first <= day /\ day <= span.last

(* Slip: a period runs into the first day of the next one. *)
BuildMonthlyPeriodsSharingDays(first, last) ==
    LET month(i) == first \div MonthLength + i - 1
    IN  [i \in 1 .. (last \div MonthLength - first \div MonthLength + 1) |->
            LET next == (month(i) + 1) * MonthLength
            IN  [ first |-> IF i = 1 THEN first ELSE month(i) * MonthLength,
                  last |-> IF last < next THEN last ELSE next,
                  status |-> "OPEN" ]]

(* One period per calendar month, the first and the last of them cut off   *)
(* at the year's own ends.                                                 *)
BuildMonthlyPeriods(first, last) ==
    LET month(i) == first \div MonthLength + i - 1
    IN  [i \in 1 .. (last \div MonthLength - first \div MonthLength + 1) |->
            LET next == (month(i) + 1) * MonthLength
            IN  [ first |-> IF i = 1 THEN first ELSE month(i) * MonthLength,
                  last |-> IF last < next THEN last ELSE next - 1,
                  status |-> "OPEN" ]]

NewYear(name, first, last, generateMonthlyPeriods) ==
    [ name |-> name, first |-> first, last |-> last, status |-> "OPEN",
      periods |-> IF generateMonthlyPeriods
                  THEN BuildMonthlyPeriods(first, last)
                  ELSE <<>> ]

AllLocked(periods) == \A i \in DOMAIN periods : periods[i].status = "LOCKED"
NoneOpen(periods) == \A i \in DOMAIN periods : periods[i].status # "OPEN"

DeriveFiscalYearStatus(current, periods) ==
    IF periods # <<>> /\ AllLocked(periods) THEN "LOCKED"
    ELSE IF periods # <<>> /\ NoneOpen(periods) THEN "CLOSED"
    ELSE IF current = "LOCKED" THEN "LOCKED"
    ELSE "OPEN"

SetPeriod(periods, i, status) == [periods EXCEPT ![i].status = status]

LockPeriods(periods) ==
    [i \in DOMAIN periods |-> [periods[i] EXCEPT !.status = "LOCKED"]]

-----------------------------------------------------------------------------
Idle == [pc |-> "idle"]

New == "new"   \* the row a request is on is yet to be created

Begin(r, operation, y, data) ==
    /\ req[r] = Idle
    /\ req' = [req EXCEPT ![r] = [pc |-> operation, on |-> y, data |-> data]]
    /\ UNCHANGED <<years, interrupted>>

End(r, operation) ==
    /\ req[r].pc = operation
    /\ req' = [req EXCEPT ![r] = Idle]

(* Slip: years that only share their last day are not seen to overlap. *)
OverlapsInside(y, first, last) ==
    Exists(y) /\ years[y].first < last /\ first < years[y].last

Overlaps(y, first, last) ==
    Exists(y) /\ years[y].first <= last /\ first <= years[y].last

(* POST fiscal-years: refuses a range another year overlaps. *)
CreateFiscalYearRead(r) ==
    \E name \in Names, first, last \in Days,
       generateMonthlyPeriods \in BOOLEAN :
          /\ first <= last
          /\ \A y \in Years : ~ Overlaps(y, first, last)
          /\ Begin(r, "create", New,
                   NewYear(name, first, last, generateMonthlyPeriods))

(* A company's years have different names: a unique index. *)
NameIsFree(name) == \A y \in Years : Exists(y) => years[y].name # name

CreateFiscalYearWrite(r) ==
    /\ End(r, "create")
    /\ NameIsFree(req[r].data.name)
    /\ \E y \in Years : /\ ~ Exists(y)
                       /\ years' = [years EXCEPT ![y] = req[r].data]
    /\ UNCHANGED interrupted

(* POST fiscal-years/:id/close. *)
CloseFiscalYearRead(r, y) ==
    /\ Exists(y)
    /\ years[y].status # "LOCKED"
    /\ NoneOpen(years[y].periods)
    /\ Begin(r, "close", y, "CLOSED")

CloseFiscalYearWrite(r) ==
    /\ End(r, "close")
    /\ years' = [years EXCEPT ![req[r].on].status = "CLOSED"]
    /\ UNCHANGED interrupted

(* POST fiscal-years/:id/lock. *)
LockFiscalYearRead(r, y) ==
    /\ Exists(y)
    /\ NoneOpen(years[y].periods)
    /\ Begin(r, "lock", y, "LOCKED")

(* One transaction locks every period and the year. *)
LockFiscalYearWrite(r) ==
    LET y == req[r].on
    IN  /\ End(r, "lock")
        /\ years' = [years EXCEPT
              ![y].periods = LockPeriods(@),
              ![y].status = "LOCKED"]
        /\ interrupted' = interrupted \ {y}

(* What updateAccountingPeriodStatus works out from the copy it read. *)
BeginUpdate(r, y, i, status) ==
    Begin(r, "period", y,
          [ index |-> i,
            status |-> status,
            was |-> years[y].status,
            yearStatus |-> DeriveFiscalYearStatus(years[y].status,
                              SetPeriod(years[y].periods, i, status)) ])

(* Slip: a locked period is reopened like a closed one. *)
UpdateAccountingPeriodReadLocked(r, y) ==
    /\ Exists(y)
    /\ years[y].status # "LOCKED"
    /\ \E i \in DOMAIN years[y].periods, status \in Statuses :
          BeginUpdate(r, y, i, status)

(* PATCH accounting-periods/:id. *)
UpdateAccountingPeriodRead(r, y) ==
    /\ Exists(y)
    /\ years[y].status # "LOCKED"
    /\ \E i \in DOMAIN years[y].periods, status \in Statuses :
          /\ years[y].periods[i].status = "LOCKED" => status = "LOCKED"
          /\ BeginUpdate(r, y, i, status)

(* The period first; the year in a second statement, if it changes.        *)
UpdateAccountingPeriodWrite(r) ==
    LET y   == req[r].on
        new == req[r].data
    IN  /\ req[r].pc = "period"
        /\ years' = [years EXCEPT
              ![y].periods = SetPeriod(@, new.index, new.status)]
        /\ IF new.yearStatus # new.was
           THEN /\ req' = [req EXCEPT ![r].pc = "year"]
                /\ UNCHANGED interrupted
           ELSE /\ req' = [req EXCEPT ![r] = Idle]
                /\ interrupted' = interrupted \ {y}

(* Slip: the year is reopened by its periods but never closed by them. *)
UpdateFiscalYearWriteReopensOnly(r) ==
    LET y == req[r].on
    IN  /\ End(r, "year")
        /\ years' = IF req[r].data.yearStatus = "OPEN"
                    THEN [years EXCEPT ![y].status = "OPEN"]
                    ELSE years
        /\ interrupted' = interrupted \ {y}

UpdateFiscalYearWrite(r) ==
    LET y == req[r].on
    IN  /\ End(r, "year")
        /\ years' = [years EXCEPT ![y].status = req[r].data.yearStatus]
        /\ interrupted' = interrupted \ {y}

(* A request ends without its remaining writes: the API process stops, the *)
(* database refuses the statement, or rolls the transaction back.          *)
Abort(r) ==
    /\ req[r] # Idle
    /\ req' = [req EXCEPT ![r] = Idle]
    /\ interrupted' = IF req[r].pc = "year"
                      THEN interrupted \union {req[r].on}
                      ELSE interrupted
    /\ UNCHANGED years

-----------------------------------------------------------------------------
(* createCompany: a year of whole months, with its periods. *)
Init ==
    /\ \E y \in Years, name \in Names, first, last \in Days :
          /\ first % MonthLength = 0
          /\ (last + 1) % MonthLength = 0
          /\ first <= last
          /\ years = [z \in Years |-> IF z = y
                                      THEN NewYear(name, first, last, TRUE)
                                      ELSE Absent]
    /\ interrupted = {}
    /\ req = [r \in Requests |-> Idle]

Call(r) ==
    \/ CreateFiscalYearRead(r)
    \/ \E y \in Years : \/ CloseFiscalYearRead(r, y)
                       \/ LockFiscalYearRead(r, y)
                       \/ UpdateAccountingPeriodRead(r, y)

Proceed(r) ==
    \/ CreateFiscalYearWrite(r)
    \/ CloseFiscalYearWrite(r)
    \/ LockFiscalYearWrite(r)
    \/ UpdateAccountingPeriodWrite(r)
    \/ UpdateFiscalYearWrite(r)
    \/ Abort(r)

Next == \E r \in Requests : Call(r) \/ Proceed(r)

Spec == Init /\ [][Next]_vars

-----------------------------------------------------------------------------
(* Properties.                                                             *)

RequestOK(q) ==
    \/ q = Idle
    \/ q \in [pc : {"create"}, on : {New}, data : Year]
    \/ q \in [pc : {"close", "lock"}, on : Years, data : Statuses]
    \/ q \in [ pc : {"period", "year"}, on : Years,
               data : [ index : Nat, status : Statuses, was : Statuses,
                        yearStatus : Statuses ] ]

(* The rows and what the requests hold have their types. *)
TypeOK ==
    /\ DOMAIN years = Years
    /\ \A y \in Years : Exists(y) => years[y] \in Year
    /\ interrupted \in SUBSET Years
    /\ DOMAIN req = Requests
    /\ \A r \in Requests : RequestOK(req[r])

(* The periods of a year, if it has any, cover each of its days once and   *)
(* no other day.                                                           *)
PeriodsPartition(year) ==
    \A day \in Days :
        /\ Covers(year, day) =>
              \E i \in DOMAIN year.periods : Covers(year.periods[i], day)
        /\ \A i, j \in DOMAIN year.periods :
              Covers(year.periods[i], day) =>
                  /\ Covers(year, day)
                  /\ Covers(year.periods[j], day) => i = j

Apart(year, first, last) == last < year.first \/ year.last < first

(* One request at a time, no two years share a day.  createFiscalYear:     *)
(* "Fiscal year overlaps with ...".                                        *)
YearsDoNotOverlap ==
    \A y, z \in Years : Exists(y) /\ Exists(z) /\ y # z =>
        Apart(years[z], years[y].first, years[y].last)

(* One request at a time: the posting engine, which looks a period up by   *)
(* its date, finds exactly one in a year with periods, and none in two     *)
(* years.                                                                  *)
EveryDayHasItsPeriod ==
    /\ YearsDoNotOverlap
    /\ \A y \in Years :
          Exists(y) /\ years[y].periods # <<>> => PeriodsPartition(years[y])

(* One request at a time, and whatever request dies halfway: the periods   *)
(* of a locked year are locked.                                            *)
LockedThroughout ==
    \A y \in Years :
        Exists(y) /\ years[y].status = "LOCKED" => AllLocked(years[y].periods)

(* The status of year y follows from its periods. *)
Follows(y) ==
    Exists(y) /\ years[y].periods # <<>> =>
        years[y].status =
            DeriveFiscalYearStatus(years[y].status, years[y].periods)

Quiet == \A r \in Requests : req[r] = Idle

(* One request at a time: between requests the status of a year follows    *)
(* from its periods, unless a request died between its two writes; and the *)
(* next change of one of its periods puts that right.                      *)
YearFollowsPeriods ==
    Quiet => \A y \in Years \ interrupted : Follows(y)

(* Why these hold: one request at a time, what a request works out is      *)
(* still true when it writes.                                              *)
IsFresh(q) ==
    /\ q.pc = "create" =>
         /\ \A y \in Years : ~ Overlaps(y, q.data.first, q.data.last)
         /\ q.data.periods # <<>> => PeriodsPartition(q.data)
         /\ q.data.status = "OPEN"
         /\ \A i \in DOMAIN q.data.periods : q.data.periods[i].status = "OPEN"
    /\ q.pc = "lock" => Exists(q.on)
    /\ q.pc = "close" =>
         /\ Exists(q.on)
         /\ years[q.on].status # "LOCKED"
         /\ NoneOpen(years[q.on].periods)
    /\ q.pc = "period" =>
         /\ Exists(q.on)
         /\ years[q.on].status # "LOCKED"
         /\ q.data.index \in DOMAIN years[q.on].periods
         /\ years[q.on].periods[q.data.index].status = "LOCKED" =>
               q.data.status = "LOCKED"
         /\ q.data.was = years[q.on].status
         /\ q.data.yearStatus =
               DeriveFiscalYearStatus(years[q.on].status,
                  SetPeriod(years[q.on].periods, q.data.index, q.data.status))
    /\ q.pc = "year" =>
         /\ Exists(q.on)
         /\ years[q.on].status # "LOCKED"
         /\ q.data.yearStatus =
               DeriveFiscalYearStatus(years[q.on].status, years[q.on].periods)

FollowsSoon(y) ==
    Follows(y) \/ \E r \in Requests : req[r].pc = "year" /\ req[r].on = y

SerialInv ==
    /\ TypeOK
    /\ EveryDayHasItsPeriod
    /\ LockedThroughout
    /\ \A y \in Years \ interrupted : FollowsSoon(y)
    /\ \A r \in Requests : IsFresh(req[r])

(* One request at a time: nothing in a locked year changes, and a locked   *)
(* period stays locked.  Both guards of updateAccountingPeriodStatus and   *)
(* closeFiscalYear say so.                                                 *)
IsFrozen(y) ==
    /\ years[y].status = "LOCKED" => years'[y] = years[y]
    /\ \A i \in DOMAIN years[y].periods :
          years[y].periods[i].status = "LOCKED" =>
              years'[y].periods[i].status = "LOCKED"

LockedIsForGood == [][\A y \in Years : Exists(y) => IsFrozen(y)]_vars

-----------------------------------------------------------------------------
(* However many requests overlap.                                          *)

(* The periods each year has, if any, cover each of its own days once: no  *)
(* request, stale or interrupted, moves a period or drops one.             *)
PeriodsCoverTheirYear ==
    \A y \in Years :
        Exists(y) /\ years[y].periods # <<>> => PeriodsPartition(years[y])

(* Two years of the company never have the same name: createFiscalYear     *)
(* leaves that to the unique index, which its insert meets after whatever  *)
(* else was inserted since it read.                                        *)
NamesDiffer ==
    \A y, z \in Years : Exists(y) /\ Exists(z) /\ y # z =>
        years[y].name # years[z].name

(* What a request holds may be out of date, yet what it is about to write  *)
(* fits the row it writes to: the row and its period are still there.      *)
StillFits(q) ==
    /\ q.pc = "create" =>
         /\ q.data.periods # <<>> => PeriodsPartition(q.data)
         /\ \A i \in DOMAIN q.data.periods : q.data.periods[i].status = "OPEN"
    /\ q.pc \in {"close", "lock", "period", "year"} => Exists(q.on)
    /\ q.pc \in {"period", "year"} =>
         q.data.index \in DOMAIN years[q.on].periods

OverlapInv ==
    /\ TypeOK
    /\ PeriodsCoverTheirYear
    /\ NamesDiffer
    /\ \A r \in Requests : StillFits(req[r])

(* Only the statuses of a year that exists change: its name and its days,  *)
(* and the number and the days of its periods, are what they were made.    *)
CalendarStands(y) ==
    /\ Exists(y)'
    /\ years'[y].name = years[y].name
    /\ years'[y].first = years[y].first
    /\ years'[y].last = years[y].last
    /\ DOMAIN years'[y].periods = DOMAIN years[y].periods
    /\ \A i \in DOMAIN years[y].periods :
          /\ years'[y].periods[i].first = years[y].periods[i].first
          /\ years'[y].periods[i].last = years[y].periods[i].last

OnlyStatusesChange == [][\A y \in Years : Exists(y) => CalendarStands(y)]_vars

(* A locked year left with an open period, and no request on it: the       *)
(* period is not updated in a locked year, and the year is not locked      *)
(* again over an open period.                                              *)
Stuck(y) ==
    /\ Exists(y)
    /\ years[y].status = "LOCKED"
    /\ ~ NoneOpen(years[y].periods)
    /\ \A r \in Requests :
          req[r].pc \in {"close", "lock", "period", "year"} => req[r].on # y

(* What overlapping requests can bring a year to, no later request mends:  *)
(* updateAccountingPeriodStatus, closeFiscalYear and lockFiscalYear all    *)
(* refuse such a year.                                                     *)
StuckIsForGood ==
    [][\A y \in Years : Stuck(y) => Stuck(y)' /\ years'[y] = years[y]]_vars

(* However many requests overlap, period i of year y keeps the promise of  *)
(* an accounting period, from before it is inserted on: every new period   *)
(* is open.  lockFiscalYear asks for all the periods of its year.          *)
StatusOf(y, i) ==
    IF Exists(y) /\ i \in DOMAIN years[y].periods
    THEN years[y].periods[i].status
    ELSE "OPEN"

Asked(q, y, i) ==
    IF q.pc = "lock" /\ q.on = y THEN "LOCKED"
    ELSE IF q.pc = "period" /\ q.on = y /\ q.data.index = i THEN q.data.status
    ELSE "nothing"

PeriodOf(y, i) ==
    INSTANCE AccountingPeriod
        WITH status <- StatusOf(y, i),
             asked <- [r \in Requests |-> Asked(req[r], y, i)]

ImplementsAccountingPeriod(y, i) == PeriodOf(y, i)!Spec
=============================================================================
