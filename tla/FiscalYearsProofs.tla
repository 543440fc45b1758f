-------------------------- MODULE FiscalYearsProofs --------------------------
(***************************************************************************)
(* Proofs about FiscalYears, for any number of years, days and requests:   *)
(* monthly periods partition their year; what holds of one request at a    *)
(* time; and what is left when requests overlap: the calendar stands, and  *)
(* every period keeps the promise of AccountingPeriod.                     *)
(***************************************************************************)
EXTENDS FiscalYears, TLAPS

-----------------------------------------------------------------------------
(* Months.                                                                 *)

LEMMA ProductsAreOrdered ==
  ASSUME NEW x \in Int, NEW y \in Int, NEW m \in Nat, x <= y
  PROVE  x * m <= y * m
  <1>1. y * m = x * m + (y - x) * m
    OBVIOUS
  <1>2. y - x \in Nat
    OBVIOUS
  <1>3. (y - x) * m \in Nat
    BY <1>2
  <1> QED
    BY <1>1, <1>3

(* A day lies in the month of its number. *)
LEMMA DayInItsMonth ==
  ASSUME NEW d \in Nat
  PROVE  /\ d \div MonthLength \in Nat
         /\ (d \div MonthLength) * MonthLength <= d
         /\ d < (d \div MonthLength + 1) * MonthLength
  BY CalendarAssumption

(* What buildMonthlyPeriods makes: period i is the month i - 1 months      *)
(* after that of the first day, within the year's ends.                    *)
LEMMA MonthlyPeriods ==
  ASSUME NEW first \in Days, NEW last \in Days, first <= last,
         NEW a, a = first \div MonthLength,
         NEW b, b = last \div MonthLength,
         NEW periods, periods = BuildMonthlyPeriods(first, last)
  PROVE  /\ a \in Nat /\ b \in Nat /\ a <= b
         /\ periods \in Seq(Period)
         /\ DOMAIN periods = 1 .. (b - a + 1)
         /\ \A i \in DOMAIN periods :
               /\ first <= periods[i].first
               /\ (a + i - 1) * MonthLength <= periods[i].first
               /\ periods[i].last <= last
               /\ periods[i].last < (a + i) * MonthLength
               /\ \A day \in Days :
                     /\ first <= day /\ day <= last
                     /\ (a + i - 1) * MonthLength <= day
                     /\ day < (a + i) * MonthLength
                     => Covers(periods[i], day)
               /\ periods[i].status = "OPEN"
  <1> DEFINE M == MonthLength
             From(i) == (a + i - 1) * M
             To(i) == (a + i) * M
  <1>1. /\ first \in Nat /\ last \in Nat /\ last <= LastDay
        /\ LastDay \in Nat /\ M \in Nat /\ M > 0
    BY CalendarAssumption DEF Days
  <1>2. /\ a \in Nat /\ a * M <= first /\ first < (a + 1) * M
        /\ b \in Nat /\ b * M <= last /\ last < (b + 1) * M
    BY <1>1, DayInItsMonth
  <1>3. a <= b
    <2> SUFFICES ASSUME b + 1 <= a PROVE FALSE
      BY <1>2
    <2>1. (b + 1) * M <= a * M
      BY <1>1, <1>2, ProductsAreOrdered
    <2>2. (b + 1) * M \in Int /\ a * M \in Int
      BY <1>1, <1>2
    <2> QED
      BY <1>1, <1>2, <2>1, <2>2
  <1>4. DOMAIN periods = 1 .. (b - a + 1)
    BY DEF BuildMonthlyPeriods
  <1>5. ASSUME NEW i \in 1 .. (b - a + 1)
        PROVE  /\ periods[i] = [ first |-> periods[i].first,
                                 last |-> periods[i].last,
                                 status |-> "OPEN" ]
               /\ i = 1 => periods[i].first = first
               /\ i # 1 => periods[i].first = From(i)
               /\ last < To(i) => periods[i].last = last
               /\ ~ (last < To(i)) => periods[i].last = To(i) - 1
               /\ i \in Nat
               /\ From(i) \in Nat /\ From(i) <= last
               /\ To(i) \in Nat /\ To(i) >= 1
               /\ i # 1 => first < From(i)
               /\ i = 1 => From(i) <= first
    <2>1. /\ i \in Nat /\ i >= 1 /\ a + i - 1 \in Nat /\ a + i \in Nat
          /\ a + i - 1 <= b /\ (a + i - 1) + 1 = a + i
      BY <1>2
    <2>2. (a + i - 1) * M <= b * M
      BY <1>1, <1>2, <2>1, ProductsAreOrdered
    <2>3. 1 * M <= (a + i) * M
      BY <1>1, <1>2, <2>1, ProductsAreOrdered
    <2>4. i # 1 => (a + 1) * M <= (a + i - 1) * M
      BY <1>1, <1>2, <2>1, ProductsAreOrdered
    <2>5. /\ (a + i - 1) * M \in Nat /\ (a + i) * M \in Nat
          /\ b * M \in Nat /\ (a + 1) * M \in Nat /\ a * M \in Nat
          /\ 1 * M = M
      BY <1>1, <1>2, <2>1
    <2>6. periods[i] = [ first |-> IF i = 1 THEN first ELSE From(i),
                         last |-> IF last < To(i) THEN last ELSE To(i) - 1,
                         status |-> "OPEN" ]
      BY <2>1 DEF BuildMonthlyPeriods
    <2>8. /\ periods[i] = [ first |-> periods[i].first,
                            last |-> periods[i].last,
                            status |-> "OPEN" ]
          /\ i = 1 => periods[i].first = first
          /\ i # 1 => periods[i].first = From(i)
          /\ last < To(i) => periods[i].last = last
          /\ ~ (last < To(i)) => periods[i].last = To(i) - 1
      <3> HIDE DEF M, From, To
      <3> QED
        BY <2>6
    <2>7. i = 1 => (a + i - 1) * M = a * M
      BY <1>2
    <2> QED
      BY <1>1, <1>2, <2>1, <2>2, <2>3, <2>4, <2>5, <2>7, <2>8
  <1>6. ASSUME NEW i \in 1 .. (b - a + 1)
        PROVE  /\ periods[i] \in Period
               /\ first <= periods[i].first
               /\ From(i) <= periods[i].first
               /\ periods[i].last <= last
               /\ periods[i].last < To(i)
               /\ periods[i].status = "OPEN"
    <2> HIDE DEF M, From, To
    <2>1. /\ periods[i].first \in Nat /\ periods[i].first <= last
          /\ first <= periods[i].first /\ From(i) <= periods[i].first
      <3>1. CASE i = 1
        <4>1. periods[i].first = first /\ From(i) <= first
          BY <1>5, <3>1
        <4>2. first \in Nat /\ first <= last
          BY <1>1
        <4> QED
          BY <4>1, <4>2
      <3>2. CASE i # 1
        <4>1. periods[i].first = From(i) /\ first < From(i)
          BY <1>5, <3>2
        <4>2. From(i) \in Nat /\ From(i) <= last /\ first \in Nat
          BY <1>1, <1>5
        <4> QED
          BY <4>1, <4>2
      <3> QED
        BY <3>1, <3>2
    <2>2. /\ periods[i].last \in Nat /\ periods[i].last <= last
          /\ periods[i].last < To(i)
      <3>1. To(i) \in Nat /\ To(i) >= 1 /\ last \in Nat
        BY <1>1, <1>5
      <3>2. CASE last < To(i)
        <4>1. periods[i].last = last
          BY <1>5, <3>2
        <4> QED
          BY <3>1, <3>2, <4>1
      <3>3. CASE ~ (last < To(i))
        <4>1. periods[i].last = To(i) - 1
          BY <1>5, <3>3
        <4> QED
          BY <3>1, <3>3, <4>1
      <3> QED
        BY <3>2, <3>3
    <2>3. /\ periods[i].first \in Days /\ periods[i].last \in Days
          /\ periods[i] = [ first |-> periods[i].first,
                            last |-> periods[i].last, status |-> "OPEN" ]
      BY <1>1, <1>5, <2>1, <2>2 DEF Days
    <2>4. periods[i] \in Period /\ periods[i].status = "OPEN"
      BY <2>3 DEF Period, Statuses
    <2> QED
      BY <2>1, <2>2, <2>4
  <1>7. ASSUME NEW i \in 1 .. (b - a + 1), NEW day \in Days,
               first <= day, day <= last,
               From(i) <= day, day < To(i)
        PROVE  Covers(periods[i], day)
    <2> HIDE DEF M, From, To
    <2>1. /\ last < To(i) => periods[i].last = last
          /\ ~ (last < To(i)) => periods[i].last = To(i) - 1
          /\ To(i) \in Nat
      BY <1>5
    <2>5. day \in Nat
      BY <1>1 DEF Days
    <2>2. /\ i = 1 => periods[i].first = first
          /\ i # 1 => periods[i].first = From(i)
      BY <1>5
    <2>3. periods[i].first <= day
      BY <1>7, <2>2
    <2>4. day <= periods[i].last
      BY <1>7, <2>1, <2>5
    <2> QED
      BY <2>3, <2>4 DEF Covers
  <1>8. periods \in Seq(Period)
    <2>1. periods = [i \in 1 .. (b - a + 1) |-> periods[i]]
      BY DEF BuildMonthlyPeriods
    <2>2. b - a + 1 \in Nat
      BY <1>2, <1>3
    <2>3. \A i \in 1 .. (b - a + 1) : periods[i] \in Period
      BY <1>6
    <2>4. periods \in [1 .. (b - a + 1) -> Period]
      <3> HIDE DEF M, From, To
      <3> QED
        BY <2>1, <2>3, Zenon
    <2> QED
      BY <2>2, <2>4
  <1> QED
    BY <1>2, <1>3, <1>4, <1>6, <1>7, <1>8

(* What buildMonthlyPeriods makes covers each day of the year once, and no *)
(* other day, wherever in a month the year begins and ends.                *)
THEOREM MonthlyPeriodsPartition ==
  ASSUME NEW first \in Days, NEW last \in Days, first <= last,
         NEW year, year.first = first, year.last = last,
         year.periods = BuildMonthlyPeriods(first, last)
  PROVE  PeriodsPartition(year)
  <1> DEFINE M == MonthLength
             a == first \div M
             b == last \div M
             periods == BuildMonthlyPeriods(first, last)
             From(i) == (a + i - 1) * M
             To(i) == (a + i) * M
  <1>1. /\ first \in Nat /\ last \in Nat /\ LastDay \in Nat
        /\ M \in Nat /\ M > 0
    BY CalendarAssumption DEF Days
  <1>2. /\ a \in Nat /\ b \in Nat
        /\ DOMAIN periods = 1 .. (b - a + 1)
        /\ \A i \in DOMAIN periods :
              /\ periods[i] \in Period
              /\ first <= periods[i].first
              /\ From(i) <= periods[i].first
              /\ periods[i].last <= last
              /\ periods[i].last < To(i)
              /\ \A day \in Days :
                    first <= day /\ day <= last /\ From(i) <= day /\ day < To(i)
                    => Covers(periods[i], day)
    <2>1. periods \in Seq(Period)
      BY MonthlyPeriods
    <2>2. \A i \in DOMAIN periods : periods[i] \in Period
      BY <2>1
    <2> QED
      BY <2>2, MonthlyPeriods
  <1>3. ASSUME NEW day \in Days, first <= day, day <= last
        PROVE  \E i \in DOMAIN periods : Covers(periods[i], day)
    <2> DEFINE c == day \div M
    <2>1. day \in Nat
      BY <1>1 DEF Days
    <2>2. c \in Nat /\ c * M <= day /\ day < (c + 1) * M
      BY <2>1, DayInItsMonth
    <2>3. a * M <= first /\ last < (b + 1) * M
      BY <1>1, DayInItsMonth
    <2>4. a <= c
      <3> SUFFICES ASSUME c + 1 <= a PROVE FALSE
        BY <1>2, <2>2
      <3>1. (c + 1) * M <= a * M
        BY <1>1, <1>2, <2>2, ProductsAreOrdered
      <3>2. (c + 1) * M \in Int /\ a * M \in Int
        BY <1>1, <1>2, <2>2
      <3> QED
        BY <1>1, <1>3, <2>1, <2>2, <2>3, <3>1, <3>2
    <2>5. c <= b
      <3> SUFFICES ASSUME b + 1 <= c PROVE FALSE
        BY <1>2, <2>2
      <3>1. (b + 1) * M <= c * M
        BY <1>1, <1>2, <2>2, ProductsAreOrdered
      <3>2. (b + 1) * M \in Int /\ c * M \in Int
        BY <1>1, <1>2, <2>2
      <3> QED
        BY <1>1, <1>3, <2>1, <2>2, <2>3, <3>1, <3>2
    <2>6. /\ c - a + 1 \in DOMAIN periods
          /\ From(c - a + 1) = c * M
          /\ To(c - a + 1) = (c + 1) * M
      <3>1. /\ c - a + 1 \in 1 .. (b - a + 1)
            /\ a + (c - a + 1) - 1 = c
            /\ a + (c - a + 1) = c + 1
        BY <1>2, <2>2, <2>4, <2>5
      <3> QED
        BY <1>2, <3>1
    <2> HIDE DEF From, To, c, periods
    <2> QED
      BY <1>2, <1>3, <2>2, <2>6
  <1>4. ASSUME NEW day \in Days, NEW i \in DOMAIN periods,
               NEW j \in DOMAIN periods, i < j,
               Covers(periods[i], day), Covers(periods[j], day)
        PROVE  FALSE
    <2>1. /\ i \in Nat /\ j \in Nat /\ a + i \in Nat
          /\ a + j - 1 \in Int /\ a + i <= a + j - 1
      BY <1>2, <1>4
    <2>2. To(i) <= From(j)
      BY <1>1, <2>1, ProductsAreOrdered
    <2>3. To(i) \in Int /\ From(j) \in Int
      BY <1>1, <2>1
    <2>4. /\ periods[i].last < To(i) /\ From(j) <= periods[j].first
          /\ day \in Int /\ periods[i].last \in Int /\ periods[j].first \in Int
      <3>1. periods[i] \in Period /\ periods[j] \in Period
        BY <1>2
      <3>2. Days \subseteq Int
        BY <1>1 DEF Days
      <3> QED
        BY <1>2, <3>1, <3>2 DEF Period
    <2>5. day <= periods[i].last /\ periods[j].first <= day
      BY <1>4 DEF Covers
    <2> HIDE DEF From, To, periods
    <2> QED
      BY <2>2, <2>3, <2>4, <2>5
  <1>5. ASSUME NEW day \in Days, NEW i \in DOMAIN periods,
               Covers(periods[i], day)
        PROVE  first <= day /\ day <= last
    <2>1. Days \subseteq Int
      BY <1>1 DEF Days
    <2>2. /\ periods[i].first \in Int /\ periods[i].last \in Int
          /\ first <= periods[i].first /\ periods[i].last <= last
      BY <1>2, <2>1 DEF Period
    <2> HIDE DEF periods
    <2> QED
      BY <1>1, <1>5, <2>1, <2>2 DEF Covers
  <1>6. ASSUME NEW day \in Days, NEW i \in DOMAIN periods,
               NEW j \in DOMAIN periods,
               Covers(periods[i], day), Covers(periods[j], day)
        PROVE  i = j
    <2>1. i \in Int /\ j \in Int
      BY <1>2
    <2>2. ~ (i < j) /\ ~ (j < i)
      BY <1>4, <1>6
    <2> HIDE DEF periods
    <2> QED
      BY <2>1, <2>2
  <1> HIDE DEF periods
  <1>7. /\ year.periods = periods
        /\ \A day \in Days : Covers(year, day) <=> first <= day /\ day <= last
    BY DEF periods, Covers
  <1> QED
    BY <1>3, <1>5, <1>6, <1>7 DEF PeriodsPartition

(* What createFiscalYear and createCompany insert. *)
LEMMA NewYears ==
  ASSUME NEW name \in Names, NEW first \in Days, NEW last \in Days,
         first <= last, NEW generate \in BOOLEAN,
         NEW year, year = NewYear(name, first, last, generate)
  PROVE  /\ year \in Year
         /\ year.first = first /\ year.last = last /\ year.status = "OPEN"
         /\ \A i \in DOMAIN year.periods : year.periods[i].status = "OPEN"
         /\ year.periods # <<>> => PeriodsPartition(year)
  <1>1. /\ BuildMonthlyPeriods(first, last) \in Seq(Period)
        /\ \A i \in DOMAIN BuildMonthlyPeriods(first, last) :
              BuildMonthlyPeriods(first, last)[i].status = "OPEN"
    BY MonthlyPeriods
  <1>2. /\ year.first = first /\ year.last = last /\ year.status = "OPEN"
        /\ year.periods = IF generate THEN BuildMonthlyPeriods(first, last)
                          ELSE <<>>
        /\ year = [ name |-> name, first |-> first, last |-> last,
                    status |-> "OPEN", periods |-> year.periods ]
    BY DEF NewYear
  <1> HIDE DEF NewYear
  <1>3. year.periods \in Seq(Period)
    BY <1>1, <1>2
  <1>4. year \in Year
    <2> DEFINE periods == year.periods
    <2>1. periods \in Seq(Period) /\ "OPEN" \in Statuses
      BY <1>3 DEF Statuses
    <2>2. year = [ name |-> name, first |-> first, last |-> last,
                   status |-> "OPEN", periods |-> periods ]
      BY <1>2
    <2> HIDE DEF periods
    <2>3. [ name |-> name, first |-> first, last |-> last,
            status |-> "OPEN", periods |-> periods ] \in Year
      BY <2>1 DEF Year
    <2> QED
      BY <2>2, <2>3
  <1>5. year.periods # <<>> => PeriodsPartition(year)
    BY <1>2, MonthlyPeriodsPartition
  <1> QED
    BY <1>1, <1>2, <1>4, <1>5

-----------------------------------------------------------------------------
(* Statuses.                                                               *)

LEMMA DerivedStatuses ==
  ASSUME NEW current \in Statuses, NEW periods
  PROVE  /\ DeriveFiscalYearStatus(current, periods) \in Statuses
         /\ current # "LOCKED" /\ DeriveFiscalYearStatus(current, periods) = "LOCKED"
               => AllLocked(periods)
         /\ current # "LOCKED" =>
               DeriveFiscalYearStatus(DeriveFiscalYearStatus(current, periods),
                                      periods) =
               DeriveFiscalYearStatus(current, periods)
  BY DEF DeriveFiscalYearStatus, Statuses

LEMMA PeriodChanges ==
  ASSUME NEW p \in Period, NEW status \in Statuses
  PROVE  /\ [p EXCEPT !.status = status] \in Period
         /\ [p EXCEPT !.status = status].first = p.first
         /\ [p EXCEPT !.status = status].last = p.last
         /\ [p EXCEPT !.status = status].status = status
  BY DEF Period

LEMMA OnePeriodChanges ==
  ASSUME NEW periods \in Seq(Period), NEW i \in DOMAIN periods,
         NEW status \in Statuses
  PROVE  /\ SetPeriod(periods, i, status) \in Seq(Period)
         /\ DOMAIN SetPeriod(periods, i, status) = DOMAIN periods
         /\ \A j \in DOMAIN periods :
               /\ SetPeriod(periods, i, status)[j].first = periods[j].first
               /\ SetPeriod(periods, i, status)[j].last = periods[j].last
  <1> DEFINE changed == SetPeriod(periods, i, status)
  <1>1. /\ Len(periods) \in Nat
        /\ DOMAIN periods = 1 .. Len(periods)
        /\ \A j \in DOMAIN periods : periods[j] \in Period
    OBVIOUS
  <1>2. changed = [j \in DOMAIN periods |->
                     IF j = i THEN [periods[j] EXCEPT !.status = status]
                     ELSE periods[j]]
    BY DEF SetPeriod
  <1>3. \A j \in DOMAIN periods :
           /\ changed[j] \in Period
           /\ changed[j].first = periods[j].first
           /\ changed[j].last = periods[j].last
    BY <1>1, <1>2, PeriodChanges
  <1>4. changed \in [1 .. Len(periods) -> Period]
    BY <1>1, <1>2, <1>3, Zenon
  <1>5. changed \in Seq(Period)
    BY <1>1, <1>4
  <1>6. DOMAIN changed = DOMAIN periods
    BY <1>2
  <1> HIDE DEF changed
  <1>7. /\ changed \in Seq(Period) /\ DOMAIN changed = DOMAIN periods
        /\ \A j \in DOMAIN periods :
              /\ changed[j].first = periods[j].first
              /\ changed[j].last = periods[j].last
    BY <1>3, <1>5, <1>6
  <1> QED
    BY <1>7, Zenon DEF changed

LEMMA AllPeriodsChange ==
  ASSUME NEW periods \in Seq(Period)
  PROVE  /\ LockPeriods(periods) \in Seq(Period)
         /\ DOMAIN LockPeriods(periods) = DOMAIN periods
         /\ \A j \in DOMAIN periods :
               /\ LockPeriods(periods)[j].first = periods[j].first
               /\ LockPeriods(periods)[j].last = periods[j].last
               /\ LockPeriods(periods)[j].status = "LOCKED"
  <1> DEFINE changed == LockPeriods(periods)
  <1>1. /\ Len(periods) \in Nat
        /\ DOMAIN periods = 1 .. Len(periods)
        /\ \A j \in DOMAIN periods : periods[j] \in Period
    OBVIOUS
  <1>2. changed = [j \in DOMAIN periods |->
                     [periods[j] EXCEPT !.status = "LOCKED"]]
    BY DEF LockPeriods
  <1> HIDE DEF changed
  <1>3. \A j \in DOMAIN periods :
           /\ changed[j] \in Period
           /\ changed[j].first = periods[j].first
           /\ changed[j].last = periods[j].last
           /\ changed[j].status = "LOCKED"
    <2>1. "LOCKED" \in Statuses
      BY DEF Statuses
    <2> QED
      BY <1>1, <1>2, <2>1, PeriodChanges
  <1>4. changed \in [1 .. Len(periods) -> Period]
    BY <1>1, <1>2, <1>3, Zenon
  <1>5. changed \in Seq(Period)
    BY <1>1, <1>4
  <1> QED
    BY <1>2, <1>3, <1>5 DEF changed

-----------------------------------------------------------------------------
(* A change of statuses in one year leaves the days as they are.           *)

LEMMA SamePartition ==
  ASSUME NEW old, NEW new, PeriodsPartition(old),
         new.first = old.first, new.last = old.last,
         DOMAIN new.periods = DOMAIN old.periods,
         \A i \in DOMAIN old.periods :
            /\ new.periods[i].first = old.periods[i].first
            /\ new.periods[i].last = old.periods[i].last
  PROVE  PeriodsPartition(new)
  BY DEF PeriodsPartition, Covers

LEMMA SomePeriods ==
  ASSUME NEW old \in Seq(Period), NEW new \in Seq(Period),
         DOMAIN new = DOMAIN old, new # <<>>
  PROVE  old # <<>>
  OBVIOUS

LEMMA ChangeOfStatuses ==
  ASSUME TypeOK, EveryDayHasItsPeriod, LockedThroughout,
         NEW y \in Years, Exists(y), NEW new \in Year,
         new.first = years[y].first, new.last = years[y].last,
         DOMAIN new.periods = DOMAIN years[y].periods,
         \A i \in DOMAIN years[y].periods :
            /\ new.periods[i].first = years[y].periods[i].first
            /\ new.periods[i].last = years[y].periods[i].last,
         new.status = "LOCKED" => AllLocked(new.periods),
         years' = [years EXCEPT ![y] = new]
  PROVE  /\ DOMAIN years' = Years
         /\ \A w \in Years : Exists(w)' => years'[w] \in Year
         /\ Exists(y)' /\ years'[y] = new
         /\ \A w \in Years \ {y} : years'[w] = years[w]
         /\ EveryDayHasItsPeriod'
         /\ LockedThroughout'
  <1>1. /\ DOMAIN years' = Years
        /\ years'[y] = new
        /\ \A w \in Years \ {y} : years'[w] = years[w]
    BY DEF TypeOK
  <1>2. new # Absent
    BY DEF Year, Statuses, Absent
  <1>3. \A w \in Years : (Exists(w)' <=> Exists(w))
    BY <1>1, <1>2 DEF Exists
  <1>4. \A w \in Years : Exists(w)' => years'[w] \in Year
    BY <1>1, <1>3 DEF TypeOK, Exists
  <1>5. YearsDoNotOverlap'
    <2>1. \A w \in Years : Exists(w) =>
             years'[w].first = years[w].first /\ years'[w].last = years[w].last
      BY <1>1
    <2> QED
      BY <1>3, <2>1 DEF EveryDayHasItsPeriod, YearsDoNotOverlap, Apart
  <1>6. ASSUME NEW w \in Years, Exists(w)', years'[w].periods # <<>>
        PROVE  PeriodsPartition(years'[w])
    <2>1. CASE w = y
      <3>1. years[y].periods \in Seq(Period) /\ new.periods \in Seq(Period)
        BY DEF TypeOK, Year
      <3>2. years[y].periods # <<>>
        BY <1>1, <1>6, <2>1, <3>1, SomePeriods
      <3>3. PeriodsPartition(years[y])
        BY <3>2 DEF EveryDayHasItsPeriod
      <3> QED
        BY <1>1, <2>1, <3>3, SamePartition
    <2>2. CASE w # y
      BY <1>1, <1>3, <1>6, <2>2 DEF EveryDayHasItsPeriod
    <2> QED
      BY <2>1, <2>2
  <1>7. EveryDayHasItsPeriod'
    BY <1>5, <1>6 DEF EveryDayHasItsPeriod, PeriodsPartition, Covers
  <1>8. LockedThroughout'
    BY <1>1, <1>3 DEF LockedThroughout, AllLocked
  <1> QED
    BY <1>1, <1>2, <1>4, <1>7, <1>8 DEF Exists

(* A year that is left alone, and not interrupted, goes on following from  *)
(* its periods.                                                            *)
LEMMA OtherYearsFollow ==
  ASSUME NEW w \in Years, years'[w] = years[w], Follows(w)
  PROVE  Follows(w)'
  BY DEF Follows, Exists, AllLocked, NoneOpen, DeriveFiscalYearStatus

-----------------------------------------------------------------------------
(* One request at a time.                                                  *)

(* At most one request is in flight. *)
OneRequest == \A r, s \in Requests : r = s

LEMMA TheOnlyRequest ==
  ASSUME OneRequest, TypeOK, NEW r \in Requests, NEW q,
         req' = [req EXCEPT ![r] = q]
  PROVE  /\ DOMAIN req' = Requests
         /\ \A s \in Requests : s = r /\ req'[s] = q
  BY DEF OneRequest, TypeOK

(* What is asked of a request that has ended. *)
LEMMA IdleIsFine ==
  ASSUME NEW r, req'[r] = Idle
  PROVE  RequestOK(Idle) /\ IsFresh(req[r])'
  BY DEF RequestOK, IsFresh, Idle

LEMMA NotWriting ==
  ASSUME OneRequest, SerialInv, NEW r \in Requests, req[r].pc # "year",
         NEW w \in Years \ interrupted
  PROVE  Follows(w)
  BY DEF OneRequest, SerialInv, FollowsSoon

(* A request that has read and not yet written leaves everything as it is. *)
LEMMA BeginKeeps ==
  ASSUME OneRequest, SerialInv, NEW r \in Requests, NEW operation, NEW y,
         NEW data, Begin(r, operation, y, data),
         NEW q, q = [pc |-> operation, on |-> y, data |-> data],
         RequestOK(q), IsFresh(q)
  PROVE  SerialInv'
  <1>1. /\ years' = years /\ interrupted' = interrupted /\ req[r] = Idle
        /\ DOMAIN req' = Requests
        /\ \A s \in Requests : s = r /\ req'[s] = q
    BY TheOnlyRequest DEF Begin, SerialInv
  <1>2. TypeOK'
    BY <1>1 DEF SerialInv, TypeOK, Exists
  <1>3. EveryDayHasItsPeriod' /\ LockedThroughout'
    BY <1>1 DEF SerialInv, EveryDayHasItsPeriod, YearsDoNotOverlap, Exists,
                LockedThroughout
  <1>4. \A w \in Years \ interrupted' : FollowsSoon(w)'
    <2>1. \A w \in Years \ interrupted' : Follows(w)
      BY <1>1, NotWriting DEF Idle
    <2>2. \A w \in Years \ interrupted' : Follows(w)'
      BY <1>1, <2>1, OtherYearsFollow
    <2> QED
      BY <2>2 DEF FollowsSoon
  <1>5. ASSUME NEW s \in Requests
        PROVE  IsFresh(req[s])'
    BY <1>1 DEF IsFresh, Exists, Overlaps
  <1> QED
    BY <1>2, <1>3, <1>4, <1>5 DEF SerialInv

(* The handlers as they read. *)
LEMMA CallKeeps ==
  ASSUME OneRequest, SerialInv, NEW r \in Requests, Call(r)
  PROVE  SerialInv'
  <1>1. CASE CreateFiscalYearRead(r)
    <2>1. PICK name \in Names, first \in Days, last \in Days,
               generateMonthlyPeriods \in BOOLEAN :
             /\ first <= last
             /\ \A y \in Years : ~ Overlaps(y, first, last)
             /\ Begin(r, "create", New,
                      NewYear(name, first, last, generateMonthlyPeriods))
      BY <1>1 DEF CreateFiscalYearRead
    <2> DEFINE data == NewYear(name, first, last, generateMonthlyPeriods)
               q == [pc |-> "create", on |-> New, data |-> data]
    <2>2. /\ data \in Year
          /\ data.first = first /\ data.last = last /\ data.status = "OPEN"
          /\ \A i \in DOMAIN data.periods : data.periods[i].status = "OPEN"
          /\ data.periods # <<>> => PeriodsPartition(data)
      BY <2>1, NewYears
    <2> HIDE DEF data
    <2>3. RequestOK(q) /\ IsFresh(q)
      BY <2>1, <2>2 DEF RequestOK, IsFresh
    <2> QED
      BY <2>1, <2>3, BeginKeeps DEF data
  <1>2. CASE \E y \in Years : CloseFiscalYearRead(r, y)
    <2>1. PICK y \in Years : CloseFiscalYearRead(r, y)
      BY <1>2
    <2> DEFINE q == [pc |-> "close", on |-> y, data |-> "CLOSED"]
    <2>2. RequestOK(q) /\ IsFresh(q)
      BY <2>1 DEF RequestOK, IsFresh, CloseFiscalYearRead, Statuses
    <2> QED
      BY <2>1, <2>2, BeginKeeps DEF CloseFiscalYearRead
  <1>3. CASE \E y \in Years : LockFiscalYearRead(r, y)
    <2>1. PICK y \in Years : LockFiscalYearRead(r, y)
      BY <1>3
    <2> DEFINE q == [pc |-> "lock", on |-> y, data |-> "LOCKED"]
    <2>2. RequestOK(q) /\ IsFresh(q)
      BY <2>1 DEF RequestOK, IsFresh, LockFiscalYearRead, Statuses
    <2> QED
      BY <2>1, <2>2, BeginKeeps DEF LockFiscalYearRead
  <1>4. CASE \E y \in Years : UpdateAccountingPeriodRead(r, y)
    <2>1. PICK y \in Years : UpdateAccountingPeriodRead(r, y)
      BY <1>4
    <2>2. PICK i \in DOMAIN years[y].periods, status \in Statuses :
             /\ years[y].periods[i].status = "LOCKED" => status = "LOCKED"
             /\ BeginUpdate(r, y, i, status)
      BY <2>1 DEF UpdateAccountingPeriodRead
    <2> DEFINE changed == SetPeriod(years[y].periods, i, status)
               derived == DeriveFiscalYearStatus(years[y].status, changed)
               data == [ index |-> i, status |-> status,
                         was |-> years[y].status, yearStatus |-> derived ]
               q == [pc |-> "period", on |-> y, data |-> data]
    <2>3. /\ years[y] \in Year /\ Exists(y) /\ years[y].status # "LOCKED"
      BY <2>1 DEF UpdateAccountingPeriodRead, SerialInv, TypeOK
    <2>4. years[y].status \in Statuses /\ derived \in Statuses /\ i \in Nat
      BY <2>3, DerivedStatuses DEF Year
    <2>5. q.data = data /\ q.on = y /\ q.pc = "period"
      OBVIOUS
    <2>6. RequestOK(q)
      <3> HIDE DEF derived
      <3> QED
        BY <2>4 DEF RequestOK
    <2>7. IsFresh(q)
      BY <2>2, <2>3 DEF IsFresh
    <2>8. Begin(r, "period", y, data)
      BY <2>2 DEF BeginUpdate
    <2> HIDE DEF data
    <2> QED
      BY <2>6, <2>7, <2>8, BeginKeeps
  <1> QED
    BY <1>1, <1>2, <1>3, <1>4 DEF Call

(* What is left to show of a step that changes statuses in one year. *)
LEMMA StatusesWritten ==
  ASSUME OneRequest, SerialInv, NEW r \in Requests,
         NEW y \in Years, Exists(y), NEW new \in Year,
         new.first = years[y].first, new.last = years[y].last,
         DOMAIN new.periods = DOMAIN years[y].periods,
         \A i \in DOMAIN years[y].periods :
            /\ new.periods[i].first = years[y].periods[i].first
            /\ new.periods[i].last = years[y].periods[i].last,
         new.status = "LOCKED" => AllLocked(new.periods),
         years' = [years EXCEPT ![y] = new],
         NEW q, req' = [req EXCEPT ![r] = q], RequestOK(q),
         IsFresh(req[r])',
         interrupted' \subseteq interrupted,
         interrupted \subseteq interrupted' \union {y},
         req[r].pc = "year" => req[r].on = y,
         \/ q.pc = "year" /\ q.on = y
         \/ y \in interrupted'
         \/ new.periods # <<>> =>
               new.status = DeriveFiscalYearStatus(new.status, new.periods)
  PROVE  SerialInv'
  <1>1. /\ DOMAIN years' = Years
        /\ \A w \in Years : Exists(w)' => years'[w] \in Year
        /\ Exists(y)' /\ years'[y] = new
        /\ \A w \in Years \ {y} : years'[w] = years[w]
        /\ EveryDayHasItsPeriod'
        /\ LockedThroughout'
    BY ChangeOfStatuses DEF SerialInv
  <1>2. /\ DOMAIN req' = Requests
        /\ \A s \in Requests : s = r /\ req'[s] = q
    BY TheOnlyRequest DEF SerialInv
  <1>3. TypeOK'
    BY <1>1, <1>2 DEF SerialInv, TypeOK
  <1>4. ASSUME NEW w \in Years \ interrupted'
        PROVE  FollowsSoon(w)'
    <2>1. CASE w = y
      BY <1>1, <1>2, <1>4, <2>1
      DEF FollowsSoon, Follows, DeriveFiscalYearStatus, AllLocked, NoneOpen
    <2>2. CASE w # y
      <3>1. w \in Years \ interrupted
        BY <2>2
      <3>2. Follows(w)
        BY <1>2, <2>2, <3>1 DEF SerialInv, FollowsSoon
      <3> QED
        BY <1>1, <2>2, <3>2, OtherYearsFollow DEF FollowsSoon
    <2> QED
      BY <2>1, <2>2
  <1>5. ASSUME NEW s \in Requests
        PROVE  IsFresh(req[s])'
    BY <1>2
  <1> QED
    BY <1>1, <1>3, <1>4, <1>5 DEF SerialInv

(* createFiscalYear's insert. *)
LEMMA CreateFiscalYearWriteKeeps ==
  ASSUME OneRequest, SerialInv, NEW r \in Requests, CreateFiscalYearWrite(r)
  PROVE  SerialInv'
  <1> DEFINE new == req[r].data
  <1>1. PICK y \in Years : ~ Exists(y) /\ years' = [years EXCEPT ![y] = new]
    BY DEF CreateFiscalYearWrite
  <1>2. /\ req[r].pc = "create" /\ req' = [req EXCEPT ![r] = Idle]
        /\ interrupted' = interrupted
    BY DEF CreateFiscalYearWrite, End
  <1>3. /\ DOMAIN req' = Requests
        /\ \A s \in Requests : s = r /\ req'[s] = Idle
    BY <1>2, TheOnlyRequest DEF SerialInv
  <1>4. RequestOK(Idle) /\ \A s \in Requests : IsFresh(req[s])'
    BY <1>3, IdleIsFine
  <1>5. /\ new \in Year
        /\ \A w \in Years : ~ Overlaps(w, new.first, new.last)
        /\ new.periods # <<>> => PeriodsPartition(new)
        /\ new.status = "OPEN"
        /\ \A i \in DOMAIN new.periods : new.periods[i].status = "OPEN"
    BY <1>2 DEF SerialInv, TypeOK, RequestOK, IsFresh, Idle
  <1> HIDE DEF new
  <1>6. /\ DOMAIN years' = Years /\ years'[y] = new
        /\ \A w \in Years \ {y} : years'[w] = years[w]
    BY <1>1 DEF SerialInv, TypeOK
  <1>7. \A w \in Years \ {y} : Exists(w)' <=> Exists(w)
    BY <1>6 DEF Exists
  <1>8. TypeOK'
    BY <1>2, <1>3, <1>4, <1>5, <1>6, <1>7 DEF SerialInv, TypeOK
  <1>9. EveryDayHasItsPeriod'
    <2>1. \A w \in Years \ {y} : Exists(w) => Apart(years[w], new.first, new.last)
      <3>1. ASSUME NEW w \in Years, Exists(w)
            PROVE  Apart(years[w], new.first, new.last)
        <4>1. Days \subseteq Int
          BY CalendarAssumption DEF Days
        <4>2. /\ new.first \in Int /\ new.last \in Int
              /\ years[w].first \in Int /\ years[w].last \in Int
          BY <1>5, <3>1, <4>1 DEF SerialInv, TypeOK, Year
        <4> QED
          BY <1>5, <3>1, <4>2 DEF Overlaps, Apart
      <3> QED
        BY <3>1
    <2>2. YearsDoNotOverlap'
      BY <1>6, <1>7, <2>1
      DEF SerialInv, EveryDayHasItsPeriod, YearsDoNotOverlap, Apart
    <2>3. ASSUME NEW w \in Years, Exists(w)', years'[w].periods # <<>>
          PROVE  PeriodsPartition(years'[w])
      <3>1. CASE w = y
        BY <1>5, <1>6, <2>3, <3>1
      <3>2. CASE w # y
        BY <1>6, <1>7, <2>3, <3>2 DEF SerialInv, EveryDayHasItsPeriod
      <3> QED
        BY <3>1, <3>2
    <2> QED
      BY <2>2, <2>3 DEF EveryDayHasItsPeriod, PeriodsPartition, Covers
  <1>10. LockedThroughout'
    BY <1>5, <1>6, <1>7 DEF SerialInv, LockedThroughout, AllLocked
  <1>11. ASSUME NEW w \in Years \ interrupted'
         PROVE  FollowsSoon(w)'
    <2>1. CASE w = y
      <3>1. new.periods # <<>> => 1 \in DOMAIN new.periods
        BY <1>5 DEF Year
      <3>2. new.periods # <<>> =>
               "OPEN" = DeriveFiscalYearStatus("OPEN", new.periods)
        BY <1>5, <3>1 DEF DeriveFiscalYearStatus, AllLocked, NoneOpen
      <3> QED
        BY <1>5, <1>6, <2>1, <3>2
        DEF FollowsSoon, Follows, DeriveFiscalYearStatus, AllLocked, NoneOpen
    <2>2. CASE w # y
      <3>1. Follows(w)
        BY <1>2, NotWriting, <1>11
      <3> QED
        BY <1>6, <2>2, <3>1, OtherYearsFollow DEF FollowsSoon
    <2> QED
      BY <2>1, <2>2
  <1> QED
    BY <1>4, <1>8, <1>9, <1>10, <1>11 DEF SerialInv

(* closeFiscalYear's update. *)
LEMMA CloseFiscalYearWriteKeeps ==
  ASSUME OneRequest, SerialInv, NEW r \in Requests, CloseFiscalYearWrite(r)
  PROVE  SerialInv'
  <1> DEFINE y == req[r].on
             new == [years[y] EXCEPT !.status = "CLOSED"]
  <1>1. /\ req[r].pc = "close" /\ req' = [req EXCEPT ![r] = Idle]
        /\ interrupted' = interrupted
        /\ years' = [years EXCEPT ![y] = new]
    BY DEF CloseFiscalYearWrite, End
  <1>2. /\ y \in Years /\ Exists(y) /\ years[y].status # "LOCKED"
        /\ NoneOpen(years[y].periods)
    BY <1>1 DEF SerialInv, TypeOK, RequestOK, IsFresh, Idle
  <1>3. RequestOK(Idle) /\ IsFresh(req[r])'
    BY <1>1, TheOnlyRequest, IdleIsFine DEF SerialInv
  <1>4. years[y] \in Year
    BY <1>2 DEF SerialInv, TypeOK
  <1>5. /\ new \in Year
        /\ new.first = years[y].first /\ new.last = years[y].last
        /\ new.periods = years[y].periods /\ new.status = "CLOSED"
    BY <1>4 DEF Year, Statuses
  <1>6. \/ y \in interrupted
        \/ new.periods # <<>> =>
              new.status = DeriveFiscalYearStatus(new.status, new.periods)
    <2>1. SUFFICES ASSUME y \notin interrupted, new.periods # <<>>
                   PROVE  "CLOSED" = DeriveFiscalYearStatus("CLOSED", new.periods)
      BY <1>5
    <2>2. Follows(y)
      BY <1>1, <1>2, <2>1, NotWriting
    <2> QED
      BY <1>2, <1>5, <2>1, <2>2 DEF Follows, DeriveFiscalYearStatus
  <1> HIDE DEF y, new
  <1> QED
    BY <1>1, <1>2, <1>3, <1>5, <1>6, StatusesWritten

(* lockFiscalYear's transaction. *)
LEMMA LockFiscalYearWriteKeeps ==
  ASSUME OneRequest, SerialInv, NEW r \in Requests, LockFiscalYearWrite(r)
  PROVE  SerialInv'
  <1> DEFINE y == req[r].on
             periods == years[y].periods
             locked == LockPeriods(periods)
             new == [years[y] EXCEPT !.periods = locked, !.status = "LOCKED"]
  <1>1. /\ req[r].pc = "lock" /\ req' = [req EXCEPT ![r] = Idle]
        /\ interrupted' = interrupted \ {y}
    BY DEF LockFiscalYearWrite, End
  <1>2. y \in Years /\ Exists(y)
    BY <1>1 DEF SerialInv, TypeOK, RequestOK, IsFresh, Idle
  <1>3. RequestOK(Idle) /\ IsFresh(req[r])'
    BY <1>1, TheOnlyRequest, IdleIsFine DEF SerialInv
  <1>4. years[y] \in Year /\ periods \in Seq(Period)
    BY <1>2 DEF SerialInv, TypeOK, Year
  <1>5. years' = [years EXCEPT ![y] = new]
    BY DEF LockFiscalYearWrite
  <1>6. /\ locked \in Seq(Period)
        /\ DOMAIN locked = DOMAIN periods
        /\ \A j \in DOMAIN periods :
              /\ locked[j].first = periods[j].first
              /\ locked[j].last = periods[j].last
              /\ locked[j].status = "LOCKED"
    BY <1>4, AllPeriodsChange
  <1>7. /\ new \in Year
        /\ new.first = years[y].first /\ new.last = years[y].last
        /\ new.periods = locked /\ new.status = "LOCKED"
    <2> HIDE DEF locked
    <2> QED
      BY <1>4, <1>6 DEF Year, Statuses
  <1>8. AllLocked(new.periods)
    BY <1>6, <1>7 DEF AllLocked
  <1>9. new.periods # <<>> =>
           new.status = DeriveFiscalYearStatus(new.status, new.periods)
    BY <1>7, <1>8 DEF DeriveFiscalYearStatus
  <1> HIDE DEF y, new, locked
  <1>10. /\ DOMAIN new.periods = DOMAIN years[y].periods
         /\ \A j \in DOMAIN years[y].periods :
               /\ new.periods[j].first = years[y].periods[j].first
               /\ new.periods[j].last = years[y].periods[j].last
    BY <1>6, <1>7, Zenon
  <1>11. /\ interrupted' \subseteq interrupted
         /\ interrupted \subseteq interrupted' \union {y}
         /\ req[r].pc # "year"
    BY <1>1
  <1> QED
    BY <1>1, <1>2, <1>3, <1>5, <1>7, <1>8, <1>9, <1>10, <1>11, StatusesWritten

(* The first statement of updateAccountingPeriodStatus. *)
LEMMA UpdateAccountingPeriodWriteKeeps ==
  ASSUME OneRequest, SerialInv, NEW r \in Requests,
         UpdateAccountingPeriodWrite(r)
  PROVE  SerialInv'
  <1>1. PICK y \in Years, index \in Nat, status \in Statuses,
             was \in Statuses, yearStatus \in Statuses :
           req[r] = [ pc |-> "period", on |-> y,
                      data |-> [ index |-> index, status |-> status, was |-> was,
                                 yearStatus |-> yearStatus ] ]
    <2>1. req[r] \in [ pc : {"period", "year"}, on : Years,
                       data : [ index : Nat, status : Statuses, was : Statuses,
                                yearStatus : Statuses ] ]
      BY DEF UpdateAccountingPeriodWrite, SerialInv, TypeOK, RequestOK, Idle
    <2> QED
      BY <2>1 DEF UpdateAccountingPeriodWrite
  <1> DEFINE data == [ index |-> index, status |-> status, was |-> was,
                       yearStatus |-> yearStatus ]
             writing == [pc |-> "year", on |-> y, data |-> data]
  <1>2. PICK periods : periods = years[y].periods
    OBVIOUS
  <1>3. PICK changed : changed = SetPeriod(periods, index, status)
    OBVIOUS
  <1>4. PICK new : new = [years[y] EXCEPT !.periods = changed]
    OBVIOUS
  <1>5. years' = [years EXCEPT ![y] = new]
    <2>1. /\ req[r].on = y /\ req[r].data.index = index
          /\ req[r].data.status = status
      BY <1>1
    <2>2. years' = [years EXCEPT ![y] =
                      [years[y] EXCEPT !.periods =
                         SetPeriod(years[y].periods, index, status)]]
      BY <2>1, Zenon DEF UpdateAccountingPeriodWrite
    <2> QED
      BY <1>2, <1>3, <1>4, <2>2
  <1>6. /\ Exists(y) /\ years[y].status # "LOCKED"
        /\ index \in DOMAIN periods
        /\ was = years[y].status
        /\ yearStatus = DeriveFiscalYearStatus(years[y].status, changed)
    BY <1>1, <1>2, <1>3 DEF SerialInv, IsFresh
  <1>7. years[y] \in Year /\ periods \in Seq(Period)
    BY <1>2, <1>6 DEF SerialInv, TypeOK, Year
  <1>8. /\ changed \in Seq(Period)
        /\ DOMAIN changed = DOMAIN periods
        /\ \A j \in DOMAIN periods :
              /\ changed[j].first = periods[j].first
              /\ changed[j].last = periods[j].last
    <2>1. index \in DOMAIN periods /\ periods \in Seq(Period)
          /\ status \in Statuses
      BY <1>6, <1>7
    <2> QED
      BY <1>3, <2>1, OnePeriodChanges, Zenon
  <1>9. /\ new \in Year
        /\ new.first = years[y].first /\ new.last = years[y].last
        /\ new.periods = changed /\ new.status = years[y].status
    BY <1>4, <1>7, <1>8 DEF Year
  <1>10. years'[y] = new /\ new # Absent
    BY <1>5, <1>9 DEF SerialInv, TypeOK, Year, Statuses, Absent
  <1>11. CASE yearStatus # was
    <2>1. req' = [req EXCEPT ![r] = writing] /\ interrupted' = interrupted
      BY <1>1, <1>11 DEF UpdateAccountingPeriodWrite
    <2>2. RequestOK(writing)
      BY <1>1 DEF RequestOK
    <2>3. req'[r] = writing
      BY <2>1, TheOnlyRequest DEF SerialInv
    <2>4. IsFresh(req[r])'
      <3>1. yearStatus = DeriveFiscalYearStatus(new.status, new.periods)
        BY <1>6, <1>9
      <3>2. new.status # "LOCKED"
        BY <1>6, <1>9
      <3>3. Exists(y)'
        BY <1>10 DEF Exists
      <3>4. /\ writing.pc = "year" /\ writing.on = y
            /\ writing.data.yearStatus = yearStatus
        OBVIOUS
      <3>5. /\ req'[r].pc = "year" /\ req'[r].on = y
            /\ req'[r].data.yearStatus = yearStatus
        BY <2>3, <3>4, Zenon
      <3>6. years'[y].status # "LOCKED"
            /\ yearStatus =
                 DeriveFiscalYearStatus(years'[y].status, years'[y].periods)
        BY <1>10, <3>1, <3>2, Zenon
      <3>7. (years[y].status # "LOCKED"
             /\ yearStatus =
                  DeriveFiscalYearStatus(years[y].status, years[y].periods))'
        BY <3>6 DEF DeriveFiscalYearStatus, AllLocked, NoneOpen
      <3> HIDE DEF writing
      <3> QED
        BY <3>3, <3>5, <3>6, <3>7
        DEF IsFresh, DeriveFiscalYearStatus, AllLocked, NoneOpen
    <2>5. req[r].pc # "year" /\ writing.pc = "year" /\ writing.on = y
      BY <1>1
    <2> HIDE DEF writing
    <2> QED
      BY <1>2, <1>5, <1>6, <1>8, <1>9, <2>1, <2>2, <2>4, <2>5, StatusesWritten, Zenon
  <1>12. CASE yearStatus = was
    <2>1. req' = [req EXCEPT ![r] = Idle] /\ interrupted' = interrupted \ {y}
      BY <1>1, <1>12 DEF UpdateAccountingPeriodWrite
    <2>2. RequestOK(Idle) /\ IsFresh(req[r])'
      BY <2>1, TheOnlyRequest, IdleIsFine DEF SerialInv
    <2>3. new.status = DeriveFiscalYearStatus(new.status, new.periods)
      BY <1>6, <1>9, <1>12
    <2>4. req[r].pc # "year"
      BY <1>1
    <2>5. /\ DOMAIN new.periods = DOMAIN years[y].periods
          /\ \A j \in DOMAIN years[y].periods :
                /\ new.periods[j].first = years[y].periods[j].first
                /\ new.periods[j].last = years[y].periods[j].last
          /\ new.status # "LOCKED"
      BY <1>2, <1>6, <1>8, <1>9, Zenon
    <2>6. /\ interrupted' \subseteq interrupted
          /\ interrupted \subseteq interrupted' \union {y}
      BY <2>1
    <2> QED
      BY <1>5, <1>6, <1>9, <2>1, <2>2, <2>3, <2>4, <2>5, <2>6, StatusesWritten
  <1> QED
    BY <1>11, <1>12

(* Its second statement. *)
LEMMA UpdateFiscalYearWriteKeeps ==
  ASSUME OneRequest, SerialInv, NEW r \in Requests, UpdateFiscalYearWrite(r)
  PROVE  SerialInv'
  <1>1. /\ req[r].pc = "year" /\ req[r].on \in Years
        /\ req[r].data.yearStatus \in Statuses
    BY DEF UpdateFiscalYearWrite, End, SerialInv, TypeOK, RequestOK, Idle
  <1>2. PICK y \in Years, status \in Statuses :
           y = req[r].on /\ status = req[r].data.yearStatus
    BY <1>1
  <1>3. PICK new : new = [years[y] EXCEPT !.status = status]
    OBVIOUS
  <1>4. /\ req' = [req EXCEPT ![r] = Idle]
        /\ interrupted' = interrupted \ {y}
        /\ years' = [years EXCEPT ![y] = new]
    BY <1>2, <1>3 DEF UpdateFiscalYearWrite, End
  <1>5. /\ Exists(y) /\ years[y].status # "LOCKED"
        /\ status = DeriveFiscalYearStatus(years[y].status, years[y].periods)
    BY <1>1, <1>2 DEF SerialInv, IsFresh
  <1>6. RequestOK(Idle) /\ IsFresh(req[r])'
    BY <1>4, TheOnlyRequest, IdleIsFine DEF SerialInv
  <1>7. years[y] \in Year /\ years[y].status \in Statuses
    BY <1>5 DEF SerialInv, TypeOK, Year
  <1>8. /\ new \in Year
        /\ new.first = years[y].first /\ new.last = years[y].last
        /\ new.periods = years[y].periods /\ new.status = status
    BY <1>3, <1>7 DEF Year
  <1>9. /\ new.status = "LOCKED" => AllLocked(new.periods)
        /\ new.status = DeriveFiscalYearStatus(new.status, new.periods)
    BY <1>5, <1>7, <1>8, DerivedStatuses
  <1> QED
    BY <1>1, <1>2, <1>4, <1>5, <1>6, <1>8, <1>9, StatusesWritten, Zenon

LEMMA AbortKeeps ==
  ASSUME OneRequest, SerialInv, NEW r \in Requests, Abort(r)
  PROVE  SerialInv'
  <1>1. /\ years' = years /\ req' = [req EXCEPT ![r] = Idle] /\ req[r] # Idle
        /\ interrupted' = IF req[r].pc = "year"
                          THEN interrupted \union {req[r].on}
                          ELSE interrupted
    BY DEF Abort
  <1>2. /\ DOMAIN req' = Requests
        /\ \A s \in Requests : s = r /\ req'[s] = Idle
    BY <1>1, TheOnlyRequest DEF SerialInv
  <1>3. /\ RequestOK(Idle)
        /\ \A s \in Requests : IsFresh(req[s])'
    BY <1>2, IdleIsFine
  <1>4. req[r].pc = "year" => req[r].on \in Years
    BY DEF SerialInv, TypeOK, RequestOK, Idle
  <1>5. TypeOK'
    BY <1>1, <1>2, <1>3, <1>4 DEF SerialInv, TypeOK, Exists
  <1>6. EveryDayHasItsPeriod' /\ LockedThroughout'
    BY <1>1 DEF SerialInv, EveryDayHasItsPeriod, YearsDoNotOverlap, Exists,
                LockedThroughout
  <1>7. ASSUME NEW w \in Years \ interrupted'
        PROVE  FollowsSoon(w)'
    <2>1. Follows(w)
      BY <1>1, <1>2, <1>7 DEF SerialInv, FollowsSoon
    <2> QED
      BY <1>1, <2>1, OtherYearsFollow DEF FollowsSoon
  <1> QED
    BY <1>3, <1>5, <1>6, <1>7 DEF SerialInv

-----------------------------------------------------------------------------
(* The invariant.                                                          *)

LEMMA InitEstablishes == Init => SerialInv
  <1> SUFFICES ASSUME Init PROVE SerialInv
    OBVIOUS
  <1>1. PICK y \in Years, name \in Names, first \in Days, last \in Days :
          /\ first <= last
          /\ years = [z \in Years |-> IF z = y
                                      THEN NewYear(name, first, last, TRUE)
                                      ELSE Absent]
    BY DEF Init
  <1>2. PICK new : new = NewYear(name, first, last, TRUE)
    OBVIOUS
  <1>3. /\ new \in Year /\ new.status = "OPEN"
        /\ \A i \in DOMAIN new.periods : new.periods[i].status = "OPEN"
        /\ new.periods # <<>> => PeriodsPartition(new)
    <2>1. TRUE \in BOOLEAN
      OBVIOUS
    <2>2. \A generate \in BOOLEAN :
             LET year == NewYear(name, first, last, generate)
             IN  /\ year \in Year /\ year.status = "OPEN"
                 /\ \A i \in DOMAIN year.periods :
                       year.periods[i].status = "OPEN"
                 /\ year.periods # <<>> => PeriodsPartition(year)
      BY <1>1, NewYears
    <2> QED
      BY <1>2, <2>1, <2>2, Zenon
  <1>4. /\ DOMAIN years = Years /\ years[y] = new
        /\ \A z \in Years \ {y} : ~ Exists(z)
    BY <1>1, <1>2 DEF Exists
  <1>5. /\ interrupted = {} /\ DOMAIN req = Requests
        /\ \A r \in Requests : req[r] = Idle
    BY DEF Init
  <1>6. TypeOK
    BY <1>3, <1>4, <1>5 DEF TypeOK, RequestOK
  <1>7. EveryDayHasItsPeriod
    BY <1>3, <1>4 DEF EveryDayHasItsPeriod, YearsDoNotOverlap
  <1>8. LockedThroughout
    BY <1>3, <1>4 DEF LockedThroughout
  <1>9. \A z \in Years \ interrupted : FollowsSoon(z)
    <2>1. new.periods # <<>> => 1 \in DOMAIN new.periods
      BY <1>3 DEF Year
    <2>2. new.periods # <<>> =>
             "OPEN" = DeriveFiscalYearStatus("OPEN", new.periods)
      BY <1>3, <2>1 DEF DeriveFiscalYearStatus, AllLocked, NoneOpen
    <2> QED
      BY <1>3, <1>4, <2>2 DEF FollowsSoon, Follows
  <1>10. ASSUME NEW r \in Requests
         PROVE  IsFresh(req[r])
    <2>1. req[r].pc = "idle"
      BY <1>5 DEF Idle
    <2> QED
      BY <2>1 DEF IsFresh
  <1> QED
    BY <1>6, <1>7, <1>8, <1>9, <1>10 DEF SerialInv

LEMMA StepsKeep ==
  ASSUME OneRequest, SerialInv, [Next]_vars
  PROVE  SerialInv'
  <1>1. CASE UNCHANGED vars
    <2>1. years' = years /\ interrupted' = interrupted /\ req' = req
      BY <1>1 DEF vars
    <2>2. TypeOK' /\ EveryDayHasItsPeriod' /\ LockedThroughout'
      BY <2>1
      DEF SerialInv, TypeOK, Exists, EveryDayHasItsPeriod, YearsDoNotOverlap,
          LockedThroughout
    <2>3. \A y \in Years \ interrupted' : FollowsSoon(y)'
      BY <2>1 DEF SerialInv, FollowsSoon, Follows, Exists
    <2>4. \A r \in Requests : IsFresh(req[r])'
      BY <2>1 DEF SerialInv, IsFresh, Exists, Overlaps
    <2> QED
      BY <2>2, <2>3, <2>4 DEF SerialInv
  <1>2. CASE Next
    <2>1. PICK r \in Requests : Call(r) \/ Proceed(r)
      BY <1>2 DEF Next
    <2> QED
      BY <2>1, CallKeeps, CreateFiscalYearWriteKeeps,
         CloseFiscalYearWriteKeeps, LockFiscalYearWriteKeeps,
         UpdateAccountingPeriodWriteKeeps, UpdateFiscalYearWriteKeeps,
         AbortKeeps
      DEF Proceed
  <1> QED
    BY <1>1, <1>2

(* One request at a time, the invariant of the fiscal years holds for any  *)
(* number of years, days and periods, and whatever request dies halfway.   *)
THEOREM OneRequestKeepsTheYears ==
  ASSUME OneRequest
  PROVE  Spec => []SerialInv
  <1>1. SerialInv /\ [Next]_vars => SerialInv'
    BY StepsKeep
  <1> QED
    BY <1>1, InitEstablishes, PTL DEF Spec

(* The period a posting looks up by its date is the only one: the years of *)
(* a company do not overlap, and the periods of each partition its days.   *)
THEOREM EveryDayKeepsItsPeriod ==
  ASSUME OneRequest
  PROVE  Spec => []EveryDayHasItsPeriod
  <1>1. SerialInv => EveryDayHasItsPeriod
    BY DEF SerialInv
  <1> QED
    BY <1>1, OneRequestKeepsTheYears, PTL

(* The periods of a locked year are locked. *)
THEOREM LockedYearsAreLockedThroughout ==
  ASSUME OneRequest
  PROVE  Spec => []LockedThroughout
  <1>1. SerialInv => LockedThroughout
    BY DEF SerialInv
  <1> QED
    BY <1>1, OneRequestKeepsTheYears, PTL

(* Between requests a year's status follows from its periods, unless a     *)
(* request died between its two writes.                                    *)
THEOREM YearsFollowTheirPeriods ==
  ASSUME OneRequest
  PROVE  Spec => []YearFollowsPeriods
  <1>1. SerialInv => YearFollowsPeriods
    BY DEF SerialInv, YearFollowsPeriods, FollowsSoon, Quiet, Idle
  <1> QED
    BY <1>1, OneRequestKeepsTheYears, PTL

-----------------------------------------------------------------------------
(* What is locked stays so.                                                *)

LEMMA LockChangesNothingLocked ==
  ASSUME NEW year \in Year, year.status = "LOCKED", AllLocked(year.periods)
  PROVE  [year EXCEPT !.periods = LockPeriods(year.periods),
                      !.status = "LOCKED"] = year
  <1> DEFINE locked == LockPeriods(year.periods)
  <1>1. year.periods \in Seq(Period)
    BY DEF Year
  <1>2. year.periods = [i \in DOMAIN year.periods |-> year.periods[i]]
    BY <1>1
  <1>3. \A i \in DOMAIN year.periods :
           [year.periods[i] EXCEPT !.status = "LOCKED"] = year.periods[i]
    <2>1. \A p \in Period : p.status = "LOCKED" =>
             [p EXCEPT !.status = "LOCKED"] = p
      BY DEF Period
    <2>2. \A i \in DOMAIN year.periods : year.periods[i] \in Period
      BY <1>1
    <2> QED
      BY <2>1, <2>2 DEF AllLocked
  <1>4. locked = year.periods
    BY <1>2, <1>3, Zenon DEF LockPeriods
  <1> HIDE DEF locked
  <1>5. [year EXCEPT !.periods = year.periods, !.status = "LOCKED"] = year
    BY DEF Year
  <1> QED
    BY <1>4, <1>5 DEF locked

LEMMA LockedStays ==
  ASSUME OneRequest, SerialInv, Next, NEW y \in Years, Exists(y)
  PROVE  IsFrozen(y)
  <1>1. PICK r \in Requests : Call(r) \/ Proceed(r)
    BY DEF Next
  <1>2. /\ DOMAIN years = Years /\ years[y] \in Year
        /\ IsFresh(req[r]) /\ RequestOK(req[r])
        /\ years[y].status = "LOCKED" => AllLocked(years[y].periods)
    BY DEF SerialInv, TypeOK, LockedThroughout
  <1>3. CASE years'[y] = years[y]
    BY <1>3 DEF IsFrozen
  <1>4. CASE Call(r) \/ Abort(r)
    <2>1. years' = years
      BY <1>4
      DEF Call, Abort, Begin, BeginUpdate, CreateFiscalYearRead,
          CloseFiscalYearRead, LockFiscalYearRead, UpdateAccountingPeriodRead
    <2> QED
      BY <1>3, <2>1
  <1>5. CASE CreateFiscalYearWrite(r)
    BY <1>2, <1>3, <1>5 DEF CreateFiscalYearWrite
  <1>6. CASE CloseFiscalYearWrite(r)
    <2>1. req[r].pc = "close" /\ years[req[r].on].status # "LOCKED"
      BY <1>2, <1>6 DEF CloseFiscalYearWrite, End, IsFresh
    <2>2. CASE y = req[r].on
      <3>1. years'[y] = [years[y] EXCEPT !.status = "CLOSED"]
        BY <1>2, <1>6, <2>2 DEF CloseFiscalYearWrite
      <3>2. years'[y].periods = years[y].periods
        BY <1>2, <3>1 DEF Year
      <3> QED
        BY <2>1, <2>2, <3>2 DEF IsFrozen
    <2>3. CASE y # req[r].on
      BY <1>2, <1>3, <1>6, <2>3 DEF CloseFiscalYearWrite
    <2> QED
      BY <2>2, <2>3
  <1>7. CASE LockFiscalYearWrite(r)
    <2>1. CASE y = req[r].on
      <3> DEFINE locked == LockPeriods(years[y].periods)
      <3>1. years'[y] = [years[y] EXCEPT !.periods = locked,
                                         !.status = "LOCKED"]
        BY <1>2, <1>7, <2>1 DEF LockFiscalYearWrite
      <3>2. years[y].status = "LOCKED" => years'[y] = years[y]
        BY <1>2, <3>1, LockChangesNothingLocked
      <3>3. \A i \in DOMAIN years[y].periods : locked[i].status = "LOCKED"
        <4>1. years[y].periods \in Seq(Period)
          BY <1>2 DEF Year
        <4> QED
          BY <4>1, AllPeriodsChange
      <3>4. years'[y].periods = locked
        <4> HIDE DEF locked
        <4> QED
          BY <1>2, <3>1 DEF Year
      <3> QED
        BY <3>2, <3>3, <3>4 DEF IsFrozen
    <2>2. CASE y # req[r].on
      BY <1>2, <1>3, <1>7, <2>2 DEF LockFiscalYearWrite
    <2> QED
      BY <2>1, <2>2
  <1>8. CASE UpdateAccountingPeriodWrite(r)
    <2> DEFINE on == req[r].on
               data == req[r].data
               periods == years[y].periods
               changed == SetPeriod(periods, data.index, data.status)
    <2>1. /\ years[on].status # "LOCKED"
          /\ years[on].periods[data.index].status = "LOCKED" =>
                data.status = "LOCKED"
      BY <1>2, <1>8 DEF UpdateAccountingPeriodWrite, IsFresh
    <2>2. CASE y = on
      <3>1. years'[y] = [years[y] EXCEPT !.periods = changed]
        BY <1>2, <1>8, <2>2 DEF UpdateAccountingPeriodWrite
      <3>2. years'[y].periods = changed
        BY <1>2, <3>1 DEF Year
      <3>3. periods \in Seq(Period)
        BY <1>2 DEF Year
      <3>4. ASSUME NEW i \in DOMAIN periods, periods[i].status = "LOCKED"
            PROVE  changed[i].status = "LOCKED"
        <4>1. /\ i = data.index => changed[i] = [periods[i] EXCEPT !.status = data.status]
              /\ i # data.index => changed[i] = periods[i]
          BY <3>4 DEF SetPeriod
        <4>2. periods[i] \in Period
          BY <3>3
        <4>3. [periods[i] EXCEPT !.status = data.status].status = data.status
          BY <4>2 DEF Period
        <4> QED
          BY <2>1, <2>2, <3>4, <4>1, <4>3
      <3> QED
        BY <2>1, <2>2, <3>2, <3>4 DEF IsFrozen
    <2>3. CASE y # on
      BY <1>2, <1>3, <1>8, <2>3 DEF UpdateAccountingPeriodWrite
    <2> QED
      BY <2>2, <2>3
  <1>9. CASE UpdateFiscalYearWrite(r)
    <2>1. req[r].pc = "year" /\ years[req[r].on].status # "LOCKED"
      BY <1>2, <1>9 DEF UpdateFiscalYearWrite, End, IsFresh
    <2>2. CASE y = req[r].on
      <3>1. years'[y] = [years[y] EXCEPT !.status = req[r].data.yearStatus]
        BY <1>2, <1>9, <2>2 DEF UpdateFiscalYearWrite
      <3>2. years'[y].periods = years[y].periods
        BY <1>2, <3>1 DEF Year
      <3> QED
        BY <2>1, <2>2, <3>2 DEF IsFrozen
    <2>3. CASE y # req[r].on
      BY <1>2, <1>3, <1>9, <2>3 DEF UpdateFiscalYearWrite
    <2> QED
      BY <2>2, <2>3
  <1> QED
    BY <1>1, <1>4, <1>5, <1>6, <1>7, <1>8, <1>9 DEF Proceed

(* Nothing in a locked year changes, and a locked period stays locked. *)
THEOREM LockedRemains ==
  ASSUME OneRequest
  PROVE  Spec => LockedIsForGood
  <1>1. SerialInv /\ [Next]_vars =>
           [\A y \in Years : Exists(y) => IsFrozen(y)]_vars
    BY LockedStays
  <1> QED
    BY <1>1, OneRequestKeepsTheYears, PTL DEF Spec, LockedIsForGood

-----------------------------------------------------------------------------
(* However many requests overlap: what a stale request writes is still a   *)
(* status of a row that is there.                                          *)

(* A year whose statuses alone change. *)
LEMMA OneYearChanges ==
  ASSUME TypeOK, PeriodsCoverTheirYear, NamesDiffer,
         NEW y \in Years, Exists(y), NEW new \in Year,
         new.name = years[y].name,
         new.first = years[y].first, new.last = years[y].last,
         DOMAIN new.periods = DOMAIN years[y].periods,
         \A i \in DOMAIN years[y].periods :
            /\ new.periods[i].first = years[y].periods[i].first
            /\ new.periods[i].last = years[y].periods[i].last,
         years' = [years EXCEPT ![y] = new]
  PROVE  /\ DOMAIN years' = Years
         /\ \A w \in Years : Exists(w)' => years'[w] \in Year
         /\ PeriodsCoverTheirYear'
         /\ NamesDiffer'
         /\ \A w \in Years : Exists(w) => CalendarStands(w)
  <1>1. /\ DOMAIN years' = Years
        /\ years'[y] = new
        /\ \A w \in Years \ {y} : years'[w] = years[w]
    BY DEF TypeOK
  <1>2. new # Absent
    BY DEF Year, Statuses, Absent
  <1>3. \A w \in Years : (Exists(w)' <=> Exists(w))
    BY <1>1, <1>2 DEF Exists
  <1>4. \A w \in Years : Exists(w)' => years'[w] \in Year
    BY <1>1, <1>3 DEF TypeOK, Exists
  <1>5. \A w \in Years : Exists(w) => CalendarStands(w)
    BY <1>1, <1>3 DEF CalendarStands
  <1>6. NamesDiffer'
    BY <1>3, <1>5 DEF NamesDiffer, CalendarStands
  <1>7. ASSUME NEW w \in Years, Exists(w)', years'[w].periods # <<>>
        PROVE  PeriodsPartition(years'[w])
    <2>1. CASE w = y
      <3>1. years[y].periods \in Seq(Period) /\ new.periods \in Seq(Period)
        BY DEF TypeOK, Year
      <3>2. years[y].periods # <<>>
        BY <1>1, <1>7, <2>1, <3>1, SomePeriods
      <3>3. PeriodsPartition(years[y])
        BY <3>2 DEF PeriodsCoverTheirYear
      <3> QED
        BY <1>1, <2>1, <3>3, SamePartition
    <2>2. CASE w # y
      BY <1>1, <1>3, <1>7, <2>2 DEF PeriodsCoverTheirYear
    <2> QED
      BY <2>1, <2>2
  <1>8. PeriodsCoverTheirYear'
    BY <1>7 DEF PeriodsCoverTheirYear, PeriodsPartition, Covers
  <1> QED
    BY <1>1, <1>4, <1>5, <1>6, <1>8

(* The years as they are. *)
LEMMA NoYearChanges ==
  ASSUME TypeOK, PeriodsCoverTheirYear, NamesDiffer, years' = years
  PROVE  /\ DOMAIN years' = Years
         /\ \A w \in Years : Exists(w)' => years'[w] \in Year
         /\ PeriodsCoverTheirYear'
         /\ NamesDiffer'
         /\ \A w \in Years : Exists(w) => CalendarStands(w)
  BY DEF TypeOK, PeriodsCoverTheirYear, NamesDiffer, CalendarStands, Exists,
         PeriodsPartition, Covers

(* A request that is still to write goes on fitting, as long as calendars  *)
(* stand.                                                                  *)
LEMMA OthersStillFit ==
  ASSUME NEW s \in Requests, RequestOK(req[s]), StillFits(req[s]),
         req'[s] = req[s],
         \A w \in Years : Exists(w) => CalendarStands(w)
  PROVE  RequestOK(req'[s]) /\ StillFits(req[s])'
  <1>1. RequestOK(req'[s])
    BY DEF RequestOK
  <1>2. /\ req[s].pc \in {"close", "lock", "period", "year"} => req[s].on \in Years
    BY DEF RequestOK, Idle
  <1> QED
    BY <1>1, <1>2 DEF StillFits, CalendarStands, PeriodsPartition, Covers

(* What is left to show of a step of r. *)
LEMMA RequestGoesOn ==
  ASSUME OverlapInv, NEW r \in Requests, NEW q,
         req' = [req EXCEPT ![r] = q], RequestOK(q), StillFits(req[r])',
         interrupted' \in SUBSET Years,
         DOMAIN years' = Years,
         \A w \in Years : Exists(w)' => years'[w] \in Year,
         PeriodsCoverTheirYear', NamesDiffer',
         \A w \in Years : Exists(w) => CalendarStands(w)
  PROVE  OverlapInv'
  <1>1. /\ DOMAIN req' = Requests /\ req'[r] = q
        /\ \A s \in Requests \ {r} : req'[s] = req[s]
    BY DEF OverlapInv, TypeOK
  <1>2. \A s \in Requests \ {r} : RequestOK(req'[s]) /\ StillFits(req[s])'
    BY <1>1, OthersStillFit DEF OverlapInv, TypeOK
  <1>3. \A s \in Requests : RequestOK(req'[s])
    BY <1>1, <1>2
  <1>4. \A s \in Requests : StillFits(req[s])'
    BY <1>2
  <1>5. TypeOK'
    <2>1. \A s \in Requests : RequestOK(req[s])'
      BY <1>3 DEF RequestOK
    <2> QED
      BY <1>1, <2>1 DEF TypeOK
  <1> QED
    BY <1>4, <1>5 DEF OverlapInv

(* A request that is done, or is given up. *)
LEMMA DoneFits ==
  ASSUME NEW r, req'[r] = Idle
  PROVE  RequestOK(Idle) /\ StillFits(req[r])'
  BY DEF RequestOK, StillFits, Idle

(* A handler reads, and nothing is written. *)
LEMMA BeginStillFits ==
  ASSUME OverlapInv, NEW r \in Requests, NEW operation, NEW y, NEW data,
         Begin(r, operation, y, data),
         NEW q, q = [pc |-> operation, on |-> y, data |-> data],
         RequestOK(q), StillFits(q)
  PROVE  /\ OverlapInv'
         /\ \A w \in Years : Exists(w) => CalendarStands(w)
  <1>1. /\ years' = years /\ interrupted' = interrupted
        /\ req' = [req EXCEPT ![r] = q]
    BY DEF Begin
  <1>2. req'[r] = q
    BY <1>1 DEF OverlapInv, TypeOK
  <1>3. StillFits(req[r])'
    BY <1>1, <1>2 DEF StillFits, Exists
  <1>4. interrupted' \in SUBSET Years
    BY <1>1 DEF OverlapInv, TypeOK
  <1> QED
    BY <1>1, <1>3, <1>4, NoYearChanges, RequestGoesOn DEF OverlapInv

LEMMA CallsFit ==
  ASSUME OverlapInv, NEW r \in Requests, Call(r)
  PROVE  /\ OverlapInv'
         /\ \A w \in Years : Exists(w) => CalendarStands(w)
  <1>1. CASE CreateFiscalYearRead(r)
    <2>1. PICK name \in Names, first \in Days, last \in Days,
               generateMonthlyPeriods \in BOOLEAN :
             /\ first <= last
             /\ Begin(r, "create", New,
                      NewYear(name, first, last, generateMonthlyPeriods))
      BY <1>1 DEF CreateFiscalYearRead
    <2> DEFINE data == NewYear(name, first, last, generateMonthlyPeriods)
               q == [pc |-> "create", on |-> New, data |-> data]
    <2>2. /\ data \in Year
          /\ data.periods # <<>> => PeriodsPartition(data)
          /\ \A i \in DOMAIN data.periods : data.periods[i].status = "OPEN"
      BY <2>1, NewYears
    <2> HIDE DEF data
    <2>3. RequestOK(q) /\ StillFits(q)
      BY <2>2 DEF RequestOK, StillFits
    <2> QED
      BY <2>1, <2>3, BeginStillFits DEF data
  <1>2. CASE \E y \in Years : CloseFiscalYearRead(r, y)
    <2>1. PICK y \in Years : CloseFiscalYearRead(r, y)
      BY <1>2
    <2> DEFINE q == [pc |-> "close", on |-> y, data |-> "CLOSED"]
    <2>2. RequestOK(q) /\ StillFits(q)
      BY <2>1 DEF RequestOK, StillFits, CloseFiscalYearRead, Statuses
    <2> QED
      BY <2>1, <2>2, BeginStillFits DEF CloseFiscalYearRead
  <1>3. CASE \E y \in Years : LockFiscalYearRead(r, y)
    <2>1. PICK y \in Years : LockFiscalYearRead(r, y)
      BY <1>3
    <2> DEFINE q == [pc |-> "lock", on |-> y, data |-> "LOCKED"]
    <2>2. RequestOK(q) /\ StillFits(q)
      BY <2>1 DEF RequestOK, StillFits, LockFiscalYearRead, Statuses
    <2> QED
      BY <2>1, <2>2, BeginStillFits DEF LockFiscalYearRead
  <1>4. CASE \E y \in Years : UpdateAccountingPeriodRead(r, y)
    <2>1. PICK y \in Years : UpdateAccountingPeriodRead(r, y)
      BY <1>4
    <2>2. PICK i \in DOMAIN years[y].periods, status \in Statuses :
             BeginUpdate(r, y, i, status)
      BY <2>1 DEF UpdateAccountingPeriodRead
    <2> DEFINE changed == SetPeriod(years[y].periods, i, status)
               derived == DeriveFiscalYearStatus(years[y].status, changed)
               data == [ index |-> i, status |-> status,
                         was |-> years[y].status, yearStatus |-> derived ]
               q == [pc |-> "period", on |-> y, data |-> data]
    <2>3. years[y] \in Year /\ Exists(y)
      BY <2>1 DEF UpdateAccountingPeriodRead, OverlapInv, TypeOK
    <2>4. years[y].status \in Statuses /\ derived \in Statuses /\ i \in Nat
      BY <2>3, DerivedStatuses DEF Year
    <2>5. RequestOK(q) /\ StillFits(q)
      <3> HIDE DEF derived
      <3> QED
        BY <2>3, <2>4 DEF RequestOK, StillFits
    <2>6. Begin(r, "period", y, data)
      BY <2>2 DEF BeginUpdate
    <2> HIDE DEF data
    <2> QED
      BY <2>5, <2>6, BeginStillFits
  <1> QED
    BY <1>1, <1>2, <1>3, <1>4 DEF Call

(* The insert: the days may have been taken meanwhile, the name has not.   *)
LEMMA CreateWriteFits ==
  ASSUME OverlapInv, NEW r \in Requests, CreateFiscalYearWrite(r)
  PROVE  /\ OverlapInv'
         /\ \A w \in Years : Exists(w) => CalendarStands(w)
  <1>1. PICK new : new = req[r].data
    OBVIOUS
  <1>2. PICK y \in Years : ~ Exists(y) /\ years' = [years EXCEPT ![y] = new]
    BY <1>1 DEF CreateFiscalYearWrite
  <1>3. /\ req[r].pc = "create" /\ req' = [req EXCEPT ![r] = Idle]
        /\ interrupted' = interrupted /\ NameIsFree(new.name)
    BY <1>1 DEF CreateFiscalYearWrite, End
  <1>4. RequestOK(Idle) /\ StillFits(req[r])'
    <2>1. req'[r] = Idle
      BY <1>3 DEF OverlapInv, TypeOK
    <2> QED
      BY <2>1, DoneFits
  <1>5. new \in Year /\ (new.periods # <<>> => PeriodsPartition(new))
    BY <1>1, <1>3 DEF OverlapInv, TypeOK, RequestOK, StillFits, Idle
  <1>6. /\ DOMAIN years' = Years /\ years'[y] = new
        /\ \A w \in Years \ {y} : years'[w] = years[w]
    BY <1>2 DEF OverlapInv, TypeOK
  <1>7. \A w \in Years \ {y} : Exists(w)' <=> Exists(w)
    BY <1>6 DEF Exists
  <1>8. /\ \A w \in Years : Exists(w)' => years'[w] \in Year
        /\ \A w \in Years : Exists(w) => CalendarStands(w)
    BY <1>2, <1>5, <1>6, <1>7 DEF OverlapInv, TypeOK, CalendarStands
  <1>9. PeriodsCoverTheirYear'
    <2>1. \A w \in Years : Exists(w)' /\ years'[w].periods # <<>> =>
             PeriodsPartition(years'[w])
      BY <1>5, <1>6, <1>7 DEF OverlapInv, PeriodsCoverTheirYear
    <2> QED
      BY <2>1 DEF PeriodsCoverTheirYear, PeriodsPartition, Covers
  <1>10. NamesDiffer'
    BY <1>3, <1>6, <1>7 DEF OverlapInv, NamesDiffer, NameIsFree
  <1>11. interrupted' \in SUBSET Years
    BY <1>3 DEF OverlapInv, TypeOK
  <1> QED
    BY <1>3, <1>4, <1>6, <1>8, <1>9, <1>10, <1>11, RequestGoesOn

(* A write to the statuses of a year, by a request that goes on as q. *)
LEMMA StatusWriteFits ==
  ASSUME OverlapInv, NEW r \in Requests, NEW y \in Years, Exists(y),
         NEW new \in Year, new.name = years[y].name,
         new.first = years[y].first, new.last = years[y].last,
         DOMAIN new.periods = DOMAIN years[y].periods,
         \A i \in DOMAIN years[y].periods :
            /\ new.periods[i].first = years[y].periods[i].first
            /\ new.periods[i].last = years[y].periods[i].last,
         years' = [years EXCEPT ![y] = new],
         NEW q, req' = [req EXCEPT ![r] = q],
         \/ q = Idle
         \/ RequestOK(q) /\ q.on = y /\ q.pc = "year"
               /\ q.data.index \in DOMAIN years[y].periods,
         interrupted' \subseteq interrupted
  PROVE  /\ OverlapInv'
         /\ \A w \in Years : Exists(w) => CalendarStands(w)
  <1>1. /\ DOMAIN years' = Years
        /\ \A w \in Years : Exists(w)' => years'[w] \in Year
        /\ PeriodsCoverTheirYear'
        /\ NamesDiffer'
        /\ \A w \in Years : Exists(w) => CalendarStands(w)
    BY OneYearChanges DEF OverlapInv
  <1>2. req'[r] = q
    BY DEF OverlapInv, TypeOK
  <1>3. RequestOK(q) /\ StillFits(req[r])'
    <2>1. CASE q = Idle
      BY <1>2, <2>1, DoneFits
    <2>2. CASE q # Idle
      BY <1>1, <1>2, <2>2 DEF StillFits, CalendarStands
    <2> QED
      BY <2>1, <2>2
  <1>4. interrupted' \in SUBSET Years
    BY DEF OverlapInv, TypeOK
  <1> QED
    BY <1>1, <1>3, <1>4, RequestGoesOn

LEMMA CloseWriteFits ==
  ASSUME OverlapInv, NEW r \in Requests, CloseFiscalYearWrite(r)
  PROVE  /\ OverlapInv'
         /\ \A w \in Years : Exists(w) => CalendarStands(w)
  <1>1. req[r].pc = "close"
    BY DEF CloseFiscalYearWrite, End
  <1>2. PICK y \in Years : y = req[r].on /\ Exists(y)
    BY <1>1 DEF OverlapInv, TypeOK, RequestOK, StillFits, Idle
  <1>3. PICK new : new = [years[y] EXCEPT !.status = "CLOSED"]
    OBVIOUS
  <1>4. /\ years' = [years EXCEPT ![y] = new]
        /\ req' = [req EXCEPT ![r] = Idle] /\ interrupted' = interrupted
    BY <1>2, <1>3 DEF CloseFiscalYearWrite, End
  <1>5. years[y] \in Year
    BY <1>2 DEF OverlapInv, TypeOK
  <1>6. /\ new \in Year /\ new.name = years[y].name
        /\ new.first = years[y].first /\ new.last = years[y].last
        /\ new.periods = years[y].periods
    BY <1>3, <1>5 DEF Year, Statuses
  <1> QED
    BY <1>2, <1>4, <1>6, StatusWriteFits

LEMMA LockWriteFits ==
  ASSUME OverlapInv, NEW r \in Requests, LockFiscalYearWrite(r)
  PROVE  /\ OverlapInv'
         /\ \A w \in Years : Exists(w) => CalendarStands(w)
  <1>1. req[r].pc = "lock"
    BY DEF LockFiscalYearWrite, End
  <1>2. PICK y \in Years : y = req[r].on /\ Exists(y)
    BY <1>1 DEF OverlapInv, TypeOK, RequestOK, StillFits, Idle
  <1>3. PICK locked : locked = LockPeriods(years[y].periods)
    OBVIOUS
  <1>4. PICK new : new = [years[y] EXCEPT !.periods = locked,
                                          !.status = "LOCKED"]
    OBVIOUS
  <1>5. /\ years' = [years EXCEPT ![y] = new]
        /\ req' = [req EXCEPT ![r] = Idle] /\ interrupted' \subseteq interrupted
    BY <1>2, <1>3, <1>4 DEF LockFiscalYearWrite, End
  <1>6. years[y] \in Year /\ years[y].periods \in Seq(Period)
    BY <1>2 DEF OverlapInv, TypeOK, Year
  <1>7. /\ locked \in Seq(Period)
        /\ DOMAIN locked = DOMAIN years[y].periods
        /\ \A j \in DOMAIN years[y].periods :
              /\ locked[j].first = years[y].periods[j].first
              /\ locked[j].last = years[y].periods[j].last
    BY <1>3, <1>6, AllPeriodsChange
  <1>8. /\ new \in Year /\ new.name = years[y].name
        /\ new.first = years[y].first /\ new.last = years[y].last
        /\ new.periods = locked
    BY <1>4, <1>6, <1>7 DEF Year, Statuses
  <1> QED
    BY <1>2, <1>5, <1>7, <1>8, StatusWriteFits

LEMMA PeriodWriteFits ==
  ASSUME OverlapInv, NEW r \in Requests, UpdateAccountingPeriodWrite(r)
  PROVE  /\ OverlapInv'
         /\ \A w \in Years : Exists(w) => CalendarStands(w)
  <1>1. /\ req[r].pc = "period" /\ req[r].on \in Years /\ Exists(req[r].on)
        /\ req[r].data.index \in DOMAIN years[req[r].on].periods
        /\ req[r].data.index \in Nat /\ req[r].data.status \in Statuses
        /\ req[r] \in [ pc : {"period", "year"}, on : Years,
                        data : [ index : Nat, status : Statuses,
                                 was : Statuses, yearStatus : Statuses ] ]
    BY DEF UpdateAccountingPeriodWrite, OverlapInv, TypeOK, RequestOK,
           StillFits, Idle
  <1>2. PICK y \in Years, index \in Nat, status \in Statuses :
           /\ y = req[r].on /\ Exists(y)
           /\ index = req[r].data.index /\ index \in DOMAIN years[y].periods
           /\ status = req[r].data.status
    BY <1>1
  <1>3. PICK changed : changed = SetPeriod(years[y].periods, index, status)
    OBVIOUS
  <1>4. PICK new : new = [years[y] EXCEPT !.periods = changed]
    OBVIOUS
  <1>5. years' = [years EXCEPT ![y] = new]
    BY <1>2, <1>3, <1>4 DEF UpdateAccountingPeriodWrite
  <1>6. years[y] \in Year /\ years[y].periods \in Seq(Period)
    BY <1>2 DEF OverlapInv, TypeOK, Year
  <1>7. /\ changed \in Seq(Period)
        /\ DOMAIN changed = DOMAIN years[y].periods
        /\ \A j \in DOMAIN years[y].periods :
              /\ changed[j].first = years[y].periods[j].first
              /\ changed[j].last = years[y].periods[j].last
    <2>1. index \in DOMAIN years[y].periods /\ status \in Statuses
      BY <1>2
    <2>2. years[y].periods \in Seq(Period)
      BY <1>6
    <2> QED
      BY <1>3, <2>1, <2>2, OnePeriodChanges, Zenon
  <1>8. /\ new \in Year /\ new.name = years[y].name
        /\ new.first = years[y].first /\ new.last = years[y].last
        /\ new.periods = changed
    BY <1>4, <1>6, <1>7 DEF Year
  <1>9. PICK q : /\ req' = [req EXCEPT ![r] = q]
                 /\ \/ q = Idle
                    \/ RequestOK(q) /\ q.on = y /\ q.pc = "year"
                          /\ q.data.index \in DOMAIN years[y].periods
    <2>1. CASE req' = [req EXCEPT ![r] = Idle]
      BY <2>1
    <2>2. CASE req' = [req EXCEPT ![r].pc = "year"]
      <3>1. PICK q : q = [req[r] EXCEPT !.pc = "year"]
        OBVIOUS
      <3>2. q \in [ pc : {"period", "year"}, on : Years,
                    data : [ index : Nat, status : Statuses,
                             was : Statuses, yearStatus : Statuses ] ]
        BY <1>1, <3>1
      <3>3. q.on = y /\ q.pc = "year" /\ q.data = req[r].data
        BY <1>1, <1>2, <3>1
      <3>4. RequestOK(q)
        BY <3>2 DEF RequestOK
      <3> QED
        BY <1>2, <2>2, <3>1, <3>3, <3>4
    <2> QED
      BY <2>1, <2>2 DEF UpdateAccountingPeriodWrite
  <1>10. interrupted' \subseteq interrupted
    BY DEF UpdateAccountingPeriodWrite
  <1> QED
    BY <1>2, <1>5, <1>7, <1>8, <1>9, <1>10, StatusWriteFits

LEMMA YearWriteFits ==
  ASSUME OverlapInv, NEW r \in Requests, UpdateFiscalYearWrite(r)
  PROVE  /\ OverlapInv'
         /\ \A w \in Years : Exists(w) => CalendarStands(w)
  <1>1. req[r].pc = "year"
    BY DEF UpdateFiscalYearWrite, End
  <1>2. PICK y \in Years, status \in Statuses :
           /\ y = req[r].on /\ Exists(y)
           /\ status = req[r].data.yearStatus
    BY <1>1 DEF OverlapInv, TypeOK, RequestOK, StillFits, Idle
  <1>3. PICK new : new = [years[y] EXCEPT !.status = status]
    OBVIOUS
  <1>4. /\ years' = [years EXCEPT ![y] = new]
        /\ req' = [req EXCEPT ![r] = Idle] /\ interrupted' \subseteq interrupted
    BY <1>2, <1>3 DEF UpdateFiscalYearWrite, End
  <1>5. years[y] \in Year
    BY <1>2 DEF OverlapInv, TypeOK
  <1>6. /\ new \in Year /\ new.name = years[y].name
        /\ new.first = years[y].first /\ new.last = years[y].last
        /\ new.periods = years[y].periods
    BY <1>3, <1>5 DEF Year
  <1> QED
    BY <1>2, <1>4, <1>6, StatusWriteFits

LEMMA AbortFits ==
  ASSUME OverlapInv, NEW r \in Requests, Abort(r)
  PROVE  /\ OverlapInv'
         /\ \A w \in Years : Exists(w) => CalendarStands(w)
  <1>1. years' = years /\ req' = [req EXCEPT ![r] = Idle]
    BY DEF Abort
  <1>2. interrupted' \in SUBSET Years
    BY DEF Abort, OverlapInv, TypeOK, RequestOK, Idle
  <1>3. RequestOK(Idle) /\ StillFits(req[r])'
    <2>1. req'[r] = Idle
      BY <1>1 DEF OverlapInv, TypeOK
    <2> QED
      BY <2>1, DoneFits
  <1> QED
    BY <1>1, <1>2, <1>3, NoYearChanges, RequestGoesOn DEF OverlapInv

LEMMA OverlapStep ==
  ASSUME OverlapInv, Next
  PROVE  /\ OverlapInv'
         /\ \A w \in Years : Exists(w) => CalendarStands(w)
  <1>1. PICK r \in Requests : Call(r) \/ Proceed(r)
    BY DEF Next
  <1> QED
    BY <1>1, CallsFit, CreateWriteFits, CloseWriteFits, LockWriteFits,
       PeriodWriteFits, YearWriteFits, AbortFits
    DEF Proceed

(* However many requests overlap, and whatever request dies halfway: the   *)
(* rows keep their types, each year's periods cover its days once, and no  *)
(* two years have the same name.                                           *)
THEOREM OverlapsKeepTheCalendar == Spec => []OverlapInv
  <1>1. Init => OverlapInv
    <2> SUFFICES ASSUME Init PROVE OverlapInv
      OBVIOUS
    <2>1. SerialInv
      BY InitEstablishes
    <2>2. PeriodsCoverTheirYear
      BY <2>1 DEF SerialInv, EveryDayHasItsPeriod, PeriodsCoverTheirYear
    <2>3. NamesDiffer
      BY DEF Init, NamesDiffer, Exists
    <2>4. \A r \in Requests : StillFits(req[r])
      BY DEF Init, StillFits, Idle
    <2> QED
      BY <2>1, <2>2, <2>3, <2>4 DEF SerialInv, OverlapInv
  <1>2. OverlapInv /\ [Next]_vars => OverlapInv'
    <2> SUFFICES ASSUME OverlapInv, [Next]_vars PROVE OverlapInv'
      OBVIOUS
    <2>1. CASE UNCHANGED vars
      <3>1. years' = years /\ req' = req /\ interrupted' = interrupted
        BY <2>1 DEF vars
      <3>2. \A w \in Years : Exists(w) => CalendarStands(w)
        BY <3>1 DEF CalendarStands, Exists
      <3>3. \A s \in Requests : RequestOK(req'[s]) /\ StillFits(req[s])'
        BY <3>1, <3>2, OthersStillFit DEF OverlapInv, TypeOK
      <3>4. TypeOK'
        <4>1. \A s \in Requests : RequestOK(req[s])'
          BY <3>3 DEF RequestOK
        <4> QED
          BY <3>1, <4>1 DEF OverlapInv, TypeOK, Exists
      <3> QED
        BY <3>1, <3>3, <3>4, NoYearChanges DEF OverlapInv
    <2>2. CASE Next
      BY <2>2, OverlapStep
    <2> QED
      BY <2>1, <2>2
  <1> QED
    BY <1>1, <1>2, PTL DEF Spec

(* However many requests overlap, no step changes the name or the days of  *)
(* a year, or the number and the days of its periods.                      *)
THEOREM CalendarsStand == Spec => OnlyStatusesChange
  <1>1. OverlapInv /\ [Next]_vars =>
           [\A y \in Years : Exists(y) => CalendarStands(y)]_vars
    BY OverlapStep
  <1> QED
    BY <1>1, OverlapsKeepTheCalendar, PTL DEF Spec, OnlyStatusesChange

(* A year that is left as it is, by a step that puts no request on it.     *)
LEMMA StillStuck ==
  ASSUME NEW y \in Years, Stuck(y), years'[y] = years[y],
         NEW r \in Requests, NEW q, DOMAIN req = Requests,
         req' = [req EXCEPT ![r] = q],
         q.pc \in {"close", "lock", "period", "year"} => q.on # y
  PROVE  Stuck(y)' /\ years'[y] = years[y]
  BY DEF Stuck, Exists, NoneOpen

LEMMA StuckStays ==
  ASSUME OverlapInv, Next, NEW y \in Years, Stuck(y)
  PROVE  Stuck(y)' /\ years'[y] = years[y]
  <1>1. PICK r \in Requests : Call(r) \/ Proceed(r)
    BY DEF Next
  <1>2. /\ DOMAIN req = Requests /\ DOMAIN years = Years
        /\ RequestOK(req[r])
    BY DEF OverlapInv, TypeOK
  <1>3. /\ Exists(y) /\ years[y].status = "LOCKED"
        /\ ~ NoneOpen(years[y].periods)
        /\ req[r].pc \in {"close", "lock", "period", "year"} => req[r].on # y
    BY DEF Stuck
  <1>4. CASE Call(r)
    <2>1. PICK operation, on, data :
             /\ Begin(r, operation, on, data)
             /\ operation \in {"close", "lock", "period", "year"} => on # y
      <3>1. CASE CreateFiscalYearRead(r)
        BY <3>1 DEF CreateFiscalYearRead
      <3>2. CASE \E z \in Years : CloseFiscalYearRead(r, z)
        BY <1>3, <3>2 DEF CloseFiscalYearRead
      <3>3. CASE \E z \in Years : LockFiscalYearRead(r, z)
        BY <1>3, <3>3 DEF LockFiscalYearRead
      <3>4. CASE \E z \in Years : UpdateAccountingPeriodRead(r, z)
        BY <1>3, <3>4 DEF UpdateAccountingPeriodRead, BeginUpdate
      <3> QED
        BY <1>4, <3>1, <3>2, <3>3, <3>4 DEF Call
    <2>2. PICK q : q = [pc |-> operation, on |-> on, data |-> data]
      OBVIOUS
    <2>3. years' = years /\ req' = [req EXCEPT ![r] = q]
      BY <2>1, <2>2 DEF Begin
    <2>4. q.pc \in {"close", "lock", "period", "year"} => q.on # y
      BY <2>1, <2>2
    <2> QED
      BY <1>2, <2>3, <2>4, StillStuck
  <1>5. CASE CreateFiscalYearWrite(r)
    <2>1. years'[y] = years[y]
      BY <1>2, <1>3, <1>5 DEF CreateFiscalYearWrite
    <2>2. req' = [req EXCEPT ![r] = Idle]
      BY <1>5 DEF CreateFiscalYearWrite, End
    <2> QED
      BY <1>2, <2>1, <2>2, StillStuck DEF Idle
  <1>6. CASE CloseFiscalYearWrite(r)
    <2>1. /\ req[r].on # y
          /\ req' = [req EXCEPT ![r] = Idle]
      BY <1>3, <1>6 DEF CloseFiscalYearWrite, End
    <2>2. years'[y] = years[y]
      BY <1>2, <1>6, <2>1 DEF CloseFiscalYearWrite
    <2> QED
      BY <1>2, <2>1, <2>2, StillStuck DEF Idle
  <1>7. CASE LockFiscalYearWrite(r)
    <2>1. /\ req[r].on # y
          /\ req' = [req EXCEPT ![r] = Idle]
      BY <1>3, <1>7 DEF LockFiscalYearWrite, End
    <2>2. years'[y] = years[y]
      BY <1>2, <1>7, <2>1 DEF LockFiscalYearWrite
    <2> QED
      BY <1>2, <2>1, <2>2, StillStuck DEF Idle
  <1>8. CASE UpdateAccountingPeriodWrite(r)
    <2>1. req[r].pc = "period" /\ req[r].on # y
      BY <1>3, <1>8 DEF UpdateAccountingPeriodWrite
    <2>2. years'[y] = years[y]
      BY <1>2, <1>8, <2>1 DEF UpdateAccountingPeriodWrite
    <2>3. PICK q : /\ req' = [req EXCEPT ![r] = q]
                   /\ q.pc \in {"close", "lock", "period", "year"} => q.on # y
      <3>1. CASE req' = [req EXCEPT ![r] = Idle]
        <4>1. Idle.pc \notin {"close", "lock", "period", "year"}
          BY DEF Idle
        <4> QED
          BY <3>1, <4>1
      <3>2. CASE req' = [req EXCEPT ![r].pc = "year"]
        <4>1. PICK q : q = [req[r] EXCEPT !.pc = "year"]
          OBVIOUS
        <4>2. q.on = req[r].on
          BY <1>2, <2>1, <4>1 DEF RequestOK, Idle
        <4> QED
          BY <2>1, <3>2, <4>1, <4>2
      <3> QED
        BY <1>8, <3>1, <3>2 DEF UpdateAccountingPeriodWrite
    <2> QED
      BY <1>2, <2>2, <2>3, StillStuck
  <1>9. CASE UpdateFiscalYearWrite(r)
    <2>1. /\ req[r].on # y
          /\ req' = [req EXCEPT ![r] = Idle]
      BY <1>3, <1>9 DEF UpdateFiscalYearWrite, End
    <2>2. years'[y] = years[y]
      BY <1>2, <1>9, <2>1 DEF UpdateFiscalYearWrite
    <2> QED
      BY <1>2, <2>1, <2>2, StillStuck DEF Idle
  <1>10. CASE Abort(r)
    <2>1. years' = years /\ req' = [req EXCEPT ![r] = Idle]
      BY <1>10 DEF Abort
    <2> QED
      BY <1>2, <2>1, StillStuck DEF Idle
  <1> QED
    BY <1>1, <1>4, <1>5, <1>6, <1>7, <1>8, <1>9, <1>10 DEF Proceed

(* A locked year that overlapping requests left with an open period, once  *)
(* no request is on it, stays that way: no handler accepts it any more.    *)
THEOREM NothingMendsAStuckYear == Spec => StuckIsForGood
  <1>1. OverlapInv /\ [Next]_vars =>
           [\A y \in Years : Stuck(y) => Stuck(y)' /\ years'[y] = years[y]]_vars
    BY StuckStays
  <1> QED
    BY <1>1, OverlapsKeepTheCalendar, PTL DEF Spec, StuckIsForGood

-----------------------------------------------------------------------------
(* Every period of every year keeps the promise of an accounting period.   *)

AllAsked(y, i) == [s \in Requests |-> Asked(req[s], y, i)]

PeriodMoves(y, i) ==
    \/ PeriodOf(y, i)!Next
    \/ UNCHANGED <<StatusOf(y, i), AllAsked(y, i)>>

(* The three steps of the abstract period, and none of them. *)
LEMMA AskMoves ==
  ASSUME NEW y, NEW i, NEW r \in Requests, NEW q, DOMAIN req = Requests,
         req' = [req EXCEPT ![r] = q], StatusOf(y, i)' = StatusOf(y, i),
         Asked(req[r], y, i) = "nothing",
         NEW wanted \in Statuses, Asked(q, y, i) = wanted,
         StatusOf(y, i) = "LOCKED" => wanted = "LOCKED"
  PROVE  PeriodMoves(y, i)
  <1>0. AllAsked(y, i)' = [AllAsked(y, i) EXCEPT ![r] = Asked(q, y, i)]
    BY DEF AllAsked, Asked
  <1>1. AllAsked(y, i)' = [AllAsked(y, i) EXCEPT ![r] = wanted]
    BY <1>0
  <1>2. AllAsked(y, i)[r] = "nothing"
    BY DEF AllAsked
  <1>3. PeriodOf(y, i)!Ask(r)
    BY <1>1, <1>2
    DEF PeriodOf!Ask, PeriodOf!Statuses, PeriodOf!Nothing, Statuses, AllAsked
  <1> QED
    BY <1>3 DEF PeriodMoves, PeriodOf!Next

LEMMA WriteMoves ==
  ASSUME NEW y, NEW i, NEW r \in Requests, NEW q, DOMAIN req = Requests,
         req' = [req EXCEPT ![r] = q],
         Asked(req[r], y, i) # "nothing", Asked(q, y, i) = "nothing",
         StatusOf(y, i)' \in {Asked(req[r], y, i), StatusOf(y, i)}
  PROVE  PeriodMoves(y, i)
  <1>0. AllAsked(y, i)' = [AllAsked(y, i) EXCEPT ![r] = Asked(q, y, i)]
    BY DEF AllAsked, Asked
  <1>1. AllAsked(y, i)' = [AllAsked(y, i) EXCEPT ![r] = "nothing"]
    BY <1>0
  <1>2. AllAsked(y, i)[r] = Asked(req[r], y, i)
    BY DEF AllAsked
  <1>3. CASE StatusOf(y, i)' = Asked(req[r], y, i)
    <2>1. PeriodOf(y, i)!Write(r)
      BY <1>1, <1>2, <1>3 DEF PeriodOf!Write, PeriodOf!Nothing, AllAsked
    <2> QED
      BY <2>1 DEF PeriodMoves, PeriodOf!Next
  <1>4. CASE StatusOf(y, i)' = StatusOf(y, i)
    <2>1. PeriodOf(y, i)!GiveUp(r)
      BY <1>1, <1>2, <1>4 DEF PeriodOf!GiveUp, PeriodOf!Nothing, AllAsked
    <2> QED
      BY <2>1 DEF PeriodMoves, PeriodOf!Next
  <1> QED
    BY <1>3, <1>4

LEMMA NothingMoves ==
  ASSUME NEW y, NEW i, NEW r \in Requests, NEW q, DOMAIN req = Requests,
         req' = [req EXCEPT ![r] = q], StatusOf(y, i)' = StatusOf(y, i),
         Asked(q, y, i) = Asked(req[r], y, i)
  PROVE  PeriodMoves(y, i)
  <1>0. AllAsked(y, i)' = [AllAsked(y, i) EXCEPT ![r] = Asked(q, y, i)]
    BY DEF AllAsked, Asked
  <1>1. AllAsked(y, i)' = [AllAsked(y, i) EXCEPT ![r] = Asked(req[r], y, i)]
    BY <1>0
  <1>2. AllAsked(y, i)' = AllAsked(y, i)
    BY <1>1 DEF AllAsked
  <1> QED
    BY <1>2 DEF PeriodMoves

(* A request that is done asks for nothing any more. *)
LEMMA DoneAsksNothing ==
  ASSUME NEW y, NEW i
  PROVE  Asked(Idle, y, i) = "nothing"
  BY DEF Asked, Idle

LEMMA StatusStays ==
  ASSUME NEW y \in Years, NEW i, years'[y] = years[y]
  PROVE  StatusOf(y, i)' = StatusOf(y, i)
  BY DEF StatusOf, Exists

LEMMA CallMoves ==
  ASSUME OverlapInv, NEW y \in Years, NEW i \in Nat,
         NEW r \in Requests, Call(r)
  PROVE  PeriodMoves(y, i)
  <1>1. DOMAIN req = Requests
    BY DEF OverlapInv, TypeOK
  <1>2. ASSUME NEW operation, NEW on, NEW data, Begin(r, operation, on, data)
        PROVE  /\ req' = [req EXCEPT ![r] =
                            [pc |-> operation, on |-> on, data |-> data]]
               /\ StatusOf(y, i)' = StatusOf(y, i)
               /\ Asked(req[r], y, i) = "nothing"
    BY <1>2, StatusStays, DoneAsksNothing DEF Begin
  <1>3. ASSUME NEW data, Begin(r, "create", New, data)
        PROVE  PeriodMoves(y, i)
    <2>1. PICK q : q = [pc |-> "create", on |-> New, data |-> data]
      OBVIOUS
    <2>2. Asked(q, y, i) = "nothing"
      BY <2>1 DEF Asked
    <2> QED
      BY <1>1, <1>2, <1>3, <2>1, <2>2, NothingMoves
  <1>4. CASE CreateFiscalYearRead(r)
    BY <1>3, <1>4 DEF CreateFiscalYearRead
  <1>5. CASE \E z \in Years : CloseFiscalYearRead(r, z)
    <2>1. PICK z \in Years : Begin(r, "close", z, "CLOSED")
      BY <1>5 DEF CloseFiscalYearRead
    <2>2. PICK q : q = [pc |-> "close", on |-> z, data |-> "CLOSED"]
      OBVIOUS
    <2>3. Asked(q, y, i) = "nothing"
      BY <2>2 DEF Asked
    <2> QED
      BY <1>1, <1>2, <2>1, <2>2, <2>3, NothingMoves
  <1>6. CASE \E z \in Years : LockFiscalYearRead(r, z)
    <2>1. PICK z \in Years : Begin(r, "lock", z, "LOCKED")
      BY <1>6 DEF LockFiscalYearRead
    <2>2. PICK q : q = [pc |-> "lock", on |-> z, data |-> "LOCKED"]
      OBVIOUS
    <2>3. CASE z = y
      <3>1. Asked(q, y, i) = "LOCKED" /\ "LOCKED" \in Statuses
        BY <2>2, <2>3 DEF Asked, Statuses
      <3> QED
        BY <1>1, <1>2, <2>1, <2>2, <3>1, AskMoves
    <2>4. CASE z # y
      <3>1. Asked(q, y, i) = "nothing"
        BY <2>2, <2>4 DEF Asked
      <3> QED
        BY <1>1, <1>2, <2>1, <2>2, <3>1, NothingMoves
    <2> QED
      BY <2>3, <2>4
  <1>7. CASE \E z \in Years : UpdateAccountingPeriodRead(r, z)
    <2>1. PICK z \in Years : UpdateAccountingPeriodRead(r, z)
      BY <1>7
    <2>2. PICK k \in DOMAIN years[z].periods, wanted \in Statuses :
             /\ years[z].periods[k].status = "LOCKED" => wanted = "LOCKED"
             /\ BeginUpdate(r, z, k, wanted)
      BY <2>1 DEF UpdateAccountingPeriodRead
    <2>3. PICK data : /\ Begin(r, "period", z, data)
                      /\ data.index = k /\ data.status = wanted
      BY <2>2 DEF BeginUpdate
    <2>4. PICK q : q = [pc |-> "period", on |-> z, data |-> data]
      OBVIOUS
    <2>5. CASE z = y /\ k = i
      <3>1. Asked(q, y, i) = wanted
        BY <2>3, <2>4, <2>5 DEF Asked
      <3>2. StatusOf(y, i) = "LOCKED" => wanted = "LOCKED"
        BY <2>2, <2>5 DEF StatusOf
      <3> QED
        BY <1>1, <1>2, <2>3, <2>4, <3>1, <3>2, AskMoves
    <2>6. CASE ~ (z = y /\ k = i)
      <3>1. Asked(q, y, i) = "nothing"
        BY <2>3, <2>4, <2>6 DEF Asked
      <3> QED
        BY <1>1, <1>2, <2>3, <2>4, <3>1, NothingMoves
    <2> QED
      BY <2>5, <2>6
  <1> QED
    BY <1>4, <1>5, <1>6, <1>7 DEF Call

LEMMA CreateWriteMoves ==
  ASSUME OverlapInv, NEW y \in Years, NEW i \in Nat,
         NEW r \in Requests, CreateFiscalYearWrite(r)
  PROVE  PeriodMoves(y, i)
  <1>1. DOMAIN req = Requests /\ DOMAIN years = Years
    BY DEF OverlapInv, TypeOK
  <1>2. PICK z \in Years :
           ~ Exists(z) /\ years' = [years EXCEPT ![z] = req[r].data]
    BY DEF CreateFiscalYearWrite
  <1>3. req[r].pc = "create" /\ req' = [req EXCEPT ![r] = Idle]
    BY DEF CreateFiscalYearWrite, End
  <1>4. Asked(Idle, y, i) = Asked(req[r], y, i)
    BY <1>3, DoneAsksNothing DEF Asked
  <1>5. StatusOf(y, i)' = StatusOf(y, i)
    <2>1. CASE z = y
      <3>1. \A k \in DOMAIN req[r].data.periods :
               req[r].data.periods[k].status = "OPEN"
        BY <1>3 DEF OverlapInv, StillFits
      <3>2. years'[y] = req[r].data
        BY <1>1, <1>2, <2>1
      <3> QED
        BY <1>2, <2>1, <3>1, <3>2 DEF StatusOf
    <2>2. CASE z # y
      BY <1>1, <1>2, <2>2, StatusStays
    <2> QED
      BY <2>1, <2>2
  <1> QED
    BY <1>1, <1>3, <1>4, <1>5, NothingMoves

(* A change of the year's own status. *)
LEMMA SamePeriods ==
  ASSUME NEW y \in Years, NEW i, NEW z \in Years, NEW status,
         DOMAIN years = Years, \A w \in Years : Exists(w) => years[w] \in Year,
         Exists(z), status \in Statuses,
         years' = [years EXCEPT ![z].status = status]
  PROVE  StatusOf(y, i)' = StatusOf(y, i)
  <1>1. CASE z = y
    <2>1. years[y] \in Year
      BY <1>1
    <2>2. PICK new : new = [years[y] EXCEPT !.status = status]
      OBVIOUS
    <2>3. new.periods = years[y].periods /\ new.status = status
      BY <2>1, <2>2 DEF Year
    <2>4. years'[y] = new /\ new # Absent
      BY <1>1, <2>2, <2>3 DEF Absent, Statuses
    <2> QED
      BY <1>1, <2>3, <2>4 DEF StatusOf, Exists
  <1>2. CASE z # y
    BY <1>2, StatusStays
  <1> QED
    BY <1>1, <1>2

LEMMA YearStatusMoves ==
  ASSUME OverlapInv, NEW y \in Years, NEW i \in Nat, NEW r \in Requests,
         CloseFiscalYearWrite(r) \/ UpdateFiscalYearWrite(r)
  PROVE  PeriodMoves(y, i)
  <1>1. /\ DOMAIN req = Requests /\ DOMAIN years = Years
        /\ \A w \in Years : Exists(w) => years[w] \in Year
    BY DEF OverlapInv, TypeOK
  <1>2. /\ req[r].pc \in {"close", "year"}
        /\ req' = [req EXCEPT ![r] = Idle]
    BY DEF CloseFiscalYearWrite, UpdateFiscalYearWrite, End
  <1>3. Asked(Idle, y, i) = Asked(req[r], y, i)
    BY <1>2, DoneAsksNothing DEF Asked
  <1>4. PICK z \in Years : z = req[r].on /\ Exists(z)
    BY <1>2 DEF OverlapInv, TypeOK, RequestOK, StillFits, Idle
  <1>5. PICK status \in Statuses :
           years' = [years EXCEPT ![z].status = status]
    <2>1. CASE CloseFiscalYearWrite(r)
      <3>1. "CLOSED" \in Statuses
        BY DEF Statuses
      <3>2. years' = [years EXCEPT ![z].status = "CLOSED"]
        BY <1>4, <2>1 DEF CloseFiscalYearWrite
      <3> QED
        BY <3>1, <3>2
    <2>2. CASE UpdateFiscalYearWrite(r)
      <3>1. req[r].data.yearStatus \in Statuses
        BY <2>2
        DEF UpdateFiscalYearWrite, End, OverlapInv, TypeOK, RequestOK, Idle
      <3>2. years' = [years EXCEPT ![z].status = req[r].data.yearStatus]
        BY <1>4, <2>2 DEF UpdateFiscalYearWrite
      <3> QED
        BY <3>1, <3>2
    <2> QED
      BY <2>1, <2>2
  <1>6. StatusOf(y, i)' = StatusOf(y, i)
    BY <1>1, <1>4, <1>5, SamePeriods
  <1> QED
    BY <1>1, <1>2, <1>3, <1>6, NothingMoves

LEMMA LockWriteMoves ==
  ASSUME OverlapInv, NEW y \in Years, NEW i \in Nat,
         NEW r \in Requests, LockFiscalYearWrite(r)
  PROVE  PeriodMoves(y, i)
  <1>1. DOMAIN req = Requests /\ DOMAIN years = Years
    BY DEF OverlapInv, TypeOK
  <1>2. req[r].pc = "lock" /\ req' = [req EXCEPT ![r] = Idle]
    BY DEF LockFiscalYearWrite, End
  <1>3. PICK z \in Years : z = req[r].on /\ Exists(z)
    BY <1>2 DEF OverlapInv, TypeOK, RequestOK, StillFits, Idle
  <1>4. CASE z = y
    <2>1. years[y] \in Year /\ years[y].periods \in Seq(Period)
      BY <1>3, <1>4 DEF OverlapInv, TypeOK, Year
    <2>2. PICK locked : locked = LockPeriods(years[y].periods)
      OBVIOUS
    <2>3. PICK new : new = [years[y] EXCEPT !.periods = locked,
                                            !.status = "LOCKED"]
      OBVIOUS
    <2>4. years'[y] = new
      BY <1>1, <1>3, <1>4, <2>2, <2>3 DEF LockFiscalYearWrite
    <2>5. new.periods = locked
      BY <2>1, <2>3 DEF Year
    <2>6. \A k \in DOMAIN locked : locked[k].status = "LOCKED"
      BY <2>1, <2>2, AllPeriodsChange
    <2>7. DOMAIN locked = DOMAIN years[y].periods
      BY <2>1, <2>2, AllPeriodsChange
    <2>8. new # Absent
      BY <2>1, <2>3 DEF Year, Absent
    <2>9. StatusOf(y, i)' \in {"LOCKED", StatusOf(y, i)}
      BY <1>3, <1>4, <2>4, <2>5, <2>6, <2>7, <2>8 DEF StatusOf, Exists
    <2>10. Asked(req[r], y, i) = "LOCKED"
      BY <1>2, <1>3, <1>4 DEF Asked
    <2> QED
      BY <1>1, <1>2, <2>9, <2>10, DoneAsksNothing, WriteMoves
  <1>5. CASE z # y
    <2>1. years'[y] = years[y]
      BY <1>1, <1>3, <1>5 DEF LockFiscalYearWrite
    <2>2. Asked(Idle, y, i) = Asked(req[r], y, i)
      BY <1>2, <1>3, <1>5, DoneAsksNothing DEF Asked
    <2> QED
      BY <1>1, <1>2, <2>1, <2>2, StatusStays, NothingMoves
  <1> QED
    BY <1>4, <1>5

LEMMA PeriodWriteMoves ==
  ASSUME OverlapInv, NEW y \in Years, NEW i \in Nat,
         NEW r \in Requests, UpdateAccountingPeriodWrite(r)
  PROVE  PeriodMoves(y, i)
  <1>1. DOMAIN req = Requests /\ DOMAIN years = Years
    BY DEF OverlapInv, TypeOK
  <1>2. /\ req[r].pc = "period" /\ req[r].on \in Years /\ Exists(req[r].on)
        /\ req[r].data.index \in DOMAIN years[req[r].on].periods
        /\ req[r].data.index \in Nat /\ req[r].data.status \in Statuses
        /\ req[r] \in [ pc : {"period", "year"}, on : Years,
                        data : [ index : Nat, status : Statuses,
                                 was : Statuses, yearStatus : Statuses ] ]
    BY DEF UpdateAccountingPeriodWrite, OverlapInv, TypeOK, RequestOK,
           StillFits, Idle
  <1>3. PICK z \in Years, index \in Nat, status \in Statuses :
           /\ z = req[r].on /\ Exists(z)
           /\ index = req[r].data.index /\ index \in DOMAIN years[z].periods
           /\ status = req[r].data.status
    BY <1>2
  <1>4. PICK q : /\ req' = [req EXCEPT ![r] = q]
                 /\ Asked(q, y, i) = "nothing"
    <2>1. CASE req' = [req EXCEPT ![r] = Idle]
      BY <2>1, DoneAsksNothing
    <2>2. CASE req' = [req EXCEPT ![r].pc = "year"]
      <3>1. PICK q : q = [req[r] EXCEPT !.pc = "year"]
        OBVIOUS
      <3>2. q.pc = "year"
        BY <1>2, <3>1
      <3>3. Asked(q, y, i) = "nothing"
        BY <3>2 DEF Asked
      <3> QED
        BY <2>2, <3>1, <3>3
    <2> QED
      BY <2>1, <2>2 DEF UpdateAccountingPeriodWrite
  <1>5. CASE z = y
    <2>1. years[y] \in Year /\ years[y].periods \in Seq(Period)
      BY <1>3, <1>5 DEF OverlapInv, TypeOK, Year
    <2>2. PICK changed : changed = SetPeriod(years[y].periods, index, status)
      OBVIOUS
    <2>3. PICK new : new = [years[y] EXCEPT !.periods = changed]
      OBVIOUS
    <2>4. years'[y] = new
      BY <1>1, <1>3, <1>5, <2>2, <2>3 DEF UpdateAccountingPeriodWrite
    <2>5. new.periods = changed /\ new.status \in Statuses
      BY <2>1, <2>3 DEF Year
    <2>6. new # Absent
      BY <2>5 DEF Absent, Statuses
    <2>7. DOMAIN changed = DOMAIN years[y].periods
      BY <2>2 DEF SetPeriod
    <2>8. CASE index = i
      <3>1. years[y].periods[i] \in Period
        BY <1>3, <1>5, <2>1, <2>8
      <3>2. changed[i] = [years[y].periods[i] EXCEPT !.status = status]
        BY <1>3, <1>5, <2>2, <2>8 DEF SetPeriod
      <3>3. changed[i].status = status
        BY <3>1, <3>2 DEF Period
      <3>4. StatusOf(y, i)' = status
        BY <1>3, <1>5, <2>4, <2>5, <2>6, <2>7, <2>8, <3>3 DEF StatusOf, Exists
      <3>5. Asked(req[r], y, i) = status
        BY <1>2, <1>3, <1>5, <2>8 DEF Asked
      <3>6. status # "nothing"
        BY DEF Statuses
      <3> QED
        BY <1>1, <1>4, <3>4, <3>5, <3>6, WriteMoves
    <2>9. CASE index # i
      <3>1. i \in DOMAIN years[y].periods => changed[i] = years[y].periods[i]
        BY <2>2, <2>9 DEF SetPeriod
      <3>2. StatusOf(y, i)' = StatusOf(y, i)
        BY <1>3, <1>5, <2>4, <2>5, <2>6, <2>7, <3>1 DEF StatusOf, Exists
      <3>3. Asked(req[r], y, i) = "nothing"
        BY <1>2, <1>3, <1>5, <2>9 DEF Asked
      <3> QED
        BY <1>1, <1>4, <3>2, <3>3, NothingMoves
    <2> QED
      BY <2>8, <2>9
  <1>6. CASE z # y
    <2>1. years'[y] = years[y]
      BY <1>1, <1>3, <1>6 DEF UpdateAccountingPeriodWrite
    <2>2. Asked(req[r], y, i) = "nothing"
      BY <1>2, <1>3, <1>6 DEF Asked
    <2> QED
      BY <1>1, <1>4, <2>1, <2>2, StatusStays, NothingMoves
  <1> QED
    BY <1>5, <1>6

LEMMA AbortMoves ==
  ASSUME OverlapInv, NEW y \in Years, NEW i \in Nat,
         NEW r \in Requests, Abort(r)
  PROVE  PeriodMoves(y, i)
  <1>1. /\ DOMAIN req = Requests
        /\ years' = years /\ req' = [req EXCEPT ![r] = Idle]
    BY DEF OverlapInv, TypeOK, Abort
  <1>2. StatusOf(y, i)' = StatusOf(y, i)
    BY <1>1, StatusStays
  <1>3. CASE Asked(req[r], y, i) = "nothing"
    BY <1>1, <1>2, <1>3, DoneAsksNothing, NothingMoves
  <1>4. CASE Asked(req[r], y, i) # "nothing"
    BY <1>1, <1>2, <1>4, DoneAsksNothing, WriteMoves
  <1> QED
    BY <1>3, <1>4

(* However many requests overlap, and from before it is inserted on, every *)
(* period of every year keeps the promise of an accounting period: what is *)
(* locked is reopened only by a request that looked before it was locked.  *)
THEOREM EveryPeriodKeepsItsPromise ==
  ASSUME NEW y \in Years, NEW i \in Nat
  PROVE  Spec => ImplementsAccountingPeriod(y, i)
  <1>1. Init => PeriodOf(y, i)!Init
    <2> SUFFICES ASSUME Init PROVE PeriodOf(y, i)!Init
      OBVIOUS
    <2>1. \A r \in Requests : Asked(req[r], y, i) = "nothing"
      BY DoneAsksNothing DEF Init
    <2>2. StatusOf(y, i) \in Statuses
      <3>1. SerialInv
        BY InitEstablishes
      <3>2. CASE Exists(y) /\ i \in DOMAIN years[y].periods
        <4>1. years[y].periods[i] \in Period
          BY <3>1, <3>2 DEF SerialInv, TypeOK, Year
        <4> QED
          BY <3>2, <4>1 DEF StatusOf, Period
      <3>3. CASE ~ (Exists(y) /\ i \in DOMAIN years[y].periods)
        BY <3>3 DEF StatusOf, Statuses
      <3> QED
        BY <3>2, <3>3
    <2> QED
      BY <2>1, <2>2
      DEF PeriodOf!Init, PeriodOf!Statuses, PeriodOf!Nothing, Statuses
  <1>2. OverlapInv /\ [Next]_vars =>
           [PeriodOf(y, i)!Next]_(PeriodOf(y, i)!periodVars)
    <2> SUFFICES ASSUME OverlapInv, [Next]_vars
                 PROVE  [PeriodOf(y, i)!Next]_(PeriodOf(y, i)!periodVars)
      OBVIOUS
    <2>1. CASE UNCHANGED vars
      BY <2>1 DEF vars, PeriodOf!periodVars, StatusOf, Asked, Exists
    <2>2. CASE Next
      <3>1. PICK r \in Requests : Call(r) \/ Proceed(r)
        BY <2>2 DEF Next
      <3>2. PeriodMoves(y, i)
        BY <3>1, CallMoves, CreateWriteMoves, YearStatusMoves, LockWriteMoves,
           PeriodWriteMoves, AbortMoves
        DEF Proceed
      <3> QED
        BY <3>2 DEF PeriodMoves, AllAsked, PeriodOf!periodVars
    <2> QED
      BY <2>1, <2>2
  <1> QED
    BY <1>1, <1>2, OverlapsKeepTheCalendar, PTL
    DEF Spec, ImplementsAccountingPeriod, PeriodOf!Spec
=============================================================================
