---------------------------- MODULE Availability ----------------------------
(***************************************************************************)
(* The monthly availability of a component (api/v2/v2.go).  Months are     *)
(* numbered from January of some year; times are hours since then.  The    *)
(* date columns carry no zone and are read as UTC, so a moment has one     *)
(* month.                                                                  *)
(***************************************************************************)
EXTENDS Ent

CONSTANT MonthStart   \* the first hour of each month, the one after the last month included

ASSUME MonthStartAssumption ==
  /\ IsFiniteSet(DOMAIN MonthStart) /\ DOMAIN MonthStart = 0 .. Cardinality(DOMAIN MonthStart) - 1
  /\ \A a \in DOMAIN MonthStart : MonthStart[a] \in Int
  /\ \A a, b \in DOMAIN MonthStart : a < b => MonthStart[a] < MonthStart[b]

MonthsInYear == 12
PrecisionFactor == 100000

Months == 0 .. Cardinality(DOMAIN MonthStart) - 2
MonthEnd(month) == MonthStart[month + 1]
HoursInMonth(month) == MonthEnd(month) - MonthStart[month]
MonthOf(t) == CHOOSE month \in Months : MonthStart[month] <= t /\ t < MonthEnd(month)

Year(month) == month \div MonthsInYear
Month(month) == (month % MonthsInYear) + 1

\* Eleven months before the current one.
PeriodStart(now) == MonthOf(now) - (MonthsInYear - 1)

MinTime(a, b) == IF a < b THEN a ELSE b
MaxTime(a, b) == IF a > b THEN a ELSE b

\* Faulty variant: hours after the clock count.
AdjustIncidentPeriodOpenEnd(start, end, periodStart, periodEnd) ==
  IF end < periodStart \/ start > periodEnd THEN << >>
  ELSE <<IF start < periodStart THEN periodStart ELSE start, end>>

\* << >> when the outage lies outside the period.
AdjustIncidentPeriod(start, end, periodStart, periodEnd) ==
  IF end < periodStart \/ start > periodEnd THEN << >>
  ELSE <<IF start < periodStart THEN periodStart ELSE start,
         IF end > periodEnd THEN periodEnd ELSE end>>

\* The months the loop over one outage stops at.
Visited(start, end) ==
  {month \in Months : start < end /\ MonthOf(start) <= month
                      /\ (month = MonthOf(start) \/ MonthStart[month] < end)}

Downtime(inc, index, now) ==
  LET period == IF inc.end_date = Null \/ inc.impact # 3 THEN << >>
                ELSE AdjustIncidentPeriod(inc.start_date, inc.end_date,
                                          MonthStart[PeriodStart(now)], now)
      From(month) == MaxTime(period[1], MonthStart[month])
      Index(month) == (Year(MonthOf(From(month))) - Year(PeriodStart(now))) * MonthsInYear
                        + (Month(MonthOf(From(month))) - Month(PeriodStart(now)))
      hours == [month \in Visited(period[1], period[2]) |->
                  MinTime(period[2], MonthEnd(month)) - From(month)]
  IN  IF period = << >> THEN 0
      ELSE SumFunctionOnSet(hours, {month \in DOMAIN hours : Index(month) = index})

Total(hours) == FoldLeft(+, 0, hours)

MonthlyDowntime(incidents, index, now) ==
  Total([k \in DOMAIN incidents |-> Downtime(incidents[k], index, now)])

\* int(): towards zero.
Truncate(num, den) == IF num >= 0 THEN num \div den ELSE -((-num) \div den)

\* 100 - down / total * 100 in steps of 1 / PrecisionFactor, half a step added.
Percentage(down, total) ==
  Truncate(2 * 100 * PrecisionFactor * (total - down) + total, 2 * total)

\* The latest month first; no entry for a component without events.
CalculateAvailability(incidents, now) ==
  IF incidents = << >> THEN << >>
  ELSE [i \in 1 .. MonthsInYear |->
          LET index == MonthsInYear - i
              month == PeriodStart(now) + index
          IN  [year |-> Year(month), month |-> Month(month),
               percentage |-> Percentage(MonthlyDowntime(incidents, index, now), HoursInMonth(month))]]

=============================================================================
