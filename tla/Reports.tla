--------------------------------- MODULE Reports ---------------------------------
(***************************************************************************)
(* The reports that need more than one statement: analytics.service.ts     *)
(* overview (a total, then a chart of the same window) and the order side  *)
(* of the Z report (cash-sessions.service.ts report: all orders of a       *)
(* session, then its cancelled ones).  No transaction joins the            *)
(* statements, so orders change between them.                              *)
(*                                                                         *)
(* Time is counted in ticks from the start of a year.  The calendar is a   *)
(* small one with the traits of the real one: instants between full hours, *)
(* several hours in a day, months of different lengths.                    *)
(***************************************************************************)
EXTENDS Integers, FiniteSets, Sequences

CONSTANTS OrderIds,    \* order ids (bound on the orders ever created)
          Totals,    \* Order.total of each
          Instants,  \* when orders are created, and the time a report is asked
          Windows    \* explicit from and to

ASSUME ReportsAssumption ==
  /\ Totals \in [OrderIds -> Nat] /\ IsFiniteSet(OrderIds)
  /\ Instants \subseteq Nat /\ Windows \subseteq Nat \X Nat

VARIABLES sales,   \* committed orders as the reports read them: createdAt, cancelled
          report,   \* the report in progress, or the last one
          changed,  \* history: orders that changed since its first statement
          created   \* history: those of them that are new

reportVars == <<sales, report, changed, created>>

\* What the numbers f add up to: the units of money that they count.
SumOf(f) == Cardinality(UNION {{x} \X (1 .. f[x]) : x \in DOMAIN f})

Periods == {"day", "month", "year"}
NoReport == [kind |-> "none"]

-------------------------------------------------------------------------------
(* The calendar *)

Hour == 2         \* ticks
Day == 2 * Hour
Year == 5 * Day   \* of a month of three days and one of two

DayOf(t) == t \div Day
MonthOf(t) == 2 * (DayOf(t) \div 5) + IF DayOf(t) % 5 < 3 THEN 0 ELSE 1
FirstDay(month) == 5 * (month \div 2) + IF month % 2 = 0 THEN 0 ELSE 3
LastDay(month) == FirstDay(month + 1) - 1

\* date_trunc of PostgreSQL and startOf of dayjs.
Truncated(t, unit) ==
  CASE unit = "hour"  -> t - (t % Hour)
    [] unit = "day"   -> t - (t % Day)
    [] unit = "month" -> FirstDay(MonthOf(t)) * Day
    [] unit = "year"  -> t - (t % Year)

\* add of dayjs: a month later is the same day and time, or the last day.
MonthLater(t) ==
  LET later == FirstDay(MonthOf(t) + 1) + (DayOf(t) - FirstDay(MonthOf(t)))
      last == LastDay(MonthOf(t) + 1)
  IN (IF later > last THEN last ELSE later) * Day + (t % Day)

Plus(t, unit) ==
  CASE unit = "hour"  -> t + Hour
    [] unit = "day"   -> t + Day
    [] unit = "month" -> MonthLater(t)
    [] unit = "year"  -> t + Year

-------------------------------------------------------------------------------
(* overview *)

bucketConfig(period) == [day |-> "hour", month |-> "day", year |-> "month"][period]

\* from and to as given, or the period that now lies in.
DefaultWindow(period, now) ==
  <<Truncated(now, period), Plus(Truncated(now, period), period)>>
resolveRange(period) == Windows \cup {DefaultWindow(period, now) : now \in Instants}

\* The orders that every query of the service sums up.
Counted(from, to) ==
  {o \in DOMAIN sales : from <= sales[o].createdAt /\ sales[o].createdAt < to
                         /\ ~ sales[o].cancelled}
Revenue(set) == SumOf([o \in set |-> Totals[o]])

\* The cursor starts at from and is moved on by one unit.
FromTruncated(from, unit) == Truncated(from, unit)
FirstCursor(from, unit) == from

StopsAfter(cursor, to) == cursor <= to
IsBefore(cursor, to) == cursor < to

\* One cursor per slot: more than there are hours in the window are not needed.
Cursors(from, to, unit) ==
  LET cursor[n \in 0 .. (to - from) \div Hour + 1] ==
        IF n = 0 THEN FirstCursor(from, unit) ELSE Plus(cursor[n - 1], unit)
  IN cursor

Bucket(from, to, unit, t) ==
  {o \in Counted(from, to) : Truncated(sales[o].createdAt, unit) = t}

buildSeries(period, from, to) ==
  LET unit == bucketConfig(period)
      cursor == Cursors(from, to, unit)
      points == Cardinality({n \in DOMAIN cursor : IsBefore(cursor[n], to)})
  IN [n \in 1 .. points |-> [at |-> cursor[n - 1],
                             value |-> Revenue(Bucket(from, to, unit, cursor[n - 1]))]]

ReportInit ==
  /\ sales = [o \in {} |-> [createdAt |-> 0, cancelled |-> FALSE]]
  /\ report = NoReport
  /\ changed = {}
  /\ created = {}

\* Reports do not disturb each other: one at a time is enough.
Ready == report.kind \in {"none", "overview", "session"}

AggregateOrders == \E period \in Periods :
  \E window \in resolveRange(period) :
    /\ Ready
    /\ report' = [kind |-> "aggregated", period |-> period, from |-> window[1],
                  to |-> window[2], total |-> Revenue(Counted(window[1], window[2]))]
    /\ changed' = {} /\ created' = {}
    /\ UNCHANGED sales

BuildSeries ==
  /\ report.kind = "aggregated"
  /\ report' = [kind |-> "overview", period |-> report.period, from |-> report.from,
                to |-> report.to, total |-> report.total,
                series |-> buildSeries(report.period, report.from, report.to)]
  /\ UNCHANGED <<sales, changed, created>>
-------------------------------------------------------------------------------
(* The Z report *)

Cancelled == {o \in DOMAIN sales : sales[o].cancelled}

CountOrders ==
  /\ Ready
  /\ report' = [kind |-> "counted", all |-> Cardinality(DOMAIN sales)]
  /\ changed' = {} /\ created' = {}
  /\ UNCHANGED sales

CompletedOfNow(all) == Cardinality(DOMAIN sales \ Cancelled)
Completed(all) == all - Cardinality(Cancelled)

CountCancelled ==
  /\ report.kind = "counted"
  /\ report' = [kind |-> "session", completed |-> Completed(report.all)]
  /\ UNCHANGED <<sales, changed, created>>
-------------------------------------------------------------------------------
(* What the order handlers commit meanwhile.  createdAt is when the creating
   transaction began, which may be long before its commit. *)

Create == \E o \in OrderIds, t \in Instants :
  /\ o \notin DOMAIN sales
  /\ sales' = [q \in DOMAIN sales \cup {o} |->
                 IF q = o THEN [createdAt |-> t, cancelled |-> FALSE] ELSE sales[q]]
  /\ changed' = changed \cup {o}
  /\ created' = created \cup {o}
  /\ UNCHANGED report

CancelOrReopen == \E o \in DOMAIN sales :
  /\ sales' = [sales EXCEPT ![o].cancelled = ~ @]
  /\ changed' = changed \cup {o}
  /\ UNCHANGED <<report, created>>

ReportNext == AggregateOrders \/ BuildSeries \/ CountOrders \/ CountCancelled
        \/ Create \/ CancelOrReopen

ReportSpec == ReportInit /\ [][ReportNext]_reportVars

-------------------------------------------------------------------------------
(***************************************************************************)
(* overview: the chart shows the revenue it is headed with, if the window  *)
(* begins on a boundary of its buckets and no order changed between the    *)
(* two statements.  If the window begins anywhere else, which an explicit  *)
(* from may, no bucket is ever found and the chart is flat at zero.        *)
(***************************************************************************)
Aligned(r) == Truncated(r.from, bucketConfig(r.period)) = r.from
Shown(series) == SumOf([n \in DOMAIN series |-> series[n].value])

ChartMatchesTotal ==
  report.kind = "overview" /\ changed = {} =>
    Shown(report.series) = IF Aligned(report) THEN report.total ELSE 0

(***************************************************************************)
(* buildSeries: "the series always has one point per slot regardless of    *)
(* data sparsity".  From an aligned start the points are the starts of all *)
(* hours, days or months of the window, each once and in order.            *)
(***************************************************************************)
Starts(r) == {t \in r.from .. r.to - 1 : Truncated(t, bucketConfig(r.period)) = t}

OnePointPerSlot ==
  report.kind = "overview" /\ Aligned(report) =>
    /\ {report.series[n].at : n \in DOMAIN report.series} = Starts(report)
    /\ Len(report.series) = Cardinality(Starts(report))
    /\ \A n \in 2 .. Len(report.series) : report.series[n - 1].at < report.series[n].at

(***************************************************************************)
(* The Z report tells how many orders of the session were not cancelled    *)
(* when it ended, less those that appeared between its two counts, which   *)
(* is less than none when such an order is cancelled before the second.    *)
(***************************************************************************)
OrdersReported ==
  [][report.kind = "counted" /\ report'.kind = "session" =>
       report'.completed + Cardinality(created) = Cardinality(DOMAIN sales \ Cancelled)]_reportVars
================================================================================
