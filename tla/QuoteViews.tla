----------------------------- MODULE QuoteViews -----------------------------
(***************************************************************************)
(* What the lists, the dashboard, the staff and customer tables and the    *)
(* product library say about the quotes, each from queries of its own:     *)
(* quote-filter.util.ts, quote-query.service.ts, quote-analytics.service.ts,*)
(* dashboard-stats.util.ts, library.service.ts, getStats of the customers. *)
(*                                                                         *)
(* The clock counts hours of a small calendar.  A screen whose answer      *)
(* needs several queries is asked for in one step and answered in a later  *)
(* one; quotes and clock may move in between.                              *)
(***************************************************************************)
EXTENDS Integers, Sequences, FiniteSets, TLC

CONSTANTS Admins, Orders, Sales,       \* the users, by role
          NoUser,                      \* no owner asked for, nobody assigned
          Ids, KindOf,                 \* the quotes, and what of them never changes:
                                       \* [requester, order, customer, category]
          HoursPerDay, DaysPerWeek, DaysPerMonth, MonthsPerYear,
          ServerOffset,                \* the zone of the server process
          VN_OFFSET,                   \* the zone of the dashboard
          Lockable,                    \* bound: the accounts that get locked
          Start, MaxTime               \* bound: the hours there are

Users == Admins \cup Orders \cup Sales
Statuses == {"PENDING", "PROCESSING", "QUOTED", "CANCELLED"}
Ranges == {"TODAY", "THIS_WEEK", "LAST_WEEK", "THIS_MONTH", "LAST_MONTH",
           "THIS_YEAR", "ALL", "none"}

VARIABLES now, quotes, locked,  \* the clock, id |-> [created, status], locked accounts
          view                  \* the screen in flight

viewVars == <<now, quotes, locked, view>>

Db == [quotes |-> quotes, locked |-> locked]

----------------------------------------------------------------------------
(* The calendar, and resolveDateRange.  Sub-second ends of days are left   *)
(* out: a range that ends at 23:59:59 ends with the day.                   *)

DaysPerYear == DaysPerMonth * MonthsPerYear
DayOf(t, offset) == (t + offset) \div HoursPerDay
MonthOf(day) == day \div DaysPerMonth
WeekOf(day) == day \div DaysPerWeek
YearOf(day) == day \div DaysPerYear
StartOf(day, offset) == day * HoursPerDay - offset

Never == MaxTime + 1
Days(first, last) == [gte |-> StartOf(first, ServerOffset),
                      lte |-> StartOf(last + 1, ServerOffset) - 1]
Since(first) == [gte |-> StartOf(first, ServerOffset), lte |-> Never]
Forever == [gte |-> -Never, lte |-> Never]

resolveDateRange(range, at) ==
    LET d == DayOf(at, ServerOffset)
        monday == WeekOf(d) * DaysPerWeek
        first == MonthOf(d) * DaysPerMonth
    IN  CASE range = "TODAY" -> Days(d, d)
          [] range = "THIS_WEEK" -> Since(monday)
          [] range = "LAST_WEEK" -> Days(monday - DaysPerWeek, monday - 1)
          [] range = "THIS_MONTH" -> Since(first)
          [] range = "LAST_MONTH" -> Days(first - DaysPerMonth, first - 1)
          [] range = "THIS_YEAR" -> Since(YearOf(d) * DaysPerYear)
          [] OTHER -> Forever

\* The customers' copy of it knows three of the ranges.
resolveLastOrderRange(range, at) ==
    IF range \in {"TODAY", "THIS_WEEK", "THIS_MONTH"}
    THEN [resolveDateRange(range, at) EXCEPT !.lte = Never]
    ELSE Forever

Within(t, period) == t >= period.gte /\ t <= period.lte

----------------------------------------------------------------------------
(* buildQuoteWhereClause.  A filter has a status ("any" for none), an      *)
(* owner, a time range and includeLocked; category, department, team,      *)
(* customer, material and search narrow every query alike.                 *)

Filter(range) == [status |-> "any", owner |-> NoUser, range |-> range, includeLocked |-> FALSE]

canSeeCancelledQuotes(user) == user \in Admins

cancelledVisibilityCondition(scope, user, asked, status) ==
    \/ status # "CANCELLED"
    \/ /\ canSeeCancelledQuotes(user)
       /\ scope # "totals"
       /\ scope = "tabCounts" \/ asked = "CANCELLED"

AssigneeOf(row, i) == IF row.status = "PENDING" THEN NoUser ELSE KindOf[i].order

OwnedBy(user, owner, row, i) ==
    \/ owner = NoUser
    \/ owner = IF user \in Orders THEN AssigneeOf(row, i) ELSE KindOf[i].requester

NotHeldUp(user, filter, row, i, db) ==
    \/ filter.includeLocked /\ user \in Admins
    \/ row.status \notin {"PENDING", "PROCESSING"}
    \/ {KindOf[i].requester, AssigneeOf(row, i)} \cap db.locked = {}

\* The quotes a query finds; dates are resolved when the query is built.
Found(filter, user, scope, db, at) ==
    {i \in DOMAIN db.quotes :
        LET row == db.quotes[i]
        IN  /\ cancelledVisibilityCondition(scope, user, filter.status, row.status)
            /\ OwnedBy(user, filter.owner, row, i)
            /\ filter.status \in {"any", row.status}
            /\ Within(row.created, resolveDateRange(filter.range, at))
            /\ NotHeldUp(user, filter, row, i, db)}

\* countsFromGroupBy: cancelled quotes have a count and are not in the total.
countsFromGroupBy(found, db) ==
    LET By(s) == {i \in found : db.quotes[i].status = s}
    IN  [by |-> [s \in Statuses |-> Cardinality(By(s))],
         total |-> Cardinality(found \ By("CANCELLED"))]

\* findAll: the rows of all its pages together, and the counts of the tabs.
findAll(filter, user) ==
    LET anyStatus == [filter EXCEPT !.status = "any"]
    IN  [rows |-> Found(filter, user, "list", Db, now),
         counts |-> countsFromGroupBy(Found(anyStatus, user, "tabCounts", Db, now), Db)]

getStats(filter, user) ==
    countsFromGroupBy(Found(filter, user, "totals", Db, now), Db)

----------------------------------------------------------------------------
(* bucketTimeline, on the fixed zone of Vietnam.                           *)

BarOf(range, t) ==
    LET day == DayOf(t, VN_OFFSET)
    IN  CASE range = "TODAY" -> (t + VN_OFFSET) % HoursPerDay
          [] range \in {"THIS_WEEK", "THIS_MONTH", "LAST_MONTH"} -> day
          [] OTHER -> MonthOf(day)

Bars(range, at) ==
    LET day == DayOf(at, VN_OFFSET)
        Of(first, count) == first..(first + count - 1)
    IN  CASE range = "TODAY" -> Of(0, HoursPerDay)
          [] range = "THIS_WEEK" -> Of(WeekOf(day) * DaysPerWeek, DaysPerWeek)
          [] range = "THIS_MONTH" -> Of(MonthOf(day) * DaysPerMonth, DaysPerMonth)
          [] range = "LAST_MONTH" -> Of((MonthOf(day) - 1) * DaysPerMonth, DaysPerMonth)
          [] range = "THIS_YEAR" -> Of(YearOf(day) * MonthsPerYear, MonthsPerYear)
          [] OTHER -> Of(MonthOf(day) - MonthsPerYear + 1, MonthsPerYear)

bucketTimeline(rows, range, at) ==
    LET drawn == IF range = "none" THEN "THIS_MONTH" ELSE range
    IN  [b \in Bars(drawn, at) |->
            Cardinality({i \in DOMAIN rows : rows[i].status # "CANCELLED"
                                             /\ BarOf(drawn, rows[i].created) = b})]

\* Without a range only rows the bars can show are read, and some to spare.
TimelineCutoff(range, at) ==
    CASE range = "ALL" -> at - (MonthsPerYear + 1) * DaysPerMonth * HoursPerDay
      [] range = "none" -> at - 2 * DaysPerMonth * HoursPerDay
      [] OTHER -> -Never

----------------------------------------------------------------------------
(* Totals by a key, and tables sorted and cut into pages.                  *)

SumOver(f) ==
    LET Upto[ks \in SUBSET DOMAIN f] ==
            IF ks = {} THEN 0
            ELSE LET k == CHOOSE x \in ks : TRUE IN f[k] + Upto[ks \ {k}]
    IN  Upto[DOMAIN f]

GroupBy(found, column) ==
    [k \in {KindOf[i][column] : i \in found} |->
        Cardinality({i \in found : KindOf[i][column] = k})]

RequesterOf(i) == KindOf[i].requester
CustomerOf(i) == KindOf[i].customer

\* searchSortPaginate, of rows that are numbers or null.
NullValue == -1
searchSortPaginate(list, dir, page, size) ==
    LET sorted == SortSeq(list, LAMBDA a, b : IF dir = "asc" THEN a < b ELSE b < a)
        start == (page - 1) * size
    IN  SubSeq(sorted, start + 1, IF start + size < Len(sorted) THEN start + size ELSE Len(sorted))

\* Twice the median of getStaffPerformance.
median2(list) ==
    LET sorted == SortSeq(list, <)
        mid == Len(sorted) \div 2
    IN  CASE Len(sorted) = 0 -> NullValue
          [] Len(sorted) % 2 # 0 -> 2 * sorted[mid + 1]
          [] OTHER -> sorted[mid] + sorted[mid + 1]

\* The time from the hand-over of a quote to its first price.
computeQuoteTurnaroundMs(created, quoted, firstLog, edited, resubmits) ==
    LET end == IF edited /\ firstLog # NullValue THEN firstLog ELSE quoted
        starts == {created} \cup {r \in resubmits : r <= end /\ r > created}
        start == CHOOSE s \in starts : \A r \in starts : r <= s
    IN  IF end >= start THEN end - start ELSE NullValue

\* getStaffPerformance: the quotes of a range for every active Sale.
SaleTotals(range) ==
    LET found == {i \in DOMAIN quotes :
                     /\ quotes[i].status # "CANCELLED"
                     /\ Within(quotes[i].created, resolveDateRange(range, now))
                     /\ RequesterOf(i) \in Sales \ locked}
    IN  [u \in Sales \ locked |-> Cardinality({i \in found : RequesterOf(i) = u})]

\* getStats of the customers: every customer with all orders but cancelled
\* ones, if the last of them is in the range.
CustomerStats(range) ==
    LET Of(c) == {i \in DOMAIN quotes : CustomerOf(i) = c /\ quotes[i].status # "CANCELLED"}
        period == resolveLastOrderRange(range, now)
        Last(c) == CHOOSE i \in Of(c) : \A j \in Of(c) : quotes[j].created <= quotes[i].created
        Kept(c) == IF period = Forever THEN TRUE
                   ELSE Of(c) # {} /\ Within(quotes[Last(c)].created, period)
    IN  [c \in {x \in {KindOf[i].customer : i \in Ids} : Kept(x)} |-> Cardinality(Of(c))]

\* getMonthComparison: customers with an order in this month, in the last.
MonthComparison ==
    LET first == MonthOf(DayOf(now, ServerOffset)) * DaysPerMonth
        Active(period) ==
            Cardinality({CustomerOf(i) : i \in {j \in DOMAIN quotes :
                quotes[j].status # "CANCELLED" /\ Within(quotes[j].created, period)}})
    IN  [current |-> Active([gte |-> StartOf(first, ServerOffset), lte |-> now]),
         previous |-> Active(Days(first - DaysPerMonth, first - 1))]

----------------------------------------------------------------------------
(* A card of the library: the prices of the options of one quote, each     *)
(* [price, live].                                                          *)

JsRound(n, d) == (2 * n + d) \div (2 * d)
Least(S) == CHOOSE x \in S : \A y \in S : x <= y
Greatest(S) == CHOOSE x \in S : \A y \in S : y <= x

\* buildHistoryOption: the change since then, in tenths of a percent.
HasDelta(o) == o.live # NullValue /\ o.price > 0
livePriceDelta(o) ==
    LET diff == 1000 * (o.live - o.price)
        size == IF diff < 0 THEN -diff ELSE diff
    IN  IF 2 * size < o.price THEN 0 ELSE JsRound(diff, o.price)

buildLibraryCard(options) ==
    LET prices == {o.price : o \in options} \ {0}
        lives == {o.live : o \in options} \ {NullValue}
        RoundK(x) == JsRound(x, 1000) * 1000
    IN  [priceMin |-> IF prices = {} THEN 0 ELSE Least(prices),
         priceMax |-> IF prices = {} THEN 0 ELSE Greatest(prices),
         liveMin |-> IF lives = {} THEN NullValue ELSE RoundK(Least(lives)),
         liveMax |-> IF lives = {} THEN NullValue ELSE RoundK(Greatest(lives))]

----------------------------------------------------------------------------
(* The quotes and the clock.                                               *)

Idle == [at |-> "idle"]

MayMove == view.at \notin {"torn", "shelf"}

\* A write in the middle of a dashboard leaves its charts torn; the library
\* is to stand one.
Wrote ==
    CASE view.at = "asked" -> view' = [at |-> "torn"]
      [] view.at = "page" -> ~view.moved /\ view' = [view EXCEPT !.moved = TRUE]
      [] OTHER -> view' = view

Init ==
    /\ now = Start /\ locked = {} /\ view = Idle
    /\ quotes = [i \in {} |-> [created |-> 0, status |-> "PENDING"]]

Tick ==
    /\ view.at \in {"idle", "asked"} /\ now < MaxTime
    /\ now' = now + 1
    /\ UNCHANGED <<quotes, locked, view>>

CreateQuote(i) ==
    /\ MayMove /\ i \notin DOMAIN quotes
    /\ quotes' = quotes @@ (i :> [created |-> now, status |-> "PENDING"])
    /\ Wrote /\ UNCHANGED <<now, locked>>

\* Of the moves QuoteWorkflow has, those a screen can tell apart; here only
\* a quote that has a price is cancelled.
SetStatus(i, status) ==
    /\ MayMove /\ i \in DOMAIN quotes
    /\ <<quotes[i].status, status>> \in
           {<<"PENDING", "PROCESSING">>, <<"PROCESSING", "QUOTED">>,
            <<"QUOTED", "CANCELLED">>, <<"CANCELLED", "QUOTED">>}
    /\ quotes' = [quotes EXCEPT ![i].status = status]
    /\ Wrote /\ UNCHANGED <<now, locked>>

SetActive(user) ==
    /\ MayMove
    /\ locked' = IF user \in locked THEN locked \ {user} ELSE locked \cup {user}
    /\ Wrote /\ UNCHANGED <<now, quotes>>

----------------------------------------------------------------------------
(* getDashboardCharts: five queries built at once, drawn with the clock of *)
(* the answer.                                                             *)

AskDashboard(range) ==
    /\ view = Idle
    /\ view' = [at |-> "asked", range |-> range, since |-> now]
    /\ UNCHANGED <<now, quotes, locked>>

\* What is answered as long as nothing was written in between.
Charts(user) ==
    LET found == Found(Filter(view.range), user, "totals", Db, view.since)
        drawn == {i \in found : quotes[i].created >= TimelineCutoff(view.range, view.since)}
    IN  [timeline |-> SumOver(bucketTimeline([i \in drawn |-> quotes[i]], view.range, now)),
         saleStats |-> SumOver(GroupBy(found, "requester")),
         categoryDistribution |-> SumOver(GroupBy(found, "category"))]

AnswerDashboard ==
    /\ view.at \in {"asked", "torn"}
    /\ view' = Idle
    /\ UNCHANGED <<now, quotes, locked>>

----------------------------------------------------------------------------
(* The library: one query for the page, one for its cards.                 *)

AskLibrary ==
    /\ view = Idle
    /\ view' = [at |-> "page", moved |-> FALSE,
                ids |-> {i \in DOMAIN quotes : quotes[i].status = "QUOTED"}]
    /\ UNCHANGED <<now, quotes, locked>>

\* mutant: the second query trusts the first.
hydrateAll(ids) == ids

\* hydrateRequests asks for QUOTED once more.
hydrateRequests(ids) == {i \in ids : quotes[i].status = "QUOTED"}

AnswerLibrary ==
    /\ view.at = "page"
    /\ view' = [at |-> "shelf", moved |-> view.moved,
                total |-> Cardinality(view.ids), cards |-> hydrateRequests(view.ids)]
    /\ UNCHANGED <<now, quotes, locked>>

Close ==
    /\ view.at = "shelf"
    /\ view' = Idle
    /\ UNCHANGED <<now, quotes, locked>>

Next ==
    \/ Tick
    \/ \E i \in Ids : CreateQuote(i) \/ \E s \in Statuses : SetStatus(i, s)
    \/ \E user \in Lockable : SetActive(user)
    \/ \E range \in Ranges : AskDashboard(range)
    \/ AnswerDashboard
    \/ AskLibrary \/ AnswerLibrary \/ Close

Spec == Init /\ [][Next]_viewVars

----------------------------------------------------------------------------
(* What the screens promise together.                                      *)

\* The tabs of a list count what the list then shows, their sum is the total
\* of the statistics, and only an Admin gets a count of cancelled quotes.
TabsAddUp ==
    \A user \in Users, owner \in {NoUser} \cup Orders, includeLocked \in BOOLEAN :
        LET filter == [Filter("ALL") EXCEPT !.owner = owner, !.includeLocked = includeLocked]
            counts == findAll(filter, user).counts
        IN  /\ \A s \in Statuses :
                   counts.by[s] = Cardinality(findAll([filter EXCEPT !.status = s], user).rows)
            /\ counts.total = Cardinality(findAll(filter, user).rows)
            /\ counts.total = getStats(filter, user).total
            /\ user \notin Admins => counts.by["CANCELLED"] = 0

\* Every quote a range selects has its bar, and no other has, as long as the
\* server lives in the zone the bars are drawn for.
BarsAddUp ==
    ServerOffset = VN_OFFSET =>
        \A range \in Ranges \ {"ALL", "none", "LAST_WEEK"}, t \in Start..now :
            LET found == Within(t, resolveDateRange(range, now))
            IN  IF range = "TODAY" THEN found => BarOf(range, t) \in Bars(range, now)
                ELSE found <=> BarOf(range, t) \in Bars(range, now)

\* The tables of staff and customers give the totals of the list.
TablesAddUp ==
    /\ \A range \in {"TODAY", "LAST_WEEK", "ALL"} :
           SumOver(SaleTotals(range)) =
               Cardinality({i \in Found([Filter(range) EXCEPT !.includeLocked = TRUE],
                                        CHOOSE a \in Admins : TRUE, "totals", Db, now) :
                            RequesterOf(i) \notin locked})
    /\ SumOver(CustomerStats("ALL")) =
           Cardinality(Found([Filter("ALL") EXCEPT !.includeLocked = TRUE],
                             CHOOSE a \in Admins : TRUE, "totals", Db, now))
    /\ MonthComparison.current = Cardinality(DOMAIN CustomerStats("THIS_MONTH"))

\* The charts of one answer agree unless something was written while they
\* were read; the bars, unless midnight passed before they were drawn.
ChartsAgree ==
    view.at = "asked" =>
        \A user \in Users :
            LET charts == Charts(user)
                sameDay == DayOf(view.since, VN_OFFSET) = DayOf(now, VN_OFFSET)
            IN  /\ charts.saleStats = charts.categoryDistribution
                /\ charts.timeline <= charts.saleStats
                /\ (view.range \notin {"ALL", "none"} /\ sameDay /\ ServerOffset = VN_OFFSET) =>
                       charts.timeline = charts.saleStats

\* The library never shows a quote that is not QUOTED, whatever happened
\* between its two queries, and shows as many as it counts if nothing did.
ShelfTrue ==
    view.at = "shelf" =>
        /\ \A i \in view.cards : quotes[i].status = "QUOTED"
        /\ ~view.moved => Cardinality(view.cards) = view.total

\* The small calculations, over all small arguments: the median splits its
\* list, pages put together are the sorted list, a turnaround is never
\* negative and only shrinks when a quote was sent again, a card's prices
\* are between its bounds and a change has its sign.
Lists == UNION {[1..n -> {NullValue, 0, 1, 2}] : n \in 0..3}

CalculationsRight ==
    /\ \A list \in Lists :
        /\ list # <<>> =>
               /\ 2 * Cardinality({k \in DOMAIN list : 2 * list[k] <= median2(list)}) >= Len(list)
               /\ 2 * Cardinality({k \in DOMAIN list : 2 * list[k] >= median2(list)}) >= Len(list)
        /\ \A dir \in {"asc", "desc"}, size \in 1..2 :
               LET Page(p) == searchSortPaginate(list, dir, p, size)
                   all == Page(1) \o Page(2) \o Page(3)
               IN  /\ all = searchSortPaginate(list, dir, 1, 3)
                   /\ \A v \in {NullValue, 0, 1, 2} :
                          Cardinality({k \in DOMAIN all : all[k] = v}) =
                              Cardinality({k \in DOMAIN list : list[k] = v})
    /\ \A created, quoted \in 0..3, firstLog \in {NullValue} \cup 0..3, edited \in BOOLEAN,
          resubmits \in SUBSET (0..3) :
        LET with == computeQuoteTurnaroundMs(created, quoted, firstLog, edited, resubmits)
            without == computeQuoteTurnaroundMs(created, quoted, firstLog, edited, {})
        IN  with <= without /\ (with = NullValue <=> without = NullValue)
    /\ \A options \in SUBSET [price : {0, 2000}, live : {NullValue, 1999, 2001, 3000}] :
        LET card == buildLibraryCard(options)
        IN  \A o \in options :
                /\ o.price # 0 => card.priceMin <= o.price /\ o.price <= card.priceMax
                /\ card.liveMin <= card.liveMax
                /\ HasDelta(o) => livePriceDelta(o) * (o.live - o.price) >= 0

\* Screens computed from different queries give numbers that agree, except
\* when the quotes moved between the queries of one screen.
\* quote-filter.util.ts:23, quote-analytics.service.ts:84,116, library.service.ts:155.
NumbersAgree ==
    /\ view = Idle => TabsAddUp /\ BarsAddUp /\ TablesAddUp
    /\ ChartsAgree
    /\ ShelfTrue
    /\ (now = Start /\ quotes = <<>> /\ view = Idle) => CalculationsRight
=============================================================================
