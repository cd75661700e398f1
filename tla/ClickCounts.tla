---------------------------- MODULE ClickCounts ----------------------------
(***************************************************************************)
(* How clicks and views become the numbers of a creator's dashboard.       *)
(* The redirect service answers a click at once and logs it on a goroutine *)
(* in two statements, each with its own reading of the day and its error   *)
(* dropped (internal/redirect).  The dashboard asks for its carts with     *)
(* their weekly views and, at the same time, for the daily series of the   *)
(* account (internal/carts/service.go), and sums the series up itself      *)
(* (web/lib/insights.ts).  A week has Week days: 7 in the code.            *)
(***************************************************************************)
EXTENDS Integers, Sequences, FiniteSets, FiniteSetsExt

CONSTANTS
  MyCarts,   \* carts of one creator, each with one link
  Week,      \* days of a week
  LastDay,   \* bounds the days
  MaxVisits, \* bounds the views and clicks together
  Logs,      \* click goroutines at the same time
  NoBaseline \* the change against a week without views

ASSUME ClickAssumption ==
  /\ Week \in Nat \ {0} /\ {LastDay, MaxVisits} \subseteq Nat
  /\ IsFiniteSet(MyCarts) /\ IsFiniteSet(Logs) /\ NoBaseline \notin Int

VARIABLES
  today,      \* current_date of the database, and the clock of the API
  archived,   \* archived carts
  views,      \* cart_views_daily
  clicks,     \* click_daily
  events,     \* click_events by day
  log,        \* the click goroutines
  unlogged,   \* history: events that were not inserted
  unbumped,   \* history: totals that were not bumped
  straddled,  \* history: midnight fell between the two statements of a click
  redirects,  \* history: clicks that are not the owner's
  dash,       \* the dashboard: what it asked for and what it shows
  disturbed   \* history: what it reads changed, or was not read, while it loaded

logVars == <<clicks, events, log, unlogged, unbumped, straddled, redirects>>
clickVars == <<today, archived, views, logVars, dash, disturbed>>
-----------------------------------------------------------------------------
Days == 0 .. LastDay
NoDays == [d \in Days |-> 0]

\* The `length` days that end with `day`.
LastDays(length, day) == {d \in Days : day - length < d /\ d <= day}
Total(numbers, over) == MapThenSumSet(LAMBDA x : numbers[x], over)

NoDash == [pc |-> "away", rows |-> NoDays, daily |-> "none", series |-> << >>,
           list |-> "none", listed |-> {}, weekly |-> [c \in MyCarts |-> 0]]

ClicksInit ==
  /\ today = 0 /\ archived = {}
  /\ views = [c \in MyCarts |-> NoDays] /\ clicks = NoDays /\ events = NoDays
  /\ log = [g \in Logs |-> "idle"]
  /\ unlogged = 0 /\ unbumped = 0 /\ straddled = FALSE /\ redirects = 0
  /\ dash = NoDash /\ disturbed = FALSE

Visits == redirects + Total([c \in MyCarts |-> Total(views[c], Days)], MyCarts)
Loading == dash.pc = "loading"
-----------------------------------------------------------------------------
\* Mutant: the owner's clicks are counted as well.
CountsOwnerToo(mine) == TRUE

\* The owner's own clicks are not counted.
Counts(mine) == ~mine

\* GET /go/{slug}: the visitor is redirected, and the goroutine starts.
Click(g, mine) ==
  /\ Visits < MaxVisits /\ log[g] = "idle"
  /\ log' = IF Counts(mine) THEN [log EXCEPT ![g] = "insert"] ELSE log
  /\ redirects' = IF mine THEN redirects ELSE redirects + 1
  /\ UNCHANGED <<today, archived, views, clicks, events, unlogged, unbumped, straddled, dash, disturbed>>

InsertClickEvent(g, ok) ==
  /\ log[g] = "insert"
  /\ log' = [log EXCEPT ![g] = "bump"]
  /\ events' = IF ok THEN [events EXCEPT ![today] = @ + 1] ELSE events
  /\ unlogged' = IF ok THEN unlogged ELSE unlogged + 1
  /\ UNCHANGED <<today, archived, views, clicks, unbumped, straddled, redirects, dash, disturbed>>

BumpClickDaily(g, ok) ==
  /\ log[g] = "bump"
  /\ log' = [log EXCEPT ![g] = "idle"]
  /\ clicks' = IF ok THEN [clicks EXCEPT ![today] = @ + 1] ELSE clicks
  /\ unbumped' = IF ok THEN unbumped ELSE unbumped + 1
  /\ UNCHANGED <<today, archived, views, events, unlogged, straddled, redirects, dash, disturbed>>

\* The redirect process dies with its goroutines.
Crash ==
  LET at(pc) == Cardinality({g \in Logs : log[g] = pc})
  IN  /\ \E g \in Logs : log[g] # "idle"
      /\ log' = [g \in Logs |-> "idle"]
      /\ unlogged' = unlogged + at("insert")
      /\ unbumped' = unbumped + at("insert") + at("bump")
      /\ UNCHANGED <<today, archived, views, clicks, events, straddled, redirects, dash, disturbed>>
-----------------------------------------------------------------------------
\* BumpCartViewsDaily: a visit of a public cart page (module CartAccess).
View(c) ==
  /\ Visits < MaxVisits /\ c \notin archived
  /\ views' = [views EXCEPT ![c][today] = @ + 1]
  /\ disturbed' = (disturbed \/ Loading)
  /\ UNCHANGED <<today, archived, logVars, dash>>

ArchiveCart(c) ==
  /\ c \notin archived /\ archived' = archived \cup {c}
  /\ disturbed' = (disturbed \/ Loading)
  /\ UNCHANGED <<today, views, logVars, dash>>

Midnight ==
  /\ today < LastDay /\ today' = today + 1
  /\ straddled' = (straddled \/ \E g \in Logs : log[g] = "bump")
  /\ disturbed' = (disturbed \/ Loading)
  /\ UNCHANGED <<archived, views, clicks, events, log, unlogged, unbumped, redirects, dash>>
-----------------------------------------------------------------------------
\* The page is opened: getCurrentUser, listMyCarts and getInsights side by side.
OpenDashboard ==
  /\ dash.pc # "loading"
  /\ dash' = [NoDash EXCEPT !.pc = "loading", !.daily = "asked", !.list = "asked"]
  /\ disturbed' = FALSE
  /\ UNCHANGED <<today, archived, views, logVars>>

\* AccountDailyViews: the rows of the last two weeks of the database's day, those of
\* archived carts included.  The clicks are read and summed the same way.
AccountDailyViews ==
  /\ dash.daily = "asked"
  /\ dash' = [dash EXCEPT !.daily = "rows", !.rows = [d \in Days |->
       IF d \in LastDays(2 * Week, today) THEN Total([c \in MyCarts |-> views[c][d]], MyCarts) ELSE 0]]
  /\ UNCHANGED <<today, archived, views, logVars, disturbed>>

\* One day after the other up to the API's own today.
Skeleton == [i \in 1 .. 2 * Week |-> today - 2 * Week + i]

AccountDailyStats ==
  /\ dash.daily = "rows"
  /\ dash' = [dash EXCEPT !.daily = "done", !.series = [i \in 1 .. 2 * Week |->
       IF Skeleton[i] \in Days THEN dash.rows[Skeleton[i]] ELSE 0]]
  /\ UNCHANGED <<today, archived, views, logVars, disturbed>>

\* The insights never break the page: an error is an empty series.
InsightsFail ==
  /\ dash.daily \in {"asked", "rows"}
  /\ dash' = [dash EXCEPT !.daily = "done", !.series = << >>]
  /\ disturbed' = TRUE
  /\ UNCHANGED <<today, archived, views, logVars>>

\* listCarts with CartStats7d of every cart, whose errors read as 0.  (Carts that are
\* not listed are not sent: their entries in `weekly` are a history.)
ListCarts(ok) ==
  /\ dash.list = "asked"
  /\ dash' = [dash EXCEPT !.list = "done", !.listed = MyCarts \ archived,
       !.weekly = [c \in MyCarts |-> IF ok THEN Total(views[c], LastDays(Week, today)) ELSE 0]]
  /\ disturbed' = (disturbed \/ ~ok)
  /\ UNCHANGED <<today, archived, views, logVars>>

\* Any failure of the user or the carts leads to the login page.
RedirectToLogin ==
  /\ dash.list = "asked"
  /\ dash' = [NoDash EXCEPT !.pc = "login"]
  /\ UNCHANGED <<today, archived, views, logVars, disturbed>>

DashboardPage ==
  /\ Loading /\ dash.daily = "done" /\ dash.list = "done"
  /\ dash' = [dash EXCEPT !.pc = IF dash.listed = {} THEN "onboarding" ELSE "insights"]
  /\ UNCHANGED <<today, archived, views, logVars, disturbed>>
-----------------------------------------------------------------------------
\* Mutant: the last week of the series is one day too long.
SliceOneMore(series, from, to) ==
  {i \in DOMAIN series : Len(series) - from <= i /\ i <= Len(series) - to}

\* Positions of series.slice(-from, -to)
Slice(series, from, to) ==
  {i \in DOMAIN series : Len(series) - from < i /\ i <= Len(series) - to}

\* summarizeDaily
ViewsThisWeek == Total(dash.series, Slice(dash.series, Week, 0))
ViewsPrevWeek == Total(dash.series, Slice(dash.series, 2 * Week, Week))

\* deltaPct: Math.round(((current - prev) / prev) * 100), halves upwards
DeltaPct(current, prev) ==
  IF prev = 0 THEN NoBaseline ELSE (200 * (current - prev) + prev) \div (2 * prev)

\* DeltaChip of insight-summary.tsx
DeltaChip ==
  LET pct == DeltaPct(ViewsThisWeek, ViewsPrevWeek)
  IN  IF pct = NoBaseline THEN "New" ELSE IF pct >= 0 THEN "up" ELSE "down"

\* The carts that may be the "Top cart"; one without views is not shown.
TopCarts ==
  {c \in dash.listed : dash.weekly[c] > 0 /\ \A d \in dash.listed : dash.weekly[d] <= dash.weekly[c]}
-----------------------------------------------------------------------------
ClicksNext ==
  \/ \E g \in Logs : \E flag \in BOOLEAN :
       Click(g, flag) \/ InsertClickEvent(g, flag) \/ BumpClickDaily(g, flag)
  \/ Crash \/ Midnight
  \/ \E c \in MyCarts : View(c) \/ ArchiveCart(c)
  \/ OpenDashboard \/ AccountDailyViews \/ AccountDailyStats \/ InsightsFail
  \/ \E ok \in BOOLEAN : ListCarts(ok)
  \/ RedirectToLogin \/ DashboardPage

ClicksSpec == ClicksInit /\ [][ClicksNext]_clickVars
-----------------------------------------------------------------------------
ClicksTypeOK ==
  /\ today \in Days /\ archived \subseteq MyCarts
  /\ views \in [MyCarts -> [Days -> Nat]] /\ {clicks, events} \subseteq [Days -> Nat]
  /\ log \in [Logs -> {"idle", "insert", "bump"}]
  /\ {unlogged, unbumped, redirects} \subseteq Nat /\ {straddled, disturbed} \subseteq BOOLEAN
  /\ dash.pc \in {"away", "loading", "login", "onboarding", "insights"}
  /\ dash.daily \in {"none", "asked", "rows", "done"} /\ dash.list \in {"none", "asked", "done"}
  /\ dash.series = << >> \/ dash.series \in [1 .. 2 * Week -> Nat]

\* Every click of somebody else is one event and one in the daily total, on the same
\* day, apart from statements that failed or died with the process, clicks still being
\* logged, and midnights between the two statements; and the owner's clicks are in
\* neither.
EventsMatchTotals ==
  LET at(pcs) == Cardinality({g \in Logs : log[g] \in pcs})
  IN  /\ Total(events, Days) + unlogged + at({"insert"}) = redirects
      /\ Total(clicks, Days) + unbumped + at({"insert", "bump"}) = redirects
      /\ unlogged + unbumped + at({"insert", "bump"}) = 0 /\ ~straddled => events = clicks

\* "Views this week" are the views of the carts of the account, archived ones too, in
\* the last Week days, and with the week before they are all the rows that were read:
\* no day is lost or counted twice; so there is a "Top cart" only under a headline with
\* views, and the chip shows a fall when the views fell by more than half a percent.  The
\* numbers come from two requests, two queries and two programs; a view, a midnight or a
\* failure between them is excused.
HeadlineIsTheCarts ==
  dash.pc = "insights" /\ ~disturbed =>
    /\ ViewsThisWeek = Total(dash.weekly, MyCarts)
    /\ ViewsThisWeek + ViewsPrevWeek = Total(dash.rows, Days)
    /\ TopCarts # {} => ViewsThisWeek > 0
    /\ ViewsPrevWeek > 0 => (DeltaChip = "down" <=> 200 * (ViewsPrevWeek - ViewsThisWeek) > ViewsPrevWeek)
=============================================================================
