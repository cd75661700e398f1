------------------------------ MODULE Discover ------------------------------
(***************************************************************************)
(* One viewer, one creator: the discover page with its as-you-type search, *)
(* the creator's profile page and the optimistic follow button on both     *)
(* (web/components/creator-search.tsx, follow-button.tsx,                  *)
(* web/lib/follow-controller.ts), and behind them                          *)
(* internal/creators/service.go.                                           *)
(*                                                                         *)
(* Every read of a creator is two statements on the server, the follower   *)
(* count and whether the viewer follows; every tap is three, the handle,   *)
(* the row and the count.  Requests run side by side.                      *)
(***************************************************************************)
EXTENDS Integers, FiniteSets

CONSTANTS
  Queries, \* what the viewer may type
  Finds,   \* the queries that find the creator
  MaxId,   \* bounds the searches of one page visit
  Taps,    \* follow and unfollow requests
  MaxInFlight, \* bounds the requests in flight at the same time
  MaxTroubles, \* bounds the failures and the changes from outside
  None     \* no query, no creator card, no button

ASSUME DiscoverAssumption ==
  /\ Finds \subseteq Queries
  /\ None \notin Queries \cup [following : BOOLEAN, count : 0 .. 2, torn : BOOLEAN]
  /\ {MaxId, MaxInFlight, MaxTroubles} \subseteq Nat

VARIABLES
  follows,   \* the viewer's row of the follows table is there
  banned,    \* users.banned_at of the creator is set
  signedIn,  \* the viewer has a session
  page,      \* "discover" or "profile", "opening" either, or "away" from both
  listed,    \* the creator as the server rendered it into the page, or None
  query,     \* the trimmed text of the search box, or None
  latest,    \* requestId of the search box
  view,      \* state of the search box: kind, and the results' query and whether the
             \* creator is among them
  read,      \* reads of the creator: 0 renders the page, n is search n
  button,    \* state of the follow button: following and count; or None
  tap,       \* requests of follow buttons: `before` is what the button said, or
             \* None once that button is gone
  misled,    \* history: the row changed behind the button's back
  troubles   \* how many failures and changes from outside there were

serverVars == <<follows, banned, signedIn>>
searchVars == <<query, latest, view>>
discoverVars == <<serverVars, page, listed, searchVars, read, button, tap, misled, troubles>>
-----------------------------------------------------------------------------
\* What a page knows of the creator.  torn is a history: the viewer's row changed
\* between the two statements the card was read with.
Card(following, count, torn) == [following |-> following, count |-> count, torn |-> torn]
Cards == [following : BOOLEAN, count : 0 .. 2, torn : BOOLEAN]

NoRead == [pc |-> "idle", query |-> None, card |-> None]
NoTap == [pc |-> "idle", want |-> FALSE, before |-> None, answer |-> None]
NoResults == [kind |-> "initial", query |-> None, found |-> FALSE]

DiscoverInit ==
  /\ follows \in BOOLEAN
  /\ banned = FALSE /\ signedIn = TRUE
  /\ page = "away" /\ listed = None
  /\ query = None /\ latest = 0 /\ view = NoResults
  /\ read = [i \in 0 .. MaxId |-> NoRead]
  /\ button = None
  /\ tap = [t \in Taps |-> NoTap]
  /\ misled = FALSE /\ troubles = 0

Trouble == troubles < MaxTroubles /\ troubles' = troubles + 1

InFlight(reads) ==
  Cardinality({i \in 0 .. MaxId : reads[i].pc # "idle"}) + Cardinality({t \in Taps : tap[t].pc # "idle"})

\* The creator's other followers only add to every count.
CountFollowers == IF follows THEN 1 ELSE 0

\* The page shows the creator: Results of creator-search.tsx, and the profile header.
Shown ==
  CASE view.kind = "results" -> view.found
    [] view.kind = "initial" -> listed # None
    [] OTHER -> FALSE

\* A request whose button is gone still runs on the server, and may still send the
\* viewer to the login page; nobody waits for the rest of its answer.
Unheard(request) ==
  IF request.pc \in {"wrote", "answered"} THEN NoTap ELSE [request EXCEPT !.before = None]

\* A button that appears takes its state from the card it is given, and the one it
\* replaces is gone.
Mount(card) ==
  /\ button' = card
  /\ tap' = [t \in Taps |-> Unheard(tap[t])]
  /\ misled' = (card # None /\ signedIn /\ card.following # follows)
-----------------------------------------------------------------------------
\* The viewer opens the discover page or the profile, or goes to another page; what
\* this page was waiting for finds nobody.
Visit(p) ==
  /\ page' = p
  /\ listed' = None
  /\ query' = None /\ latest' = 0 /\ view' = NoResults
  /\ read' = [i \in 0 .. MaxId |->
                IF i = 0 /\ p # "away" THEN [NoRead EXCEPT !.pc = "asked"] ELSE NoRead]
  /\ InFlight(read') <= MaxInFlight
  /\ Mount(None)
  /\ UNCHANGED <<serverVars, troubles>>

\* The discover page is rendered with the popular creators, or with none of them
\* when the call failed.
DiscoverPage ==
  /\ page = "opening discover" /\ read[0].pc \in {"answered", "failed"}
  /\ page' = "discover"
  /\ listed' = read[0].card
  /\ read' = [read EXCEPT ![0] = NoRead]
  /\ UNCHANGED <<serverVars, searchVars, troubles>>
  /\ Mount(read[0].card)

\* The profile page is rendered; a creator who is not found gives the 404 page, a
\* failed call the error page.
CreatorProfilePage ==
  /\ page = "opening profile" /\ read[0].pc \in {"answered", "failed"}
  /\ page' = IF read[0].card = None THEN "away" ELSE "profile"
  /\ listed' = read[0].card
  /\ read' = [read EXCEPT ![0] = NoRead]
  /\ UNCHANGED <<serverVars, searchVars, troubles>>
  /\ Mount(read[0].card)

\* The cleanup of the effect clears a timer that has not fired yet.
Cancelled == [i \in 0 .. MaxId |-> IF read[i].pc = "timer" THEN NoRead ELSE read[i]]

\* The effect of the search box for a query: "Searching..." replaces the grid, and
\* a search starts after a pause in the typing.
Type(q) ==
  /\ page = "discover" /\ q # query /\ latest < MaxId
  /\ query' = q
  /\ latest' = latest + 1
  /\ view' = [NoResults EXCEPT !.kind = "loading"]
  /\ read' = [Cancelled EXCEPT ![latest + 1] = [NoRead EXCEPT !.pc = "timer", !.query = q]]
  /\ InFlight(read') <= MaxInFlight
  /\ UNCHANGED <<serverVars, page, listed, troubles>>
  /\ Mount(None)

\* The effect for an empty box: back to the page's own list.  A grid that was there
\* stays, and with it the button of a creator who is in both lists.
Clear ==
  /\ page = "discover" /\ query # None
  /\ query' = None
  /\ latest' = latest + 1
  /\ view' = NoResults
  /\ read' = Cancelled
  /\ UNCHANGED <<serverVars, page, listed, troubles>>
  /\ IF button # None /\ listed # None THEN UNCHANGED <<button, tap, misled>> ELSE Mount(listed)

TimerFires(i) ==
  /\ read[i].pc = "timer"
  /\ read' = [read EXCEPT ![i].pc = "asked"]
  /\ UNCHANGED <<serverVars, page, listed, searchVars, button, tap, misled, troubles>>

\* Mutant: any answer commits.
CommitsAlways(i) == TRUE

\* Only the most recent search may change the results.
Commits(i) == i = latest

\* Mutant: the catch is empty.
ShowSwallowing(i) ==
  IF read[i].pc = "failed" THEN view ELSE [kind |-> "results", query |-> read[i].query, found |-> read[i].card # None]

Show(i) ==
  IF read[i].pc = "failed"
    THEN [NoResults EXCEPT !.kind = "error"]
    ELSE [kind |-> "results", query |-> read[i].query, found |-> read[i].card # None]

SearchAnswered(i) ==
  /\ i > 0 /\ read[i].pc \in {"answered", "failed"}
  /\ read' = [read EXCEPT ![i] = NoRead]
  /\ UNCHANGED <<serverVars, page, listed, query, latest, troubles>>
  /\ IF Commits(i) THEN view' = Show(i) /\ Mount(read[i].card) ELSE UNCHANGED <<view, button, tap, misled>>
-----------------------------------------------------------------------------
\* The server reads the creator: the row with its follower count ...
ReadCount(i) ==
  /\ read[i].pc = "asked"
  /\ read' = [read EXCEPT ![i] =
       IF banned \/ read[i].query \notin Finds \cup {None}
         THEN [@ EXCEPT !.pc = "answered"]
         ELSE [@ EXCEPT !.pc = "counted", !.card = Card(FALSE, CountFollowers, FALSE)]]
  /\ UNCHANGED <<serverVars, page, listed, searchVars, button, tap, misled, troubles>>

\* ... and then IsFollowing, whose errors read as "not following".
ReadFollowing(i, ok) ==
  /\ IF ok THEN UNCHANGED troubles ELSE Trouble
  /\ read[i].pc = "counted"
  /\ read' = [read EXCEPT ![i].pc = "answered", ![i].card.following = ok /\ signedIn /\ follows]
  /\ UNCHANGED <<serverVars, page, listed, searchVars, button, tap, misled>>

ReadFails(i) ==
  /\ Trouble
  /\ read[i].pc \in {"asked", "counted"}
  /\ read' = [read EXCEPT ![i].pc = "failed", ![i].card = None]
  /\ UNCHANGED <<serverVars, page, listed, searchVars, button, tap, misled>>
-----------------------------------------------------------------------------
Sent(t) == tap[t].pc # "idle"

\* The button of the request is still on the page.
Heard(t) == tap[t].before # None

\* pending of the button: it waits for its own request.
Pending == \E t \in Taps : Heard(t)

\* Mutant: the count is not clamped at 0.
OptimisticUnclamped(s) ==
  [s EXCEPT !.following = ~@, !.count = IF s.following THEN @ - 1 ELSE @ + 1]

\* Math.max(0, followerCount +- 1)
Optimistic(s) ==
  LET count == IF s.following THEN s.count - 1 ELSE s.count + 1
  IN  [s EXCEPT !.following = ~@, !.count = IF count < 0 THEN 0 ELSE count]

\* onClick and the first half of toggleFollow.
Tap(t) ==
  /\ button # None /\ ~Pending /\ ~Sent(t) /\ InFlight(read) < MaxInFlight
  /\ button' = Optimistic(button)
  /\ tap' = [tap EXCEPT ![t] = [pc |-> "sent", want |-> ~button.following,
                                before |-> button, answer |-> None]]
  /\ UNCHANGED <<serverVars, page, listed, searchVars, read, misled, troubles>>

\* resolveCreatorID finds the handle.
Resolves == ~banned

Resolve(t) ==
  /\ tap[t].pc = "sent"
  /\ tap' = [tap EXCEPT ![t].pc = IF ~signedIn THEN "unauthorized"
                                  ELSE IF Resolves THEN "resolved" ELSE "failed"]
  /\ UNCHANGED <<serverVars, page, listed, searchVars, read, button, misled, troubles>>

\* The viewer's row is now `now`: reads and answers between their two statements are
\* torn.
Torn(now) ==
  /\ follows' = now
  /\ read' = [i \in 0 .. MaxId |-> IF read[i].pc = "counted" /\ now # follows
                THEN [read[i] EXCEPT !.card.torn = TRUE] ELSE read[i]]

TornTaps(now) ==
  [t \in Taps |-> IF tap[t].pc = "wrote" /\ now # follows
     THEN [tap[t] EXCEPT !.answer.torn = TRUE] ELSE tap[t]]

\* Mutant: the followers are counted before the row is written.
WriteAfterCounting(t) ==
  /\ tap[t].pc = "resolved"
  /\ Torn(tap[t].want)
  /\ tap' = [TornTaps(tap[t].want) EXCEPT ![t].pc = "answered",
               ![t].answer = Card(tap[t].want, CountFollowers, FALSE)]
  /\ misled' = (misled /\ ~Heard(t))
  /\ UNCHANGED <<banned, signedIn, page, listed, searchVars, button, troubles>>

\* FollowCreator (ON CONFLICT DO NOTHING) or UnfollowCreator.
Write(t) ==
  /\ tap[t].pc = "resolved"
  /\ Torn(tap[t].want)
  /\ tap' = [TornTaps(tap[t].want) EXCEPT ![t] =
       IF Heard(t) THEN [@ EXCEPT !.pc = "wrote", !.answer = Card(tap[t].want, 0, FALSE)]
                   ELSE NoTap]
  /\ misled' = IF Heard(t) THEN FALSE
               ELSE misled \/ (button # None /\ tap[t].want # follows)
  /\ UNCHANGED <<banned, signedIn, page, listed, searchVars, button, troubles>>

Count(t) ==
  /\ tap[t].pc = "wrote"
  /\ tap' = [tap EXCEPT ![t].pc = "answered", ![t].answer.count = CountFollowers]
  /\ UNCHANGED <<serverVars, page, listed, searchVars, read, button, misled, troubles>>

\* An error of a statement, or of the call before or after it.
TapFails(t) ==
  /\ Trouble
  /\ tap[t].pc \in {"sent", "resolved", "wrote"}
  /\ tap' = [tap EXCEPT ![t].pc = "failed"]
  /\ misled' = (misled \/ (Heard(t) /\ tap[t].pc = "wrote"))
  /\ UNCHANGED <<serverVars, page, listed, searchVars, read, button>>

\* Second half of toggleFollow: the server's word replaces the guess.
Reconcile(t) ==
  /\ tap[t].pc = "answered"
  /\ button' = tap[t].answer
  /\ tap' = [tap EXCEPT ![t] = NoTap]
  /\ UNCHANGED <<serverVars, page, listed, searchVars, read, misled, troubles>>

\* Mutant: the guess stays after an error.
BeforeKept(t) == button

\* cb.setState(current)
Before(t) == IF Heard(t) THEN tap[t].before ELSE button

\* Its catch: the button reverts, with a toast.
Revert(t) ==
  /\ tap[t].pc = "failed"
  /\ button' = Before(t)
  /\ tap' = [tap EXCEPT ![t] = NoTap]
  /\ UNCHANGED <<serverVars, page, listed, searchVars, read, misled, troubles>>

\* After a 401 it also goes to the login page, from wherever the viewer is by then.
Unauthorized(t) ==
  /\ tap[t].pc = "unauthorized"
  /\ page' = "away" /\ listed' = None
  /\ query' = None /\ latest' = 0 /\ view' = NoResults
  /\ read' = [i \in 0 .. MaxId |-> NoRead]
  /\ button' = None /\ misled' = FALSE
  /\ tap' = [u \in Taps |-> IF u = t THEN NoTap ELSE Unheard(tap[u])]
  /\ UNCHANGED <<serverVars, troubles>>
-----------------------------------------------------------------------------
\* The same viewer on another device.
OtherDevice ==
  /\ Trouble
  /\ signedIn /\ ~banned
  /\ Torn(~follows) /\ tap' = TornTaps(~follows)
  /\ misled' = (misled \/ button # None)
  /\ UNCHANGED <<banned, signedIn, page, listed, searchVars, button>>

\* An operator sets or clears banned_at in the database.
OperatorBans ==
  /\ Trouble
  /\ banned' = ~banned
  /\ UNCHANGED <<follows, signedIn, page, listed, searchVars, read, button, tap, misled>>

SessionEnds ==
  /\ Trouble
  /\ signedIn /\ signedIn' = FALSE
  /\ UNCHANGED <<follows, banned, page, listed, searchVars, read, button, tap, misled>>
-----------------------------------------------------------------------------
DiscoverNext ==
  \/ \E p \in {"opening discover", "opening profile", "away"} : Visit(p)
  \/ DiscoverPage \/ CreatorProfilePage
  \/ \E q \in Queries : Type(q)
  \/ Clear
  \/ \E i \in 0 .. MaxId :
       \/ TimerFires(i) \/ SearchAnswered(i)
       \/ ReadCount(i) \/ ReadFails(i)
       \/ \E ok \in BOOLEAN : ReadFollowing(i, ok)
  \/ \E t \in Taps :
       \/ Tap(t) \/ Reconcile(t) \/ Revert(t) \/ Unauthorized(t)
       \/ Resolve(t) \/ Write(t) \/ Count(t) \/ TapFails(t)
  \/ OtherDevice \/ OperatorBans \/ SessionEnds

DiscoverSpec == DiscoverInit /\ [][DiscoverNext]_discoverVars

\* A search that started is answered, one way or the other.
SearchFairness ==
  \A i \in 1 .. MaxId :
    /\ WF_discoverVars(TimerFires(i))
    /\ WF_discoverVars(ReadCount(i))
    /\ WF_discoverVars(\E ok \in BOOLEAN : ReadFollowing(i, ok))
    /\ WF_discoverVars(SearchAnswered(i))
-----------------------------------------------------------------------------
DiscoverTypeOK ==
  /\ {follows, banned, signedIn, misled} \subseteq BOOLEAN
  /\ troubles \in 0 .. MaxTroubles
  /\ page \in {"away", "opening discover", "opening profile", "discover", "profile"}
  /\ view.found \in BOOLEAN /\ {listed, button} \subseteq Cards \cup {None}
  /\ {query, view.query} \subseteq Queries \cup {None}
  /\ latest \in 0 .. MaxId + 1
  /\ view.kind \in {"initial", "loading", "results", "error"}
  /\ read \in [0 .. MaxId ->
       [pc : {"idle", "timer", "asked", "counted", "answered", "failed"},
        query : Queries \cup {None}, card : Cards \cup {None}]]
  /\ tap \in [Taps ->
       [pc : {"idle", "sent", "resolved", "wrote", "answered", "failed", "unauthorized"},
        want : BOOLEAN, before : Cards \cup {None},
        answer : Cards \cup {None}]]
  /\ button # None <=> Shown

\* The results on the page are those of what the search box says, whatever order the
\* answers came in, and a search that was given up never comes back.
ResultsMatchQuery ==
  /\ view.kind = "results" => view.query = query
  /\ query = None <=> view.kind = "initial"

\* "Searching..." does not stay: an answer, an error, an emptied box or another page
\* takes it away.
SearchSettles == view.kind = "loading" ~> view.kind # "loading"

\* A follow button at rest says what the follows table says.  It may be misled: by an
\* answer that was lost, by another device or a request of a button that is gone, or
\* by the card it appeared with, which the page may have read long ago.  One tap that
\* is answered puts it right again.
HonestButton ==
  signedIn /\ button # None /\ ~misled /\ ~(\E t \in Taps : Heard(t))
    => button.following = follows

\* No card and no button counts "Following" without counting the viewer, unless the
\* viewer's row changed between the two statements it was read with.
CardsAddUp ==
  \A card \in {listed, button} \ {None} :
    card.following /\ ~card.torn => card.count > 0
=============================================================================
