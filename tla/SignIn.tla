------------------------------- MODULE SignIn -------------------------------
(***************************************************************************)
(* Signing in with Google from several tabs of one browser:                *)
(* internal/auth/google.go with the cookies of session.go, started by      *)
(* web/app/login/page.tsx or, with a share to come back to, by             *)
(* web/app/add/page.tsx.  The tabs share three cookies: the session,       *)
(* oauth_state and oauth_next.  A callback is checked against the cookies  *)
(* that came with its request, and its answer changes the cookies the      *)
(* browser has by then.                                                    *)
(***************************************************************************)
EXTENDS Naturals, FiniteSets

CONSTANTS
  Windows,    \* tabs of the browser
  Members,    \* Google accounts the person has
  Shares,     \* share texts, the `next` of /add
  Nobody,     \* no session
  NoNext,     \* no `next`: the dashboard
  MaxStarts,  \* bounds the sign-ins started
  MaxMishaps  \* bounds failing calls, lost answers and expired cookies

ASSUME SignInAssumption ==
  /\ IsFiniteSet(Windows)
  /\ NoNext \notin Shares /\ Nobody \notin Members /\ {MaxStarts, MaxMishaps} \subseteq Nat

VARIABLES
  sessionOf,  \* the session cookie
  temp,      \* oauth_state, 0 when there is none, and oauth_next
  visit,     \* what each tab is doing
  handles,   \* users rows: how the handle of an account was made
  starts,    \* how many sign-ins were started; each has its number as state
  asked,     \* history: how often a start asked for each share
  landed,    \* history: how often a sign-in came back to each share
  crossed,   \* history: starts while a callback was being answered
  bumps      \* how many mishaps there were

signInVars == <<sessionOf, temp, visit, handles, starts, asked, landed, crossed, bumps>>
-----------------------------------------------------------------------------
Nexts == Shares \cup {NoNext}
AtLogin == [pc |-> "login", state |-> 0, asks |-> NoNext, seen |-> NoNext, who |-> Nobody]

SignInInit ==
  /\ sessionOf = Nobody
  /\ temp = [state |-> 0, next |-> NoNext]
  /\ visit = [w \in Windows |-> AtLogin]
  /\ handles = [a \in Members |-> "no row"]
  /\ starts = 0
  /\ asked = [s \in Shares |-> 0] /\ landed = [s \in Shares |-> 0]
  /\ crossed = 0 /\ bumps = 0

\* The API works on a callback of the tab.
Underway(w) == visit[w].pc \in {"callback", "upserted"}
Bump == bumps < MaxMishaps /\ bumps' = bumps + 1
-----------------------------------------------------------------------------
\* HandleGoogleStart: the tab goes to Google with a fresh state; oauth_next is only
\* written when there is one.
HandleGoogleStart(w, next) ==
  /\ starts < MaxStarts
  /\ starts' = starts + 1
  /\ temp' = [state |-> starts', next |-> IF next = NoNext THEN temp.next ELSE next]
  /\ visit' = [visit EXCEPT ![w] = [pc |-> "google", state |-> starts', asks |-> next,
                                     seen |-> NoNext, who |-> Nobody]]
  /\ asked' = IF next = NoNext THEN asked ELSE [asked EXCEPT ![next] = @ + 1]
  /\ crossed' = crossed + IF \E v \in Windows : Underway(v) THEN 1 ELSE 0

\* handleGoogle, the button of the login page
HandleGoogle(w) ==
  /\ visit[w].pc = "login"
  /\ HandleGoogleStart(w, NoNext)
  /\ UNCHANGED <<sessionOf, handles, landed, bumps>>

\* AddPage: a share is opened in the tab without a session, or the API cannot tell.
AddPage(w, share) ==
  /\ ~Underway(w)
  /\ \/ sessionOf = Nobody /\ UNCHANGED bumps
     \/ Bump
  /\ HandleGoogleStart(w, share)
  /\ UNCHANGED <<sessionOf, handles, landed>>

\* The person goes back, or opens the login page again.
OpenLogin(w) ==
  /\ ~Underway(w) /\ visit[w] # AtLogin
  /\ visit' = [visit EXCEPT ![w] = AtLogin]
  /\ UNCHANGED <<sessionOf, temp, handles, starts, asked, landed, crossed, bumps>>
-----------------------------------------------------------------------------
\* HandleGoogleCallback, the request: the state of the URL and that of the cookie.
CallbackArrives(w, a) ==
  /\ visit[w].pc = "google"
  /\ IF visit[w].state = temp.state
       THEN visit' = [visit EXCEPT ![w].pc = "callback", ![w].seen = temp.next, ![w].who = a]
       ELSE visit' = [visit EXCEPT ![w].pc = "refused"]
  /\ UNCHANGED <<sessionOf, temp, handles, starts, asked, landed, crossed, bumps>>

\* NewUserUpsertFn: a new account gets the handle of its address, or one with a suffix
\* after any error of the first try; the row of a known account keeps its handle.
Handles(a) == IF handles[a] = "no row" THEN {"plain", "suffixed"} ELSE {handles[a]}

UpsertGoogleUser(w) ==
  /\ visit[w].pc = "callback"
  /\ visit' = [visit EXCEPT ![w].pc = "upserted"]
  /\ \E h \in Handles(visit[w].who) : handles' = [handles EXCEPT ![visit[w].who] = h]
  /\ UNCHANGED <<sessionOf, temp, starts, asked, landed, crossed, bumps>>

\* Exchange, userinfo or upsert fail; ClearTemp is in the answer already.
CallbackFails(w) ==
  /\ visit[w].pc = "callback" /\ Bump
  /\ temp' = [temp EXCEPT !.state = 0]
  /\ visit' = [visit EXCEPT ![w].pc = "refused"]
  /\ UNCHANGED <<sessionOf, handles, starts, asked, landed, crossed>>

\* Mutant: oauth_next stays behind.
TempAfterSignInKept == [temp EXCEPT !.state = 0]

TempAfterSignIn == [state |-> 0, next |-> NoNext]

\* The answer: session, cleared cookies, and the way to `next` or the dashboard.
CallbackAnswered(w) ==
  /\ visit[w].pc = "upserted"
  /\ sessionOf' = visit[w].who
  /\ temp' = TempAfterSignIn
  /\ visit' = [visit EXCEPT ![w].pc = "in"]
  /\ landed' = IF visit[w].seen = NoNext THEN landed ELSE [landed EXCEPT ![visit[w].seen] = @ + 1]
  /\ UNCHANGED <<handles, starts, asked, crossed, bumps>>

\* No answer reaches the browser.
CallbackLost(w) ==
  /\ Underway(w) /\ Bump
  /\ visit' = [visit EXCEPT ![w].pc = "refused"]
  /\ UNCHANGED <<sessionOf, temp, handles, starts, asked, landed, crossed>>

\* HandleLogout
HandleLogout ==
  /\ sessionOf # Nobody
  /\ sessionOf' = Nobody
  /\ UNCHANGED <<temp, visit, handles, starts, asked, landed, crossed, bumps>>

\* Ten minutes after it was set a temporary cookie is gone.  oauth_next is never
\* younger than oauth_state.
TempExpires ==
  /\ temp.state # 0 \/ temp.next # NoNext
  /\ Bump
  /\ temp' \in {[temp EXCEPT !.next = NoNext], [state |-> 0, next |-> NoNext]}
  /\ UNCHANGED <<sessionOf, visit, handles, starts, asked, landed, crossed>>
-----------------------------------------------------------------------------
SignInNext ==
  \/ \E w \in Windows :
       \/ HandleGoogle(w) \/ OpenLogin(w)
       \/ \E s \in Shares : AddPage(w, s)
       \/ \E a \in Members : CallbackArrives(w, a)
       \/ UpsertGoogleUser(w) \/ CallbackFails(w) \/ CallbackAnswered(w) \/ CallbackLost(w)
  \/ HandleLogout \/ TempExpires

SignInSpec == SignInInit /\ [][SignInNext]_signInVars
-----------------------------------------------------------------------------
SignInTypeOK ==
  /\ sessionOf \in Members \cup {Nobody}
  /\ temp \in [state : 0 .. starts, next : Nexts]
  /\ visit \in [Windows -> [pc : {"login", "google", "callback", "upserted", "in", "refused"},
                            state : 0 .. starts, asks : Nexts, seen : Nexts,
                            who : Members \cup {Nobody}]]
  /\ handles \in [Members -> {"no row", "plain", "suffixed"}]
  /\ starts \in 0 .. MaxStarts /\ crossed \in 0 .. starts /\ bumps \in 0 .. MaxMishaps
  /\ {asked, landed} \subseteq [Shares -> 0 .. starts]
  /\ sessionOf # Nobody => handles[sessionOf] # "no row"

\* Tabs that sign in side by side.  The newest start is the one that works: its
\* callback will be accepted, whatever became of the older ones.  A sign-in that was
\* asked to come back to a share does so.  No share is come back to more often than it
\* was asked for: a share that was come back to is not where a later sign-in ends.  (One
\* that was abandoned may be, while its oauth_next lasts.)  Cookies that expire, and starts
\* while a callback is being answered, whose cookies its answer takes away, are the
\* exceptions.
SignInKeepsItsWord ==
  /\ crossed = 0 /\ bumps = 0 => \A w \in Windows :
       /\ visit[w].pc = "google" /\ visit[w].state = starts => temp.state = starts
       /\ visit[w].pc = "in" /\ visit[w].asks # NoNext => visit[w].seen = visit[w].asks
  /\ \A s \in Shares : landed[s] <= asked[s] + crossed
=============================================================================
