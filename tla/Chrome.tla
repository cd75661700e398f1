------------------------------- MODULE Chrome -------------------------------
(***************************************************************************)
(* The navigation around the pages of one browser tab, and signing out:    *)
(* app-frame.tsx with the rail (desktop-rail.tsx) and the tab bar          *)
(* (mobile-tab-bar.tsx), nav-bar.tsx with the drawer (app-sidebar.tsx),    *)
(* the layouts that read the user for them and the guards of the pages.    *)
(*                                                                         *)
(* The root layout reads the user once per document.  A layout of a        *)
(* section is read when the section is entered, or comes from the router's *)
(* cache; a page is read when it is visited, or comes from the cache.      *)
(* All reads are of the session at that time.                              *)
(***************************************************************************)
EXTENDS Naturals, FiniteSets

CONSTANTS
  People,     \* accounts
  Admins,     \* those that administrate
  Named,      \* those that have a handle
  Newcomers,  \* those that have no cart and follow nobody
  Anonymous   \* no session, or a failed read of the user

ASSUME ChromeAssumption == Anonymous \notin People /\ Admins \cup Named \cup Newcomers \subseteq People

VARIABLES
  session,  \* whose cookie the browser has
  doc,      \* the document: its page, what its layouts and the page were rendered for
  drawer,   \* the sheet of AppSidebar is open
  leaving,  \* a logout request is running
  pages,    \* router cache: for whom the private pages were rendered, if they were
  shells,   \* router cache: what the layouts of the sections were rendered for
  stale     \* history: the session changed, or a read failed, since the document was loaded

chromeVars == <<session, doc, drawer, leaving, pages, shells, stale>>
-----------------------------------------------------------------------------
\* The pages modelled.  Left out, with the links to them, are pages that stand in the same
\* layouts: the naming of a new cart and the cart editor, the feedback inbox and the users
\* of the admin page among the private ones; the legal pages, the roadmap and the pages
\* about the extension and the phone among the public ones; and, without these menus, the
\* public cart page and the page that connects the extension.
Public == {"home", "feedback", "discover", "profile"}
Private == {"dashboard", "following", "admin"}
Routes == Public \cup Private \cup {"add", "login"}
Users == People \cup {Anonymous}
Section(p) == IF p \in Private THEN "private" ELSE "public"

\* isAppRoute, and isPrimaryRoute of the tab bar
IsAppRoute(p) == p \in {"discover", "add", "profile"} \cup Private
IsPrimaryRoute(p) == p \in {"discover", "add", "profile"} \cup Private

\* Pages with a NavBar; not-found.tsx has one of its own.
HasBar == doc.missing \/ doc.page \in Public \cup Private
RailShown == doc.frame # Anonymous /\ IsAppRoute(doc.page)
TabBarShown == doc.frame # Anonymous /\ IsPrimaryRoute(doc.page)
TriggerOnDesktop == HasBar /\ ~(doc.bar # Anonymous /\ IsAppRoute(doc.page))

\* The links of the four of them, for the user they are rendered for.
OwnProfile(u) == IF u \in Named THEN {"profile"} ELSE {}

DrawerLinks(u) ==
  IF u = Anonymous THEN {"discover", "feedback", "login"}
  ELSE {"dashboard", "discover", "following", "add", "feedback"} \cup OwnProfile(u)
         \cup (IF u \in Admins THEN {"admin"} ELSE {})

RailLinks(u) ==
  {"dashboard", "discover", "following", "add", "feedback"} \cup OwnProfile(u)
    \cup (IF u \in Admins THEN {"admin"} ELSE {})

TabLinks(u) == {"dashboard", "discover", "add", "following"} \cup OwnProfile(u)

BarLinks ==
  IF doc.page \in Private /\ ~doc.missing THEN {"dashboard"}
  ELSE {"home"} \cup (IF doc.bar = Anonymous THEN {"login"} ELSE {})

\* The buttons of the login page; "google" leaves for module SignIn, "send" and "verify"
\* only say that they are to come, and nothing leads to the mode "otp".
LoginPage ==
  CASE doc.mode = "options" -> {"google", "phone"}
    [] doc.mode = "phone"   -> {"back", "send"}
    [] doc.mode = "otp"     -> {"edit", "verify"}

\* The links in the dashboard and the feed, of the user they were rendered for: the
\* hero's, "Add a product", the creator of a feed's item, "Discover creators".
HeroLinks(u) == OwnProfile(u)
DashboardLinks(u) == HeroLinks(u) \cup (IF u \in Newcomers THEN {} ELSE {"add"})
FeedItem == {"profile"}
FeedLinks(u) == IF u \in Newcomers THEN {"discover"} ELSE FeedItem

BodyLinks ==
  CASE doc.page = "dashboard" -> DashboardLinks(doc.body)
    [] doc.page = "following" -> FeedLinks(doc.body)
    [] OTHER -> {}

Links ==
  BodyLinks \cup (IF HasBar THEN BarLinks ELSE IF doc.page = "login" THEN {"home"} ELSE {})
    \cup (IF drawer THEN DrawerLinks(doc.bar) ELSE {})
    \cup (IF RailShown THEN RailLinks(doc.frame) ELSE {})
    \cup (IF TabBarShown THEN TabLinks(doc.frame) ELSE {})
-----------------------------------------------------------------------------
NotVisited == [p \in Private |-> Anonymous]

\* getCurrentUser, for which a failure is nobody.  A visit has three outcomes: it finds
\* the user, fails in the layouts, or only later, in what a private page reads itself.
Outcomes(p) == {"found", "lost"} \cup (IF p \in Private THEN {"late"} ELSE {})
GetCurrentUser(outcome) == IF outcome = "lost" THEN Anonymous ELSE session
PageUser(outcome) == IF outcome = "found" THEN session ELSE Anonymous

\* Mutant: the page leaves the guard to the layout.
GuardOfLayoutOnly(p, user, layout) == layout # Anonymous

\* Who is sent to /login: by the layout, or by the page, whose own reads need the session
\* whatever layout is around it.
Admitted(p, user, layout) == layout # Anonymous /\ (p = "admin" \/ user # Anonymous)

\* What is shown of page p when its reads find `user`, in a layout rendered for `layout`.
Rendered(p, frame, layout, user) ==
  CASE p \in Private /\ ~Admitted(p, user, layout) ->
         [page |-> "login", missing |-> FALSE, frame |-> frame, bar |-> Anonymous,
          body |-> Anonymous, wanted |-> p, mode |-> "options"]
    [] p = "admin" /\ Admitted(p, user, layout) /\ user \notin Admins ->
         [page |-> p, missing |-> TRUE, frame |-> frame, bar |-> user,
          body |-> Anonymous, wanted |-> p, mode |-> "options"]
    [] OTHER ->
         [page |-> p, missing |-> FALSE, frame |-> frame,
          bar |-> IF p \in Public \cup Private THEN layout ELSE Anonymous,
          body |-> IF p \in Private THEN user ELSE Anonymous, wanted |-> p, mode |-> "options"]

\* AddPage sends who has no session to Google: the document is gone (module SignIn).
Leaves(p, user) == p = "add" /\ user = Anonymous

\* A document is loaded: the address bar, a reload, the way back from Google.  React asks
\* for the user once for all layouts.  Loading the next one starts all over, so that a
\* behavior is the life of one document.
LoadDocument(p, outcome) ==
  LET me == GetCurrentUser(outcome)
  IN  /\ ~Leaves(p, me)
      /\ doc = [Rendered(p, me, me, PageUser(outcome)) EXCEPT !.wanted = "any"]
      /\ drawer = FALSE /\ leaving = FALSE
      /\ pages = IF doc.body = Anonymous THEN NotVisited ELSE [NotVisited EXCEPT ![p] = doc.body]
      /\ shells = [public |-> me, private |-> me]
      /\ stale = (outcome # "found")

ChromeInit ==
  /\ session \in Users
  /\ \E p \in Routes : \E outcome \in Outcomes(p) : LoadDocument(p, outcome)

\* The router keeps what it has just shown.
Remember ==
  /\ pages' = IF doc'.body = Anonymous THEN pages ELSE [pages EXCEPT ![doc'.page] = doc'.body]
  /\ shells' = IF doc'.page \in Public \cup Private /\ ~doc'.missing
                 THEN [shells EXCEPT ![Section(doc'.page)] = doc'.bar] ELSE shells

\* The layout around the page stays if p is of the same section; the drawer is in it.
Kept(section) == HasBar /\ ~doc.missing /\ Section(doc.page) = section

\* The router goes to p in the same document: a kept, cached or fresh layout, a fresh page.
GoTo(p, outcome) ==
  /\ ~Leaves(p, GetCurrentUser(outcome))
  /\ \E layout \in IF Kept(Section(p))
                     THEN {doc.bar} ELSE {shells[Section(p)], GetCurrentUser(outcome)} :
       doc' = Rendered(p, doc.frame, layout, PageUser(outcome))
  /\ Remember

\* DrawerLink, RailLink, NavItem, CenterAction, the logo and "Start free"
Follow(p, outcome) ==
  /\ p \in Links
  /\ GoTo(p, outcome)
  /\ drawer' = FALSE
  /\ stale' = (stale \/ outcome # "found")
  /\ UNCHANGED <<session, leaving>>

\* A private page that was visited is shown again from the cache, by a link or by the
\* browser's way back.
Revisit(p) ==
  /\ pages[p] # Anonymous /\ p # doc.page
  /\ doc' = [page |-> p, missing |-> FALSE, frame |-> doc.frame, body |-> pages[p],
             bar |-> shells.private, wanted |-> p, mode |-> "options"]
  /\ drawer' \in {FALSE, drawer /\ Kept("private")}
  /\ UNCHANGED <<session, leaving, pages, shells, stale>>

\* The layout of the dashboard is fetched ahead while links to it are shown.
Prefetch ==
  /\ Links \cap Private # {} /\ ~(doc.page \in Private)
  /\ shells' = [shells EXCEPT !.private = session]
  /\ UNCHANGED <<session, doc, drawer, leaving, pages, stale>>

\* setMode, by the buttons of the login page
SetMode ==
  /\ doc.page = "login"
  /\ \/ "phone" \in LoginPage /\ doc' = [doc EXCEPT !.mode = "phone"]
     \/ "back" \in LoginPage /\ doc' = [doc EXCEPT !.mode = "options"]
  /\ UNCHANGED <<session, drawer, leaving, pages, shells, stale>>

OpenDrawer ==
  /\ HasBar /\ ~drawer
  /\ drawer' = TRUE
  /\ UNCHANGED <<session, doc, leaving, pages, shells, stale>>

CloseDrawer ==
  /\ drawer
  /\ drawer' = FALSE
  /\ UNCHANGED <<session, doc, leaving, pages, shells, stale>>
-----------------------------------------------------------------------------
\* handleLogout of the drawer, which closes it, and of the rail
SignOut ==
  /\ ~leaving
  /\ IF drawer THEN doc.bar # Anonymous ELSE RailShown
  /\ leaving' = TRUE
  /\ drawer' = FALSE
  /\ UNCHANGED <<session, doc, pages, shells, stale>>

\* "Signed out" and home, also when the answer was an error and the session goes on.
LogoutAnswered(cleared, ok) ==
  /\ leaving
  /\ leaving' = FALSE
  /\ session' = IF cleared THEN Anonymous ELSE session
  /\ \E layout \in IF Kept("public")
                     THEN {doc.bar} ELSE {shells.public, IF ok THEN session' ELSE Anonymous} :
       doc' = [page |-> "home", missing |-> FALSE, frame |-> doc.frame, bar |-> layout,
               body |-> Anonymous, wanted |-> "home", mode |-> "options"]
  /\ Remember
  /\ drawer' = (drawer /\ Kept("public"))
  /\ stale' = TRUE

\* "Couldn't sign out."
LogoutFails ==
  /\ leaving
  /\ leaving' = FALSE
  /\ UNCHANGED <<session, doc, drawer, pages, shells, stale>>

\* Another tab signs in or out; the cookie expires.
OtherTab(u) ==
  /\ u # session
  /\ session' = u
  /\ stale' = TRUE
  /\ UNCHANGED <<doc, drawer, leaving, pages, shells>>
-----------------------------------------------------------------------------
ChromeNext ==
  \/ \E p \in Routes : \E outcome \in Outcomes(p) : Follow(p, outcome)
  \/ \E p \in Private : Revisit(p)
  \/ Prefetch \/ SetMode \/ OpenDrawer \/ CloseDrawer
  \/ SignOut \/ LogoutFails
  \/ \E cleared, ok \in BOOLEAN : LogoutAnswered(cleared, ok)
  \/ \E u \in Users : OtherTab(u)

ChromeSpec == ChromeInit /\ [][ChromeNext]_chromeVars
-----------------------------------------------------------------------------
ChromeTypeOK ==
  /\ session \in Users
  /\ doc \in [page : Routes, missing : BOOLEAN, frame : Users, bar : Users, body : Users,
              wanted : Routes \cup {"any"}, mode : {"options", "phone"}]
  /\ doc.mode = "phone" => doc.page = "login"
  /\ {drawer, leaving, stale} \subseteq BOOLEAN
  /\ pages \in [Private -> Users]
  /\ shells \in [public : Users, private : Users]
  /\ doc.missing => doc.page = "admin"
  /\ drawer => HasBar

\* No private page without a session: whatever layout the router kept or fetched ahead,
\* a page of the dashboard that is shown was rendered for somebody, and the admin page
\* for an administrator.  While the document is up to date, all of the navigation is for
\* the user of the session; on a wide screen there is the rail or the drawer and never
\* both; the tab bar is where the rail is; and no link of any of them is refused.
ChromeIsHonest ==
  /\ doc.page \in Private /\ ~doc.missing =>
       /\ doc.body # Anonymous
       /\ doc.page = "admin" => doc.body \in Admins
  /\ ~stale =>
       /\ doc.frame = session /\ HasBar => doc.bar = session
       /\ HasBar => (RailShown <=> ~TriggerOnDesktop)
       /\ TabBarShown <=> RailShown
       /\ doc.wanted # "any" => doc.page = doc.wanted /\ ~doc.missing
=============================================================================
