# shoplit in TLA+

shoplit lets a creator put products of other shops into *carts*, share a cart at
`/c/<slug>`, and see how often carts were viewed and products clicked.  The
system is a Go API on Postgres and Redis (`internal/`), a redirect service
(`cmd/shoplit-redirect`), a Next.js dashboard and public site (`web/`), and a
browser extension (`extension/`).

This directory holds TLA+ modules translated from that code, TLC configurations
that check them on small instances, and TLAPS proofs of what matters most.  Paths
below are relative to the root of the repository.  `PROJECT.json` names, for every
definition that models code, the lines it stands for.

## 1. Inventory

The Go services open **no transaction and take no row lock** anywhere: an operation
of several SQL statements is a sequence of commits between which any other request,
a failed query, a cancelled request context or a dying process can come.  Most of
what is hard on the server follows from that and from fire-and-forget goroutines.  In
the browser it is `fetch` calls that are answered late, out of order or never, and
components that are gone when their answer comes.

| component | state | operations | interacts with | hard behaviour | what makes it correct |
|---|---|---|---|---|---|
| Cart items (`internal/carts/service.go`, `handlers.go`, `internal/db/queries.sql`) | `links`, `cart_items` with UNIQUE(cart, position), `archived_at` | add, remove, update, reorder, delete | editor, extension, share form | reorder is 2n statements, add is three after its check; positions computed in one statement and used in a later one; ids of the body not compared with the cart | a request alone on its cart does exactly what it says and never meets the constraint; parked rows are accounted for; nobody else's cart changes; an archived cart comes to rest |
| Cart rows, public page (`carts/service.go`, `internal/publicapi`, `web/app/(share)`) | `carts` (slug, title, cover, visibility, archived), `cart_views_daily` | create, patch, delete, view | dashboard, editor, view goroutine | read-modify-write of every column, gate and page reads are separate statements, goroutine without a waiter | a patch changes what it names; private and deleted carts are not shown; a view is counted once |
| Cart editor (`web/app/dashboard/carts/[id]/editor.tsx`, `cover-picker.tsx`, `paste-url-preview.tsx`) | React state, `pending` and `saveTimer` refs, drafts | edit, debounced save, leave, product calls, drag, paste, uploads | cart rows, cart items, metadata fetch | unordered requests, answers that replace local state, uploads that outlive their form, failed saves | what was typed reaches the row; the list and the look shown are the cart's; a draft is about one product |
| Sharing into a cart (`web/app/add`) | form, `localStorage` | share, paste, make a cart, add | cart items | lost answers, a second submit, leftovers of an earlier share | what was shared is added once, to the cart that is named |
| Upload limit (`internal/uploads/ratelimit.go`) | one Redis counter per user | Allow | uploads handler, Redis | INCR and EXPIRE are two commands; concurrent uploads; failing Redis | at most Max per window; a refused user gets in again |
| Redirect and clicks (`internal/redirect`, `internal/analytics`) | `click_events`, `click_daily` | resolve, log click | links, insights | two statements with dropped errors on a goroutine; midnight between them | events and daily totals agree |
| Insights (`carts/service.go`, `web/lib/insights.ts`, `insight-summary.tsx`) | reads of the daily tables | weekly and 14 day windows | clicks, views | two clocks, two requests | a window holds its days once each; headline and cards agree |
| Creators, follows (`internal/creators/service.go`, `web/lib/follow-controller.ts`, `creator-search.tsx`) | `follows`; optimistic button; search box | search, follow, unfollow, profile | notifications | answers out of order, lost answers, reads in several statements | results are those of the query; the button ends at the server's truth |
| Notifications (`creators/service.go`, `notification-bell.tsx`) | `notifications_seen_at`; badge | count, list, mark seen | follows, carts | list and mark are sent side by side; late answers | what the marker takes out of the badge was listed |
| Sign-in, sessions (`internal/auth`) | `oauth_state`, `oauth_next` and a session cookie signed with an HMAC; nothing of a session is kept on the server | start, callback, upsert, logout | Google | tabs share the cookies; an upsert retried after any error | the newest start works; a sign-in ends where it was asked to, once |
| Navigation (`web/components/app-*.tsx`, `nav-bar.tsx`, `web/app/dashboard/layout.tsx`) | drawer; layouts and pages the router keeps | follow a link, go back, sign out | sessions | guards that ran before the session ended | no private page without a session; one menu, with links that work |
| Extension (`internal/exttoken`, `extension/src`, `web/app/connect-extension`) | `extension_tokens` with the tokens' hashes, any number per account, none revoked by any code; one token in the browser | mint, save, list carts, add | cart items | forms that are painted over, a worker that dies, pages that change under a button | an add happens once; the panel ends its wait |
| Feedback, mail (`internal/feedback`, `internal/mailer`) | `feedback` | submit, inbox | mail service | lost answers, best-effort mail, text cut in a character | what is thanked for is stored, once |
| Metadata fetch, admin, affiliate, config, HTTP helpers, generated SQL, landing page, share images | none, or a cache | reads, formatting, start-up | | | |

## 2. What is modelled

### On the server

**CartItems** (core).  One statement is one step, and `Requests` handlers run side by
side.  `Admit` / `Refuse` are the `GetCartByID` and owner check that every method starts
with; the statements after it are `CreateLink`, `NextCartItemPosition`, `AddCartItem`
(AddProduct), `RemoveCartItem`, `UpdateCartItem`, `ArchiveCart`, and, for
ReorderProducts, `Park` (loop one: id *i* to position -*i*), `AllParked`, `Place`
(loop two: id *i* to *i*-1) and `AllPlaced`.  `Respond` is the answer.  `Abort` ends a
request after any statement and leaves what it did: the client that disconnects (the
handlers pass `r.Context()` to every query), a failed query, a process that dies.

- One identifier stands for the `links` row and for the `cart_items` row that
  AddProduct inserts, which have the same `cart_id`.  Ids are never reused, so a
  removed product's id updates nothing, as in Postgres.
- `calm` and `disturbed` are history.  A request is *calm* while no other admitted
  request shares its cart (and, for a reorder, its list is exactly the cart's items and
  no row was parked when it started).  A cart is *disturbed* once a reorder on it ended
  before its last statement or an add computed its position during one.  After that an
  add may insert at 0 or below and a reorder may collide.
- `Abort` gives the request's slot back at once: its error answer is not a state of its own.

**CartOrder** is the promise made to the owner: every cart is an ordered list and every
call acts on one list, once, in one step; add appends (`Put`), remove takes one product
out wherever it is (`Drop`), reorder makes the list the one that was sent, other calls
change no list.  **CartItemsRefinement** maps CartItems to it: the list is ORDER BY position
(`Listing`: the i-th of the rows has i - 1 before it), what a call has still to do is read
off its progress, and a reorder takes effect at its admission, so that the list it was sent
is shown while its 2n updates run (`Shown`) and has to be there when it answers.

**CartAccess**: the `carts` rows.  `CreateCart` draws slugs until one is free,
`MaxAttempts` times; `StartUpdate`/`UpdateCart` are the two statements of the patch
(`Params` seeds every column from the row read first), `ArchiveCart` the delete,
`StartView`/`ReadPage`/`Serve` the public page: slug lookup and visibility gate, reads of
the page, answer.  `BumpCartViewsDaily` is the goroutine that counts a visit.  `Crash` ends
everything in flight; a graceful shutdown waits for handlers and not for these goroutines.
Title, description and cover are treated alike by this code and are one column here;
`is_public` is written and never read and is left out.

**UploadLimiter**: `Incr`, `Expire`, `Decide`, `Respond` of one upload each,
`IncrFails`/`ExpireFails` when a command errors (after an INCR error the upload goes on,
whether Redis counted or not), `Abort` when the process dies in between, `Tick` for Redis'
clock.  The counter stops at `Ceiling` = Max + 2, beyond which all values are alike.

**ClickCounts**: a click is answered at once (`Redirect`) and logged by a goroutine in two
statements, each with its own reading of the day and its own dropped error; the process
may die in between.  The dashboard reads the weekly numbers of the carts and the daily
series of the account in two requests, the series in a query by the database's day laid
over a skeleton of days made by the API, and sums it up in the browser.

**SignIn**: `Windows` tabs share the three cookies.  A start writes `oauth_state` and, only
if it has one, `oauth_next`; a callback is judged on the cookies its request carried,
while its answer changes the cookies the browser has by then.  The upsert with its retry is
part of the callback.  Google is external.

### In the browser

**EditorSave**: one tab and the row behind it.  `Edit` is `patch`, `TimerFires` the
debounce, `FlushSave` the flush, `Leave` the effect's cleanup, `CloseTab` what runs no
cleanup, `Open` a new mount.  A PATCH is the two statements of CartAccess' update
(`ReadRow`, `WriteRow`), and PATCHes are not ordered.  `StartProductCall`, `GetCartById`,
`SetCart` are the product operations: they answer with the cart as they read it and
replace the editor's state.  `Open` brings the row or `keptPage`.

*The page the router keeps.*  The editor takes the cart it was rendered with as its state
and saves with `fetch`; nothing in it calls `router.refresh()`.  next 14.2.35
(`web/package.json`) keeps a visited page's payload, and `web/next.config.mjs` sets no
`staleTimes`: on the way back always, and over a link within half a minute, the editor is
mounted on the cart of the last time it was rendered.  `keptPage`, `keptList` and
`keptLook` are that cart in the three modules of the editor, and opening it may always
choose the kept one or the server's, which over-approximates the half minute.

**ProductList**: the editor's list of products and its rows.  A product call is two
requests, the change and the read of the cart, and its answer replaces the list; a drag
reorders the list before the server does; `HandleDelete` is the deletion of the cart.  The
statements of a change are CartItems'; here a change is one step, except that a reorder
beside another call, or whose list lacks a row, may leave any order.  `LeaveList` leaves
the editor's calls running with nobody to show their answers (`AnswerFindsNobody`), and
`OpenList` mounts it again on the rows or on `keptList`.  `strayed` is history: calls
overlapped or broke off half way, or the list the editor came up with was not the server's;
the answer of a call that ran by itself ends it.

**PastePreview**: the link box with its form.  Every answer fills the one form, whichever
paste it belongs to.  A field's content is abstracted to the product it is about.

**CartLook**: cover, colour and visibility from the naming of a new cart to the public
page.  PATCHes are sent one at a time here and the tab is not closed on a change: both are
EditorSave's; title and bio behave like the cover, deletion is ProductList's.  The cover
picker's uploads outlive the editor: `leftover` is the pending change of an editor that is
gone.  `OpenEditor` mounts the editor on the row or on `keptLook`.  `astray` names the
fields in which editor and row have parted: by an older page, a PATCH of the editor before,
an older answer, a PATCH that failed.  Picking the field again takes it out, and so does
an up-to-date answer of a product call.

**AddForm**: `/add` with its form, the POST that makes a cart and the POST that adds the
product, either of which may lose its answer.  The photo has its own field: `TypePhoto` is
its URL, `AddPhoto` the upload button, whose picture goes into whatever form there is when
the upload is answered (`PhotoUploaded`).  The button goes with its view and its upload runs
on: `earlier` are the pictures of buttons that are gone, `late` those among them at the last
"Add another".

**Discover**: search box, profile and follow button over `follows`.  A read of a creator is
two statements, a tap three; requests of a button that is gone run on.  **NotificationBell**:
one fetch of the badge, and per opening of the menu a seen marker and a fetch of the list.
Times are abstracted to what the queries make of them: newer than the seen marker or not,
and the order of the carts, of which the list has the newest `Limit` (20 in the query).

**Extension**: button, panel and popup with their one form, the service worker that reads
the token for every request, and the page that mints it.  What the creator edits in the
form and a creator without carts are left out.

**Chrome**: rail, drawer, tab bar and bar, the guards of layouts and pages, signing out.
Three facts about the router are taken from its documentation and not from this
repository: a section's layouts are kept while one stays in it, pages and layouts that
were visited or fetched ahead may come from its cache, and reads of the user within one
render are one read.  The pages are a selection: those that the menus lead to.  Left out,
with the links to them, are the naming of a new cart, the cart editor, the feedback inbox
and the admin page's users, the legal pages, the roadmap, the pages about the extension and
the phone, the public cart page and the page that connects the extension.

**Feedback**: form, handler, mail goroutine and inbox.

## 3. Checked by TLC

| run | instance | shows |
|---|---|---|
| `cart_items_shared` | 1 cart, 2 products, 2 requests, every list of up to 2 ids with repeats, aborts; 211 482 states | `TypeOK`, `ParkedIsOwed`, `CalmNeverConflicts`, `CalmReorderExact`, `CalmInv`, `ArchivedComesToRest`, and `ParkedReturns` under fairness |
| `cart_order` | 2 accounts with a cart each, 3 products, 1 request, no faults; 88 700 states | `ImplementsCartOrder`, `OnlyOwnerChanges` |
| `cart_access` | 2 accounts and an anonymous visitor, 2 cart ids, 1 slug, 2 requests, crashes | `TypeOK`, `ViewsAreVisits`, `UnracedUpdateIsThePatch`, `SealedUntilPublished`, and under fairness `ViewsCatchUp`, `CreateAnswers` |
| `editor_autosave` | 2 fields of 2 values, 2 saves and 1 product call in flight, failures; 222 678 states | `TypeOK`, `UnsavedIsOnItsWay`, and `SavedInTheEnd` under fairness |
| `limiter_window` | 1 user, 3 uploads at a time, Max 2, Window 2, failures; 29 831 states | `TypeOK`, `AtMostMax`, `WindowNotExtended`, and `LimitedComesBack` under fairness |
| `browser` | Discover, NotificationBell and Extension, one at a time: 2 queries of which one finds the creator, 2 taps; 2 carts and a list of 1, 2 openings; 1 product page, 2 messages; 309 104 states | `TypeOK`, `ResultsMatchQuery`, `HonestButton`, `CardsAddUp`, `BadgeStaysCleared`, `SeenIsListed`, `FormAddsOnce`, and under fairness `SearchSettles`, `MenuLoads`, `FormSettles` |
| `creator_tools` | SignIn, Chrome, ClickCounts, PastePreview, ProductList, CartLook, AddForm and Feedback, one at a time; 869 119 states | `TypeOK`, `EventsMatchTotals`, `HeadlineIsTheCarts`, `DraftIsOneProduct`, `EditorShowsTheCart`, `SentOnce`, `SignInKeepsItsWord`, `ChromeIsHonest` |
| `reorder_collides`, `patch_lost_update`, `editor_echo`, `limiter_blip`, `accent_lost` | see section 5 | counterexamples to what comments and documents say |

*Scenes.*  MCBrowser and MCCreatorTools put several modules into one run.  The modules of
one run share no state that one reads of another, so their product would only repeat each
one's behaviours; `scene` picks one and the others keep a fixed initial state.  For the
same reason three modules are two scenes each: logging clicks and loading the dashboard
read nothing of each other except through the day and the views, which both scenes have.
Product calls, which overlap and then run alone, need three calls; a row that is edited and
a cart that is deleted under calls need two.  The cover picker's uploads are one scene of
CartLook; visibility, colour and the product calls that bring an older look back are the
other, with covers that are not curated.

*Why the bounds are enough.*  Two requests meet every hazard of CartItems that needs
an overlap: add against add, add against either loop of a reorder, reorder against
reorder, anything against an archive.  Two products are the fewest on which a reorder
changes something and a park position can be taken; the theorems of section 4 hold for
any number, and `cart_order` has three.  One slug for two cart ids makes every second
creation collide.  Max 2 with three uploads at a time lets an upload be refused while
another still stands between INCR and EXPIRE.  In EditorSave a second field is needed
to see `pending` merged and a second save to see two overlap; with `GoesOn` FALSE nobody
edits once a save failed or overlapped or a tab was closed on edits, because the properties
claim nothing from then on.  Two searches, fetches, taps, openings or messages let an
answer come in behind a newer one.  `Week` = 2 and `LastDay` = 4 have a day before both
windows, both windows, and a midnight while the dashboard loads.  Three starts on two tabs
let a start be abandoned and two others cross.  Three sends are one, a retry after a lost
answer, and another.  Two products and three calls have a call overlap another and a third
run by itself after them, which has to put the list right, also in an editor that was opened
again on an older list.  A list of one notification (`Limit`) with two carts has a cart
fall out of it.  In the share form one of two products has a picture (`Pictured`): it can be
the one before or the one after "Add another".

*Fairness.*  Admitted requests and goroutines are scheduled (`WF` on `Progress`, on
`BumpCartViewsDaily`, on `ReadRow` and `WriteRow`): net/http gives every handler a
goroutine and no statement waits for another request.  `TimerFires` is fair because a timer
fires once the user pauses, `Tick` because time passes.  In the browser, `SearchFairness` and
`ListFairness` say that a fetch is answered or fails, and that its `then` or `catch` runs;
`WorkerFairness` that the extension's worker does its one fetch and that the form's
callback runs, which Chrome does with an error if the worker was stopped.  Nothing is
assumed fair that a user does, or that fails: with `Faults` a request may still be aborted
for ever, which is why `disturbed`, `lost`, `troubled` and `stuck` appear in the liveness
properties.

*Symmetry* (`Alike`) is used in `creator_tools` only, over product calls and texts that no
definition tells apart, and no liveness property is checked there.

*Deadlock* is checked in every passing run but `creator_tools`, whose scenes really stop:
after `MaxSends` messages, or at "thanks", which has no way back, nothing is left to do.

## 4. Proved by TLAPS

Every safety property of section 3, every action property and the refinement of CartOrder
is a theorem, for all values of the constants that its module's assumption allows: any
numbers of accounts, carts, products, fields, texts, fetches and requests.  Where a property
counts, sorts or sums, what it ranges over has to be finite: the requests of CartAccess, the
carts of NotificationBell, ClickCounts and AddForm, the tabs of SignIn and the click
goroutines.  Any finite number will do, and the program never has more.

**CartItems_proofs** (carts have owners, bodies are lists of ids, NULL is no id):

- `TypeCorrect`: TypeOK is inductive as it stands; its part `WellFormed` says which fields
  the next statement of a request will read.
- `ParkedItemsAreOwed`: `ParkedIsOwed` is inductive with TypeOK.  Its second conjunct is
  the strengthening: an add about to insert below zero has already disturbed its cart.
- `CalmRequestsAreExact`: `CalmInv`, from which `CalmRequestsDoNotConflict` and
  `CalmReordersAreExact` follow.  The two results are not inductive; `CalmProgress` is:
  it writes the loop index of a reorder into the positions (behind the index parked at
  -1, -2, ..., before it untouched and not negative; then behind it placed at 0, 1, ...,
  before it still parked), so that the next target position is seen to be free.
- `OnlyTheOwnerChanges`, `ArchivedCartsComeToRest`: action properties, from TypeOK and
  `OwnerInv` (an admitted request runs for the owner of its cart).
- `RequestsApartKeepTheOrder`: with fresh lists and no faults, and as long as no two
  admitted requests hold one cart (`NoOverlap`, of any number of requests), CartItems
  implements CartOrder; `OneTabKeepsTheOrder` is the case of a client that waits for each
  answer, with nothing assumed of its behaviours, and what `cart_order` checks.  The
  argument: `Quiet`, which is the invariants above with `RowsAreDistinct` (no two rows of a
  cart have one position), finitely many rows, and `Undisturbed` (every admitted request is
  calm, no cart is disturbed, the product of an add has no row), is inductive under
  `NoOverlap`.  A list that has all rows in the order of their positions (`Sorts`) is the
  `Listing`, and there is one because positions are distinct (`SortsIsListing`,
  `ListingSorts`); an insert behind the last appends, a delete is `RemoveAt`, and a list
  placed at 0, 1, ... is the `Listing` (`SortsAppend`, `SortsRemove`, `SortsPlaced`).
  `CallShows` and `ProgressShows` then give one step of CartOrder, or a stutter, for every
  action.  Without the hypotheses it is false: section 5 and `disturbed` say how.

**CartAccess_proofs** (None is no account, cart, slug or text):

- The inductive invariant `AccessInv` is TypeOK with `CreatesAreOpen` (a creation knows
  whose cart it makes and has an attempt left) and `UnracedIsFresh` (an update nobody raced
  holds the row as it is).  TypeOK's fourth conjunct is what makes it inductive: the row a
  request holds has its cart's owner and slug, which no statement changes.
- `TypeCorrect`; `UnracedUpdatesAreThePatch`, where `UpdatesEnd` shows that only the UPDATE
  itself takes a request from "update" to "ok"; `ViewsCountVisits`, with the cardinality of
  the pages under way followed through every step; `SealedCartsStayUnseen`, one lemma per
  way to a page: the gate, the admission, the write, the pages under way, the crash.

**EditorSave_proofs** (None is no value):

- `TypeCorrect` and `EditsAreOnTheirWay` from `SaveInv`.  "What was typed is in the row,
  pending or in a PATCH" is not inductive: a PATCH could write back an older column.  The
  strengthening: what is pending is what was typed last (`PendingIsTyped`), without trouble
  one save runs at a time (`SavesTakeTurns`), so the row it read is the row it writes
  (`ReadsAreFresh`), and what it carries was typed, or something newer is pending
  (`SavesCarryTyped`).

**Browser_proofs**, what runs in a viewer's browser:

- *The bell*: `BadgeIsCleared` and `SeenCartsAreListed` from `BellInv`: only openings that
  happened have asked for a list, the answer of the last one has everything due although it
  is not shown yet, or as many newer carts as a list has rows (`AnswerIsComplete`: a cart that
  is hidden later leaves `due`, and the list keeps its rows), and a badge still being fetched after an opening is
  a late one (`BadgeOnItsWay`).
- *Search and follow button*: `SearchShowsItsQuery`, `FollowButtonIsHonest` and
  `FollowersAddUp` from `DiscoverInv`.  Only the newest search is about the text in the box
  (`SearchIsLatest`); what a read or a tap has so far read, when nothing tore it, is still
  what the table says (`ReadIsSound`, `TapIsSound`); a button waits for one request at a time
  (`ButtonWaitsForOne`), and what it says, will say after an error or after the answer is
  the truth (`ButtonIsHonest`): the three must go together, as each step of a tap moves the
  truth from one of them to the next.
- *The extension*: `ExtensionAddsOnce` from `ExtensionInv`: a panel waits for one message
  at a time and shows what for (`OneMessage`), a row whose answer was not lost is one that
  "Added!" is about, now or soon (`RowsAreAnswered`), and a button and a panel that were not
  left behind are about the page (`ButtonIsOfSite`).
- `BrowserIsItsParts`, `BrowserTypeCorrect`: the composition is each part's specification,
  so that the theorems of the parts hold of it.

**Editor_proofs**, what runs in the editor of a cart beside the autosave:

- *The pasted link*: `DraftsAreOneProduct` from `PasteInv`: the last paste's fetch is for
  what is in the box; if it came into an empty form, it runs alone and nothing but the link
  has been filled in (`CleanIsAlone`); a form that was reset is empty and waits for nothing
  (`BlankIsEmpty`); the photo button is there with its form and its picture is for that
  form's product (`MineIsShown`).
- *The product list*: `ListIsTheCartsProducts` from `ListInv`: a call that has run by itself
  so far is the only one, nobody has changed the rows since it read them
  (`AnswerIsTheCart`), before any call changed something the list is what the calls started
  from (`SentChangesNothing`), and an editor beside which calls of an earlier visit run has
  a list that is not trusted (`BesideOthersIsAstray`).
- *The look*: `LookIsTheCartsLook` from `LookInv`: what the editor shows is what was picked
  last, on its way or stored (`LookIsPicked`) in every field that is not astray, and a
  product call that read an up-to-date cart brings the stored one back
  (`FreshEchoIsTheCart`), which is what ends an older page.

**Account_proofs**, what a creator does around the editor:

- *Signing in*: `SignInsKeepTheirWord` from `SignInInv`.  That no share is come back to
  oftener than it was asked for is not inductive: `LandingsAreAsked` counts with the landings
  also the callbacks that will land there (their number is a cardinality, followed through
  every step of every tab), the cookie that waits to send one, and the callback still to
  come.  `NewestHasNext` and `NewestWillDo` say why the newest start works.
- *Navigation*: `NavigationIsHonest` from `ChromeInv`: a document that is up to date, and
  everything the router keeps for it, is the session's or nobody's (`RouterIsCurrent`), and a
  page is what its guards let through (`PageIsGuarded`).
- *The share form*: `ProductsAreAddedOnce` from `FormInv`: one row for each lost answer and
  one for the POST that is stored or was answered (`RowsAreAnswers`); every picture in the
  form or on its way is of a product of this form, or was on its way when the form was
  emptied (`PicturesAreSources`).
- *Feedback*: `FeedbackIsHeardOnce` from `FeedbackInv`, in the same way (`RowsAreLetters`).

**CreatorTools_proofs**:

- *Sums*.  The library's induction theorems take an operator as a parameter, which none of
  the provers can instantiate.  The lemmas about `Total` go the other way round: of the
  subsets for which a claim fails, there is a least one (`SmallestSubset`, by the
  well-foundedness of the strict subsets of a finite set), and that one cannot be.  So:
  what the community module's CHOOSE computes is unique and exists (`SumsAreUnique`,
  `SumsExist`), a sum splits into parts, zeros may be left out, sums add up, and the sums of
  the rows and columns of a table agree (`SumsOfRowsAndColumns`).
- *Clicks and insights*: `ClicksAreCounted` and `HeadlineIsRight` from `ClickInv`: every
  click is where its goroutine is (`ClicksAreSomewhere`), the events are ahead of the totals
  by today's goroutines between their two statements (`EventsAreAhead`), and what an
  undisturbed dashboard has read so far is what is there (`DashIsRead`).  The two halves of
  the series are the weeks of the cards because a slice of the series is the sum over its
  days (`SliceOfDays`), whatever the length of the week.
- `CreatorToolsAreTheirParts`, `CreatorToolsTypeCorrect`, `TheEditorShowsTheCart`,
  `FormsAreSentOnce`: the composition of `creator_tools` and what the run checks of several
  parts at once.

**UploadLimiter_proofs**: `TypeCorrect`, `NeverMoreThanMax`, `WindowsAreFixed` from one
inductive invariant of three parts besides TypeOK: `StartsOnce` (at most one upload of a
user is to start the window, and then the key exists and has no time to live), `InRequest`,
and `CountsAllowed` (the counter is never behind the uploads it has let through).

*Only model-checked*: liveness (`ParkedReturns`, `ViewsCatchUp`, `CreateAnswers`,
`SavedInTheEnd`, `LimitedComesBack`, `SearchSettles`, `MenuLoads`, `FormSettles`), which this
prover does not do under fairness.

## 5. Where code and comments or documents disagree

- `reorder_collides` (`ReorderNeverCollides`): service.go:366-370 says a parked position "can't collide".  A reorder
  cut short leaves rows parked, and a later reorder's parking positions meet them: the
  UPDATE fails with a unique violation, again on every retry of that order.
- `patch_lost_update` (`UnsetFieldsLeftUnchanged`): service.go:223-225 says unset fields leave the row unchanged.  Of two
  overlapping PATCHes the later write puts back what it read before the earlier one.
- `editor_echo` (`OnlyTypingChangesFields`): editor.tsx:61-65 says local state is not overwritten by a server echo.
  It is not by saves, and it is by every product call.
- `limiter_blip` (`BlipNeverBlocks`): uploads.go:39-40 says a Redis blip never blocks an upload.  A failed EXPIRE
  leaves a counter without a time to live, which blocks its user for good once over
  the limit.
- `accent_lost` (`AccentIsKept`): web/lib/types.ts:71 says `accentHex` overrides the accent of the public page.
  The colour is picked and previewed and is in no PATCH; the page keeps the house's.

Four more were seen while modelling and have no run of their own; the properties named
excuse exactly them.

- Badge: notification-bell.tsx:21-22 says that opening the menu zeroes the badge "so it
  doesn't reappear".  The count that was asked for when the page was loaded may be answered
  after the menu was opened, and is put into the badge (`late` in `BadgeStaysCleared`).
- Preview: editor.tsx:376 calls it "how your cart looks to followers".  Opened again on the
  page the router kept, the editor shows and previews the cover from before the last visit's
  edits and has nothing pending that would correct it (`astray` in `LookIsTheCart`).
- Share form: its design
  (docs/superpowers/specs/2026-05-24-shoplit-mobile-share-target-design.md:83) says that "Add
  another" clears it.  A photo still being uploaded then comes into the next product's form
  and is submitted with it (`late` in `AddedOnce`).
- Extension: its README (extension/README.md:15) and the connect page
  (connect-extension/page.tsx:82) tell the creator to paste the code into the extension.  The
  form has a box for it only while *no* token is stored, and a refused token stays stored, so
  after a refusal the box does not come (`refused` in `FormSettles`).

## 6. Not modelled, and what is left

*Left out*:

- Upload storage: one PUT under a random name.  Affiliate links: one query parameter.
- Metadata fetch (`internal/ogfetch`): extraction of texts from HTML and a cache of one entry
  per link.  That a cached title may be cleaned again is a matter of string clean-up,
  character by character; what the answers do to a form is in PastePreview.
- Admin reads (who gets to see the page is in Chrome), configuration and start-up, and the
  generated `queries.sql.go`, whose source `queries.sql` is what the modules translate.
- Share images, cards, dates and the landing page: rendering.
- A second editor tab on the same cart; the lookup of a link by the redirect service and
  the hashes its reach is counted with; the following feed,
  which is one read; in the extension, a creator without carts and edits in the form.
- In the share form the note and the price (which goes with the title); text that is left in
  the paste box after "Add another" counts as pasted again when it is edited.
- The upsert's retry is in SignIn without a property: nothing promises the plain handle.

*What the properties allow, because the code does not prevent it*:

- A link whose item was never inserted stays (CartItems), and a request admitted before a
  deletion still writes.
- EditorSave: after a save that failed or overlapped another, or a tab closed on edits,
  nothing is claimed (`troubled`).
- SeenIsListed: with more unread carts than the list has rows, opening the menu takes carts
  out of the badge that were never listed.
- EditorShowsTheCart: what an older page, overlapping calls, an earlier editor's PATCH or a
  failure has set apart, until a call runs by itself or the field is picked again.
- SentOnce: the late photo of the product before.  DraftIsOneProduct: an older answer that
  comes in last, a second paste whose fetch is blocked, a late photo.
- HonestButton: a follow whose answer was lost (`misled`).  CardsAddUp: a read with a follow
  between its two statements (`torn`).
- FormAddsOnce: a code saved twice while the carts load, a page swapped under its button.
- SignInKeepsItsWord: cookies taken away by a callback's answer (`crossed`), and a later
  sign-in that ends at a share whose own sign-in was abandoned.

*Left to do*: a run of two editor tabs over CartAccess; clicks among the weekly numbers of
the dashboard, which are read and summed as the views are.
