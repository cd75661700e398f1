---------------------------- MODULE CartAccess ----------------------------
(***************************************************************************)
(* The cart rows: who changes them and who gets to see the cart.           *)
(* internal/carts/service.go, the methods CreateCart, UpdateCart,          *)
(* DeleteCart and GetPublicCart, with the handlers that call them and the  *)
(* view counter that GetPublicCart bumps on a goroutine of its own.        *)
(*                                                                         *)
(* As in CartItems a statement is a step.  UpdateCart is two: it reads the *)
(* row, seeds every column of the UPDATE from it, lays the patch over the  *)
(* seed and writes all of them back.  GetPublicCart decides on the row it  *)
(* read by slug and reads the rest of the page afterwards.                 *)
(***************************************************************************)
EXTENDS Integers, FiniteSets

CONSTANTS
  Users,        \* accounts
  Carts,        \* identifiers of cart rows: bounds the creations
  Slugs,        \* slugs the generator may draw
  Titles,       \* contents of the text columns title, description and cover
  Requests,     \* handlers running at the same time
  MaxAttempts,  \* slug draws of CreateCart, 5 in the code
  MaxShown,     \* bounds the visits of a cart
  Faults,       \* TRUE: statements may fail and the process may die
  None          \* no account, a nil pointer, or a field a request does not use

ASSUME ConstantsAssumption ==
  /\ MaxAttempts \in Nat \ {0} /\ MaxShown \in Nat
  /\ Faults \in BOOLEAN /\ IsFiniteSet(Requests)
  /\ None \notin Users \cup Carts \cup Slugs \cup Titles \cup {"public", "private"}

VARIABLES
  row,      \* the carts table
  req,      \* progress of each request
  bumps,    \* view-counter goroutines that have not run yet, per cart
  views,    \* cart_views_daily, summed over the days
  shown,    \* history: pages sent to other people than the owner
  lost      \* history: bumps that failed or died with the process

vars == <<row, req, bumps, views, shown, lost>>
counters == <<bumps, views, shown, lost>>
-----------------------------------------------------------------------------
Visibilities == {"public", "private"}

RowRecord ==
  [user : Users, slug : Slugs, title : Titles, visibility : Visibilities, archived : BOOLEAN]
NoRow == [user |-> None, slug |-> None, title |-> None, visibility |-> None, archived |-> FALSE]

Existing == {c \in Carts : row[c] # NoRow}
Live == {c \in Existing : ~row[c].archived}

\* A PATCH body: None is a nil pointer, "leave unchanged".
Patches == [title : Titles \cup {None}, visibility : Visibilities \cup {None}]
NoPatch == [title |-> None, visibility |-> None]

PCs == {"idle", "create", "update", "archive", "items", "served", "ok", "refused", "failed"}

\* raced is a history flag: somebody wrote the row after this request read it.
RequestRecord ==
  [pc : PCs, user : Users \cup {None}, cart : Carts \cup {None}, tries : 0..MaxAttempts,
   patch : Patches, read : RowRecord \cup {NoRow}, raced : BOOLEAN]
Idle ==
  [pc |-> "idle", user |-> None, cart |-> None, tries |-> 0,
   patch |-> NoPatch, read |-> NoRow, raced |-> FALSE]

Init ==
  /\ row = [c \in Carts |-> NoRow]
  /\ req = [r \in Requests |-> Idle]
  /\ bumps = [c \in Carts |-> 0]
  /\ views = [c \in Carts |-> 0]
  /\ shown = [c \in Carts |-> 0]
  /\ lost = [c \in Carts |-> 0]

\* One UPDATE of the row of c by request r: pending updates of it are now stale.
Write(r, c, new) ==
  /\ row' = [row EXCEPT ![c] = new]
  /\ req' = [q \in Requests |->
       IF q = r THEN [req[q] EXCEPT !.pc = "ok"]
       ELSE [req[q] EXCEPT !.raced = @ \/ (req[q].cart = c /\ req[q].pc = "update")]]
  /\ UNCHANGED counters
-----------------------------------------------------------------------------
(***************************************************************************)
(* CreateCart: up to MaxAttempts draws, another one only after a unique    *)
(* violation.  visibility has the column's default.                        *)
(***************************************************************************)
StartCreate(r, u, t) ==
  /\ req[r] = Idle
  /\ Cardinality({q \in Requests : req[q].pc = "create"}) < Cardinality(Carts \ Existing)
  /\ req' = [req EXCEPT ![r] = [Idle EXCEPT !.pc = "create", !.user = u, !.patch.title = t]]
  /\ UNCHANGED <<row, counters>>

\* A slug is compared with the archived carts' too: their rows are still there.
SlugTaken(s) == \E c \in Existing : row[c].slug = s

\* Mutant: the attempts are not counted.
CreateCartUncounted(r, s) ==
  /\ req[r].pc = "create"
  /\ IF SlugTaken(s)
       THEN UNCHANGED <<row, req>>
       ELSE \E c \in Carts \ Existing :
              /\ row' = [row EXCEPT ![c] =
                   [user |-> req[r].user, slug |-> s, title |-> req[r].patch.title,
                    visibility |-> "public", archived |-> FALSE]]
              /\ req' = [req EXCEPT ![r].pc = "ok"]
  /\ UNCHANGED counters

CreateCart(r, s) ==
  /\ req[r].pc = "create"
  /\ IF SlugTaken(s)
       THEN /\ req' = [req EXCEPT ![r].tries = @ + 1,
                         ![r].pc = IF req[r].tries + 1 = MaxAttempts THEN "failed" ELSE @]
            /\ UNCHANGED row
       ELSE \E c \in Carts \ Existing :
              /\ row' = [row EXCEPT ![c] =
                   [user |-> req[r].user, slug |-> s, title |-> req[r].patch.title,
                    visibility |-> "public", archived |-> FALSE]]
              /\ req' = [req EXCEPT ![r].pc = "ok"]
  /\ UNCHANGED counters

(***************************************************************************)
(* UpdateCart and DeleteCart: GetCartByID and the owner check, then one    *)
(* UPDATE by id that does not look at archived_at again.                   *)
(***************************************************************************)
Admit(r, u, c, call) ==
  /\ req[r] = Idle
  /\ c \in Existing
  /\ req' = [req EXCEPT ![r] =
       IF c \in Live /\ row[c].user = u
         THEN [call EXCEPT !.user = u, !.cart = c, !.read = row[c]]
         ELSE [Idle EXCEPT !.pc = "refused"]]
  /\ UNCHANGED <<row, counters>>

StartUpdate(r, u, c) ==
  \E p \in Patches : Admit(r, u, c, [Idle EXCEPT !.pc = "update", !.patch = p])

StartDelete(r, u, c) == Admit(r, u, c, [Idle EXCEPT !.pc = "archive"])

\* Mutants: nil pointers are written; visibility is not seeded.
ParamsUnseeded(old, p) == p
ParamsVisibilityUnseeded(old, p) ==
  [title |-> IF p.title # None THEN p.title ELSE old.title,
   visibility |-> IF p.visibility # None THEN p.visibility ELSE "public"]

\* params of the UPDATE: the patch over the row that was read.
Params(old, p) ==
  [title |-> IF p.title # None THEN p.title ELSE old.title,
   visibility |-> IF p.visibility # None THEN p.visibility ELSE old.visibility]

Updated(now, old, p) ==
  [now EXCEPT !.title = Params(old, p).title, !.visibility = Params(old, p).visibility]

UpdateCart(r) ==
  LET c == req[r].cart IN
  /\ req[r].pc = "update"
  /\ Write(r, c, Updated(row[c], req[r].read, req[r].patch))

ArchiveCart(r) ==
  LET c == req[r].cart IN
  /\ req[r].pc = "archive"
  /\ Write(r, c, [row[c] EXCEPT !.archived = TRUE])

(***************************************************************************)
(* GetPublicCart: GetCartBySlug, the visibility gate, then the reads of    *)
(* the items and of the owner, and the view bump for other viewers.        *)
(***************************************************************************)
\* Mutant: GetCartBySlug without the gate.
MayViewAll(u, cart) == TRUE

MayView(u, cart) == cart.visibility = "public" \/ u = cart.user

Viewing(c) == {r \in Requests : req[r].pc \in {"items", "served"} /\ req[r].cart = c}

StartView(r, u, s) ==
  /\ req[r] = Idle
  /\ \A c \in Carts : row[c].slug = s => shown[c] + Cardinality(Viewing(c)) < MaxShown
  /\ \/ /\ \A c \in Live : row[c].slug = s => ~MayView(u, row[c])
        /\ req' = [req EXCEPT ![r] = [Idle EXCEPT !.pc = "refused"]]
     \/ \E c \in Live :
          /\ row[c].slug = s /\ MayView(u, row[c])
          /\ req' = [req EXCEPT ![r] =
               [Idle EXCEPT !.pc = "items", !.user = u, !.cart = c, !.read = row[c]]]
  /\ UNCHANGED <<row, counters>>

\* The viewer is somebody else than the owner of the row that was read.
Visiting(r) == req[r].user # req[r].read.user

\* Mutant: the bump is for the owner's views.
ReadPageBumpsOwner(r) ==
  /\ req[r].pc = "items"
  /\ req' = [req EXCEPT ![r].pc = "served"]
  /\ bumps' = [bumps EXCEPT ![req[r].cart] = IF Visiting(r) THEN @ ELSE @ + 1]
  /\ UNCHANGED <<row, views, shown, lost>>

ReadPage(r) ==
  /\ req[r].pc = "items"
  /\ req' = [req EXCEPT ![r].pc = "served"]
  /\ bumps' = [bumps EXCEPT ![req[r].cart] = IF Visiting(r) THEN @ + 1 ELSE @]
  /\ UNCHANGED <<row, views, shown, lost>>

Serve(r) ==
  /\ req[r].pc = "served"
  /\ req' = [req EXCEPT ![r] = Idle]
  /\ shown' = [shown EXCEPT ![req[r].cart] = IF Visiting(r) THEN @ + 1 ELSE @]
  /\ UNCHANGED <<row, bumps, views, lost>>

\* The goroutine's upsert on its own background context; its error is dropped.
BumpCartViewsDaily(c) ==
  /\ bumps[c] > 0
  /\ bumps' = [bumps EXCEPT ![c] = @ - 1]
  /\ \/ views' = [views EXCEPT ![c] = @ + 1] /\ UNCHANGED lost
     \/ Faults /\ lost' = [lost EXCEPT ![c] = @ + 1] /\ UNCHANGED views
  /\ UNCHANGED <<row, req, shown>>
-----------------------------------------------------------------------------
Respond(r) ==
  /\ req[r].pc \in {"ok", "refused", "failed"}
  /\ req' = [req EXCEPT ![r] = Idle]
  /\ UNCHANGED <<row, counters>>

\* A query fails, or its context is cancelled: the rest of the method is skipped.
Abort(r) ==
  /\ Faults
  /\ req[r].pc \in {"create", "update", "archive", "items"}
  /\ req' = [req EXCEPT ![r].pc = "failed"]
  /\ UNCHANGED <<row, counters>>

\* Pages on their way to someone else than the owner.
Visits(c) == {r \in Requests : req[r].pc = "served" /\ req[r].cart = c /\ Visiting(r)}

\* The process dies; Shutdown at its end does not wait for the goroutines either.
Crash ==
  /\ Faults
  /\ req' = [r \in Requests |-> Idle]
  /\ shown' = [c \in Carts |-> shown[c] + Cardinality(Visits(c))]
  /\ lost' = [c \in Carts |-> lost[c] + bumps[c]]
  /\ bumps' = [c \in Carts |-> 0]
  /\ UNCHANGED <<row, views>>

Call(r) ==
  \/ \E u \in Users, t \in Titles : StartCreate(r, u, t)
  \/ \E u \in Users, c \in Carts : StartUpdate(r, u, c) \/ StartDelete(r, u, c)
  \/ \E u \in Users \cup {None}, s \in Slugs : StartView(r, u, s)

Progress(r) ==
  \/ \E s \in Slugs : CreateCart(r, s)
  \/ UpdateCart(r) \/ ArchiveCart(r)
  \/ ReadPage(r) \/ Serve(r)
  \/ Respond(r)

Next ==
  \/ \E r \in Requests : Call(r) \/ Progress(r) \/ Abort(r)
  \/ \E c \in Carts : BumpCartViewsDaily(c)
  \/ Crash

Spec == Init /\ [][Next]_vars

\* The goroutines of the handlers and of the bumps are scheduled fairly.
Fairness ==
  /\ \A r \in Requests : WF_vars(Progress(r))
  /\ \A c \in Carts : WF_vars(BumpCartViewsDaily(c))

FairSpec == Spec /\ Fairness
-----------------------------------------------------------------------------
\* The rows and the requests have their types; a request that is to write or
\* to read a cart holds the row it read of it, and no two carts share a slug.
TypeOK ==
  /\ row \in [Carts -> RowRecord \cup {NoRow}]
  /\ req \in [Requests -> RequestRecord]
  /\ \A v \in {bumps, views, shown, lost} : v \in [Carts -> Nat]
  /\ \A r \in Requests : req[r].pc \in {"update", "archive", "items", "served"} =>
       /\ req[r].cart \in Existing
       /\ req[r].read.user = row[req[r].cart].user
       /\ req[r].read.slug = row[req[r].cart].slug
  /\ \A c, d \in Existing : row[c].slug = row[d].slug => c = d

\* UpdateCart writes back columns it read in an earlier statement.  When nobody
\* wrote the row in between, what changes is what the patch says and nothing else.
UnracedUpdateIsThePatch ==
  [][\A r \in Requests :
       req[r].pc = "update" /\ req'[r].pc = "ok" /\ ~req[r].raced =>
         LET c == req[r].cart  p == req[r].patch IN
         row' = [row EXCEPT
           ![c].title = IF p.title = None THEN @ ELSE p.title,
           ![c].visibility = IF p.visibility = None THEN @ ELSE p.visibility]]_vars

\* Nothing in flight can show the cart to someone else than its owner: it is
\* deleted or private, no admitted update is about to write "public", and no
\* visitor is past the gate of GetPublicCart.
Sealed(c) ==
  /\ c \in Existing
  /\ \/ row[c].archived
     \/ /\ row[c].visibility = "private"
        /\ \A r \in Requests : req[r].pc = "update" /\ req[r].cart = c =>
             Params(req[r].read, req[r].patch).visibility = "private"
  /\ \A r \in Requests :
       req[r].pc \in {"items", "served"} /\ req[r].cart = c => ~Visiting(r)

Publishes(r, c) ==
  /\ req[r].pc = "idle" /\ req'[r].pc = "update"
  /\ req'[r].cart = c /\ req'[r].patch.visibility = "public"

\* A sealed cart is shown to no visitor until its owner sends a PATCH that says
\* "public"; a deleted cart never again.  The gate of GetPublicCart, the check of
\* GetCartByID and the columns UpdateCart leaves alone hold this together.
SealedUntilPublished ==
  [][\A c \in Carts : Sealed(c) =>
       \/ Sealed(c)' /\ shown'[c] = shown[c]
       \/ ~row[c].archived /\ \E r \in Requests : Publishes(r, c)]_vars

\* Every page sent to a visitor has been counted, will be, or was lost with a
\* failed bump; pages sent to the owner are in none of these numbers.
ViewsAreVisits ==
  \A c \in Carts :
    views[c] + bumps[c] + lost[c] = shown[c] + Cardinality(Visits(c))

\* The counter catches up with the pages sent, though no handler waits for it.
ViewsCatchUp ==
  \A c \in Carts, n \in 1..MaxShown : shown[c] >= n ~> views[c] + lost[c] >= n

\* CreateCart answers: with a cart, or with an error after MaxAttempts taken slugs.
CreateAnswers == \A r \in Requests : req[r].pc = "create" ~> req[r].pc # "create"
=============================================================================
