-------------------------- MODULE CartAccess_proofs --------------------------
(***************************************************************************)
(* Proofs about the cart rows and their public pages (module CartAccess),  *)
(* for any accounts, carts, slugs and texts, and any finite number of      *)
(* requests at the same time.                                              *)
(***************************************************************************)
EXTENDS CartAccess, FiniteSetTheorems, TLAPS

Admitted == {"update", "archive", "items", "served"}

\* A creation knows whose cart it makes, and has an attempt left.
CreatesAreOpen ==
  \A r \in Requests : req[r].pc = "create" =>
    /\ req[r].user \in Users /\ req[r].patch.title \in Titles
    /\ req[r].tries < MaxAttempts

\* An update that nobody raced holds the row as it is.
UnracedIsFresh ==
  \A r \in Requests : req[r].pc = "update" /\ ~req[r].raced => req[r].read = row[req[r].cart]

AccessInv == TypeOK /\ CreatesAreOpen /\ UnracedIsFresh
-----------------------------------------------------------------------------
\* The types, apart from the rest of TypeOK.
LEMMA Types ==
  ASSUME TypeOK
  PROVE  /\ row \in [Carts -> RowRecord \cup {NoRow}]
         /\ req \in [Requests -> RequestRecord]
         /\ bumps \in [Carts -> Nat] /\ views \in [Carts -> Nat]
         /\ shown \in [Carts -> Nat] /\ lost \in [Carts -> Nat]
BY DEF TypeOK

\* An existing cart has an owner, and a row with an owner exists.
LEMMA RowsExist ==
  /\ \A x \in RowRecord : x # NoRow
  /\ TypeOK => \A c \in Existing : c \in Carts /\ row[c] \in RowRecord
<1>1. \A x \in RowRecord : x # NoRow
  <2> SUFFICES ASSUME NEW x \in RowRecord, x = NoRow PROVE FALSE
    OBVIOUS
  <2>1. x.user \in Users /\ NoRow.user = None
    BY DEF RowRecord, NoRow
  <2> QED
    BY <2>1, ConstantsAssumption
<1>2. TypeOK => \A c \in Existing : c \in Carts /\ row[c] \in RowRecord
  BY DEF TypeOK, Existing
<1> QED
  BY <1>1, <1>2

\* An admitted request has read a row of a cart.
LEMMA AdmittedHasRead ==
  ASSUME TypeOK, NEW r \in Requests, req[r].pc \in Admitted
  PROVE  /\ req[r].cart \in Existing /\ req[r].cart \in Carts
         /\ row[req[r].cart] \in RowRecord /\ req[r].read \in RowRecord
         /\ req[r].read.user = row[req[r].cart].user /\ req[r].read.slug = row[req[r].cart].slug
<1>1. /\ req[r].cart \in Existing
      /\ req[r].read.user = row[req[r].cart].user /\ req[r].read.slug = row[req[r].cart].slug
  BY DEF TypeOK, Admitted
<1>2. req[r].cart \in Carts /\ row[req[r].cart] \in RowRecord
  BY <1>1, RowsExist
<1>3. req[r].read \in RowRecord \cup {NoRow}
  BY Types DEF RequestRecord
<1>4. req[r].read.user \in Users
  BY <1>1, <1>2 DEF RowRecord
<1>5. NoRow.user = None
  BY DEF NoRow
<1> QED
  BY <1>1, <1>2, <1>3, <1>4, <1>5, ConstantsAssumption

\* A request that is free, or answered at once, has the type of a request.
LEMMA IdleRequests ==
  /\ Idle \in RequestRecord /\ Idle.pc = "idle"
  /\ \A pc \in PCs : [Idle EXCEPT !.pc = pc] \in RequestRecord /\ [Idle EXCEPT !.pc = pc].pc = pc
<1>1. NoPatch \in Patches
  BY DEF NoPatch, Patches
<1>2. 0 \in 0 .. MaxAttempts
  BY ConstantsAssumption
<1>3. Idle \in RequestRecord /\ Idle.pc = "idle"
  BY <1>1, <1>2 DEF Idle, RequestRecord, PCs
<1>4. \A pc \in PCs : [Idle EXCEPT !.pc = pc] \in RequestRecord /\ [Idle EXCEPT !.pc = pc].pc = pc
  BY <1>3 DEF RequestRecord
<1> QED
  BY <1>3, <1>4

\* A step that leaves the rows alone and one request in a state of which AccessInv asks
\* what this lemma's assumptions say, keeps AccessInv.
LEMMA RequestStep ==
  ASSUME AccessInv, NEW r \in Requests, NEW new \in RequestRecord,
         req' = [req EXCEPT ![r] = new], row' = row,
         bumps' \in [Carts -> Nat], views' \in [Carts -> Nat],
         shown' \in [Carts -> Nat], lost' \in [Carts -> Nat],
         new.pc \in Admitted =>
           /\ new.cart \in Existing
           /\ new.read.user = row[new.cart].user /\ new.read.slug = row[new.cart].slug,
         new.pc = "create" => new.user \in Users /\ new.patch.title \in Titles /\ new.tries < MaxAttempts,
         new.pc = "update" /\ ~new.raced => new.read = row[new.cart]
  PROVE  AccessInv'
<1>1. TypeOK
  BY DEF AccessInv
<1>2. /\ req' \in [Requests -> RequestRecord] /\ req'[r] = new
      /\ \A q \in Requests : q # r => req'[q] = req[q]
  BY <1>1, Types
<1>3. Existing' = Existing
  BY DEF Existing
<1>4. TypeOK'
  BY <1>1, <1>2, <1>3, Types DEF TypeOK, Admitted
<1>5. CreatesAreOpen' /\ UnracedIsFresh'
  BY <1>2 DEF AccessInv, CreatesAreOpen, UnracedIsFresh
<1> QED
  BY <1>4, <1>5 DEF AccessInv

\* A request ends, or its answer is given.
LEMMA RequestEnds ==
  ASSUME AccessInv, NEW r \in Requests, NEW new \in RequestRecord,
         new.pc \in {"idle", "ok", "refused", "failed"},
         req' = [req EXCEPT ![r] = new], row' = row,
         bumps' \in [Carts -> Nat], views' \in [Carts -> Nat],
         shown' \in [Carts -> Nat], lost' \in [Carts -> Nat]
  PROVE  AccessInv'
BY RequestStep DEF Admitted

\* No cart and no request yet.
LEMMA AccessInvInitially == Init => AccessInv
<1> SUFFICES ASSUME Init PROVE AccessInv
  OBVIOUS
<1>1. req \in [Requests -> RequestRecord] /\ \A r \in Requests : req[r].pc = "idle"
  BY IdleRequests DEF Init
<1>2. row \in [Carts -> RowRecord \cup {NoRow}] /\ Existing = {}
  BY DEF Init, Existing
<1>3. TypeOK
  BY <1>1, <1>2 DEF Init, TypeOK
<1> QED
  BY <1>1, <1>3 DEF AccessInv, CreatesAreOpen, UnracedIsFresh
-----------------------------------------------------------------------------
\* A creation begins with all its attempts.
LEMMA StartCreateInv ==
  ASSUME AccessInv, NEW r \in Requests, NEW u \in Users, NEW t \in Titles, StartCreate(r, u, t)
  PROVE  AccessInv'
<1> DEFINE asked == [NoPatch EXCEPT !.title = t]
           new == [[[Idle EXCEPT !.pc = "create"] EXCEPT !.user = u] EXCEPT !.patch = asked]
<1>1. asked \in Patches /\ asked.title = t
  BY DEF NoPatch, Patches
<1>2. req' = [req EXCEPT ![r] = new] /\ row' = row
  BY DEF StartCreate, Idle
<1>3. bumps' = bumps /\ views' = views /\ shown' = shown /\ lost' = lost
  BY DEF StartCreate, counters
<1> HIDE DEF asked
<1>4. Idle \in RequestRecord /\ Idle.tries = 0
  BY IdleRequests DEF Idle
<1>5. new \in RequestRecord /\ new.pc = "create" /\ new.user = u /\ new.patch = asked /\ new.tries = 0
  BY <1>1, <1>4 DEF RequestRecord, PCs
<1> HIDE DEF new
<1>6. TypeOK /\ 0 < MaxAttempts
  BY ConstantsAssumption DEF AccessInv
<1>7. new.pc \notin Admitted /\ new.pc # "update"
  BY <1>5 DEF Admitted
<1> QED
  BY <1>1, <1>2, <1>3, <1>5, <1>6, <1>7, RequestStep, Types

\* A row is created under a slug that no other cart has.
LEMMA CreateCartInv ==
  ASSUME AccessInv, NEW r \in Requests, NEW s \in Slugs, CreateCart(r, s)
  PROVE  AccessInv'
<1>1. /\ TypeOK /\ req[r] \in RequestRecord /\ req[r].pc = "create"
      /\ req[r].user \in Users /\ req[r].patch.title \in Titles
      /\ req[r].tries \in 0 .. MaxAttempts /\ req[r].tries < MaxAttempts
  BY Types DEF AccessInv, CreatesAreOpen, CreateCart, RequestRecord
<1>2. UNCHANGED counters
  BY DEF CreateCart
<1>3. CASE SlugTaken(s)
  <2> DEFINE pc == IF req[r].tries + 1 = MaxAttempts THEN "failed" ELSE req[r].pc
             new == [[req[r] EXCEPT !.tries = req[r].tries + 1] EXCEPT !.pc = pc]
  <2>1. req' = [req EXCEPT ![r] = new] /\ row' = row
    BY <1>1, <1>3, Types DEF CreateCart
  <2>2. req[r].tries + 1 \in 0 .. MaxAttempts /\ pc \in {"failed", "create"}
        /\ (pc = "create" => req[r].tries + 1 < MaxAttempts)
    BY <1>1, ConstantsAssumption
  <2> HIDE DEF pc
  <2>3. /\ new \in RequestRecord /\ new.pc = pc /\ new.tries = req[r].tries + 1
        /\ new.user = req[r].user /\ new.patch = req[r].patch
    BY <1>1, <2>2 DEF RequestRecord, PCs
  <2> HIDE DEF new
  <2> QED
    BY <1>1, <1>2, <2>1, <2>2, <2>3, RequestStep, Types DEF counters, Admitted
<1>4. CASE ~SlugTaken(s)
  <2> DEFINE made == [user |-> req[r].user, slug |-> s, title |-> req[r].patch.title,
                      visibility |-> "public", archived |-> FALSE]
             new == [req[r] EXCEPT !.pc = "ok"]
  <2>1. PICK c \in Carts \ Existing : row' = [row EXCEPT ![c] = made]
    BY <1>4 DEF CreateCart
  <2>2. req' = [req EXCEPT ![r] = new]
    BY <1>4 DEF CreateCart
  <2>3. made \in RowRecord /\ made.slug = s
    BY <1>1 DEF RowRecord, Visibilities
  <2>4. new \in RequestRecord /\ new.pc = "ok"
    BY <1>1 DEF RequestRecord, PCs
  <2> HIDE DEF made, new
  <2>5. /\ row' \in [Carts -> RowRecord \cup {NoRow}] /\ row'[c] = made
        /\ \A d \in Carts : d # c => row'[d] = row[d]
    BY <1>1, <2>1, <2>3, Types
  <2>6. /\ req' \in [Requests -> RequestRecord] /\ req'[r].pc = "ok"
        /\ \A q \in Requests : q # r => req'[q] = req[q]
    BY <1>1, <2>2, <2>4, Types
  <2>7. Existing' = Existing \cup {c}
    BY <2>3, <2>5, RowsExist DEF Existing
  <2>8. \A q \in Requests : req[q].pc \in Admitted => req[q].cart \in Existing /\ req[q].cart # c
    BY <1>1, <2>1, AdmittedHasRead
  <2>9. \A d, e \in Existing' : row'[d].slug = row'[e].slug => d = e
    BY <1>1, <1>4, <2>3, <2>5, <2>7 DEF TypeOK, SlugTaken, Existing
  <2>10. \A q \in Requests : req'[q].pc \in Admitted =>
           /\ req'[q].cart \in Existing'
           /\ req'[q].read.user = row'[req'[q].cart].user /\ req'[q].read.slug = row'[req'[q].cart].slug
    <3> SUFFICES ASSUME NEW q \in Requests, req'[q].pc \in Admitted
                 PROVE  /\ req'[q].cart \in Existing'
                        /\ req'[q].read.user = row'[req'[q].cart].user
                        /\ req'[q].read.slug = row'[req'[q].cart].slug
      OBVIOUS
    <3>1. q # r
      BY <2>6 DEF Admitted
    <3> QED
      BY <1>1, <2>5, <2>6, <2>7, <2>8, <3>1, AdmittedHasRead
  <2>11. TypeOK'
    BY <1>1, <1>2, <2>5, <2>6, <2>9, <2>10, Types DEF TypeOK, counters, Admitted
  <2>12. CreatesAreOpen'
    BY <2>6 DEF AccessInv, CreatesAreOpen
  <2>13. UnracedIsFresh'
    <3> SUFFICES ASSUME NEW q \in Requests, req'[q].pc = "update", ~req'[q].raced
                 PROVE  req'[q].read = row'[req'[q].cart]
      BY DEF UnracedIsFresh
    <3>1. req'[q] = req[q]
      BY <2>6
    <3>2. req[q].cart \in Carts /\ req[q].cart # c
      BY <1>1, <2>8, <3>1, AdmittedHasRead DEF Admitted
    <3> QED
      BY <2>5, <3>1, <3>2 DEF AccessInv, UnracedIsFresh
  <2> QED
    BY <2>11, <2>12, <2>13 DEF AccessInv
<1> QED
  BY <1>3, <1>4

\* GetCartByID lets the owner of a live cart through with its row, and nobody else.
LEMMA AdmitInv ==
  ASSUME AccessInv, NEW r \in Requests, NEW u \in Users, NEW c \in Carts, NEW call \in RequestRecord,
         call.pc \in {"update", "archive"}, Admit(r, u, c, call)
  PROVE  AccessInv'
<1> DEFINE new == [[[call EXCEPT !.user = u] EXCEPT !.cart = c] EXCEPT !.read = row[c]]
           no == [Idle EXCEPT !.pc = "refused"]
<1>1. TypeOK /\ c \in Existing
  BY DEF AccessInv, Admit
<1>2. row[c] \in RowRecord
  BY <1>1, RowsExist
<1>3. row' = row
  BY DEF Admit
<1>4. bumps' = bumps /\ views' = views /\ shown' = shown /\ lost' = lost
  BY DEF Admit, counters
<1>5. CASE c \in Live /\ row[c].user = u
  <2>1. req' = [req EXCEPT ![r] = new]
    BY <1>5 DEF Admit
  <2>2. /\ new \in RequestRecord /\ new.pc = call.pc /\ new.cart = c /\ new.read = row[c]
    BY <1>2 DEF RequestRecord
  <2> HIDE DEF new
  <2> QED
    BY <1>1, <1>3, <1>4, <2>1, <2>2, RequestStep, Types
<1>6. CASE ~(c \in Live /\ row[c].user = u)
  <2>1. req' = [req EXCEPT ![r] = no]
    BY <1>6 DEF Admit
  <2>2. no \in RequestRecord /\ no.pc = "refused"
    BY IdleRequests DEF PCs
  <2> HIDE DEF no
  <2> QED
    BY <1>1, <1>3, <1>4, <2>1, <2>2, RequestEnds, Types
<1> QED
  BY <1>5, <1>6

\* An update is admitted with the row it has read, or refused.
LEMMA StartUpdateInv ==
  ASSUME AccessInv, NEW r \in Requests, NEW u \in Users, NEW c \in Carts, StartUpdate(r, u, c)
  PROVE  AccessInv'
<1>1. PICK p \in Patches : Admit(r, u, c, [Idle EXCEPT !.pc = "update", !.patch = p])
  BY DEF StartUpdate
<1> DEFINE call == [[Idle EXCEPT !.pc = "update"] EXCEPT !.patch = p]
<1>2. call \in RequestRecord /\ call.pc = "update"
  BY IdleRequests DEF RequestRecord, PCs
<1>3. call = [Idle EXCEPT !.pc = "update", !.patch = p]
  OBVIOUS
<1>4. Admit(r, u, c, call)
  BY <1>1, <1>3
<1> HIDE DEF call
<1> QED
  BY <1>2, <1>4, AdmitInv

\* A deletion is admitted for the owner, or refused.
LEMMA StartDeleteInv ==
  ASSUME AccessInv, NEW r \in Requests, NEW u \in Users, NEW c \in Carts, StartDelete(r, u, c)
  PROVE  AccessInv'
<1> DEFINE call == [Idle EXCEPT !.pc = "archive"]
<1>1. call \in RequestRecord /\ call.pc = "archive"
  BY IdleRequests DEF PCs
<1>2. Admit(r, u, c, call)
  BY DEF StartDelete
<1> HIDE DEF call
<1> QED
  BY <1>1, <1>2, AdmitInv

\* An UPDATE of a row keeps its owner and its slug, and marks the updates that read it before.
LEMMA WriteInv ==
  ASSUME AccessInv, NEW r \in Requests, req[r].pc \in {"update", "archive"}, NEW new \in RowRecord,
         new.user = row[req[r].cart].user, new.slug = row[req[r].cart].slug,
         Write(r, req[r].cart, new)
  PROVE  AccessInv'
<1> DEFINE c == req[r].cart
           stale(q) == req[q].raced \/ (req[q].cart = c /\ req[q].pc = "update")
<1>1. TypeOK /\ c \in Carts /\ c \in Existing
  BY AdmittedHasRead DEF AccessInv, Admitted
<1>2. /\ row' \in [Carts -> RowRecord \cup {NoRow}] /\ row'[c] = new
      /\ \A d \in Carts : d # c => row'[d] = row[d]
  BY <1>1, Types DEF Write
<1>3. bumps' = bumps /\ views' = views /\ shown' = shown /\ lost' = lost
  BY DEF Write, counters
<1>4. \A q \in Requests : req[q] \in RequestRecord
  BY <1>1, Types
<1>5. req'[r] = [req[r] EXCEPT !.pc = "ok"]
  BY DEF Write
<1>6. \A q \in Requests : q # r => req'[q] = [req[q] EXCEPT !.raced = stale(q)]
  BY DEF Write
<1>7. req' = [q \in Requests |-> req'[q]]
  BY DEF Write
<1>8. req'[r] \in RequestRecord /\ req'[r].pc = "ok"
  BY <1>4, <1>5 DEF RequestRecord, PCs
<1>9. \A q \in Requests : stale(q) \in BOOLEAN
  BY <1>4 DEF RequestRecord
<1>10. ASSUME NEW q \in Requests, q # r
       PROVE  /\ req'[q] \in RequestRecord
              /\ req'[q].pc = req[q].pc /\ req'[q].cart = req[q].cart /\ req'[q].read = req[q].read
              /\ req'[q].user = req[q].user /\ req'[q].patch = req[q].patch /\ req'[q].tries = req[q].tries
              /\ req'[q].raced = stale(q)
  <2>1. req[q] \in RequestRecord /\ stale(q) \in BOOLEAN /\ req'[q] = [req[q] EXCEPT !.raced = stale(q)]
    BY <1>4, <1>6, <1>9, <1>10
  <2> HIDE DEF stale
  <2> QED
    BY <2>1 DEF RequestRecord
<1>11. req' \in [Requests -> RequestRecord]
  BY <1>7, <1>8, <1>10
<1>12. Existing' = Existing
  BY <1>1, <1>2, RowsExist DEF Existing
<1>13. \A d \in Existing : row'[d].user = row[d].user /\ row'[d].slug = row[d].slug
  BY <1>1, <1>2, RowsExist
<1>14. \A d, e \in Existing' : row'[d].slug = row'[e].slug => d = e
  BY <1>1, <1>12, <1>13 DEF TypeOK
<1>15. \A q \in Requests : req'[q].pc \in Admitted =>
         /\ req'[q].cart \in Existing'
         /\ req'[q].read.user = row'[req'[q].cart].user /\ req'[q].read.slug = row'[req'[q].cart].slug
  <2> SUFFICES ASSUME NEW q \in Requests, req'[q].pc \in Admitted
               PROVE  /\ req'[q].cart \in Existing'
                      /\ req'[q].read.user = row'[req'[q].cart].user
                      /\ req'[q].read.slug = row'[req'[q].cart].slug
    OBVIOUS
  <2>1. q # r
    BY <1>8 DEF Admitted
  <2>2. req'[q].pc = req[q].pc /\ req'[q].cart = req[q].cart /\ req'[q].read = req[q].read
    BY <1>10, <2>1
  <2> QED
    BY <1>1, <1>12, <1>13, <2>2, AdmittedHasRead
<1>16. TypeOK'
  BY <1>1, <1>2, <1>3, <1>11, <1>14, <1>15, Types DEF TypeOK, Admitted
<1>17. CreatesAreOpen'
  BY <1>8, <1>10 DEF AccessInv, CreatesAreOpen
<1>18. UnracedIsFresh'
  <2> SUFFICES ASSUME NEW q \in Requests, req'[q].pc = "update", ~req'[q].raced
               PROVE  req'[q].read = row'[req'[q].cart]
    BY DEF UnracedIsFresh
  <2>1. q # r
    BY <1>8
  <2>2. req[q].pc = "update" /\ req'[q].cart = req[q].cart /\ req'[q].read = req[q].read
    BY <1>10, <2>1
  <2>3. ~stale(q)
    BY <1>10, <2>1
  <2>4. ~req[q].raced /\ req[q].cart # c
    BY <2>2, <2>3
  <2>5. req[q].cart \in Carts /\ req[q].read = row[req[q].cart]
    BY <1>1, <2>2, <2>4, AdmittedHasRead DEF AccessInv, UnracedIsFresh, Admitted
  <2> QED
    BY <1>2, <2>2, <2>4, <2>5
<1> QED
  BY <1>16, <1>17, <1>18 DEF AccessInv

\* UpdateCart changes the title and the visibility of its row.
LEMMA UpdateCartInv ==
  ASSUME AccessInv, NEW r \in Requests, UpdateCart(r)
  PROVE  AccessInv'
<1> DEFINE now == row[req[r].cart]
           params == Params(req[r].read, req[r].patch)
           new == [[now EXCEPT !.title = params.title] EXCEPT !.visibility = params.visibility]
<1>1. TypeOK /\ req[r].pc = "update" /\ req[r] \in RequestRecord
  BY Types DEF AccessInv, UpdateCart
<1>2. now \in RowRecord /\ req[r].read \in RowRecord
  BY <1>1, AdmittedHasRead DEF Admitted
<1>3. req[r].patch \in Patches
  BY <1>1 DEF RequestRecord
<1>4. params.title \in Titles /\ params.visibility \in Visibilities
  BY <1>2, <1>3 DEF Params, Patches, RowRecord
<1>5. Write(r, req[r].cart, new)
  BY DEF UpdateCart, Updated
<1> HIDE DEF params
<1>6. new \in RowRecord /\ new.user = now.user /\ new.slug = now.slug
  BY <1>2, <1>4 DEF RowRecord
<1> HIDE DEF new
<1> QED
  BY <1>1, <1>5, <1>6, WriteInv

\* ArchiveCart sets archived_at of its row.
LEMMA ArchiveCartInv ==
  ASSUME AccessInv, NEW r \in Requests, ArchiveCart(r)
  PROVE  AccessInv'
<1> DEFINE new == [row[req[r].cart] EXCEPT !.archived = TRUE]
<1>1. TypeOK /\ req[r].pc = "archive"
  BY DEF AccessInv, ArchiveCart
<1>2. row[req[r].cart] \in RowRecord
  BY <1>1, AdmittedHasRead DEF Admitted
<1>3. new \in RowRecord /\ new.user = row[req[r].cart].user /\ new.slug = row[req[r].cart].slug
  BY <1>2 DEF RowRecord
<1>4. Write(r, req[r].cart, new)
  BY DEF ArchiveCart
<1> HIDE DEF new
<1> QED
  BY <1>1, <1>3, <1>4, WriteInv

\* A visit passes the gate with the row it has read, or is refused.
LEMMA StartViewInv ==
  ASSUME AccessInv, NEW r \in Requests, NEW u \in Users \cup {None}, NEW s \in Slugs, StartView(r, u, s)
  PROVE  AccessInv'
<1>1. TypeOK /\ row' = row
  BY DEF AccessInv, StartView
<1>2. bumps' = bumps /\ views' = views /\ shown' = shown /\ lost' = lost
  BY DEF StartView, counters
<1>3. CASE req' = [req EXCEPT ![r] = [Idle EXCEPT !.pc = "refused"]]
  <2> DEFINE new == [Idle EXCEPT !.pc = "refused"]
  <2>1. new \in RequestRecord /\ new.pc = "refused"
    BY IdleRequests DEF PCs
  <2>2. req' = [req EXCEPT ![r] = new]
    BY <1>3
  <2> HIDE DEF new
  <2> QED
    BY <1>1, <1>2, <2>1, <2>2, RequestEnds, Types
<1>4. ASSUME NEW c \in Live,
             req' = [req EXCEPT ![r] =
               [Idle EXCEPT !.pc = "items", !.user = u, !.cart = c, !.read = row[c]]]
      PROVE  AccessInv'
  <2> DEFINE new == [[[[Idle EXCEPT !.pc = "items"] EXCEPT !.user = u] EXCEPT !.cart = c] EXCEPT !.read = row[c]]
  <2>1. c \in Existing /\ c \in Carts /\ row[c] \in RowRecord
    BY <1>1, RowsExist DEF Live
  <2>2. new \in RequestRecord /\ new.pc = "items" /\ new.cart = c /\ new.read = row[c]
    BY <2>1, IdleRequests DEF RequestRecord, PCs
  <2>3. req' = [req EXCEPT ![r] = new]
    BY <1>4
  <2> HIDE DEF new
  <2> QED
    BY <1>1, <1>2, <2>1, <2>2, <2>3, RequestStep, Types
<1> QED
  BY <1>3, <1>4 DEF StartView

\* An increment of one counter keeps it a number.
LEMMA Counted ==
  ASSUME NEW f \in [Carts -> Nat], NEW c, NEW n \in {f[c], f[c] + 1}
  PROVE  [f EXCEPT ![c] = n] \in [Carts -> Nat]
<1>1. CASE c \in Carts
  <2>1. n \in Nat
    BY <1>1
  <2> QED
    BY <2>1
<1>2. CASE c \notin Carts
  BY <1>2
<1> QED
  BY <1>1, <1>2

\* A page is read after the gate.
LEMMA ReadPageInv ==
  ASSUME AccessInv, NEW r \in Requests, ReadPage(r)
  PROVE  AccessInv'
<1> DEFINE new == [req[r] EXCEPT !.pc = "served"]
<1>1. TypeOK /\ req[r] \in RequestRecord /\ req[r].pc = "items"
  BY Types DEF AccessInv, ReadPage
<1>2. req' = [req EXCEPT ![r] = new] /\ row' = row /\ views' = views /\ shown' = shown /\ lost' = lost
  BY DEF ReadPage
<1>3. bumps' \in [Carts -> Nat]
  BY <1>1, Types, Counted DEF ReadPage
<1>4. new \in RequestRecord /\ new.pc = "served" /\ new.cart = req[r].cart /\ new.read = req[r].read
  BY <1>1 DEF RequestRecord, PCs
<1> HIDE DEF new
<1>5. /\ req[r].cart \in Existing
      /\ req[r].read.user = row[req[r].cart].user /\ req[r].read.slug = row[req[r].cart].slug
  BY <1>1, AdmittedHasRead DEF Admitted
<1> QED
  BY <1>1, <1>2, <1>3, <1>4, <1>5, RequestStep, Types

\* A page is sent, and its goroutine left behind.
LEMMA ServeInv ==
  ASSUME AccessInv, NEW r \in Requests, Serve(r)
  PROVE  AccessInv'
<1>1. TypeOK
  BY DEF AccessInv
<1>2. req' = [req EXCEPT ![r] = Idle] /\ row' = row /\ bumps' = bumps /\ views' = views /\ lost' = lost
  BY DEF Serve
<1>3. shown' \in [Carts -> Nat]
  BY <1>1, Types, Counted DEF Serve
<1> QED
  BY <1>1, <1>2, <1>3, IdleRequests, RequestEnds, Types

\* An answer frees its request.
LEMMA RespondInv ==
  ASSUME AccessInv, NEW r \in Requests, Respond(r)
  PROVE  AccessInv'
BY IdleRequests, RequestEnds, Types DEF AccessInv, Respond, counters

\* A request that stops leaves the rows as they are.
LEMMA AbortInv ==
  ASSUME AccessInv, NEW r \in Requests, Abort(r)
  PROVE  AccessInv'
<1> DEFINE new == [req[r] EXCEPT !.pc = "failed"]
<1>1. TypeOK /\ req[r] \in RequestRecord
  BY Types DEF AccessInv
<1>2. req' = [req EXCEPT ![r] = new] /\ row' = row
  BY DEF Abort
<1>3. bumps' = bumps /\ views' = views /\ shown' = shown /\ lost' = lost
  BY DEF Abort, counters
<1>4. new \in RequestRecord /\ new.pc = "failed"
  BY <1>1 DEF RequestRecord, PCs
<1> HIDE DEF new
<1> QED
  BY <1>1, <1>2, <1>3, <1>4, RequestEnds, Types

\* A step of no request that leaves the rows alone: a bump of the view counter.
LEMMA BumpInv ==
  ASSUME AccessInv, NEW c \in Carts, BumpCartViewsDaily(c)
  PROVE  AccessInv'
<1>1. TypeOK /\ bumps[c] \in Nat /\ bumps[c] > 0
  BY Types DEF AccessInv, BumpCartViewsDaily
<1>2. row' = row /\ req' = req /\ shown' = shown
  BY DEF BumpCartViewsDaily
<1>3. bumps' \in [Carts -> Nat]
  <2>1. bumps[c] - 1 \in Nat
    BY <1>1
  <2> QED
    BY <1>1, <2>1, Types DEF BumpCartViewsDaily
<1>4. views' \in [Carts -> Nat] /\ lost' \in [Carts -> Nat]
  BY <1>1, Types, Counted DEF BumpCartViewsDaily
<1>5. TypeOK'
  BY <1>1, <1>2, <1>3, <1>4, Types DEF TypeOK, Existing
<1> QED
  BY <1>2, <1>5 DEF AccessInv, CreatesAreOpen, UnracedIsFresh

\* Requests are finitely many, so a crash finds a number of pages under way.
LEMMA VisitsAreFinite ==
  ASSUME NEW c
  PROVE  IsFiniteSet(Visits(c)) /\ Cardinality(Visits(c)) \in Nat
BY ConstantsAssumption, FS_Subset, FS_CardinalityType DEF Visits

\* A crash ends every request and goroutine and leaves the rows as they are.
LEMMA CrashInv ==
  ASSUME AccessInv, Crash
  PROVE  AccessInv'
<1>1. TypeOK /\ row' = row /\ views' = views
  BY DEF AccessInv, Crash
<1>2. req' \in [Requests -> RequestRecord] /\ \A r \in Requests : req'[r].pc = "idle"
  BY IdleRequests DEF Crash
<1>3. bumps' \in [Carts -> Nat]
  BY DEF Crash
<1>4. lost' \in [Carts -> Nat]
  BY <1>1, Types DEF Crash
<1>5. shown' \in [Carts -> Nat]
  BY <1>1, Types, VisitsAreFinite DEF Crash
<1>6. TypeOK'
  BY <1>1, <1>2, <1>3, <1>4, <1>5, Types DEF TypeOK, Existing
<1> QED
  BY <1>2, <1>6 DEF AccessInv, CreatesAreOpen, UnracedIsFresh
-----------------------------------------------------------------------------
\* AccessInv is inductive.
LEMMA AccessInvStep == AccessInv /\ [Next]_vars => AccessInv'
<1> SUFFICES ASSUME AccessInv, [Next]_vars PROVE AccessInv'
  OBVIOUS
<1>1. ASSUME NEW r \in Requests, Call(r) PROVE AccessInv'
  BY <1>1, StartCreateInv, StartUpdateInv, StartDeleteInv, StartViewInv DEF Call
<1>2. ASSUME NEW r \in Requests, Progress(r) PROVE AccessInv'
  BY <1>2, CreateCartInv, UpdateCartInv, ArchiveCartInv, ReadPageInv, ServeInv, RespondInv DEF Progress
<1>3. ASSUME NEW r \in Requests, Abort(r) PROVE AccessInv'
  BY <1>3, AbortInv
<1>4. ASSUME NEW c \in Carts, BumpCartViewsDaily(c) PROVE AccessInv'
  BY <1>4, BumpInv
<1>5. ASSUME Crash PROVE AccessInv'
  BY <1>5, CrashInv
<1>6. ASSUME UNCHANGED vars PROVE AccessInv'
  <2>1. row' = row /\ req' = req /\ bumps' = bumps /\ views' = views /\ shown' = shown /\ lost' = lost
    BY <1>6 DEF vars, counters
  <2> QED
    BY <2>1 DEF AccessInv, TypeOK, CreatesAreOpen, UnracedIsFresh, Existing
<1> QED
  BY <1>1, <1>2, <1>3, <1>4, <1>5, <1>6 DEF Next

\* TypeOK, open creations and fresh unraced updates, together.
THEOREM AccessInvariant == Spec => []AccessInv
BY AccessInvInitially, AccessInvStep, PTL DEF Spec

\* Requests and rows keep their types, a request about to write or to show a cart
\* holds a row with the cart's owner and slug, and slugs are unique.
THEOREM TypeCorrect == Spec => []TypeOK
BY AccessInvariant, PTL DEF AccessInv
-----------------------------------------------------------------------------
\* A write leaves every other request's progress alone.
LEMMA WriteOthers ==
  ASSUME TypeOK, NEW r \in Requests, NEW c, NEW new, Write(r, c, new), NEW q \in Requests, q # r
  PROVE  /\ req'[q].pc = req[q].pc /\ req'[q].cart = req[q].cart /\ req'[q].read = req[q].read
         /\ req'[q].user = req[q].user /\ req'[q].patch = req[q].patch
<1> DEFINE stale == req[q].raced \/ (req[q].cart = c /\ req[q].pc = "update")
<1>1. req[q] \in RequestRecord
  BY Types
<1>2. req'[q] = [req[q] EXCEPT !.raced = stale]
  BY DEF Write
<1> HIDE DEF stale
<1> QED
  BY <1>1, <1>2 DEF RequestRecord

\* An admitted update is done by its UPDATE only.
LEMMA UpdatesEnd ==
  ASSUME TypeOK, Next, NEW r \in Requests, req[r].pc = "update", req'[r].pc = "ok"
  PROVE  UpdateCart(r)
<1>1. req \in [Requests -> RequestRecord] /\ Idle.pc = "idle"
  BY Types, IdleRequests
<1>2. ASSUME NEW q \in Requests, Call(q) PROVE FALSE
  <2>1. req[q] = Idle /\ \E new : req' = [req EXCEPT ![q] = new]
    BY <1>2 DEF Call, StartCreate, StartUpdate, StartDelete, Admit, StartView
  <2> QED
    BY <1>1, <2>1
<1>3. ASSUME NEW q \in Requests, Progress(q), ~UpdateCart(r) PROVE FALSE
  <2>1. CASE UpdateCart(q)
    BY <1>3, <2>1, WriteOthers DEF UpdateCart
  <2>2. CASE ArchiveCart(q)
    BY <2>2, WriteOthers DEF ArchiveCart
  <2>3. ASSUME NEW s \in Slugs, CreateCart(q, s) PROVE FALSE
    <3>1. req[q].pc = "create" /\ \A p \in Requests : p # q => req'[p] = req[p]
      BY <1>1, <2>3 DEF CreateCart
    <3> QED
      BY <3>1
  <2>4. CASE ReadPage(q) \/ Serve(q) \/ Respond(q)
    <3>1. req[q].pc # "update" /\ \A p \in Requests : p # q => req'[p] = req[p]
      BY <1>1, <2>4 DEF ReadPage, Serve, Respond
    <3> QED
      BY <3>1
  <2> QED
    BY <1>3, <2>1, <2>2, <2>3, <2>4 DEF Progress
<1>4. ASSUME NEW q \in Requests, Abort(q) PROVE FALSE
  <2>1. req'[q].pc = "failed" /\ \A p \in Requests : p # q => req'[p] = req[p]
    BY <1>1, <1>4 DEF Abort, RequestRecord
  <2> QED
    BY <2>1
<1>5. ASSUME NEW c \in Carts, BumpCartViewsDaily(c) PROVE FALSE
  BY <1>5 DEF BumpCartViewsDaily
<1>6. ASSUME Crash PROVE FALSE
  BY <1>1, <1>6 DEF Crash
<1> QED
  BY <1>2, <1>3, <1>4, <1>5, <1>6 DEF Next

\* UpdateCart writes back what it read in an earlier statement; unless somebody wrote
\* the row in between, the row changes by what the PATCH says and by nothing else.
THEOREM UnracedUpdatesAreThePatch == Spec => UnracedUpdateIsThePatch
<1> DEFINE Patched ==
      \A r \in Requests :
        req[r].pc = "update" /\ req'[r].pc = "ok" /\ ~req[r].raced =>
          LET c == req[r].cart  p == req[r].patch IN
          row' = [row EXCEPT
            ![c].title = IF p.title = None THEN @ ELSE p.title,
            ![c].visibility = IF p.visibility = None THEN @ ELSE p.visibility]
<1>1. AccessInv /\ [Next]_vars => [Patched]_vars
  <2> SUFFICES ASSUME AccessInv, Next, NEW r \in Requests,
                      req[r].pc = "update", req'[r].pc = "ok", ~req[r].raced
               PROVE  row' = [row EXCEPT
                        ![req[r].cart].title = IF req[r].patch.title = None THEN @ ELSE req[r].patch.title,
                        ![req[r].cart].visibility =
                           IF req[r].patch.visibility = None THEN @ ELSE req[r].patch.visibility]
    OBVIOUS
  <2>1. TypeOK /\ UpdateCart(r)
    BY UpdatesEnd DEF AccessInv
  <2> DEFINE now == row[req[r].cart]
  <2>2. row' = [row EXCEPT ![req[r].cart] = Updated(now, req[r].read, req[r].patch)]
    BY <2>1 DEF UpdateCart, Write
  <2>3. req[r].read = now /\ req[r].cart \in Carts /\ now \in RowRecord
    BY <2>1, AdmittedHasRead DEF AccessInv, UnracedIsFresh, Admitted
  <2>4. row \in [Carts -> RowRecord \cup {NoRow}]
    BY <2>1, Types
  <2> QED
    BY <2>2, <2>3, <2>4 DEF Updated, Params, RowRecord
<1> QED
  BY <1>1, AccessInvariant, PTL DEF Spec, UnracedUpdateIsThePatch
-----------------------------------------------------------------------------
ToVisitor(q, c) == req[q].pc = "served" /\ req[q].cart = c /\ Visiting(q)

\* A step that neither finishes a page nor answers with one changes no visit.
LEMMA SameVisits ==
  ASSUME NEW c, \A q \in Requests : ToVisitor(q, c)' <=> ToVisitor(q, c)
  PROVE  Visits(c)' = Visits(c)
BY DEF Visits, ToVisitor

\* A step that sends no page and counts none.
LEMMA SameCount ==
  ASSUME ViewsAreVisits, \A c \in Carts : \A q \in Requests : ToVisitor(q, c)' <=> ToVisitor(q, c),
         bumps' = bumps, views' = views, shown' = shown, lost' = lost
  PROVE  ViewsAreVisits'
<1>1. \A c \in Carts : Visits(c)' = Visits(c)
  BY SameVisits
<1>2. \A c \in Carts : Cardinality(Visits(c))' = Cardinality(Visits(c))
  BY <1>1
<1> QED
  BY <1>2 DEF ViewsAreVisits

\* A request that neither had nor has a finished page moves; the counters stay.
LEMMA UncountedStep ==
  ASSUME TypeOK, ViewsAreVisits, NEW r \in Requests, req[r].pc # "served", req'[r].pc # "served",
         \A q \in Requests : q # r =>
           /\ req'[q].pc = req[q].pc /\ req'[q].cart = req[q].cart
           /\ req'[q].user = req[q].user /\ req'[q].read = req[q].read,
         UNCHANGED counters
  PROVE  ViewsAreVisits'
<1>1. \A c \in Carts : \A q \in Requests : ToVisitor(q, c)' <=> ToVisitor(q, c)
  <2> SUFFICES ASSUME NEW c \in Carts, NEW q \in Requests PROVE ToVisitor(q, c)' <=> ToVisitor(q, c)
    OBVIOUS
  <2>1. CASE q = r
    BY <2>1 DEF ToVisitor
  <2>2. CASE q # r
    BY <2>2 DEF ToVisitor, Visiting
  <2> QED
    BY <2>1, <2>2
<1>2. bumps' = bumps /\ views' = views /\ shown' = shown /\ lost' = lost
  BY DEF counters
<1> QED
  BY <1>1, <1>2, SameCount

\* A request of which it is known what it becomes.
LEMMA OthersStay ==
  ASSUME TypeOK, NEW r \in Requests, NEW new, req' = [req EXCEPT ![r] = new]
  PROVE  req'[r] = new /\ \A q \in Requests : q # r => req'[q] = req[q]
BY Types

\* A call takes an idle request and leaves rows, counters and other requests alone.
LEMMA CallShape ==
  ASSUME TypeOK, NEW r \in Requests, Call(r)
  PROVE  /\ req[r].pc = "idle" /\ row' = row /\ UNCHANGED counters
         /\ req'[r].pc \in {"create", "update", "archive", "items", "refused"}
         /\ \A q \in Requests : q # r => req'[q] = req[q]
<1> DEFINE Shape == /\ req[r] = Idle /\ row' = row /\ UNCHANGED counters
                    /\ req'[r].pc \in {"create", "update", "archive", "items", "refused"}
                    /\ \A q \in Requests : q # r => req'[q] = req[q]
<1>1. req \in [Requests -> RequestRecord]
  BY Types
<1>2. ASSUME NEW u \in Users, NEW t \in Titles, StartCreate(r, u, t) PROVE Shape
  BY <1>1, <1>2 DEF StartCreate, Idle
<1>3. ASSUME NEW u, NEW c, NEW call, Admit(r, u, c, call), call \in RequestRecord,
             call.pc \in {"update", "archive"}
      PROVE  Shape
  <2> DEFINE admitted == [[[call EXCEPT !.user = u] EXCEPT !.cart = c] EXCEPT !.read = row[c]]
             no == [Idle EXCEPT !.pc = "refused"]
  <2>1. admitted.pc = call.pc /\ no.pc = "refused"
    BY <1>3, IdleRequests DEF RequestRecord, PCs
  <2>2. req' = [req EXCEPT ![r] = admitted] \/ req' = [req EXCEPT ![r] = no]
    BY <1>3 DEF Admit
  <2> HIDE DEF admitted, no
  <2> QED
    BY <1>1, <1>3, <2>1, <2>2 DEF Admit
<1>4. ASSUME NEW u \in Users, NEW c \in Carts, StartUpdate(r, u, c) PROVE Shape
  <2>1. PICK p \in Patches : Admit(r, u, c, [Idle EXCEPT !.pc = "update", !.patch = p])
    BY <1>4 DEF StartUpdate
  <2> DEFINE call == [[Idle EXCEPT !.pc = "update"] EXCEPT !.patch = p]
  <2>2. call \in RequestRecord /\ call.pc = "update"
    BY IdleRequests DEF RequestRecord, PCs
  <2>3. Admit(r, u, c, call)
    BY <2>1
  <2> HIDE DEF call
  <2> QED
    BY <1>3, <2>2, <2>3
<1>5. ASSUME NEW u \in Users, NEW c \in Carts, StartDelete(r, u, c) PROVE Shape
  <2> DEFINE call == [Idle EXCEPT !.pc = "archive"]
  <2>1. call \in RequestRecord /\ call.pc = "archive"
    BY IdleRequests DEF PCs
  <2>2. Admit(r, u, c, call)
    BY <1>5 DEF StartDelete
  <2> HIDE DEF call
  <2> QED
    BY <1>3, <2>1, <2>2
<1>6. ASSUME NEW u, NEW s, StartView(r, u, s) PROVE Shape
  BY <1>1, <1>6 DEF StartView, Idle
<1> HIDE DEF Shape
<1>7. Shape
  BY <1>2, <1>4, <1>5, <1>6 DEF Call
<1> QED
  BY <1>7, IdleRequests DEF Shape

\* The pages under way when a request moves on.
LEMMA ReadPageCount ==
  ASSUME TypeOK, ViewsAreVisits, NEW r \in Requests, ReadPage(r)
  PROVE  ViewsAreVisits'
<1> DEFINE home == req[r].cart
           new == [req[r] EXCEPT !.pc = "served"]
<1>1. req[r] \in RequestRecord /\ req[r].pc = "items" /\ home \in Carts
  BY Types, AdmittedHasRead DEF ReadPage, Admitted
<1>2. views' = views /\ shown' = shown /\ lost' = lost
      /\ bumps' = [bumps EXCEPT ![home] = IF Visiting(r) THEN @ + 1 ELSE @]
  BY DEF ReadPage
<1>3. /\ req'[r] = new /\ \A q \in Requests : q # r => req'[q] = req[q]
  BY OthersStay DEF ReadPage
<1>4. /\ req'[r].pc = "served" /\ req'[r].cart = home
      /\ req'[r].user = req[r].user /\ req'[r].read = req[r].read
  BY <1>1, <1>3 DEF RequestRecord
<1>5. Visiting(r)' <=> Visiting(r)
  BY <1>4 DEF Visiting
<1> HIDE DEF home, new
<1>6. ASSUME NEW c \in Carts PROVE views'[c] + bumps'[c] + lost'[c] = shown'[c] + Cardinality(Visits(c)')
  <2>1. /\ views[c] \in Nat /\ bumps[c] \in Nat /\ lost[c] \in Nat /\ shown[c] \in Nat
        /\ views[c] + bumps[c] + lost[c] = shown[c] + Cardinality(Visits(c))
        /\ Cardinality(Visits(c)) \in Nat /\ IsFiniteSet(Visits(c))
    BY Types, VisitsAreFinite DEF ViewsAreVisits
  <2>2. r \notin Visits(c)
    BY <1>1 DEF Visits
  <2>3. \A q \in Requests : q # r => (ToVisitor(q, c)' <=> ToVisitor(q, c))
    BY <1>3 DEF ToVisitor, Visiting
  <2>4. CASE c = home /\ Visiting(r)
    <3>1. ToVisitor(r, c)'
      BY <1>4, <1>5, <2>4 DEF ToVisitor
    <3>2. Visits(c)' = Visits(c) \cup {r}
      BY <2>2, <2>3, <3>1 DEF Visits, ToVisitor
    <3>3. Cardinality(Visits(c)') = Cardinality(Visits(c)) + 1
      BY <2>1, <2>2, <3>2, FS_AddElement
    <3>4. bumps'[c] = bumps[c] + 1
      BY <1>1, <1>2, <2>4, Types
    <3>5. views'[c] = views[c] /\ lost'[c] = lost[c] /\ shown'[c] = shown[c]
      BY <1>2
    <3> QED
      BY <2>1, <3>3, <3>4, <3>5
  <2>5. CASE ~(c = home /\ Visiting(r))
    <3>1. ~ToVisitor(r, c)' /\ ~ToVisitor(r, c)
      BY <1>1, <1>4, <1>5, <2>5 DEF ToVisitor
    <3>2. Visits(c)' = Visits(c)
      BY <2>3, <3>1, SameVisits
    <3>3. bumps'[c] = bumps[c]
      BY <1>1, <1>2, <2>5, Types
    <3> QED
      BY <1>2, <2>1, <3>2, <3>3
  <2> QED
    BY <2>4, <2>5
<1> QED
  BY <1>6 DEF ViewsAreVisits

\* A page that is sent is a visit, and one to count.
LEMMA ServeCount ==
  ASSUME TypeOK, ViewsAreVisits, NEW r \in Requests, Serve(r)
  PROVE  ViewsAreVisits'
<1> DEFINE home == req[r].cart
<1>1. req[r].pc = "served" /\ home \in Carts
  BY AdmittedHasRead DEF Serve, Admitted
<1>2. views' = views /\ bumps' = bumps /\ lost' = lost
      /\ shown' = [shown EXCEPT ![home] = IF Visiting(r) THEN @ + 1 ELSE @]
  BY DEF Serve
<1>3. /\ req'[r] = Idle /\ \A q \in Requests : q # r => req'[q] = req[q]
  BY OthersStay DEF Serve
<1> HIDE DEF home
<1>4. ASSUME NEW c \in Carts PROVE views'[c] + bumps'[c] + lost'[c] = shown'[c] + Cardinality(Visits(c)')
  <2>1. /\ views[c] \in Nat /\ bumps[c] \in Nat /\ lost[c] \in Nat /\ shown[c] \in Nat
        /\ views[c] + bumps[c] + lost[c] = shown[c] + Cardinality(Visits(c))
        /\ Cardinality(Visits(c)) \in Nat /\ IsFiniteSet(Visits(c))
    BY Types, VisitsAreFinite DEF ViewsAreVisits
  <2>2. ~ToVisitor(r, c)'
    BY <1>3, IdleRequests DEF ToVisitor
  <2>3. \A q \in Requests : q # r => (ToVisitor(q, c)' <=> ToVisitor(q, c))
    BY <1>3 DEF ToVisitor, Visiting
  <2>4. CASE c = home /\ Visiting(r)
    <3>1. r \in Visits(c)
      BY <1>1, <2>4 DEF Visits, home
    <3>2. Visits(c)' = Visits(c) \ {r}
      BY <2>2, <2>3 DEF Visits, ToVisitor
    <3>3. Cardinality(Visits(c)') = Cardinality(Visits(c)) - 1
      BY <2>1, <3>1, <3>2, FS_RemoveElement
    <3>4. shown'[c] = shown[c] + 1
      BY <1>1, <1>2, <2>4, Types
    <3> QED
      BY <1>2, <2>1, <3>3, <3>4
  <2>5. CASE ~(c = home /\ Visiting(r))
    <3>1. ~ToVisitor(r, c)
      BY <2>5 DEF ToVisitor, home
    <3>2. Visits(c)' = Visits(c)
      BY <2>2, <2>3, <3>1, SameVisits
    <3>3. shown'[c] = shown[c]
      BY <1>1, <1>2, <2>5, Types
    <3> QED
      BY <1>2, <2>1, <3>2, <3>3
  <2> QED
    BY <2>4, <2>5
<1> QED
  BY <1>4 DEF ViewsAreVisits

\* A visit is counted, or lost with the statement that failed.
LEMMA BumpCount ==
  ASSUME TypeOK, ViewsAreVisits, NEW d \in Carts, BumpCartViewsDaily(d)
  PROVE  ViewsAreVisits'
<1>1. req' = req /\ shown' = shown /\ bumps' = [bumps EXCEPT ![d] = bumps[d] - 1]
  BY DEF BumpCartViewsDaily
<1>2. \A c \in Carts : Visits(c)' = Visits(c)
  BY <1>1 DEF Visits, Visiting
<1>3. ASSUME NEW c \in Carts PROVE views'[c] + bumps'[c] + lost'[c] = shown'[c] + Cardinality(Visits(c)')
  <2>1. /\ views[c] \in Nat /\ bumps[c] \in Nat /\ lost[c] \in Nat /\ shown[c] \in Nat
        /\ views[c] + bumps[c] + lost[c] = shown[c] + Cardinality(Visits(c))
        /\ Cardinality(Visits(c)) \in Nat
    BY Types, VisitsAreFinite DEF ViewsAreVisits
  <2>2. CASE c # d
    <3>1. views'[c] = views[c] /\ lost'[c] = lost[c] /\ bumps'[c] = bumps[c]
      BY <1>1, <2>2, Types DEF BumpCartViewsDaily
    <3> QED
      BY <1>1, <1>2, <2>1, <3>1
  <2>3. CASE c = d
    <3>1. bumps'[c] = bumps[c] - 1
      BY <1>1, <2>3, Types
    <3>2. \/ views'[c] = views[c] + 1 /\ lost'[c] = lost[c]
          \/ views'[c] = views[c] /\ lost'[c] = lost[c] + 1
      BY <2>3, Types DEF BumpCartViewsDaily
    <3> QED
      BY <1>1, <1>2, <2>1, <3>1, <3>2
  <2> QED
    BY <2>2, <2>3
<1> QED
  BY <1>3 DEF ViewsAreVisits

\* The visits whose goroutines die are lost.
LEMMA CrashCount ==
  ASSUME TypeOK, ViewsAreVisits, Crash
  PROVE  ViewsAreVisits'
<1>1. \A q \in Requests : req'[q].pc = "idle"
  BY IdleRequests DEF Crash
<1>2. ASSUME NEW c \in Carts PROVE views'[c] + bumps'[c] + lost'[c] = shown'[c] + Cardinality(Visits(c)')
  <2>1. /\ views[c] \in Nat /\ bumps[c] \in Nat /\ lost[c] \in Nat /\ shown[c] \in Nat
        /\ views[c] + bumps[c] + lost[c] = shown[c] + Cardinality(Visits(c))
        /\ Cardinality(Visits(c)) \in Nat
    BY Types, VisitsAreFinite DEF ViewsAreVisits
  <2>2. Visits(c)' = {} /\ Cardinality({}) = 0
    BY <1>1, FS_EmptySet DEF Visits
  <2>3. /\ views'[c] = views[c] /\ bumps'[c] = 0 /\ lost'[c] = lost[c] + bumps[c]
        /\ shown'[c] = shown[c] + Cardinality(Visits(c))
    BY DEF Crash
  <2> QED
    BY <2>1, <2>2, <2>3
<1> QED
  BY <1>2 DEF ViewsAreVisits

\* The visits add up after every step.
LEMMA CountStep ==
  ASSUME AccessInv, ViewsAreVisits, [Next]_vars
  PROVE  ViewsAreVisits'
<1>1. TypeOK /\ req \in [Requests -> RequestRecord]
  BY Types DEF AccessInv
<1>2. ASSUME NEW r \in Requests, Call(r) PROVE ViewsAreVisits'
  <2>1. req[r].pc # "served" /\ req'[r].pc # "served" /\ UNCHANGED counters
    BY <1>1, <1>2, CallShape
  <2>2. \A q \in Requests : q # r => req'[q] = req[q]
    BY <1>1, <1>2, CallShape
  <2> QED
    BY <1>1, <2>1, <2>2, UncountedStep
<1>3. ASSUME NEW r \in Requests, NEW s \in Slugs, CreateCart(r, s) PROVE ViewsAreVisits'
  <2>1. req[r].pc = "create" /\ UNCHANGED counters /\ \A q \in Requests : q # r => req'[q] = req[q]
    BY <1>1, <1>3 DEF CreateCart
  <2>2. req'[r].pc # "served"
    BY <1>1, <1>3, <2>1 DEF CreateCart, RequestRecord
  <2> QED
    BY <1>1, <2>1, <2>2, UncountedStep
<1>4. ASSUME NEW r \in Requests, NEW c, NEW new, Write(r, c, new), req[r].pc \in {"update", "archive"}
      PROVE  ViewsAreVisits'
  <2>1. req'[r].pc = "ok" /\ UNCHANGED counters
    BY <1>1, <1>4 DEF Write, RequestRecord
  <2> QED
    BY <1>1, <1>4, <2>1, WriteOthers, UncountedStep
<1>5. ASSUME NEW r \in Requests, UpdateCart(r) \/ ArchiveCart(r) PROVE ViewsAreVisits'
  BY <1>4, <1>5 DEF UpdateCart, ArchiveCart
<1>6. ASSUME NEW r \in Requests, Respond(r) \/ Abort(r) PROVE ViewsAreVisits'
  <2>1. req[r].pc # "served" /\ UNCHANGED counters /\ \A q \in Requests : q # r => req'[q] = req[q]
    BY <1>1, <1>6 DEF Respond, Abort
  <2>2. req'[r].pc # "served"
    BY <1>1, <1>6, IdleRequests DEF Respond, Abort, RequestRecord
  <2> QED
    BY <1>1, <2>1, <2>2, UncountedStep
<1>7. ASSUME NEW r \in Requests, Progress(r) PROVE ViewsAreVisits'
  BY <1>1, <1>3, <1>5, <1>6, <1>7, ReadPageCount, ServeCount DEF Progress
<1>8. ASSUME UNCHANGED vars PROVE ViewsAreVisits'
  <2>1. req' = req /\ bumps' = bumps /\ views' = views /\ shown' = shown /\ lost' = lost
    BY <1>8 DEF vars, counters
  <2> QED
    BY <2>1, SameCount DEF ToVisitor, Visiting
<1> QED
  BY <1>1, <1>2, <1>6, <1>7, <1>8, BumpCount, CrashCount DEF Next

\* No visit yet.
LEMMA CountInitially == Init => ViewsAreVisits
<1> SUFFICES ASSUME Init, NEW c \in Carts
             PROVE  views[c] + bumps[c] + lost[c] = shown[c] + Cardinality(Visits(c))
  BY DEF ViewsAreVisits
<1>1. Visits(c) = {} /\ Cardinality({}) = 0
  BY IdleRequests, FS_EmptySet DEF Init, Visits
<1>2. views[c] = 0 /\ bumps[c] = 0 /\ lost[c] = 0 /\ shown[c] = 0
  BY DEF Init
<1> QED
  BY <1>1, <1>2

\* Every page sent to a visitor is counted once, or is lost with a failed bump, and the
\* owner's own visits are in none of the numbers; whatever fails or dies in between.
THEOREM ViewsCountVisits == Spec => []ViewsAreVisits
<1>1. AccessInv /\ ViewsAreVisits /\ [Next]_vars => ViewsAreVisits'
  BY CountStep
<1> QED
  BY <1>1, CountInitially, AccessInvariant, PTL DEF Spec
-----------------------------------------------------------------------------
Showing(q, c) == req[q].pc \in {"items", "served"} /\ req[q].cart = c

\* What a step has to keep for a sealed cart to stay sealed, its row untouched.
LEMMA SealedKept ==
  ASSUME NEW c \in Carts, Sealed(c), row'[c] = row[c],
         \A q \in Requests : req'[q].pc = "update" /\ req'[q].cart = c =>
           \/ row[c].archived
           \/ Params(req'[q].read, req'[q].patch).visibility = "private"
           \/ /\ req[q].pc = "update" /\ req[q].cart = c
              /\ req'[q].read = req[q].read /\ req'[q].patch = req[q].patch,
         \A q \in Requests : Showing(q, c)' =>
           \/ req'[q].user = req'[q].read.user
           \/ /\ Showing(q, c)
              /\ req'[q].user = req[q].user /\ req'[q].read = req[q].read
  PROVE  Sealed(c)'
<1>1. c \in Existing'
  BY DEF Sealed, Existing
<1>2. \A q \in Requests : Showing(q, c)' => ~Visiting(q)'
  BY DEF Sealed, Showing, Visiting
<1>3. \/ row'[c].archived
      \/ /\ row'[c].visibility = "private"
         /\ \A q \in Requests : req'[q].pc = "update" /\ req'[q].cart = c =>
              Params(req'[q].read, req'[q].patch).visibility = "private"
  BY DEF Sealed
<1> QED
  BY <1>1, <1>2, <1>3 DEF Sealed, Showing, Params

\* The same when one request moves to where it neither writes nor shows.
LEMMA SealedByBystander ==
  ASSUME NEW c \in Carts, Sealed(c), row'[c] = row[c], NEW r \in Requests,
         \A q \in Requests : q # r => req'[q] = req[q],
         req'[r].pc \notin {"update", "items", "served"}
  PROVE  Sealed(c)'
BY SealedKept DEF Showing

\* A call on a sealed cart publishes it, or leaves it sealed.
LEMMA SealedAtAdmit ==
  ASSUME AccessInv, NEW c \in Carts, Sealed(c), NEW r \in Requests, NEW u \in Users, NEW d \in Carts,
         NEW call \in RequestRecord, call.pc \in {"update", "archive"}, Admit(r, u, d, call)
  PROVE  Sealed(c)' \/ (~row[c].archived /\ Publishes(r, c))
<1> DEFINE new == [[[call EXCEPT !.user = u] EXCEPT !.cart = d] EXCEPT !.read = row[d]]
           no == [Idle EXCEPT !.pc = "refused"]
<1>1. TypeOK /\ row' = row /\ req[r].pc = "idle"
  BY IdleRequests DEF AccessInv, Admit
<1>2. CASE ~(d \in Live /\ row[d].user = u)
  <2>1. no.pc = "refused" /\ req' = [req EXCEPT ![r] = no]
    BY <1>2, IdleRequests DEF Admit, PCs
  <2> HIDE DEF no
  <2> QED
    BY <1>1, <2>1, OthersStay, SealedByBystander
<1>3. CASE d \in Live /\ row[d].user = u
  <2>1. req' = [req EXCEPT ![r] = new]
    BY <1>3 DEF Admit
  <2>2. new.pc = call.pc /\ new.cart = d /\ new.read = row[d] /\ new.patch = call.patch
    BY DEF RequestRecord
  <2> HIDE DEF new
  <2>3. /\ req'[r].pc = call.pc /\ req'[r].cart = d /\ req'[r].read = row[d] /\ req'[r].patch = call.patch
        /\ \A q \in Requests : q # r => req'[q] = req[q]
    BY <1>1, <2>1, <2>2, OthersStay
  <2>4. CASE d # c \/ call.pc = "archive"
    BY <1>1, <2>3, <2>4, SealedKept DEF Showing
  <2>5. CASE d = c /\ call.pc = "update" /\ call.patch.visibility = "public"
    <3>1. ~row[c].archived
      BY <1>3, <2>5 DEF Live
    <3> QED
      BY <1>1, <2>3, <2>5, <3>1 DEF Publishes
  <2>6. CASE d = c /\ call.pc = "update" /\ call.patch.visibility # "public"
    <3>1. row[c].visibility = "private"
      BY <1>3, <2>6 DEF Live, Sealed
    <3>2. call.patch.visibility \in {"private", None}
      BY <2>6 DEF RequestRecord, Patches, Visibilities
    <3>3. Params(row[c], call.patch).visibility = "private"
      BY <3>1, <3>2 DEF Params
    <3> QED
      BY <1>1, <2>3, <2>6, <3>3, SealedKept DEF Showing
  <2> QED
    BY <2>4, <2>5, <2>6
<1> QED
  BY <1>2, <1>3

\* The gate of GetPublicCart lets only the owner see a private cart, and nobody an archived one.
LEMMA SealedAtGate ==
  ASSUME AccessInv, NEW c \in Carts, Sealed(c), NEW r \in Requests, NEW u, NEW s, StartView(r, u, s)
  PROVE  Sealed(c)'
<1>1. TypeOK /\ row' = row
  BY DEF AccessInv, StartView
<1>2. CASE req' = [req EXCEPT ![r] = [Idle EXCEPT !.pc = "refused"]]
  <2>1. req'[r].pc = "refused" /\ \A q \in Requests : q # r => req'[q] = req[q]
    BY <1>1, <1>2, Types DEF Idle
  <2> QED
    BY <1>1, <2>1, SealedByBystander
<1>3. ASSUME NEW d \in Live, MayView(u, row[d]),
             req' = [req EXCEPT ![r] =
               [Idle EXCEPT !.pc = "items", !.user = u, !.cart = d, !.read = row[d]]]
      PROVE  Sealed(c)'
  <2>1. /\ req'[r].pc = "items" /\ req'[r].cart = d /\ req'[r].user = u /\ req'[r].read = row[d]
        /\ \A q \in Requests : q # r => req'[q] = req[q]
    BY <1>1, <1>3, Types DEF Idle
  <2>2. d = c => u = row[d].user
    BY <1>3 DEF Live, Sealed, MayView
  <2> QED
    BY <1>1, <2>1, <2>2, SealedKept DEF Showing
<1> QED
  BY <1>2, <1>3 DEF StartView

\* A pending write of a sealed cart leaves it private or archived, whatever was read.
LEMMA SealedByWrite ==
  ASSUME AccessInv, NEW c \in Carts, Sealed(c), NEW r \in Requests, UpdateCart(r) \/ ArchiveCart(r)
  PROVE  Sealed(c)'
<1> DEFINE d == req[r].cart
           new == IF req[r].pc = "update" THEN Updated(row[d], req[r].read, req[r].patch)
                  ELSE [row[d] EXCEPT !.archived = TRUE]
<1>1. TypeOK /\ req[r].pc \in {"update", "archive"} /\ req[r] \in RequestRecord
  BY Types DEF AccessInv, UpdateCart, ArchiveCart
<1>2. d \in Carts /\ row[d] \in RowRecord
  BY <1>1, AdmittedHasRead DEF Admitted
<1>3. Write(r, d, new)
  BY DEF UpdateCart, ArchiveCart
<1> HIDE DEF new
<1>4. \A q \in Requests : q # r =>
        /\ req'[q].pc = req[q].pc /\ req'[q].cart = req[q].cart /\ req'[q].read = req[q].read
        /\ req'[q].user = req[q].user /\ req'[q].patch = req[q].patch
  BY <1>1, <1>3, WriteOthers
<1>5. req'[r].pc = "ok"
  BY <1>1, <1>3 DEF Write, RequestRecord
<1>6. row' = [row EXCEPT ![d] = new]
  BY <1>3 DEF Write
<1>7. CASE d # c
  <2>1. row'[c] = row[c]
    BY <1>1, <1>6, <1>7, Types
  <2> QED
    BY <1>4, <1>5, <2>1, SealedKept DEF Showing
<1>8. CASE d = c
  <2>1. row'[c] = new
    BY <1>1, <1>2, <1>6, <1>8, Types
  <2>2. new \in [user : Users, slug : Slugs, title : {new.title}, visibility : {new.visibility}, archived : BOOLEAN]
        /\ (row[c].archived => new.archived)
        /\ (req[r].pc = "archive" => new.archived)
        /\ (req[r].pc = "update" => new.visibility = Params(req[r].read, req[r].patch).visibility)
    BY <1>1, <1>2, <1>8 DEF new, Updated, RowRecord
  <2>3. new # NoRow
    BY <2>2, ConstantsAssumption DEF NoRow
  <2>4. c \in Existing'
    BY <2>1, <2>3 DEF Existing
  <2>5. \A q \in Requests : Showing(q, c)' => ~Visiting(q)'
    <3> SUFFICES ASSUME NEW q \in Requests, Showing(q, c)' PROVE ~Visiting(q)'
      OBVIOUS
    <3>1. q # r
      BY <1>5 DEF Showing
    <3> QED
      BY <1>4, <3>1 DEF Sealed, Showing, Visiting
  <2>6. CASE row[c].archived \/ req[r].pc = "archive"
    <3>1. row'[c].archived
      BY <2>1, <2>2, <2>6
    <3> QED
      BY <2>4, <2>5, <3>1 DEF Sealed, Showing
  <2>7. CASE ~row[c].archived /\ req[r].pc = "update"
    <3>1. row'[c].visibility = "private"
      BY <1>8, <2>1, <2>2, <2>7 DEF Sealed
    <3>2. \A q \in Requests : req'[q].pc = "update" /\ req'[q].cart = c =>
            Params(req'[q].read, req'[q].patch).visibility = "private"
      <4> SUFFICES ASSUME NEW q \in Requests, req'[q].pc = "update", req'[q].cart = c
                   PROVE  Params(req'[q].read, req'[q].patch).visibility = "private"
        OBVIOUS
      <4>1. q # r
        BY <1>5
      <4>2. Params(req[q].read, req[q].patch).visibility = "private"
        BY <1>4, <2>7, <4>1 DEF Sealed
      <4>3. req'[q].read = req[q].read /\ req'[q].patch = req[q].patch
        BY <1>4, <4>1
      <4> QED
        BY <4>2, <4>3 DEF Params
    <3> QED
      BY <2>4, <2>5, <3>1, <3>2 DEF Sealed, Showing
  <2> QED
    BY <1>1, <2>6, <2>7
<1> QED
  BY <1>7, <1>8

\* A request that goes on with a sealed cart shows it to its owner only.
LEMMA SealedByProgress ==
  ASSUME AccessInv, NEW c \in Carts, Sealed(c), NEW r \in Requests, Progress(r) \/ Abort(r)
  PROVE  Sealed(c)' /\ shown'[c] = shown[c]
<1>1. TypeOK /\ req \in [Requests -> RequestRecord] /\ req[r] \in RequestRecord /\ c \in Existing
  BY Types DEF AccessInv, Sealed
<1>2. ASSUME NEW s \in Slugs, CreateCart(r, s) PROVE Sealed(c)' /\ shown'[c] = shown[c]
  <2>1. \A q \in Requests : q # r => req'[q] = req[q]
    BY <1>1, <1>2 DEF CreateCart
  <2>2. req'[r].pc \notin {"update", "items", "served"}
    BY <1>1, <1>2 DEF CreateCart, RequestRecord
  <2>3. row'[c] = row[c]
    BY <1>1, <1>2, Types DEF CreateCart
  <2> QED
    BY <1>2, <2>1, <2>2, <2>3, SealedByBystander DEF CreateCart, counters
<1>3. CASE UpdateCart(r) \/ ArchiveCart(r)
  BY <1>3, SealedByWrite DEF UpdateCart, ArchiveCart, Write, counters
<1>4. CASE ReadPage(r)
  <2>1. /\ req'[r] = [req[r] EXCEPT !.pc = "served"] /\ req[r].pc = "items"
        /\ \A q \in Requests : q # r => req'[q] = req[q]
    BY <1>1, <1>4 DEF ReadPage
  <2>2. /\ req'[r].pc = "served" /\ req'[r].cart = req[r].cart
        /\ req'[r].user = req[r].user /\ req'[r].read = req[r].read
    BY <1>1, <2>1 DEF RequestRecord
  <2>3. row' = row /\ shown' = shown
    BY <1>4 DEF ReadPage
  <2>4. \A q \in Requests :
          /\ req'[q].cart = req[q].cart /\ req'[q].user = req[q].user /\ req'[q].read = req[q].read
          /\ Showing(q, c)' => Showing(q, c)
          /\ req'[q].pc = "update" => req'[q] = req[q]
    BY <2>1, <2>2 DEF Showing
  <2> QED
    BY <2>3, <2>4, SealedKept
<1>5. CASE Serve(r)
  <2>1. req'[r].pc = "idle" /\ row' = row /\ \A q \in Requests : q # r => req'[q] = req[q]
    BY <1>1, <1>5, IdleRequests DEF Serve
  <2>2. req[r].cart = c => ~Visiting(r)
    BY <1>5 DEF Sealed, Serve
  <2>3. shown'[c] = shown[c]
    BY <1>1, <1>5, <2>2, Types DEF Serve
  <2> QED
    BY <2>1, <2>3, SealedByBystander
<1>6. CASE Respond(r) \/ Abort(r)
  <2>1. row' = row /\ shown' = shown /\ \A q \in Requests : q # r => req'[q] = req[q]
    BY <1>1, <1>6 DEF Respond, Abort, counters
  <2>2. req'[r].pc \notin {"update", "items", "served"}
    BY <1>1, <1>6, IdleRequests DEF Respond, Abort, RequestRecord
  <2> QED
    BY <2>1, <2>2, SealedByBystander
<1> QED
  BY <1>2, <1>3, <1>4, <1>5, <1>6 DEF Progress

\* A call leaves a sealed cart sealed, unless it is the owner's PATCH that says public.
LEMMA SealedByCall ==
  ASSUME AccessInv, NEW c \in Carts, Sealed(c), NEW r \in Requests, Call(r)
  PROVE  \/ Sealed(c)' /\ shown'[c] = shown[c]
         \/ ~row[c].archived /\ Publishes(r, c)
<1>1. TypeOK
  BY DEF AccessInv
<1>2. row' = row /\ shown' = shown /\ \A q \in Requests : q # r => req'[q] = req[q]
  BY <1>1, CallShape DEF counters
<1>3. ASSUME NEW u \in Users, NEW t \in Titles, StartCreate(r, u, t) PROVE Sealed(c)'
  <2>1. req'[r].pc = "create"
    BY <1>1, <1>3, Types DEF StartCreate, Idle
  <2> QED
    BY <1>2, <2>1, SealedByBystander
<1>4. ASSUME NEW u \in Users, NEW d \in Carts, StartUpdate(r, u, d)
      PROVE  Sealed(c)' \/ (~row[c].archived /\ Publishes(r, c))
  <2>1. PICK p \in Patches : Admit(r, u, d, [Idle EXCEPT !.pc = "update", !.patch = p])
    BY <1>4 DEF StartUpdate
  <2> DEFINE call == [[Idle EXCEPT !.pc = "update"] EXCEPT !.patch = p]
  <2>2. call \in RequestRecord /\ call.pc = "update"
    BY IdleRequests DEF RequestRecord, PCs
  <2>3. Admit(r, u, d, call)
    BY <2>1
  <2> HIDE DEF call
  <2> QED
    BY <2>2, <2>3, SealedAtAdmit
<1>5. ASSUME NEW u \in Users, NEW d \in Carts, StartDelete(r, u, d)
      PROVE  Sealed(c)' \/ (~row[c].archived /\ Publishes(r, c))
  <2> DEFINE call == [Idle EXCEPT !.pc = "archive"]
  <2>1. call \in RequestRecord /\ call.pc = "archive"
    BY IdleRequests DEF PCs
  <2>2. Admit(r, u, d, call)
    BY <1>5 DEF StartDelete
  <2> HIDE DEF call
  <2> QED
    BY <2>1, <2>2, SealedAtAdmit
<1> QED
  BY <1>2, <1>3, <1>4, <1>5, SealedAtGate DEF Call

\* A crash shows nobody anything.
LEMMA SealedByCrash ==
  ASSUME AccessInv, NEW c \in Carts, Sealed(c), Crash
  PROVE  Sealed(c)' /\ shown'[c] = shown[c]
<1>1. row' = row /\ \A q \in Requests : req'[q].pc = "idle"
  BY IdleRequests DEF Crash
<1>2. Visits(c) = {}
  BY DEF Sealed, Visits
<1>3. shown'[c] = shown[c] + 0 /\ shown[c] \in Nat
  BY <1>2, Types, FS_EmptySet DEF AccessInv, Crash
<1> QED
  BY <1>1, <1>3, SealedKept DEF Showing

\* A private or deleted cart that nothing in flight can show is shown to no visitor until
\* its owner sends a PATCH that says "public"; a deleted cart never again.
THEOREM SealedCartsStayUnseen == Spec => SealedUntilPublished
<1> DEFINE A ==
      \A c \in Carts : Sealed(c) =>
        \/ Sealed(c)' /\ shown'[c] = shown[c]
        \/ ~row[c].archived /\ \E r \in Requests : Publishes(r, c)
<1>1. AccessInv /\ [Next]_vars => [A]_vars
  <2> SUFFICES ASSUME AccessInv, Next, NEW c \in Carts, Sealed(c)
               PROVE  \/ Sealed(c)' /\ shown'[c] = shown[c]
                      \/ ~row[c].archived /\ \E r \in Requests : Publishes(r, c)
    OBVIOUS
  <2>1. ASSUME NEW d \in Carts, BumpCartViewsDaily(d) PROVE Sealed(c)' /\ shown'[c] = shown[c]
    BY <2>1, SealedKept DEF BumpCartViewsDaily, Showing
  <2> QED
    BY <2>1, SealedByCall, SealedByProgress, SealedByCrash DEF Next
<1> HIDE DEF A
<1>2. Spec => [][A]_vars
  BY <1>1, AccessInvariant, PTL DEF Spec
<1> QED
  BY <1>2 DEF SealedUntilPublished, A
=============================================================================
