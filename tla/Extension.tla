------------------------------ MODULE Extension ------------------------------
(***************************************************************************)
(* The browser extension: the button it puts on a shop's product pages,    *)
(* the popup and the panel with their one add form (extension/src), the    *)
(* token it calls the API with, and the page that mints the token          *)
(* (web/app/connect-extension/page.tsx).                                   *)
(*                                                                         *)
(* The form asks the service worker for the carts and for the add; the     *)
(* worker reads the token for every request, and a request is answered     *)
(* whether or not its form is still there.  Reading the storage takes no   *)
(* time here, the creator has a cart, and what a creator may change in the *)
(* form is left out.                                                       *)
(***************************************************************************)
EXTENDS Naturals, FiniteSets

CONSTANTS
  Goods,       \* product pages of a shop
  Elsewhere,   \* any other page
  Unknown,     \* no product, no button
  Requests,    \* messages to the service worker at the same time
  ExtensionId, \* TRUE: the web app was built with the extension's id
  MaxBreaks    \* bounds the lost answers, failures and wrong codes

ASSUME ExtensionAssumption ==
  /\ {Elsewhere, Unknown} \cap Goods = {} /\ Elsewhere # Unknown
  /\ ExtensionId \in BOOLEAN /\ MaxBreaks \in Nat

VARIABLES
  site,     \* the page of the shop's tab
  siteButton,   \* the product the button on it was made for
  panel,    \* the popup or the panel: its kind, what is painted in it, its product
  request,  \* messages to the service worker, and what is left of their sender
  token,    \* chrome.storage.local: "none", "good" or "wrong"
  tab,      \* the connect page; "closed" whenever there is no token on it
  kept,     \* history: rows added from this panel
  missed,   \* history: rows of this panel whose answer was lost
  moved,    \* history: the page changed under the button or the panel
  refused,  \* history: the API refused a token of this panel
  resaved,  \* history: a code was saved while the panel was loading its carts
  breaks    \* how many failures there were

extensionVars == <<site, siteButton, panel, request, token, tab, kept, missed, moved, refused, resaved, breaks>>
panelVars == <<panel, kept, missed, refused, resaved>>
-----------------------------------------------------------------------------
NoRequest == [pc |-> "idle", kind |-> "list", from |-> "gone"]
NoPanel == [kind |-> "none", view |-> "closed", product |-> Unknown]

ExtensionInit ==
  /\ site = Elsewhere /\ siteButton = Unknown
  /\ panel = NoPanel
  /\ request = [r \in Requests |-> NoRequest]
  /\ token = "none" /\ tab = "closed"
  /\ kept = 0 /\ missed = 0 /\ moved = FALSE /\ refused = FALSE /\ resaved = FALSE /\ breaks = 0

\* isProductPage: the pages that get the button.
IsProductPage(p) == p \in Goods

\* extractProduct: what the page says of itself, if it says anything.
ExtractProduct(p, found) == IF found THEN p ELSE Unknown

Break == breaks < MaxBreaks /\ breaks' = breaks + 1

\* The sender of a message: its button or empty panel is "here", its panel was
\* "repainted", its panel was "removed" from the page, or all of it is "gone".
Here(r) == request[r].from \in {"here", "repainted"}
Working == \E r \in Requests : request[r].pc # "idle" /\ Here(r)

Left(from) ==
  [r \in Requests |-> IF Here(r) \/ from = "gone" THEN [request[r] EXCEPT !.from = from] ELSE request[r]]

Repainted(requests) ==
  [r \in Requests |-> IF requests[r].from = "here" THEN [requests[r] EXCEPT !.from = "repainted"]
                                                   ELSE requests[r]]

Asked(kind, requests) ==
  {[requests EXCEPT ![r] = [pc |-> "sent", kind |-> kind, from |-> "here"]] :
     r \in {s \in Requests : requests[s].pc = "idle"}}

\* renderAddUI up to its first message: without a token or a product it paints at once,
\* otherwise what was painted stays until the carts are there.
RenderAddUI(ui, stored, requests) ==
  IF stored = "none" \/ ui.product = Unknown
    THEN /\ panel' = [ui EXCEPT !.view = IF stored = "none" THEN "connect" ELSE "no product"]
         /\ request' = Repainted(requests)
    ELSE panel' = ui /\ request' \in Asked("list", requests)

OpenUI(kind, product) ==
  /\ RenderAddUI([kind |-> kind, view |-> "empty", product |-> product], token, request)
  /\ kept' = 0 /\ missed' = 0 /\ refused' = FALSE /\ resaved' = FALSE
-----------------------------------------------------------------------------
\* The shop shows another page: a new document, without button and panel, or the same
\* one with other contents, in which the button may have stayed.  No popup survives
\* the click.
Navigate(p, reload, stays) ==
  /\ p # site /\ site' = p /\ panel.kind # "popup"
  /\ siteButton' = IF ~reload /\ stays THEN siteButton ELSE Unknown
  /\ IF reload
       THEN panel' = NoPanel /\ request' = Left("gone") /\ UNCHANGED <<kept, missed, refused, resaved>>
       ELSE UNCHANGED <<panelVars, request>>
  /\ moved' = (~reload /\ (siteButton' # Unknown \/ panel'.kind = "panel"))
  /\ UNCHANGED <<token, tab, breaks>>

\* injectButton: the observer calls it after every change of the page.
InjectButton ==
  /\ siteButton = Unknown /\ IsProductPage(site)
  /\ siteButton' = ExtractProduct(site, TRUE)
  /\ UNCHANGED <<site, panelVars, request, token, tab, moved, breaks>>

\* togglePanel, its half that removes the panel, or the cross in it, or the end of its
\* "Added!"; a popup is gone with all it waited for, by the cross or a click beside it.
ClosePanel ==
  /\ panel.kind # "none" /\ panel' = NoPanel
  /\ request' = Left(IF panel.kind = "popup" THEN "gone" ELSE "removed")
  /\ moved' = (moved /\ siteButton # Unknown /\ siteButton # site)
  /\ UNCHANGED <<site, siteButton, token, tab, kept, missed, refused, resaved, breaks>>

\* togglePanel, its other half
TogglePanel ==
  /\ siteButton # Unknown /\ panel.kind = "none"
  /\ OpenUI("panel", siteButton)
  /\ UNCHANGED <<site, siteButton, token, tab, moved, breaks>>

\* main of popup.ts: the page is asked for its product, or its address has to do, if
\* the tab has one.
OpenPopup(found) ==
  /\ panel.kind = "none" /\ (IsProductPage(site) => found)
  /\ OpenUI("popup", ExtractProduct(site, found))
  /\ UNCHANGED <<site, siteButton, token, tab, moved, breaks>>
-----------------------------------------------------------------------------
\* "Connect": whatever was pasted is kept as the token.
SaveCode(wrong) ==
  /\ panel.view = "connect" /\ (wrong \/ tab = "manual")
  /\ IF wrong THEN Break ELSE UNCHANGED breaks
  /\ token' = IF wrong THEN "wrong" ELSE "good"
  /\ RenderAddUI(panel, token', request)
  /\ resaved' = (resaved \/ Working)
  /\ UNCHANGED <<site, siteButton, tab, kept, missed, moved, refused>>

\* onConnectNeeded: the page is opened; a popup is gone once another tab has the focus.
ConnectButton ==
  /\ panel.view = "connect"
  /\ tab' = "minting"
  /\ IF panel.kind = "popup" THEN panel' = NoPanel /\ request' = Left("gone")
                             ELSE UNCHANGED <<panel, request>>
  /\ UNCHANGED <<site, siteButton, token, kept, missed, moved, refused, resaved, breaks>>

\* "Add to cart"
Add ==
  /\ panel.view = "form"
  /\ panel' = [panel EXCEPT !.view = "adding"]
  /\ request' \in Asked("add", request)
  /\ UNCHANGED <<site, siteButton, token, tab, kept, missed, moved, refused, resaved, breaks>>
-----------------------------------------------------------------------------
\* api of the service worker, with the token as it is by now; a token that cannot be
\* looked up is refused as well (RequireUser, Resolver).
Work(r) ==
  /\ request[r].pc = "sent"
  /\ request' = [request EXCEPT ![r].pc = IF token = "good" THEN "done" ELSE "unauthorized"]
  /\ kept' = IF token = "good" /\ request[r].kind = "add" /\ Here(r) THEN kept + 1 ELSE kept
  /\ UNCHANGED <<site, siteButton, panel, token, tab, missed, moved, refused, resaved, breaks>>

WorkFails(r, pc) ==
  /\ Break
  /\ request[r].pc = "sent" \/ (request[r].pc = "done" /\ pc = "failed")
  /\ request' = [request EXCEPT ![r].pc = pc]
  /\ missed' = IF request[r].pc = "done" /\ request[r].kind = "add" /\ Here(r) THEN missed + 1 ELSE missed
  /\ UNCHANGED <<site, siteButton, panel, token, tab, kept, moved, refused, resaved>>

\* Mutant: an add that failed is taken for an add.
PaintAlways(r) == IF request[r].kind = "list" /\ request[r].pc = "done" THEN "form" ELSE "added"

\* Mutant: the button stays disabled after an error.
PaintKeeping(r) ==
  CASE request[r].kind = "list" -> IF request[r].pc = "done" THEN "form" ELSE "error"
    [] request[r].kind = "add" /\ request[r].pc = "done" -> "added"
    [] OTHER -> panel.view

\* What is painted of an answer: the form with the carts, an error without a way back;
\* "Added!", or the form with its button again, if that button is still there.
Paint(r) ==
  CASE request[r].kind = "list" -> IF request[r].pc = "done" THEN "form" ELSE "error"
    [] request[r].kind = "add" /\ request[r].pc = "done" -> "added"
    [] OTHER -> IF request[r].from = "here" THEN "form" ELSE panel.view

Answered(r) ==
  LET others == [request EXCEPT ![r] = NoRequest]
      repaints == request[r].kind = "list" \/ request[r].pc = "done"
  IN  /\ request[r].pc \in {"done", "failed"}
      /\ panel' = IF Here(r) THEN [panel EXCEPT !.view = Paint(r)] ELSE panel
      /\ request' = IF Here(r) /\ repaints THEN Repainted(others) ELSE others
      /\ UNCHANGED <<site, siteButton, token, tab, kept, missed, moved, refused, resaved, breaks>>

\* A 401 opens the connect page and leaves what is painted as it is: nothing at all, or
\* the button disabled.  A popup is gone then.
RefuseToken(r) ==
  /\ request[r].pc = "unauthorized"
  /\ IF Here(r) /\ panel.kind = "popup"
       THEN panel' = NoPanel /\ request' = [Left("gone") EXCEPT ![r] = NoRequest]
       ELSE request' = [request EXCEPT ![r] = NoRequest] /\ UNCHANGED panel
  /\ refused' = (refused \/ Here(r))
  /\ tab' = IF request[r].from = "gone" THEN tab ELSE "minting"
  /\ UNCHANGED <<site, siteButton, token, kept, missed, moved, resaved, breaks>>
-----------------------------------------------------------------------------
\* MintHandler; without a session the page goes to /login, after an error it says so.
Mint(ok) ==
  /\ tab = "minting"
  /\ tab' = IF ok THEN "minted" ELSE "closed"
  /\ UNCHANGED <<site, siteButton, panelVars, request, token, moved, breaks>>

\* The hand-over to the service worker, which stores the token; without the id, or
\* after an error, the code is shown instead.
HandOver(ok) ==
  /\ tab = "minted" /\ (ok => ExtensionId)
  /\ IF ExtensionId /\ ~ok THEN Break ELSE UNCHANGED breaks
  /\ tab' = IF ok THEN "closed" ELSE "manual"
  /\ token' = IF ok THEN "good" ELSE token
  /\ UNCHANGED <<site, siteButton, panelVars, request, moved>>

\* The creator opens the page by its address, as the extension's README says, or
\* reloads it; or closes it.
VisitConnect(opened) ==
  /\ panel.kind # "popup"
  /\ tab' = IF opened THEN "minting" ELSE "closed"
  /\ UNCHANGED <<site, siteButton, panelVars, request, token, moved, breaks>>
-----------------------------------------------------------------------------
ExtensionNext ==
  \/ \E p \in Goods \cup {Elsewhere}, reload, stays \in BOOLEAN : Navigate(p, reload, stays)
  \/ InjectButton \/ TogglePanel \/ ClosePanel
  \/ \E flag \in BOOLEAN : OpenPopup(flag) \/ SaveCode(flag)
  \/ ConnectButton \/ Add
  \/ \E r \in Requests :
       \/ Work(r) \/ Answered(r) \/ RefuseToken(r)
       \/ \E pc \in {"failed", "unauthorized"} : WorkFails(r, pc)
  \/ \E flag \in BOOLEAN : Mint(flag) \/ HandOver(flag) \/ VisitConnect(flag)

ExtensionSpec == ExtensionInit /\ [][ExtensionNext]_extensionVars

\* The worker answers what it is asked, one way or the other, and the form is told.
WorkerFairness ==
  \A r \in Requests :
    /\ WF_extensionVars(Work(r))
    /\ WF_extensionVars(Answered(r) \/ RefuseToken(r))
-----------------------------------------------------------------------------
ExtensionTypeOK ==
  /\ site \in Goods \cup {Elsewhere} /\ siteButton \in Goods \cup {Unknown}
  /\ panel.kind \in {"none", "popup", "panel"} /\ panel.product \in Goods \cup {Elsewhere, Unknown}
  /\ panel.view \in {"closed", "empty", "connect", "no product", "error", "form", "adding", "added"}
  /\ panel.kind = "none" <=> panel.view = "closed"
  /\ request \in [Requests -> [pc : {"idle", "sent", "done", "failed", "unauthorized"},
                               kind : {"list", "add"}, from : {"here", "repainted", "removed", "gone"}]]
  /\ Working => panel.kind # "none"
  /\ token \in {"none", "good", "wrong"}
  /\ tab \in {"closed", "minting", "minted", "manual"}
  /\ {moved, refused, resaved} \subseteq BOOLEAN
  /\ {kept, missed} \subseteq Nat /\ breaks \in 0 .. MaxBreaks

\* A form adds its product once, and once more for every answer that was lost and tried
\* again; "Added!" means that it is there.  A code that is saved twice loads the carts
\* twice: only then may the second answer bring the button back while an add runs.  And
\* a panel that was not left open, or opened by a button that was left, while the shop
\* moved on is about the page under it.
FormAddsOnce ==
  /\ panel.view = "added" => kept > 0
  /\ panel.kind # "none" /\ ~resaved => kept <= 1 + missed
  /\ panel.kind = "panel" /\ ~moved => panel.product = site

\* The panel does not stay empty, nor at "Adding...", unless the API refused its token.
FormSettles == panel.view \in {"empty", "adding"} ~> panel.view \notin {"empty", "adding"} \/ refused
=============================================================================
