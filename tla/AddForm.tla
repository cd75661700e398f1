------------------------------- MODULE AddForm -------------------------------
(***************************************************************************)
(* Sharing a product from a shopping app into a cart: /add                 *)
(* (web/app/add/page.tsx) with its form (add-form.tsx).  The share text,   *)
(* or what is pasted later, fills the form; one POST adds the product; a   *)
(* creator without carts makes one first, with another POST.               *)
(*                                                                         *)
(* A field is abstracted to the product its content is about; the price    *)
(* goes with the title.  The photo has a field of its own, typed or        *)
(* uploaded by a button (image-upload-button.tsx) that hands the picture   *)
(* to the form whenever its upload is answered.                            *)
(***************************************************************************)
EXTENDS Naturals, Sequences, FiniteSets, SequencesExt

CONSTANTS
  Shared,   \* products whose share texts the creator has
  Pictured, \* those the creator has a picture of
  CartIds,  \* carts of the creator, made and to be made
  MaxLost,  \* bounds the requests without an answer and the failed reads of the carts
  Empty     \* an empty field; no cart

ASSUME FormAssumption ==
  Empty \notin Shared \cup CartIds /\ Pictured \subseteq Shared /\ MaxLost \in Nat /\ IsFiniteSet(CartIds)

VARIABLES
  made,      \* the creator's carts on the server
  copies,    \* rows of the product of this form: their carts, oldest first
  form,      \* "closed", or the page with its fields
  cartList,  \* the carts the form knows
  cartId,    \* the cart that is picked
  lastCart,  \* localStorage: the cart of the last add
  added,     \* the cart "Added" is about
  uploading, \* the picture the photo button is uploading
  earlier,   \* pictures that are being uploaded for a photo button that is gone
  submitted, \* the POST of the product: pc and cart
  creating,  \* the POST of a new cart: pc and cart
  sources,   \* history: products pasted or picked since the form was empty
  late,      \* history: pictures on their way when the form was last emptied
  lost,      \* history: POSTs of the product whose answer was lost
  mishaps    \* how many lost answers and failed reads there were

photoVars == <<uploading, earlier, late>>
formVars == <<made, copies, form, cartList, cartId, lastCart, added, photoVars, submitted,
              creating, sources, lost, mishaps>>
-----------------------------------------------------------------------------
NoPost == [pc |-> "idle", cart |-> Empty]
Closed == [open |-> FALSE, title |-> Empty, link |-> Empty, photo |-> Empty]

FormInit ==
  /\ made \in SUBSET CartIds
  /\ copies = << >>
  /\ form = Closed /\ cartList = << >> /\ cartId = Empty
  /\ lastCart = Empty /\ added = Empty
  /\ uploading = Empty /\ earlier = {} /\ late = {}
  /\ submitted = NoPost /\ creating = NoPost
  /\ sources = {} /\ lost = 0 /\ mishaps = 0

\* A request whose page is gone runs to its end, and nobody waits for it.  The page is
\* opened again after that only, which bounds the requests in flight.
Settled == submitted.pc = "idle" /\ creating.pc = "idle"

Mishap(happens) == mishaps' = IF happens THEN mishaps + 1 ELSE mishaps

\* What parseShare finds in the text of product p; what it does not find stays.
Found(field, p, found) == IF found THEN p ELSE field
-----------------------------------------------------------------------------
\* The page: the carts in any order the server gives, or none of them when the call
\* failed, and the share text.  The cart of the last add is picked if it is listed.
OpenForm(p, linked, titled, ok) ==
  /\ ~form.open /\ Settled
  /\ mishaps < MaxLost \/ ok
  /\ form' = [open |-> TRUE, title |-> Found(Empty, p, titled), link |-> Found(Empty, p, linked),
              photo |-> Empty]
  /\ cartList' \in IF ok THEN SetToSeqs(made) ELSE {<< >>}
  /\ cartId' = IF lastCart \in ToSet(cartList') THEN lastCart
               ELSE IF cartList' = << >> THEN Empty ELSE Head(cartList')
  /\ added' = Empty
  /\ copies' = << >> /\ sources' = {p} /\ lost' = 0
  /\ Mishap(~ok)
  /\ UNCHANGED <<made, lastCart, photoVars, submitted, creating>>

\* Which of the three views there is.
FormView == IF added # Empty THEN "added" ELSE IF cartList = << >> THEN "no carts" ELSE "form"

\* applyPasted, by the box or by the clipboard button.  The box keeps its text after "Add
\* another": to edit what is left in it is to paste it again.
ApplyPasted(p, linked, titled) ==
  /\ form.open /\ FormView = "form"
  /\ form' = [form EXCEPT !.title = Found(@, p, titled), !.link = Found(@, p, linked)]
  /\ sources' = sources \cup {p}
  /\ UNCHANGED <<photoVars, made, copies, cartList, cartId, lastCart, added, submitted,
                 creating, lost, mishaps>>

PickCart(c) ==
  /\ form.open /\ FormView = "form" /\ c \in ToSet(cartList) /\ c # cartId
  /\ cartId' = c
  /\ UNCHANGED <<photoVars, made, copies, form, cartList, lastCart, added, submitted,
                 creating, sources, lost, mishaps>>

\* The image URL, typed or pasted.
TypePhoto(p) ==
  /\ form.open /\ FormView = "form"
  /\ form' = [form EXCEPT !.photo = p]
  /\ sources' = sources \cup {p}
  /\ UNCHANGED <<made, copies, cartList, cartId, lastCart, added, photoVars, submitted, creating,
                 lost, mishaps>>

\* onPick of the photo button, which is disabled while it uploads.
AddPhoto(p) ==
  /\ form.open /\ FormView = "form" /\ uploading = Empty
  /\ uploading' = p
  /\ sources' = sources \cup {p}
  /\ UNCHANGED <<made, copies, form, cartList, cartId, lastCart, added, earlier, late, submitted,
                 creating, lost, mishaps>>

\* The upload of picture p ends; the button it was picked with may be gone.
UploadEnds(p) ==
  /\ p = uploading \/ p \in earlier
  /\ IF p = uploading THEN uploading' = Empty /\ UNCHANGED earlier
                      ELSE earlier' = earlier \ {p} /\ UNCHANGED uploading
  /\ UNCHANGED <<made, copies, cartList, cartId, lastCart, added, late, submitted, creating,
                 sources, lost, mishaps>>

\* onUploaded is setImageUrl of the form, whatever is in the form by now.
PhotoUploaded(p) ==
  /\ UploadEnds(p)
  /\ form' = [form EXCEPT !.photo = p]

PhotoFails(p) ==
  /\ UploadEnds(p)
  /\ UNCHANGED form

\* Mutant: the button can be pressed while the product is being added.
BusyNever == FALSE

\* busy
Busy == submitted.pc # "idle"

\* submit
Submit ==
  /\ form.open /\ FormView = "form" /\ ~Busy
  /\ cartId # Empty /\ form.title # Empty /\ form.link # Empty
  /\ submitted' = [pc |-> "sent", cart |-> cartId]
  /\ UNCHANGED <<photoVars, made, copies, form, cartList, cartId, lastCart, added,
                 creating, sources, lost, mishaps>>

Store ==
  /\ submitted.pc = "sent"
  /\ submitted' = [submitted EXCEPT !.pc = "stored"]
  /\ copies' = Append(copies, submitted.cart)
  /\ UNCHANGED <<photoVars, made, form, cartList, cartId, lastCart, added, creating,
                 sources, lost, mishaps>>

\* "Added" takes the photo button away, not its upload.  The cart is kept in localStorage by a
\* page that is left as well, unless the tab went with it.
SubmitAnswered ==
  /\ submitted.pc = "stored"
  /\ submitted' = NoPost
  /\ IF form.open
       THEN /\ lastCart' = submitted.cart /\ added' = submitted.cart
            /\ earlier' = earlier \cup ({uploading} \ {Empty}) /\ uploading' = Empty
       ELSE lastCart' \in {lastCart, submitted.cart} /\ UNCHANGED <<added, earlier, uploading>>
  /\ UNCHANGED <<made, copies, form, cartList, cartId, late, creating, sources, lost, mishaps>>

\* "Couldn't add - try again", whether or not the product is stored
SubmitFails ==
  /\ mishaps < MaxLost
  /\ submitted.pc # "idle"
  /\ submitted' = NoPost
  /\ lost' = IF submitted.pc = "stored" THEN lost + 1 ELSE lost
  /\ Mishap(TRUE)
  /\ UNCHANGED <<photoVars, made, copies, form, cartList, cartId, lastCart, added,
                 creating, sources>>

AddAnother ==
  /\ form.open /\ FormView = "added"
  /\ form' = [form EXCEPT !.title = Empty, !.link = Empty, !.photo = Empty]
  /\ added' = Empty
  /\ copies' = << >> /\ sources' = {} /\ lost' = 0
  /\ late' = earlier
  /\ UNCHANGED <<made, cartList, cartId, lastCart, uploading, earlier, submitted, creating, mishaps>>
-----------------------------------------------------------------------------
\* makeCart, from the view without carts
MakeCart ==
  /\ form.open /\ FormView = "no carts" /\ creating.pc = "idle"
  /\ creating' = [pc |-> "sent", cart |-> Empty]
  /\ UNCHANGED <<photoVars, made, copies, form, cartList, cartId, lastCart, added,
                 submitted, sources, lost, mishaps>>

CreateOnServer(c) ==
  /\ creating.pc = "sent" /\ c \notin made
  /\ made' = made \cup {c}
  /\ creating' = [pc |-> "stored", cart |-> c]
  /\ UNCHANGED <<photoVars, copies, form, cartList, cartId, lastCart, added, submitted,
                 sources, lost, mishaps>>

\* Mutant: the new cart is listed and not picked.
CartAfterMakeUnpicked == cartId

CartAfterMake == creating.cart

CreateAnswered ==
  /\ creating.pc = "stored"
  /\ creating' = NoPost
  /\ IF form.open THEN cartList' = <<creating.cart>> \o cartList /\ cartId' = CartAfterMake
                  ELSE UNCHANGED <<cartList, cartId>>
  /\ UNCHANGED <<photoVars, made, copies, form, lastCart, added, submitted, sources,
                 lost, mishaps>>

CreateFails ==
  /\ creating.pc # "idle" /\ mishaps < MaxLost
  /\ creating' = NoPost
  /\ Mishap(TRUE)
  /\ UNCHANGED <<photoVars, made, copies, form, cartList, cartId, lastCart, added,
                 submitted, sources, lost>>

\* To the cart, or anywhere else.
LeaveForm ==
  /\ form.open
  /\ form' = Closed /\ cartList' = << >> /\ cartId' = Empty /\ added' = Empty
  /\ uploading' = Empty /\ earlier' = {} /\ late' = {}
  /\ sources' = {} /\ copies' = << >> /\ lost' = 0
  /\ UNCHANGED <<made, lastCart, submitted, creating, mishaps>>
-----------------------------------------------------------------------------
FormNext ==
  \/ \E p \in Shared, linked, titled \in BOOLEAN :
       \/ \E ok \in BOOLEAN : OpenForm(p, linked, titled, ok)
       \/ ApplyPasted(p, linked, titled)
  \/ \E p \in Pictured : TypePhoto(p) \/ AddPhoto(p) \/ PhotoUploaded(p) \/ PhotoFails(p)
  \/ \E c \in CartIds : PickCart(c) \/ CreateOnServer(c)
  \/ Submit \/ Store \/ SubmitAnswered \/ SubmitFails \/ AddAnother
  \/ MakeCart \/ CreateAnswered \/ CreateFails
  \/ LeaveForm

FormSpec == FormInit /\ [][FormNext]_formVars
-----------------------------------------------------------------------------
FormTypeOK ==
  /\ made \subseteq CartIds /\ copies \in Seq(CartIds)
  /\ form \in [open : BOOLEAN, title : Shared \cup {Empty}, link : Shared \cup {Empty},
               photo : Pictured \cup {Empty}]
  /\ uploading \in Pictured \cup {Empty} /\ earlier \cup late \subseteq Pictured
  /\ ToSet(cartList) \subseteq made /\ IsInjective(cartList)
  /\ {cartId, lastCart, added} \subseteq CartIds \cup {Empty}
  /\ submitted \in [pc : {"idle", "sent", "stored"}, cart : CartIds \cup {Empty}]
  /\ creating \in [pc : {"idle", "sent", "stored"}, cart : CartIds \cup {Empty}]
  /\ lost \in Nat /\ mishaps \in 0 .. MaxLost /\ sources \subseteq Shared
  /\ cartId = Empty <=> cartList = << >>

\* "Added" is shown for the cart that has the product, even if another one was picked
\* meanwhile; the product is there once, and once more for every answer that was lost
\* and tried again; and what is submitted after "Add another" is about products pasted,
\* typed or picked since, except for a photo that was still being uploaded then: that one
\* comes into the form of the next product.
AddedOnce ==
  form.open =>
    /\ added # Empty => added \in ToSet(copies)
    /\ Len(copies) <= 1 + lost
    /\ {form.title, form.link} \subseteq sources \cup {Empty}
    /\ form.photo \in sources \cup late \cup {Empty}
=============================================================================
