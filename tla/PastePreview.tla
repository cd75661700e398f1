---------------------------- MODULE PastePreview ----------------------------
(***************************************************************************)
(* "Add a product" of the cart editor: web/components/paste-url-preview.tsx *)
(* and its photo button (image-upload-button.tsx).  A pasted text with a   *)
(* link starts a fetch of the product's details; every answer fills the    *)
(* one form, whichever paste it belongs to, and the form is hidden while   *)
(* any fetch is running.                                                   *)
(*                                                                         *)
(* The contents of a field are abstracted to the product they are about.   *)
(* The price goes with the title, and what the creator types is about the  *)
(* product in the link field.                                              *)
(***************************************************************************)
EXTENDS Naturals, FiniteSets

CONSTANTS
  Products, \* what a pasted link leads to
  Fetches,  \* fetches at the same time
  Photos,   \* uploads at the same time
  Nothing   \* an empty field

ASSUME PasteAssumption == Nothing \notin Products

VARIABLES
  pasted,   \* the product of the text in the box; Nothing: it has no link
  draft,    \* the form's fields
  showForm,
  fetch,    \* fetches: the product, whether the text has a title, and (histories)
            \* whether the text is still the last one and came into an empty form
  photo,    \* uploads: pc, the product they are for (a history), and whether their
            \* button is still there
  blank,    \* history: the form was reset and nothing was pasted since
  trusted   \* history: the form is filled by the answer to the last paste, which had
            \* the details or came into an empty form, and no late photo came in

pasteVars == <<pasted, draft, showForm, fetch, photo, blank, trusted>>
-----------------------------------------------------------------------------
Content == Products \cup {Nothing}
EmptyDraft == [url |-> Nothing, title |-> Nothing, image |-> Nothing, retailer |-> Nothing]

NoFetch == [pc |-> "idle", of |-> Nothing, named |-> FALSE, last |-> FALSE, clean |-> FALSE]
NoPhoto == [pc |-> "idle", for |-> Nothing, mine |-> FALSE]

PasteInit ==
  /\ pasted = Nothing /\ draft = EmptyDraft /\ showForm = FALSE
  /\ fetch = [f \in Fetches |-> NoFetch]
  /\ photo = [u \in Photos |-> NoPhoto]
  /\ blank = TRUE /\ trusted = FALSE

\* useTransition: the fetches that are running are one transition.
Pending == \E f \in Fetches : fetch[f].pc # "idle"

FormShown == showForm /\ ~Pending

\* The photo button goes with the form; its upload does not.
Unmounted == [u \in Photos |-> [photo[u] EXCEPT !.mine = FALSE]]
Overtaken == [f \in Fetches |-> [fetch[f] EXCEPT !.last = FALSE]]
-----------------------------------------------------------------------------
\* handlePaste for a text without a link
PasteText ==
  /\ pasted' = Nothing
  /\ draft' = [draft EXCEPT !.url = Nothing]
  /\ showForm' = FALSE
  /\ fetch' = Overtaken /\ photo' = Unmounted
  /\ blank' = FALSE
  /\ UNCHANGED trusted

\* handlePaste for a link, with a title in the text or not
PasteLink(f, p, named) ==
  /\ fetch[f].pc = "idle"
  /\ pasted' = p
  /\ draft' = [draft EXCEPT !.url = p]
  /\ fetch' = [Overtaken EXCEPT ![f] = [pc |-> "asked", of |-> p, named |-> named, last |-> TRUE,
                                        clean |-> blank /\ ~Pending]]
  /\ photo' = Unmounted
  /\ blank' = FALSE
  /\ UNCHANGED <<showForm, trusted>>

\* The title of the text comes before the one of the answer.
TitleOf(f, titled) == IF fetch[f].named \/ titled THEN fetch[f].of ELSE Nothing

\* fetchOG answers with the details and the canonical link, or (ok = FALSE) with the
\* retailer alone.
Answer(f, ok, titled, pictured) ==
  /\ fetch[f].pc = "asked"
  /\ ok <=> titled \/ pictured
  /\ draft' = [url |-> IF ok THEN fetch[f].of ELSE draft.url,
               title |-> TitleOf(f, titled),
               image |-> IF ~ok THEN draft.image ELSE IF pictured THEN fetch[f].of ELSE Nothing,
               retailer |-> fetch[f].of]
  /\ showForm' = TRUE
  /\ trusted' = (fetch[f].last /\ (ok \/ fetch[f].clean))
  /\ fetch' = [fetch EXCEPT ![f] = NoFetch]
  /\ UNCHANGED <<pasted, photo, blank>>

\* fetchOG throws: what the text gave, and an old photo and retailer stay.
FetchFails(f) ==
  /\ fetch[f].pc = "asked"
  /\ draft' = [draft EXCEPT !.title = TitleOf(f, FALSE)]
  /\ showForm' = TRUE
  /\ trusted' = (fetch[f].last /\ fetch[f].clean)
  /\ fetch' = [fetch EXCEPT ![f] = NoFetch]
  /\ UNCHANGED <<pasted, photo, blank>>
-----------------------------------------------------------------------------
\* The creator types a title, or clears it.
TypeTitle(t) ==
  /\ FormShown /\ t \in {draft.url, Nothing} /\ t # draft.title
  /\ draft' = [draft EXCEPT !.title = t]
  /\ UNCHANGED <<pasted, showForm, fetch, photo, blank, trusted>>

\* onPick: one upload per button.
PickPhoto(u) ==
  /\ FormShown /\ photo[u].pc = "idle" /\ \A v \in Photos : ~photo[v].mine
  /\ photo' = [photo EXCEPT ![u] = [pc |-> "sent", for |-> draft.url, mine |-> TRUE]]
  /\ UNCHANGED <<pasted, draft, showForm, fetch, blank, trusted>>

\* onUploaded is setImageUrl of whatever the form holds by now.
Uploaded(u) ==
  /\ photo[u].pc = "sent"
  /\ draft' = [draft EXCEPT !.image = photo[u].for]
  /\ photo' = [photo EXCEPT ![u] = NoPhoto]
  /\ trusted' = (trusted /\ photo[u].mine)
  /\ fetch' = [f \in Fetches |-> [fetch[f] EXCEPT !.clean = FALSE]]
  /\ blank' = (blank /\ photo[u].mine)
  /\ UNCHANGED <<pasted, showForm>>

UploadFails(u) ==
  /\ photo[u].pc = "sent"
  /\ photo' = [photo EXCEPT ![u] = NoPhoto]
  /\ UNCHANGED <<pasted, draft, showForm, fetch, blank, trusted>>
-----------------------------------------------------------------------------
\* Mutant: the photo is not reset.
DraftAfterResetWithPhoto == [EmptyDraft EXCEPT !.image = draft.image]

DraftAfterReset == EmptyDraft

\* reset: "Cancel", and the end of handleAdd, which hands the draft to addProduct of
\* the editor (module ProductList).
Reset ==
  /\ pasted' = Nothing /\ showForm' = FALSE
  /\ draft' = DraftAfterReset
  /\ photo' = Unmounted
  /\ blank' = TRUE /\ trusted' = FALSE
  /\ UNCHANGED fetch

Cancel == FormShown /\ Reset
HandleAdd == FormShown /\ draft.title # Nothing /\ Reset
-----------------------------------------------------------------------------
PasteNext ==
  \/ PasteText
  \/ \E f \in Fetches :
       \/ \E p \in Products, named \in BOOLEAN : PasteLink(f, p, named)
       \/ \E ok, titled, pictured \in BOOLEAN : Answer(f, ok, titled, pictured)
       \/ FetchFails(f)
  \/ \E t \in Content : TypeTitle(t)
  \/ \E u \in Photos : PickPhoto(u) \/ Uploaded(u) \/ UploadFails(u)
  \/ Cancel \/ HandleAdd

PasteSpec == PasteInit /\ [][PasteNext]_pasteVars
-----------------------------------------------------------------------------
PasteTypeOK ==
  /\ pasted \in Content
  /\ draft \in [url : Content, title : Content, image : Content, retailer : Content]
  /\ {showForm, blank, trusted} \subseteq BOOLEAN
  /\ fetch \in [Fetches -> [pc : {"idle", "asked"}, of : Content, named : BOOLEAN,
                            last : BOOLEAN, clean : BOOLEAN]]
  /\ photo \in [Photos -> [pc : {"idle", "sent"}, for : Content, mine : BOOLEAN]]

\* The form shows one product, the one that was pasted last, and so does the draft it
\* hands to the cart.  Only a slow answer that comes in behind a newer one, a site that
\* blocks the fetch of a second paste, or a photo that was still on its way when the
\* form moved on can put parts of another product into it.
DraftIsOneProduct ==
  FormShown /\ trusted =>
    /\ draft.url = pasted
    /\ {draft.title, draft.image, draft.retailer} \subseteq {pasted, Nothing}
=============================================================================
