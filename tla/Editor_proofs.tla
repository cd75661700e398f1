--------------------------- MODULE Editor_proofs ----------------------------
(***************************************************************************)
(* Proofs about the parts of the editor, each for itself: the preview of a *)
(* pasted link (module PastePreview), the product list (ProductList) and   *)
(* the look of the cart (CartLook).  All of them are for any number of     *)
(* calls at the same time.                                                 *)
(***************************************************************************)
EXTENDS PastePreview, ProductList, CartLook, FiniteSetTheorems, SequenceTheorems, TLAPS

-----------------------------------------------------------------------------
(* The preview of a pasted link                                            *)

Drafts == [url : Content, title : Content, image : Content, retailer : Content]
FetchRecords ==
  [pc : {"idle", "asked"}, of : Content, named : BOOLEAN, last : BOOLEAN, clean : BOOLEAN]
PhotoRecords == [pc : {"idle", "sent"}, for : Content, mine : BOOLEAN]

\* The fetch of the last paste is for what is in the box.
LastIsPasted ==
  \A f \in Fetches : fetch[f].pc = "asked" /\ fetch[f].last => fetch[f].of = pasted

\* The fetch of the last paste into an empty form runs by itself, and the form has got
\* nothing but the link meanwhile.
CleanIsAlone ==
  \A f \in Fetches : fetch[f].pc = "asked" /\ fetch[f].last /\ fetch[f].clean =>
    /\ draft.url = pasted
    /\ draft.title = Nothing /\ draft.image = Nothing /\ draft.retailer = Nothing
    /\ \A g \in Fetches : g # f => fetch[g].pc = "idle"

\* A form that was reset is hidden and empty, and waits for nothing.
BlankIsEmpty ==
  blank => ~showForm /\ (\A f \in Fetches : fetch[f].pc = "idle") /\ draft = EmptyDraft

\* The photo button is there with its form, and its picture is for the form's product.
MineIsShown ==
  \A u \in Photos : photo[u].mine => FormShown /\ photo[u].for = draft.url

PasteInv ==
  /\ PasteTypeOK
  /\ LastIsPasted /\ CleanIsAlone /\ BlankIsEmpty /\ MineIsShown
  /\ DraftIsOneProduct
-----------------------------------------------------------------------------
\* The parts of the type invariant that the proofs use.
LEMMA Types ==
  ASSUME PasteTypeOK
  PROVE  /\ pasted \in Content /\ draft \in Drafts
         /\ fetch \in [Fetches -> FetchRecords] /\ photo \in [Photos -> PhotoRecords]
         /\ showForm \in BOOLEAN /\ blank \in BOOLEAN /\ trusted \in BOOLEAN
BY DEF PasteTypeOK, Drafts, FetchRecords, PhotoRecords

\* PasteTypeOK after a step, from the types of its parts.
LEMMA TypesSuffice ==
  ASSUME pasted' \in Content, draft' \in Drafts,
         fetch' \in [Fetches -> FetchRecords], photo' \in [Photos -> PhotoRecords],
         showForm' \in BOOLEAN, blank' \in BOOLEAN, trusted' \in BOOLEAN
  PROVE  PasteTypeOK'
BY DEF PasteTypeOK, Drafts, FetchRecords, PhotoRecords

\* A paste overtakes the fetches that run, and takes the photo button away.
LEMMA OvertakenFetches ==
  ASSUME PasteTypeOK
  PROVE  /\ Overtaken \in [Fetches -> FetchRecords]
         /\ \A f \in Fetches : ~Overtaken[f].last /\ Overtaken[f].pc = fetch[f].pc
BY Types DEF Overtaken, FetchRecords

\* No upload is its form's once the form is gone.
LEMMA UnmountedPhotos ==
  ASSUME PasteTypeOK
  PROVE  /\ Unmounted \in [Photos -> PhotoRecords]
         /\ \A u \in Photos : ~Unmounted[u].mine
BY Types DEF Unmounted, PhotoRecords

\* An empty form, no fetch and no upload have their types.
LEMMA Empties ==
  /\ EmptyDraft \in Drafts /\ NoFetch \in FetchRecords /\ NoPhoto \in PhotoRecords
  /\ EmptyDraft.url = Nothing /\ EmptyDraft.title = Nothing
  /\ EmptyDraft.image = Nothing /\ EmptyDraft.retailer = Nothing
  /\ NoFetch.pc = "idle" /\ ~NoPhoto.mine
BY DEF EmptyDraft, NoFetch, NoPhoto, Drafts, FetchRecords, PhotoRecords, Content

\* A hidden form with nothing in it.
LEMMA PasteInvInitially == PasteInit => PasteInv
<1> SUFFICES ASSUME PasteInit PROVE PasteInv
  OBVIOUS
<1>1. fetch = [f \in Fetches |-> NoFetch] /\ photo = [u \in Photos |-> NoPhoto] /\ pasted \in Content
  BY DEF PasteInit, Content
<1>2. PasteTypeOK
  BY <1>1, Empties DEF PasteInit, PasteTypeOK, Drafts, FetchRecords, PhotoRecords
<1>3. (\A f \in Fetches : fetch[f].pc = "idle") /\ (\A u \in Photos : ~photo[u].mine)
  BY <1>1, Empties
<1> QED
  BY <1>2, <1>3 DEF PasteInit, PasteInv, LastIsPasted, CleanIsAlone, BlankIsEmpty, MineIsShown, DraftIsOneProduct
-----------------------------------------------------------------------------
\* A text without a link hides the form, and no fetch is the last one any more.
LEMMA PasteTextInv ==
  ASSUME PasteInv, PasteText
  PROVE  PasteInv'
<1>1. PasteTypeOK
  BY DEF PasteInv
<1>2. draft' \in Drafts
  BY <1>1, Types DEF PasteText, Drafts, Content
<1>3. PasteTypeOK'
  BY <1>1, <1>2, Types, OvertakenFetches, UnmountedPhotos, TypesSuffice DEF PasteText, Content
<1>4. LastIsPasted' /\ CleanIsAlone'
  BY <1>1, OvertakenFetches DEF PasteText, LastIsPasted, CleanIsAlone
<1>5. BlankIsEmpty' /\ DraftIsOneProduct'
  BY DEF PasteText, BlankIsEmpty, DraftIsOneProduct, FormShown
<1>6. MineIsShown'
  BY <1>1, UnmountedPhotos DEF PasteText, MineIsShown
<1> QED
  BY <1>3, <1>4, <1>5, <1>6 DEF PasteInv

\* A link starts the fetch that is the last one, and the form is hidden until it is
\* answered.
LEMMA PasteLinkInv ==
  ASSUME PasteInv, NEW f \in Fetches, NEW p \in Products, NEW named \in BOOLEAN, PasteLink(f, p, named)
  PROVE  PasteInv'
<1> DEFINE started == [pc |-> "asked", of |-> p, named |-> named, last |-> TRUE, clean |-> blank /\ ~Pending]
<1>1. PasteTypeOK
  BY DEF PasteInv
<1>2. fetch' = [Overtaken EXCEPT ![f] = started]
  BY DEF PasteLink
<1>3. started \in FetchRecords /\ started.pc = "asked" /\ started.of = p /\ (started.clean => blank /\ ~Pending)
  BY <1>1, Types DEF FetchRecords, Content, Pending
<1> HIDE DEF started
<1>4. /\ fetch' \in [Fetches -> FetchRecords]
      /\ fetch'[f] = started
      /\ \A g \in Fetches : g # f => ~fetch'[g].last /\ fetch'[g].pc = fetch[g].pc
  BY <1>1, <1>2, <1>3, OvertakenFetches
<1>5. draft \in Drafts /\ draft' = [draft EXCEPT !.url = p]
  BY <1>1, Types DEF PasteLink
<1>6. /\ draft' \in Drafts /\ draft'.url = p
      /\ draft'.title = draft.title /\ draft'.image = draft.image /\ draft'.retailer = draft.retailer
  BY <1>5 DEF Drafts, Content
<1>7. PasteTypeOK'
  BY <1>1, <1>4, <1>6, Types, UnmountedPhotos, TypesSuffice DEF PasteLink, Content
<1>8. LastIsPasted'
  BY <1>3, <1>4 DEF PasteLink, LastIsPasted
<1>9. CleanIsAlone'
  <2> SUFFICES ASSUME NEW g \in Fetches, fetch'[g].last, fetch'[g].clean
               PROVE  /\ draft'.url = pasted'
                      /\ draft'.title = Nothing /\ draft'.image = Nothing /\ draft'.retailer = Nothing
                      /\ \A h \in Fetches : h # g => fetch'[h].pc = "idle"
    BY DEF CleanIsAlone
  <2>1. g = f /\ blank
    BY <1>3, <1>4
  <2>2. (\A h \in Fetches : fetch[h].pc = "idle") /\ draft = EmptyDraft
    BY <2>1 DEF PasteInv, BlankIsEmpty
  <2> QED
    BY <1>4, <1>6, <2>1, <2>2, Empties DEF PasteLink
<1>10. ~FormShown'
  BY <1>3, <1>4 DEF FormShown, Pending
<1>11. BlankIsEmpty' /\ DraftIsOneProduct'
  BY <1>10 DEF PasteLink, BlankIsEmpty, DraftIsOneProduct
<1>12. MineIsShown'
  BY <1>1, UnmountedPhotos DEF PasteLink, MineIsShown
<1> QED
  BY <1>7, <1>8, <1>9, <1>11, <1>12 DEF PasteInv
-----------------------------------------------------------------------------
\* What Answer and FetchFails have in common: one fetch ends, and a form that is trusted
\* after that has what the last paste is about.
LEMMA FetchEndsInv ==
  ASSUME PasteInv, NEW f \in Fetches, fetch[f].pc = "asked",
         fetch' = [fetch EXCEPT ![f] = NoFetch],
         draft' \in Drafts, showForm' = TRUE, trusted' \in BOOLEAN,
         trusted' => /\ draft'.url = pasted
                     /\ {draft'.title, draft'.image, draft'.retailer} \subseteq {pasted, Nothing},
         UNCHANGED <<pasted, photo, blank>>
  PROVE  PasteInv'
<1>1. PasteTypeOK
  BY DEF PasteInv
<1>2. /\ fetch' \in [Fetches -> FetchRecords]
      /\ fetch'[f].pc = "idle"
      /\ \A g \in Fetches : g # f => fetch'[g] = fetch[g]
  BY <1>1, Types, Empties
<1>3. PasteTypeOK'
  BY <1>1, <1>2, Types, TypesSuffice
<1>4. LastIsPasted'
  BY <1>2 DEF PasteInv, LastIsPasted
<1>5. CleanIsAlone'
  <2> SUFFICES ASSUME NEW g \in Fetches, fetch'[g].pc = "asked", fetch'[g].last, fetch'[g].clean
               PROVE  FALSE
    BY DEF CleanIsAlone
  <2> QED
    BY <1>2 DEF PasteInv, CleanIsAlone
<1>6. BlankIsEmpty'
  BY DEF PasteInv, BlankIsEmpty
<1>7. MineIsShown'
  <2>1. ~FormShown
    BY DEF FormShown, Pending
  <2> QED
    BY <2>1 DEF PasteInv, MineIsShown
<1>8. DraftIsOneProduct'
  BY DEF DraftIsOneProduct
<1> QED
  BY <1>3, <1>4, <1>5, <1>6, <1>7, <1>8 DEF PasteInv

\* An answer fills what it brought into the form.
LEMMA AnswerInv ==
  ASSUME PasteInv, NEW f \in Fetches,
         NEW ok \in BOOLEAN, NEW titled \in BOOLEAN, NEW pictured \in BOOLEAN,
         Answer(f, ok, titled, pictured)
  PROVE  PasteInv'
<1> DEFINE url == IF ok THEN fetch[f].of ELSE draft.url
           image == IF ~ok THEN draft.image ELSE IF pictured THEN fetch[f].of ELSE Nothing
<1>1. PasteTypeOK
  BY DEF PasteInv
<1>2. fetch[f] \in FetchRecords /\ draft \in Drafts /\ fetch[f].pc = "asked"
  BY <1>1, Types DEF Answer
<1>3. fetch[f].of \in Content /\ TitleOf(f, titled) \in {fetch[f].of, Nothing} /\ Nothing \in Content
  BY <1>2 DEF FetchRecords, TitleOf, Content
<1>4. url \in Content /\ image \in Content
  BY <1>2, <1>3 DEF Drafts
<1>5. draft' = [url |-> url, title |-> TitleOf(f, titled), image |-> image, retailer |-> fetch[f].of]
  BY DEF Answer
<1>6. ASSUME trusted'
      PROVE  url = pasted /\ image \in {pasted, Nothing} /\ fetch[f].of = pasted
  <2>1. fetch[f].last /\ (ok \/ fetch[f].clean)
    BY <1>6 DEF Answer
  <2>2. fetch[f].of = pasted
    BY <1>2, <2>1 DEF PasteInv, LastIsPasted
  <2>3. CASE ok
    BY <2>2, <2>3
  <2>4. CASE ~ok
    BY <1>2, <2>1, <2>2, <2>4 DEF PasteInv, CleanIsAlone
  <2> QED
    BY <2>3, <2>4
<1> HIDE DEF url, image
<1>7. /\ draft' \in Drafts
      /\ draft'.url = url /\ draft'.title = TitleOf(f, titled) /\ draft'.image = image
      /\ draft'.retailer = fetch[f].of
  BY <1>3, <1>4, <1>5 DEF Drafts
<1>8. trusted' => /\ draft'.url = pasted
                  /\ {draft'.title, draft'.image, draft'.retailer} \subseteq {pasted, Nothing}
  BY <1>3, <1>6, <1>7
<1>9. trusted' \in BOOLEAN
  BY <1>2 DEF Answer, FetchRecords
<1> QED
  BY <1>2, <1>7, <1>8, <1>9, FetchEndsInv DEF Answer

\* A fetch that fails still shows the form, with the title the link gives.
LEMMA FetchFailsInv ==
  ASSUME PasteInv, NEW f \in Fetches, FetchFails(f)
  PROVE  PasteInv'
<1>1. PasteTypeOK
  BY DEF PasteInv
<1>2. fetch[f] \in FetchRecords /\ draft \in Drafts /\ fetch[f].pc = "asked"
  BY <1>1, Types DEF FetchFails
<1>3. fetch[f].of \in Content /\ TitleOf(f, FALSE) \in {fetch[f].of, Nothing} /\ Nothing \in Content
  BY <1>2 DEF FetchRecords, TitleOf, Content
<1>4. draft' = [draft EXCEPT !.title = TitleOf(f, FALSE)]
  BY DEF FetchFails
<1>5. /\ draft' \in Drafts /\ draft'.title = TitleOf(f, FALSE)
      /\ draft'.url = draft.url /\ draft'.image = draft.image /\ draft'.retailer = draft.retailer
  BY <1>2, <1>3, <1>4 DEF Drafts
<1>6. ASSUME trusted'
      PROVE  /\ draft'.url = pasted
             /\ {draft'.title, draft'.image, draft'.retailer} \subseteq {pasted, Nothing}
  <2>1. fetch[f].last /\ fetch[f].clean
    BY <1>6 DEF FetchFails
  <2>2. fetch[f].of = pasted
    BY <1>2, <2>1 DEF PasteInv, LastIsPasted
  <2>3. draft.url = pasted /\ draft.image = Nothing /\ draft.retailer = Nothing
    BY <1>2, <2>1 DEF PasteInv, CleanIsAlone
  <2> QED
    BY <1>3, <1>5, <2>2, <2>3
<1>7. trusted' \in BOOLEAN
  BY <1>2 DEF FetchFails, FetchRecords
<1> QED
  BY <1>2, <1>5, <1>6, <1>7, FetchEndsInv DEF FetchFails
-----------------------------------------------------------------------------
\* What is typed is about the product of the link field.
LEMMA TypeTitleInv ==
  ASSUME PasteInv, NEW t \in Content, TypeTitle(t)
  PROVE  PasteInv'
<1>1. PasteTypeOK
  BY DEF PasteInv
<1>2. draft \in Drafts /\ draft' = [draft EXCEPT !.title = t] /\ t \in {draft.url, Nothing}
  BY <1>1, Types DEF TypeTitle
<1>3. /\ draft' \in Drafts /\ draft'.title = t
      /\ draft'.url = draft.url /\ draft'.image = draft.image /\ draft'.retailer = draft.retailer
  BY <1>2 DEF Drafts
<1>4. PasteTypeOK'
  BY <1>1, <1>3, Types, TypesSuffice DEF TypeTitle
<1>5. FormShown /\ ~Pending
  BY DEF TypeTitle, FormShown
<1>6. LastIsPasted' /\ CleanIsAlone' /\ BlankIsEmpty'
  BY <1>5 DEF TypeTitle, FormShown, Pending, PasteInv, LastIsPasted, CleanIsAlone, BlankIsEmpty
<1>7. FormShown' = FormShown
  BY DEF TypeTitle, FormShown, Pending
<1>8. MineIsShown' /\ DraftIsOneProduct'
  BY <1>2, <1>3, <1>7 DEF TypeTitle, PasteInv, MineIsShown, DraftIsOneProduct
<1> QED
  BY <1>4, <1>6, <1>8 DEF PasteInv

\* The picture is for the product of the form it is picked in.
LEMMA PickPhotoInv ==
  ASSUME PasteInv, NEW u \in Photos, PickPhoto(u)
  PROVE  PasteInv'
<1> DEFINE picked == [pc |-> "sent", for |-> draft.url, mine |-> TRUE]
<1>1. PasteTypeOK
  BY DEF PasteInv
<1>2. picked \in PhotoRecords /\ picked.for = draft.url
  BY <1>1, Types DEF PhotoRecords, Drafts
<1>3. photo' = [photo EXCEPT ![u] = picked]
  BY DEF PickPhoto
<1> HIDE DEF picked
<1>4. /\ photo' \in [Photos -> PhotoRecords]
      /\ photo'[u] = picked
      /\ \A v \in Photos : v # u => photo'[v] = photo[v]
  BY <1>1, <1>2, <1>3, Types
<1>5. PasteTypeOK'
  BY <1>1, <1>4, Types, TypesSuffice DEF PickPhoto
<1>6. FormShown' /\ FormShown
  BY DEF PickPhoto, FormShown, Pending
<1>7. MineIsShown'
  BY <1>2, <1>4, <1>6 DEF PickPhoto, PasteInv, MineIsShown
<1> QED
  BY <1>5, <1>6, <1>7 DEF PickPhoto, PasteInv, LastIsPasted, CleanIsAlone, BlankIsEmpty, DraftIsOneProduct

\* A picture of the form that is there is about its product; any other one is not
\* trusted, and leaves no form clean or blank.
LEMMA UploadedInv ==
  ASSUME PasteInv, NEW u \in Photos, Uploaded(u)
  PROVE  PasteInv'
<1>1. PasteTypeOK
  BY DEF PasteInv
<1>2. draft \in Drafts /\ photo[u] \in PhotoRecords /\ draft' = [draft EXCEPT !.image = photo[u].for]
  BY <1>1, Types DEF Uploaded
<1>3. /\ draft' \in Drafts /\ draft'.image = photo[u].for
      /\ draft'.url = draft.url /\ draft'.title = draft.title /\ draft'.retailer = draft.retailer
  BY <1>2 DEF Drafts, PhotoRecords
<1>4. /\ photo' \in [Photos -> PhotoRecords] /\ ~photo'[u].mine
      /\ \A v \in Photos : v # u => photo'[v] = photo[v]
  BY <1>1, Types, Empties DEF Uploaded
<1>5. fetch' = [f \in Fetches |-> [fetch[f] EXCEPT !.clean = FALSE]]
  BY DEF Uploaded
<1>6. /\ fetch' \in [Fetches -> FetchRecords]
      /\ \A f \in Fetches : /\ ~fetch'[f].clean /\ fetch'[f].pc = fetch[f].pc
                            /\ fetch'[f].of = fetch[f].of /\ fetch'[f].last = fetch[f].last
  BY <1>1, <1>5, Types DEF FetchRecords
<1>7. blank' \in BOOLEAN /\ trusted' \in BOOLEAN
  BY <1>1, <1>2, Types DEF Uploaded, PhotoRecords
<1>8. PasteTypeOK'
  BY <1>1, <1>3, <1>4, <1>6, <1>7, Types, TypesSuffice DEF Uploaded
<1>9. LastIsPasted' /\ CleanIsAlone'
  <2>1. pasted' = pasted
    BY DEF Uploaded
  <2>2. LastIsPasted'
    BY <1>6, <2>1 DEF PasteInv, LastIsPasted
  <2>3. CleanIsAlone'
    BY <1>6 DEF CleanIsAlone
  <2> QED
    BY <2>2, <2>3
<1>10. ~blank'
  BY DEF Uploaded, PasteInv, BlankIsEmpty, MineIsShown, FormShown
<1>11. (FormShown' => FormShown) /\ (FormShown => FormShown')
  <2>1. Pending' <=> Pending
    BY <1>6 DEF Pending
  <2>2. showForm' = showForm
    BY DEF Uploaded
  <2> QED
    BY <2>1, <2>2 DEF FormShown
<1>12. MineIsShown'
  BY <1>3, <1>4, <1>11 DEF PasteInv, MineIsShown
<1>13. DraftIsOneProduct'
  <2> SUFFICES ASSUME FormShown', trusted'
               PROVE  draft'.url = pasted' /\ {draft'.title, draft'.image, draft'.retailer} \subseteq {pasted', Nothing}
    BY DEF DraftIsOneProduct
  <2>1. trusted /\ photo[u].mine /\ FormShown /\ pasted' = pasted
    BY <1>11 DEF Uploaded
  <2>2. photo[u].for = draft.url
    BY <2>1 DEF PasteInv, MineIsShown
  <2> QED
    BY <1>3, <2>1, <2>2 DEF PasteInv, DraftIsOneProduct
<1> QED
  BY <1>8, <1>9, <1>10, <1>12, <1>13 DEF PasteInv, BlankIsEmpty

\* An upload that fails leaves the form as it is.
LEMMA UploadFailsInv ==
  ASSUME PasteInv, NEW u \in Photos, UploadFails(u)
  PROVE  PasteInv'
<1>1. PasteTypeOK
  BY DEF PasteInv
<1>2. /\ photo' \in [Photos -> PhotoRecords] /\ ~photo'[u].mine
      /\ \A v \in Photos : v # u => photo'[v] = photo[v]
  BY <1>1, Types, Empties DEF UploadFails
<1>3. PasteTypeOK'
  BY <1>1, <1>2, Types, TypesSuffice DEF UploadFails
<1>4. FormShown' = FormShown
  BY DEF UploadFails, FormShown, Pending
<1>5. MineIsShown' /\ DraftIsOneProduct'
  BY <1>2, <1>4 DEF UploadFails, PasteInv, MineIsShown, DraftIsOneProduct
<1> QED
  BY <1>3, <1>5 DEF UploadFails, PasteInv, LastIsPasted, CleanIsAlone, BlankIsEmpty

\* The form was shown, so that no fetch is running that could fill it again.
LEMMA ResetInv ==
  ASSUME PasteInv, FormShown, Reset
  PROVE  PasteInv'
<1>1. PasteTypeOK
  BY DEF PasteInv
<1>2. draft' = EmptyDraft /\ pasted' = Nothing /\ ~showForm' /\ ~trusted' /\ fetch' = fetch /\ photo' = Unmounted
  BY DEF Reset, DraftAfterReset
<1>3. PasteTypeOK'
  BY <1>1, <1>2, Types, Empties, UnmountedPhotos, TypesSuffice DEF Reset, Content
<1>4. \A f \in Fetches : fetch[f].pc = "idle"
  BY DEF FormShown, Pending
<1>5. LastIsPasted' /\ CleanIsAlone' /\ BlankIsEmpty'
  BY <1>2, <1>4 DEF LastIsPasted, CleanIsAlone, BlankIsEmpty, EmptyDraft
<1>6. MineIsShown' /\ DraftIsOneProduct'
  BY <1>1, <1>2, UnmountedPhotos DEF MineIsShown, DraftIsOneProduct
<1> QED
  BY <1>3, <1>5, <1>6 DEF PasteInv
-----------------------------------------------------------------------------
\* The invariant holds in every reachable state of the preview.
THEOREM PasteInvariant == PasteSpec => []PasteInv
<1>1. ASSUME PasteInv, [PasteNext]_pasteVars PROVE PasteInv'
  <2>1. CASE UNCHANGED pasteVars
    BY <1>1, <2>1 DEF pasteVars, PasteInv, PasteTypeOK, LastIsPasted, CleanIsAlone, BlankIsEmpty, MineIsShown,
       DraftIsOneProduct, FormShown, Pending
  <2>2. CASE PasteText
    BY <1>1, <2>2, PasteTextInv
  <2>3. ASSUME NEW f \in Fetches, NEW p \in Products, NEW named \in BOOLEAN, PasteLink(f, p, named)
        PROVE  PasteInv'
    BY <1>1, <2>3, PasteLinkInv
  <2>4. ASSUME NEW f \in Fetches, NEW ok \in BOOLEAN, NEW titled \in BOOLEAN, NEW pictured \in BOOLEAN,
               Answer(f, ok, titled, pictured)
        PROVE  PasteInv'
    BY <1>1, <2>4, AnswerInv
  <2>5. ASSUME NEW f \in Fetches, FetchFails(f) PROVE PasteInv'
    BY <1>1, <2>5, FetchFailsInv
  <2>6. ASSUME NEW t \in Content, TypeTitle(t) PROVE PasteInv'
    BY <1>1, <2>6, TypeTitleInv
  <2>7. ASSUME NEW u \in Photos, PickPhoto(u) \/ Uploaded(u) \/ UploadFails(u) PROVE PasteInv'
    BY <1>1, <2>7, PickPhotoInv, UploadedInv, UploadFailsInv
  <2>8. CASE Cancel \/ HandleAdd
    BY <1>1, <2>8, ResetInv DEF Cancel, HandleAdd
  <2> QED
    BY <1>1, <2>1, <2>2, <2>3, <2>4, <2>5, <2>6, <2>7, <2>8 DEF PasteNext
<1> QED
  BY <1>1, PasteInvInitially, PTL DEF PasteSpec

\* The variables of the preview always have their types.
THEOREM PasteTypeCorrect == PasteSpec => []PasteTypeOK
<1>1. PasteInv => PasteTypeOK
  BY DEF PasteInv
<1> QED
  BY <1>1, PasteInvariant, PTL

\* The form and the draft it hands to the cart (handlePaste and handleAdd of
\* paste-url-preview.tsx) are about the product that was pasted last, however many
\* fetches and uploads run, but for the answers that `trusted` names.
THEOREM DraftsAreOneProduct == PasteSpec => []DraftIsOneProduct
<1>1. PasteInv => DraftIsOneProduct
  BY DEF PasteInv
<1> QED
  BY <1>1, PasteInvariant, PTL
-----------------------------------------------------------------------------
(* The product list                                                        *)

\* Lists of products without a double.
Lists == {list \in Seq(Items) : \A i, j \in 1 .. Len(list) : list[i].id = list[j].id => i = j}

\* The product a call is about, whose id is not always one of the pool yet, or nothing.
ProductDrafts == {<< >>} \cup {<<item>> : item \in [id : Nat, title : Titles]}

ProductCalls ==
  [pc : {"idle", "sent", "changed", "answered"}, op : {"none", "add", "remove", "edit", "order"},
   item : ProductDrafts, ids : Seq(Nat), answer : Lists,
   mine : BOOLEAN, alone : BOOLEAN]

ListTypes ==
  /\ rows \in Lists /\ products \in Lists /\ keptList \subseteq Lists
  /\ deleted \in BOOLEAN /\ shown \in BOOLEAN /\ strayed \in BOOLEAN
  /\ editing \in {<< >>} \cup {<<item>> : item \in Items}
  /\ deletion \in {"none", "asked", "refused", "archived"}
  /\ call \in [Calls -> ProductCalls]
  /\ \A c \in Calls : call[c].op \in {"add", "remove", "edit"} => call[c].item # << >>

\* A call that has run by itself so far is the only one.
AloneIsOnly == \A c, d \in Running : call[c].alone => c = d

\* Nobody has changed the rows since a call that runs by itself read them.
AnswerIsTheCart == \A c \in Running : call[c].alone /\ call[c].pc = "answered" => call[c].answer = rows

\* As long as the calls are only sent, and none of them is a reorder, the list is still
\* the one the calls started from.
SentChangesNothing ==
  shown /\ ~strayed /\ (\A c \in Running : call[c].pc = "sent" /\ call[c].op # "order") => products = rows

\* An editor that calls of the one before run beside waits for a call that runs by itself.
BesideOthersIsAstray == shown /\ ~strayed => \A c \in Running : call[c].mine

ListInv ==
  /\ ListTypes /\ AloneIsOnly /\ AnswerIsTheCart
  /\ SentChangesNothing /\ BesideOthersIsAstray
-----------------------------------------------------------------------------
\* Lists of products: what the operations on them keep.

\* What a list of products without a double is, entry by entry.
LEMMA ItemFacts ==
  ASSUME NEW list \in Lists
  PROVE  /\ list \in Seq(Items) /\ Len(list) \in Nat /\ DOMAIN list = 1 .. Len(list)
         /\ \A i \in 1 .. Len(list) : list[i] \in Items /\ list[i].id \in 1 .. MaxItems /\ list[i].title \in Titles
         /\ \A i, j \in 1 .. Len(list) : list[i].id = list[j].id => i = j
<1>1. list \in Seq(Items) /\ \A i, j \in 1 .. Len(list) : list[i].id = list[j].id => i = j
  BY DEF Lists
<1>2. Len(list) \in Nat /\ DOMAIN list = 1 .. Len(list) /\ \A i \in 1 .. Len(list) : list[i] \in Items
  BY <1>1, LenProperties, ElementOfSeq
<1> QED
  BY <1>1, <1>2 DEF Items

\* A function from positions to products is a list.
LEMMA ListByPosition ==
  ASSUME NEW n \in Nat, NEW list \in [1 .. n -> Items],
         \A i, j \in 1 .. n : list[i].id = list[j].id => i = j
  PROVE  list \in Lists
BY DEF Lists

\* The pool of ids bounds a list.
LEMMA ListsAreShort ==
  ASSUME NEW list \in Lists
  PROVE  Len(list) <= MaxItems /\ list \in BoundedSeq(Items, MaxItems) /\ IsInjective(Ids(list))
<1>1. MaxItems \in Nat
  BY ProductsAssumption
<1>2. Len(list) <= MaxItems
  <2>1. SUFFICES ASSUME MaxItems < Len(list) PROVE FALSE
    BY <1>1, ItemFacts
  <2>2. IsFiniteSet(1 .. Len(list)) /\ Cardinality(1 .. Len(list)) = Len(list)
    <3>1. Len(list) \in Nat /\ Len(list) \in Int /\ 1 \in Int
      BY ItemFacts
    <3>2. IsFiniteSet(1 .. Len(list)) /\ Cardinality(1 .. Len(list)) = IF 1 > Len(list) THEN 0 ELSE Len(list) - 1 + 1
      BY <3>1, FS_Interval
    <3> QED
      BY <3>1, <3>2
  <2>3. IsFiniteSet(1 .. MaxItems) /\ Cardinality(1 .. MaxItems) = MaxItems
    BY <1>1, FS_Interval
  <2> DEFINE ids == [i \in 1 .. Len(list) |-> list[i].id]
  <2>4. ids \in [1 .. Len(list) -> 1 .. MaxItems]
    BY ItemFacts
  <2>5. \A x, y \in 1 .. Len(list) : ids[x] = ids[y] => x = y
    BY ItemFacts
  <2> HIDE DEF ids
  <2>6. \E x, y \in 1 .. Len(list) : x # y /\ ids[x] = ids[y]
    <3>1. Cardinality(1 .. MaxItems) < Cardinality(1 .. Len(list))
      BY <2>1, <2>2, <2>3
    <3> QED
      BY <2>2, <2>3, <2>4, <3>1, FS_PigeonHole
  <2> QED
    BY <2>5, <2>6
<1>3. list \in [1 .. Len(list) -> Items] /\ Len(list) \in 0 .. MaxItems
  BY <1>1, <1>2, ItemFacts, LenProperties
<1>4. IsInjective(Ids(list))
  BY ItemFacts DEF IsInjective, Ids
<1> QED
  BY <1>2, <1>3, <1>4 DEF BoundedSeq, SeqOf

\* A new product can be appended.
LEMMA AppendToList ==
  ASSUME NEW list \in Lists, NEW item \in Items, \A i \in DOMAIN list : list[i].id # item.id
  PROVE  Append(list, item) \in Lists
<1>1. list \in Seq(Items) /\ Len(list) \in Nat /\ DOMAIN list = 1 .. Len(list)
  BY ItemFacts
<1>2. /\ Append(list, item) \in Seq(Items) /\ Len(Append(list, item)) = Len(list) + 1
      /\ \A i \in 1 .. Len(list) : Append(list, item)[i] = list[i]
      /\ Append(list, item)[Len(list) + 1] = item
  BY <1>1, AppendProperties
<1>3. ASSUME NEW i \in 1 .. Len(list) + 1, NEW j \in 1 .. Len(list) + 1,
             Append(list, item)[i].id = Append(list, item)[j].id
      PROVE  i = j
  <2>1. (i \in 1 .. Len(list) \/ i = Len(list) + 1) /\ (j \in 1 .. Len(list) \/ j = Len(list) + 1)
    BY <1>1
  <2> QED
    BY <1>1, <1>2, <1>3, <2>1, ItemFacts
<1> QED
  BY <1>2, <1>3 DEF Lists

\* Taking one product out keeps the others in their order.
LEMMA RemoveFromList ==
  ASSUME NEW list \in Lists, NEW i \in 1 .. Len(list)
  PROVE  /\ RemoveAt(list, i) \in Lists /\ Len(RemoveAt(list, i)) = Len(list) - 1
         /\ \A k \in 1 .. Len(list) - 1 : RemoveAt(list, i)[k] = IF k < i THEN list[k] ELSE list[k + 1]
<1>1. list \in Seq(Items) /\ Len(list) \in Nat
  BY ItemFacts
<1> DEFINE front == SubSeq(list, 1, i - 1)
           back == SubSeq(list, i + 1, Len(list))
<1>2. /\ front \in Seq(Items) /\ Len(front) = i - 1
      /\ \A k \in 1 .. i - 1 : front[k] = list[k]
  <2>1. \A k \in 1 .. i - 1 : list[k] \in Items
    BY <1>1, ElementOfSeq
  <2>2. /\ front \in Seq(Items) /\ Len(front) = IF 1 <= i - 1 THEN i - 1 - 1 + 1 ELSE 0
        /\ \A k \in 1 .. i - 1 - 1 + 1 : front[k] = list[1 + k - 1]
    BY <2>1, SubSeqProperties
  <2> HIDE DEF front
  <2>3. \A k \in 1 .. i - 1 : k \in 1 .. i - 1 - 1 + 1 /\ 1 + k - 1 = k
    OBVIOUS
  <2>4. Len(front) = i - 1
    BY <2>2
  <2> QED
    BY <2>2, <2>3, <2>4
<1>3. /\ back \in Seq(Items) /\ Len(back) = Len(list) - i
      /\ \A k \in 1 .. Len(list) - i : back[k] = list[i + k]
  <2>1. \A k \in i + 1 .. Len(list) : list[k] \in Items
    BY <1>1, ElementOfSeq
  <2>2. /\ back \in Seq(Items) /\ Len(back) = IF i + 1 <= Len(list) THEN Len(list) - (i + 1) + 1 ELSE 0
        /\ \A k \in 1 .. Len(list) - (i + 1) + 1 : back[k] = list[i + 1 + k - 1]
    BY <1>1, <2>1, SubSeqProperties
  <2> HIDE DEF back
  <2>3. \A k \in 1 .. Len(list) - i : k \in 1 .. Len(list) - (i + 1) + 1 /\ i + 1 + k - 1 = i + k
    BY <1>1
  <2>4. Len(back) = Len(list) - i
    BY <1>1, <2>2
  <2> QED
    BY <2>2, <2>3, <2>4
<1> HIDE DEF front, back
<1>4. /\ front \o back \in Seq(Items) /\ Len(front \o back) = Len(list) - 1
      /\ \A k \in 1 .. Len(list) - 1 : (front \o back)[k] = IF k < i THEN list[k] ELSE list[k + 1]
  <2>1. /\ front \o back \in Seq(Items) /\ Len(front \o back) = (i - 1) + (Len(list) - i)
        /\ \A k \in 1 .. (i - 1) + (Len(list) - i) :
             (front \o back)[k] = IF k <= i - 1 THEN front[k] ELSE back[k - (i - 1)]
    <3>1. /\ front \o back \in Seq(Items) /\ Len(front \o back) = Len(front) + Len(back)
          /\ \A k \in 1 .. Len(front) + Len(back) :
               (front \o back)[k] = IF k <= Len(front) THEN front[k] ELSE back[k - Len(front)]
      BY <1>2, <1>3, ConcatProperties
    <3> QED
      BY <1>2, <1>3, <3>1
  <2>2. (i - 1) + (Len(list) - i) = Len(list) - 1
    BY <1>1
  <2>3. ASSUME NEW k \in 1 .. Len(list) - 1
        PROVE  (front \o back)[k] = IF k < i THEN list[k] ELSE list[k + 1]
    <3>1. CASE k < i
      <4>1. k \in 1 .. i - 1 /\ k <= i - 1
        BY <3>1
      <4> QED
        BY <1>2, <2>1, <2>2, <3>1, <4>1
    <3>2. CASE ~(k < i)
      <4>1. k - (i - 1) \in 1 .. Len(list) - i /\ i + (k - (i - 1)) = k + 1 /\ ~(k <= i - 1)
        BY <1>1, <3>2
      <4> QED
        BY <1>3, <2>1, <2>2, <3>2, <4>1
    <3> QED
      BY <3>1, <3>2
  <2> QED
    BY <2>1, <2>2, <2>3
<1>5. RemoveAt(list, i) = front \o back
  BY DEF RemoveAt, front, back
<1>6. ASSUME NEW k \in 1 .. Len(list) - 1, NEW m \in 1 .. Len(list) - 1,
             (front \o back)[k].id = (front \o back)[m].id
      PROVE  k = m
  <2> DEFINE old(x) == IF x < i THEN x ELSE x + 1
  <2>1. old(k) \in 1 .. Len(list) /\ old(m) \in 1 .. Len(list)
    BY <1>1
  <2>2. list[old(k)].id = list[old(m)].id
    BY <1>4, <1>6
  <2>3. old(k) = old(m)
    BY <2>1, <2>2, ItemFacts
  <2> QED
    BY <2>3
<1> QED
  BY <1>4, <1>5, <1>6 DEF Lists

\* One position moves, and all the others keep their order: a list of the same products.
LEMMA MoveInList ==
  ASSUME NEW list \in Lists, NEW from \in 1 .. Len(list), NEW to \in 1 .. Len(list)
  PROVE  ArrayMove(list, from, to) \in Lists
<1> DEFINE rest == RemoveAt(list, from)
           item == list[from]
           n == Len(list)
<1>1. list \in Seq(Items) /\ n \in Nat /\ item \in Items
  BY ItemFacts
<1>2. /\ rest \in Lists /\ Len(rest) = n - 1
      /\ \A k \in 1 .. n - 1 : rest[k] = IF k < from THEN list[k] ELSE list[k + 1]
  BY RemoveFromList
<1>3. rest \in Seq(Items)
  BY <1>2, ItemFacts
<1>4. \A k \in 1 .. n - 1 : rest[k].id # item.id
  <2>1. SUFFICES ASSUME NEW k \in 1 .. n - 1, rest[k].id = item.id PROVE FALSE
    OBVIOUS
  <2>2. CASE k < from
    <3>1. k \in 1 .. n /\ rest[k] = list[k]
      BY <1>1, <1>2, <2>2
    <3> QED
      BY <2>1, <2>2, <3>1, ItemFacts
  <2>3. CASE ~(k < from)
    <3>1. k + 1 \in 1 .. n /\ rest[k] = list[k + 1] /\ k + 1 # from
      BY <1>1, <1>2, <2>3
    <3> QED
      BY <2>1, <3>1, ItemFacts
  <2> QED
    BY <2>2, <2>3
<1> HIDE DEF rest, item
<1> DEFINE front == SubSeq(rest, 1, to - 1)
           back == SubSeq(rest, to, Len(rest))
<1>5. front \in Seq(Items) /\ Len(front) = to - 1 /\ \A k \in 1 .. to - 1 : front[k] = rest[k]
  <2>1. \A k \in 1 .. to - 1 : rest[k] \in Items
    BY <1>1, <1>2, <1>3, ElementOfSeq
  <2>2. /\ front \in Seq(Items) /\ Len(front) = IF 1 <= to - 1 THEN to - 1 - 1 + 1 ELSE 0
        /\ \A k \in 1 .. to - 1 - 1 + 1 : front[k] = rest[1 + k - 1]
    BY <2>1, SubSeqProperties
  <2> HIDE DEF front
  <2>3. \A k \in 1 .. to - 1 : k \in 1 .. to - 1 - 1 + 1 /\ 1 + k - 1 = k
    OBVIOUS
  <2>4. Len(front) = to - 1
    BY <2>2
  <2> QED
    BY <2>2, <2>3, <2>4
<1>6. back \in Seq(Items) /\ Len(back) = n - to /\ \A k \in 1 .. n - to : back[k] = rest[to + k - 1]
  <2>1. \A k \in to .. n - 1 : rest[k] \in Items
    BY <1>1, <1>2, <1>3, ElementOfSeq
  <2>2. /\ back \in Seq(Items) /\ Len(back) = IF to <= n - 1 THEN n - 1 - to + 1 ELSE 0
        /\ \A k \in 1 .. n - 1 - to + 1 : back[k] = rest[to + k - 1]
    BY <1>1, <1>2, <2>1, SubSeqProperties
  <2> HIDE DEF back
  <2>3. n - 1 - to + 1 = n - to
    BY <1>1
  <2>4. Len(back) = n - to
    BY <1>1, <2>2
  <2> QED
    BY <2>2, <2>3, <2>4
<1> HIDE DEF front, back
<1> DEFINE head == front \o <<item>>
           moved == head \o back
<1>7. /\ head \in Seq(Items) /\ Len(head) = to
      /\ \A k \in 1 .. to - 1 : head[k] = rest[k]
      /\ head[to] = item
  <2>1. <<item>> \in Seq(Items) /\ Len(<<item>>) = 1 /\ <<item>>[1] = item
    BY <1>1
  <2>2. /\ head \in Seq(Items) /\ Len(head) = (to - 1) + 1
        /\ \A k \in 1 .. (to - 1) + 1 : head[k] = IF k <= to - 1 THEN front[k] ELSE <<item>>[k - (to - 1)]
    <3>1. /\ front \o <<item>> \in Seq(Items) /\ Len(front \o <<item>>) = Len(front) + Len(<<item>>)
          /\ \A k \in 1 .. Len(front) + Len(<<item>>) :
               (front \o <<item>>)[k] = IF k <= Len(front) THEN front[k] ELSE <<item>>[k - Len(front)]
      BY <1>5, <2>1, ConcatProperties
    <3> QED
      BY <1>5, <2>1, <3>1
  <2> HIDE DEF head
  <2>3. (to - 1) + 1 = to /\ to - (to - 1) = 1 /\ to \in 1 .. to /\ ~(to <= to - 1)
    OBVIOUS
  <2>4. \A k \in 1 .. to - 1 : k \in 1 .. to /\ k <= to - 1
    OBVIOUS
  <2>5. head[to] = item
    BY <2>1, <2>2, <2>3
  <2> QED
    BY <1>5, <2>2, <2>3, <2>4, <2>5
<1> HIDE DEF head
<1>8. /\ moved \in Seq(Items) /\ Len(moved) = n
      /\ \A k \in 1 .. to - 1 : moved[k] = rest[k]
      /\ moved[to] = item
      /\ \A k \in to + 1 .. n : moved[k] = rest[k - 1]
  <2>1. /\ moved \in Seq(Items) /\ Len(moved) = to + (n - to)
        /\ \A k \in 1 .. to + (n - to) : moved[k] = IF k <= to THEN head[k] ELSE back[k - to]
    <3>1. /\ head \o back \in Seq(Items) /\ Len(head \o back) = Len(head) + Len(back)
          /\ \A k \in 1 .. Len(head) + Len(back) :
               (head \o back)[k] = IF k <= Len(head) THEN head[k] ELSE back[k - Len(head)]
      BY <1>6, <1>7, ConcatProperties
    <3> QED
      BY <1>6, <1>7, <3>1
  <2> HIDE DEF moved
  <2>2. to + (n - to) = n
    BY <1>1
  <2>3. \A k \in 1 .. to - 1 : k \in 1 .. n /\ k <= to
    BY <1>1
  <2>4. ASSUME NEW k \in to + 1 .. n PROVE moved[k] = rest[k - 1]
    <3>1. k \in 1 .. n /\ ~(k <= to) /\ k - to \in 1 .. n - to /\ to + (k - to) - 1 = k - 1
      BY <1>1
    <3> QED
      BY <1>6, <2>1, <2>2, <3>1
  <2>5. \A k \in 1 .. to - 1 : moved[k] = rest[k]
    BY <1>7, <2>1, <2>2, <2>3
  <2>6. to \in 1 .. n /\ to <= to
    BY <1>1
  <2>7. moved[to] = item
    BY <1>7, <2>1, <2>2, <2>6
  <2> QED
    BY <2>1, <2>2, <2>4, <2>5, <2>7
<1>9. moved = ArrayMove(list, from, to)
  BY DEF moved, head, front, back, rest, item, ArrayMove, InsertAt
<1> HIDE DEF moved
<1>10. ASSUME NEW i \in 1 .. n, NEW j \in 1 .. n, moved[i].id = moved[j].id
       PROVE  i = j
  <2> DEFINE old(x) == IF x < to THEN x ELSE x - 1
  <2>1. \A x \in 1 .. n : x # to => old(x) \in 1 .. n - 1 /\ moved[x] = rest[old(x)]
    <3>1. SUFFICES ASSUME NEW x \in 1 .. n, x # to
                   PROVE  old(x) \in 1 .. n - 1 /\ moved[x] = rest[old(x)]
      OBVIOUS
    <3>2. CASE x < to
      <4>1. x \in 1 .. to - 1 /\ x \in 1 .. n - 1
        BY <1>1, <3>2
      <4> QED
        BY <1>8, <3>2, <4>1
    <3>3. CASE ~(x < to)
      <4>1. x \in to + 1 .. n /\ x - 1 \in 1 .. n - 1
        BY <1>1, <3>1, <3>3
      <4> QED
        BY <1>8, <3>3, <4>1
    <3> QED
      BY <3>2, <3>3
  <2>2. \A x \in 1 .. n : x # to => moved[x].id # item.id
    BY <1>4, <2>1
  <2>3. CASE i = to \/ j = to
    BY <1>8, <1>10, <2>2, <2>3
  <2>4. CASE i # to /\ j # to
    <3>1. old(i) \in 1 .. n - 1 /\ old(j) \in 1 .. n - 1 /\ rest[old(i)].id = rest[old(j)].id
      BY <1>10, <2>1, <2>4
    <3>2. old(i) = old(j)
      BY <1>2, <3>1, ItemFacts
    <3> QED
      BY <2>4, <3>2
  <2> QED
    BY <2>3, <2>4
<1> QED
  BY <1>8, <1>9, <1>10 DEF Lists

\* The rows in another order are the same rows.
LEMMA ShufflesAreLists ==
  ASSUME NEW list \in Lists, NEW other \in Shuffles(list)
  PROVE  other \in Lists
<1>1. DOMAIN list = 1 .. Len(list) /\ Len(list) \in Nat
  BY ItemFacts
<1>2. PICK p \in [DOMAIN list -> DOMAIN list] :
        /\ \A i, j \in DOMAIN list : i # j => p[i] # p[j]
        /\ other = [i \in DOMAIN list |-> list[p[i]]]
  BY DEF Shuffles
<1>3. other \in [1 .. Len(list) -> Items]
  BY <1>1, <1>2, ItemFacts
<1>4. \A i, j \in 1 .. Len(list) : other[i].id = other[j].id => i = j
  <2>1. SUFFICES ASSUME NEW i \in 1 .. Len(list), NEW j \in 1 .. Len(list), other[i].id = other[j].id
                 PROVE  i = j
    OBVIOUS
  <2>2. list[p[i]].id = list[p[j]].id
    BY <1>1, <1>2, <2>1
  <2>3. p[i] = p[j]
    BY <1>1, <1>2, <2>2, ItemFacts
  <2> QED
    BY <1>1, <1>2, <2>3
<1> QED
  BY <1>1, <1>3, <1>4, ListByPosition

\* Whatever a change does, alone or beside a reorder, the rows have no double.
LEMMA ChangedRowsAreLists ==
  ASSUME ListInv, NEW c \in Calls, Change(c)
  PROVE  rows' \in Lists
<1>1. rows \in Lists /\ call[c] \in ProductCalls /\ call[c].item \in ProductDrafts
  BY DEF ListInv, ListTypes, ProductCalls
<1>2. Len(rows) \in Nat /\ DOMAIN rows = 1 .. Len(rows)
  BY <1>1, ItemFacts
<1> DEFINE item == call[c].item[1]
           places == {i \in DOMAIN rows : rows[i].id = item.id}
<1>3. call[c].op \in {"add", "remove", "edit"} => item \in [id : Nat, title : Titles]
  BY <1>1 DEF ListInv, ListTypes, ProductDrafts
<1>4. ASSUME NEW list \in Changed(c), call[c].op = "add" PROVE list \in Lists
  <2>1. PICK id \in FreshIds : list = Append(rows, [item EXCEPT !.id = id])
    BY <1>4 DEF Changed
  <2>2. [item EXCEPT !.id = id] \in Items /\ [item EXCEPT !.id = id].id = id
    BY <1>3, <1>4, <2>1 DEF FreshIds, Items
  <2>3. \A i \in DOMAIN rows : rows[i].id # id
    <3>1. id \notin ToSet(Ids(rows))
      BY <2>1 DEF FreshIds
    <3>2. \A i \in DOMAIN rows : rows[i].id \in ToSet(Ids(rows))
      BY DEF ToSet, Ids
    <3> QED
      BY <3>1, <3>2
  <2> HIDE DEF item
  <2> QED
    BY <1>1, <2>1, <2>2, <2>3, AppendToList
<1>5. ASSUME NEW list \in Changed(c), call[c].op = "remove" PROVE list \in Lists
  <2>1. list = rows \/ \E i \in DOMAIN rows : list = RemoveAt(rows, i)
    BY <1>5 DEF Changed
  <2> QED
    BY <1>1, <1>2, <2>1, RemoveFromList
<1>6. ASSUME NEW list \in Changed(c), call[c].op = "edit" PROVE list \in Lists
  <2>1. list = [i \in 1 .. Len(rows) |-> IF i \in places THEN item ELSE rows[i]]
    BY <1>2, <1>6 DEF Changed
  <2>2. \A i \in places : i \in 1 .. Len(rows) /\ rows[i].id = item.id
    BY <1>2
  <2>3. places # {} => item \in Items
    BY <1>1, <1>3, <1>6, <2>2, ItemFacts DEF Items
  <2> HIDE DEF item, places
  <2>4. list \in [1 .. Len(rows) -> Items]
    BY <1>1, <2>1, <2>3, ItemFacts
  <2>5. \A i \in 1 .. Len(rows) : list[i].id = rows[i].id
    BY <2>1, <2>2
  <2>6. \A i, j \in 1 .. Len(rows) : list[i].id = list[j].id => i = j
    BY <1>1, <2>5, ItemFacts
  <2> QED
    BY <1>2, <2>4, <2>6, ListByPosition
<1>7. ASSUME NEW list \in Changed(c), call[c].op \notin {"add", "remove", "edit"} PROVE list \in Lists
  <2>1. list \in Shuffles(rows)
    BY <1>7 DEF Changed
  <2> QED
    BY <1>1, <2>1, ShufflesAreLists
<1>8. \A list \in Changed(c) : list \in Lists
  BY <1>4, <1>5, <1>6, <1>7
<1>9. \/ rows' \in Changed(c)
      \/ \E list \in Changed(c) \cup {rows} : rows' \in Shuffles(list)
  BY DEF Change
<1> QED
  BY <1>1, <1>8, <1>9, ShufflesAreLists
-----------------------------------------------------------------------------
\* An empty list over an empty cart.
LEMMA ListInvInitially == ListInit => ListInv
<1> SUFFICES ASSUME ListInit PROVE ListInv
  OBVIOUS
<1>1. rows \in Lists
  <2>1. PICK n \in 0 .. MaxItems, t \in Titles : rows = [i \in 1 .. n |-> [id |-> i, title |-> t]]
    BY DEF ListInit
  <2>2. n \in Nat /\ rows \in [1 .. n -> Items]
    BY <2>1, ProductsAssumption DEF Items
  <2>3. \A i, j \in 1 .. n : rows[i].id = rows[j].id => i = j
    BY <2>1
  <2> QED
    BY <2>2, <2>3, ListByPosition
<1>2. << >> \in Lists /\ << >> \in Seq(Nat)
  <2>1. << >> \in Seq(Items) /\ Len(<< >>) = 0 /\ << >> \in Seq(Nat)
    BY EmptySeq
  <2> QED
    BY <2>1 DEF Lists
<1>3. NoCall \in ProductCalls /\ NoCall.pc = "idle" /\ NoCall.op = "none"
  BY <1>2 DEF NoCall, ProductCalls, ProductDrafts
<1>4. call = [c \in Calls |-> NoCall]
  BY DEF ListInit
<1>5. call \in [Calls -> ProductCalls] /\ \A c \in Calls : call[c].pc = "idle" /\ call[c].op = "none"
  BY <1>3, <1>4
<1>6. ListTypes
  BY <1>1, <1>5 DEF ListInit, ListTypes, NotEditing
<1>7. AloneIsOnly /\ AnswerIsTheCart /\ SentChangesNothing /\ BesideOthersIsAstray
  BY <1>5 DEF ListInit, AloneIsOnly, AnswerIsTheCart, SentChangesNothing, BesideOthersIsAstray, Running
<1> QED
  BY <1>6, <1>7 DEF ListInv

\* A call that starts: it is alone if it is the first, and the others are alone no more.
LEMMA StartCall ==
  ASSUME ListInv, NEW c \in Calls, NEW op \in {"add", "remove", "edit", "order"},
         NEW item \in ProductDrafts, NEW ids \in Seq(Nat), Start(c, op, item, ids),
         op # "order" => item # << >>,
         products' \in Lists, op # "order" => products' = products,
         editing' \in {<< >>} \cup {<<row>> : row \in Items}
  PROVE  ListInv'
<1>1. UNCHANGED <<rows, deleted, keptList, deletion, shown, strayed>>
  BY DEF Start
<1>2. << >> \in Lists
  <2>1. << >> \in Seq(Items) /\ Len(<< >>) = 0
    BY EmptySeq
  <2> QED
    BY <2>1 DEF Lists
<1> DEFINE new == [pc |-> "sent", op |-> op, item |-> item, ids |-> ids, answer |-> << >>,
                    mine |-> TRUE, alone |-> Running = {}]
           old(d) == [call[d] EXCEPT !.alone = FALSE]
<1>3. /\ new \in ProductCalls /\ new.pc = "sent" /\ new.op = op /\ new.item = item
      /\ new.mine /\ (new.alone <=> Running = {})
  <2>1. (Running = {}) \in BOOLEAN
    OBVIOUS
  <2>2. new \in ProductCalls
    BY <1>2, <2>1 DEF ProductCalls
  <2> QED
    BY <2>2
<1>4. \A d \in Calls : /\ old(d) \in ProductCalls /\ ~old(d).alone
                       /\ old(d).pc = call[d].pc /\ old(d).op = call[d].op /\ old(d).item = call[d].item
                       /\ old(d).mine = call[d].mine
  BY DEF ListInv, ListTypes, ProductCalls
<1>5. call' = [d \in Calls |-> IF d = c THEN new ELSE old(d)] /\ c \notin Running
  BY DEF Start
<1> HIDE DEF new, old
<1>6. call' \in [Calls -> ProductCalls] /\ call'[c] = new /\ \A d \in Calls \ {c} : call'[d] = old(d)
  BY <1>3, <1>4, <1>5
<1>7. Running' = Running \cup {c}
  BY <1>3, <1>4, <1>6 DEF Running
<1>8. \A d \in Calls : call'[d].op \in {"add", "remove", "edit"} => call'[d].item # << >>
  <2>1. SUFFICES ASSUME NEW d \in Calls, call'[d].op \in {"add", "remove", "edit"} PROVE call'[d].item # << >>
    OBVIOUS
  <2>2. CASE d = c
    BY <1>3, <1>6, <2>1, <2>2
  <2>3. CASE d # c
    BY <1>4, <1>6, <2>1, <2>3 DEF ListInv, ListTypes
  <2> QED
    BY <2>2, <2>3
<1>9. ListTypes'
  BY <1>1, <1>6, <1>8 DEF ListInv, ListTypes
<1>10. \A d \in Calls : call'[d].alone => d = c /\ Running = {}
  BY <1>3, <1>4, <1>6
<1>11. AloneIsOnly'
  BY <1>7, <1>10 DEF AloneIsOnly, Running
<1>12. AnswerIsTheCart'
  BY <1>3, <1>6, <1>10 DEF AnswerIsTheCart, Running
<1>13. SentChangesNothing'
  <2>1. SUFFICES ASSUME shown, ~strayed, \A d \in Running' : call'[d].pc = "sent" /\ call'[d].op # "order"
                 PROVE  products' = rows
    BY <1>1 DEF SentChangesNothing
  <2>2. op # "order" /\ \A d \in Running : call[d].pc = "sent" /\ call[d].op # "order"
    <3>1. \A d \in Running : d \in Calls \ {c} /\ d \in Running'
      BY <1>5, <1>7 DEF Running
    <3> QED
      BY <1>3, <1>4, <1>6, <1>7, <2>1, <3>1
  <2> QED
    BY <2>1, <2>2 DEF ListInv, SentChangesNothing
<1>14. BesideOthersIsAstray'
  <2>1. SUFFICES ASSUME shown, ~strayed, NEW d \in Running' PROVE call'[d].mine
    BY <1>1 DEF BesideOthersIsAstray
  <2>2. CASE d = c
    BY <1>3, <1>6, <2>2
  <2>3. CASE d # c
    <3>1. d \in Running /\ d \in Calls \ {c}
      BY <1>7, <2>3 DEF Running
    <3> QED
      BY <1>4, <1>6, <2>1, <3>1 DEF ListInv, BesideOthersIsAstray
  <2> QED
    BY <2>2, <2>3
<1> QED
  BY <1>9, <1>11, <1>12, <1>13, <1>14 DEF ListInv

\* A call that adds is sent.
LEMMA AddProductInv ==
  ASSUME ListInv, NEW c \in Calls, NEW t \in Titles, AddProduct(c, t)
  PROVE  ListInv'
<1>1. <<[id |-> MaxItems, title |-> t]>> \in ProductDrafts /\ <<[id |-> MaxItems, title |-> t]>> # << >>
  BY ProductsAssumption DEF ProductDrafts
<1>2. << >> \in Seq(Nat)
  BY EmptySeq
<1>3. products' \in Lists /\ products' = products /\ editing' \in {<< >>} \cup {<<row>> : row \in Items}
  BY DEF AddProduct, ListInv, ListTypes
<1> QED
  BY <1>1, <1>2, <1>3, StartCall DEF AddProduct

\* A call that removes is sent.
LEMMA RemoveProductInv ==
  ASSUME ListInv, NEW c \in Calls, NEW i \in 1 .. MaxItems, RemoveProduct(c, i)
  PROVE  ListInv'
<1>1. products \in Lists
  BY DEF ListInv, ListTypes
<1>2. i \in 1 .. Len(products)
  BY <1>1, ItemFacts DEF RemoveProduct
<1>3. products[i] \in [id : Nat, title : Titles]
  BY <1>1, <1>2, ItemFacts, ProductsAssumption DEF Items
<1>4. <<products[i]>> \in ProductDrafts /\ <<products[i]>> # << >>
  BY <1>3 DEF ProductDrafts
<1>5. << >> \in Seq(Nat)
  BY EmptySeq
<1>6. products' \in Lists /\ products' = products /\ editing' \in {<< >>} \cup {<<row>> : row \in Items}
  BY DEF RemoveProduct, ListInv, ListTypes
<1> QED
  BY <1>4, <1>5, <1>6, StartCall DEF RemoveProduct

\* The ids of a list are a sequence.
LEMMA IdsOfAList ==
  ASSUME NEW list \in Lists
  PROVE  Ids(list) \in Seq(Nat) /\ Ids(list) \in [1 .. Len(list) -> Nat]
<1>1. DOMAIN list = 1 .. Len(list) /\ Len(list) \in Nat /\ \A i \in 1 .. Len(list) : list[i].id \in Nat
  BY ItemFacts
<1>2. Ids(list) \in [1 .. Len(list) -> Nat]
  BY <1>1 DEF Ids
<1> QED
  BY <1>1, <1>2

\* A call that reorders is sent: by the arrows, or by a drag that has reordered the list already.
LEMMA MoveInv ==
  ASSUME ListInv, NEW c \in Calls, NEW i \in 1 .. MaxItems, NEW j \in 1 .. MaxItems,
         Move(c, i, j) \/ DragEnd(c, i, j)
  PROVE  ListInv'
<1>1. products \in Lists
  BY DEF ListInv, ListTypes
<1>2. i \in 1 .. Len(products) /\ j \in 1 .. Len(products) /\ Len(products) \in Nat
  BY <1>1, ItemFacts DEF Move, DragEnd
<1>3. << >> \in ProductDrafts /\ editing' \in {<< >>} \cup {<<row>> : row \in Items}
  BY DEF ProductDrafts, Move, DragEnd, ListInv, ListTypes
<1>4. CASE Move(c, i, j)
  <2> DEFINE ids == [Ids(products) EXCEPT ![i] = products[j].id, ![j] = products[i].id]
  <2>1. ids \in [1 .. Len(products) -> Nat]
    <3>1. Ids(products) \in [1 .. Len(products) -> Nat]
      BY <1>1, IdsOfAList
    <3>2. products[i].id \in Nat /\ products[j].id \in Nat
      BY <1>1, <1>2, ItemFacts
    <3> QED
      BY <3>1, <3>2
  <2>2. Start(c, "order", << >>, ids) /\ products' = products
    BY <1>4 DEF Move
  <2> HIDE DEF ids
  <2>3. ids \in Seq(Nat)
    BY <1>2, <2>1
  <2> QED
    BY <1>1, <1>3, <2>2, <2>3, StartCall
<1>5. CASE DragEnd(c, i, j)
  <2>1. ArrayMove(products, i, j) \in Lists
    BY <1>1, <1>2, MoveInList
  <2>2. Ids(ArrayMove(products, i, j)) \in Seq(Nat)
    BY <2>1, IdsOfAList
  <2>3. Start(c, "order", << >>, Ids(ArrayMove(products, i, j))) /\ products' = ArrayMove(products, i, j)
    BY <1>5 DEF DragEnd
  <2> QED
    BY <1>3, <2>1, <2>2, <2>3, StartCall
<1> QED
  BY <1>4, <1>5

\* A call that edits is sent from the row being edited.
LEMMA EditProductInv ==
  ASSUME ListInv, NEW c \in Calls, EditProduct(c)
  PROVE  ListInv'
<1>1. editing \in ProductDrafts /\ editing # << >>
  BY ProductsAssumption DEF EditProduct, NotEditing, ListInv, ListTypes, ProductDrafts, Items
<1>2. << >> \in Seq(Nat)
  BY EmptySeq
<1>3. products' \in Lists /\ products' = products /\ editing' = << >>
  BY DEF EditProduct, NotEditing, ListInv, ListTypes
<1> QED
  BY <1>1, <1>2, <1>3, StartCall DEF EditProduct

\* What only the row that is edited sees, and the deletion of the cart up to its answer.
LEMMA BesideTheCallsInv ==
  ASSUME ListInv, UNCHANGED <<rows, products, keptList, call, shown, strayed>>, deleted' \in BOOLEAN,
         editing' \in {<< >>} \cup {<<item>> : item \in Items},
         deletion' \in {"none", "asked", "refused", "archived"}
  PROVE  ListInv'
<1>1. ListTypes'
  BY DEF ListInv, ListTypes
<1>2. Running' = Running
  BY DEF Running
<1> QED
  BY <1>1, <1>2 DEF ListInv, AloneIsOnly, AnswerIsTheCart, SentChangesNothing, BesideOthersIsAstray

\* Editing a row changes no list.
LEMMA EditingInv ==
  ASSUME ListInv, \/ \E i \in 1 .. MaxItems : StartEdit(i)
                  \/ \E t \in Titles : TypeInRow(t)
                  \/ CancelEdit
  PROVE  ListInv'
<1>1. UNCHANGED <<rows, deleted, products, keptList, call, calls, deletion, shown, strayed>>
  BY DEF StartEdit, TypeInRow, CancelEdit
<1>2. editing' \in {<< >>} \cup {<<item>> : item \in Items}
  <2>1. ASSUME NEW i \in 1 .. MaxItems, StartEdit(i) PROVE editing' \in {<<item>> : item \in Items}
    <3>1. products \in Lists
      BY DEF ListInv, ListTypes
    <3>2. i \in 1 .. Len(products)
      BY <2>1, <3>1, ItemFacts DEF StartEdit
    <3> QED
      BY <2>1, <3>1, <3>2, ItemFacts DEF StartEdit
  <2>2. ASSUME NEW t \in Titles, TypeInRow(t) PROVE editing' \in {<<item>> : item \in Items}
    <3>1. PICK item \in Items : editing = <<item>>
      BY <2>2 DEF TypeInRow, NotEditing, ListInv, ListTypes
    <3>2. editing' = <<[item EXCEPT !.title = t]>>
      BY <2>2, <3>1 DEF TypeInRow
    <3>3. [item EXCEPT !.title = t] \in Items
      BY DEF Items
    <3> QED
      BY <3>2, <3>3
  <2> QED
    BY <2>1, <2>2 DEF CancelEdit, NotEditing
<1>3. deleted' \in BOOLEAN /\ deletion' \in {"none", "asked", "refused", "archived"}
  BY <1>1 DEF ListInv, ListTypes
<1> QED
  BY <1>1, <1>2, <1>3, BesideTheCallsInv

\* The deletion of the cart is sent, done or failed.
LEMMA DeletionInv ==
  ASSUME ListInv, HandleDelete \/ DeleteOnServer \/ DeleteFails
  PROVE  ListInv'
<1>1. UNCHANGED <<rows, products, keptList, editing, call, shown, strayed>>
  BY DEF HandleDelete, DeleteOnServer, DeleteFails
<1>2. deleted' \in BOOLEAN /\ deletion' \in {"none", "asked", "refused", "archived"}
  BY DEF HandleDelete, DeleteOnServer, DeleteFails, ListInv, ListTypes
<1>3. editing' \in {<< >>} \cup {<<item>> : item \in Items}
  BY <1>1 DEF ListInv, ListTypes
<1> QED
  BY <1>1, <1>2, <1>3, BesideTheCallsInv
-----------------------------------------------------------------------------
\* A call that is no longer in flight.
LEMMA NoCallIsIdle == NoCall \in ProductCalls /\ NoCall.pc = "idle" /\ NoCall.op = "none"
<1>1. << >> \in Lists /\ << >> \in Seq(Nat)
  <2>1. << >> \in Seq(Items) /\ Len(<< >>) = 0 /\ << >> \in Seq(Nat)
    BY EmptySeq
  <2> QED
    BY <2>1 DEF Lists
<1> QED
  BY <1>1 DEF NoCall, ProductCalls, ProductDrafts

\* The change on the server: from now on the call has changed something.
LEMMA ChangeInv ==
  ASSUME ListInv, NEW c \in Calls, Change(c)
  PROVE  ListInv'
<1>1. /\ call[c].pc = "sent" /\ call' = [call EXCEPT ![c].pc = "changed"]
      /\ UNCHANGED <<deleted, products, keptList, editing, deletion, shown, strayed>>
  BY DEF Change
<1>2. rows' \in Lists
  BY ChangedRowsAreLists
<1> DEFINE new == [call[c] EXCEPT !.pc = "changed"]
<1>3. /\ new \in ProductCalls /\ new.pc = "changed" /\ new.op = call[c].op /\ new.item = call[c].item
      /\ new.mine = call[c].mine /\ new.alone = call[c].alone
  BY DEF ListInv, ListTypes, ProductCalls
<1>4. call' = [call EXCEPT ![c] = new]
  BY <1>1
<1> HIDE DEF new
<1>5. call' \in [Calls -> ProductCalls] /\ call'[c] = new /\ \A d \in Calls \ {c} : call'[d] = call[d]
  BY <1>3, <1>4 DEF ListInv, ListTypes
<1>6. Running' = Running /\ c \in Running
  BY <1>1, <1>3, <1>5 DEF Running
<1>7. \A d \in Calls : call'[d].op \in {"add", "remove", "edit"} => call'[d].item # << >>
  BY <1>3, <1>5 DEF ListInv, ListTypes
<1>8. ListTypes'
  BY <1>1, <1>2, <1>5, <1>7 DEF ListInv, ListTypes
<1>9. \A d \in Calls : call'[d].alone = call[d].alone
  BY <1>3, <1>5
<1>10. AloneIsOnly'
  BY <1>6, <1>9 DEF ListInv, AloneIsOnly, Running
<1>11. AnswerIsTheCart'
  <2>1. SUFFICES ASSUME NEW d \in Running, call'[d].alone, call'[d].pc = "answered" PROVE FALSE
    BY <1>6 DEF AnswerIsTheCart
  <2>2. d = c
    BY <1>6, <1>9, <2>1 DEF ListInv, AloneIsOnly, Running
  <2> QED
    BY <1>3, <1>5, <2>1, <2>2
<1>12. SentChangesNothing'
  BY <1>3, <1>5, <1>6 DEF SentChangesNothing
<1>13. BesideOthersIsAstray'
  BY <1>1, <1>3, <1>5, <1>6 DEF ListInv, BesideOthersIsAstray, Running
<1> QED
  BY <1>8, <1>10, <1>11, <1>12, <1>13 DEF ListInv

\* The second request of a call reads the rows.
LEMMA GetCartInv ==
  ASSUME ListInv, NEW c \in Calls, GetCart(c)
  PROVE  ListInv'
<1>1. /\ call[c].pc = "changed" /\ call' = [call EXCEPT ![c].pc = "answered", ![c].answer = rows]
      /\ UNCHANGED <<rows, deleted, products, keptList, editing, deletion, shown, strayed>>
  BY DEF GetCart
<1> DEFINE new == [[call[c] EXCEPT !.pc = "answered"] EXCEPT !.answer = rows]
<1>2. /\ new \in ProductCalls /\ new.pc = "answered" /\ new.op = call[c].op /\ new.item = call[c].item
      /\ new.mine = call[c].mine /\ new.alone = call[c].alone /\ new.answer = rows
  BY DEF ListInv, ListTypes, ProductCalls
<1>3. call' = [call EXCEPT ![c] = new]
  BY <1>1
<1> HIDE DEF new
<1>4. call' \in [Calls -> ProductCalls] /\ call'[c] = new /\ \A d \in Calls \ {c} : call'[d] = call[d]
  BY <1>2, <1>3 DEF ListInv, ListTypes
<1>5. Running' = Running /\ c \in Running
  BY <1>1, <1>2, <1>4 DEF Running
<1>6. \A d \in Calls : call'[d].op \in {"add", "remove", "edit"} => call'[d].item # << >>
  BY <1>2, <1>4 DEF ListInv, ListTypes
<1>7. ListTypes'
  BY <1>1, <1>4, <1>6 DEF ListInv, ListTypes
<1>8. \A d \in Calls : call'[d].alone = call[d].alone
  BY <1>2, <1>4
<1>9. AloneIsOnly'
  BY <1>5, <1>8 DEF ListInv, AloneIsOnly, Running
<1>10. AnswerIsTheCart'
  BY <1>1, <1>2, <1>4, <1>5 DEF ListInv, AnswerIsTheCart, Running
<1>11. SentChangesNothing'
  BY <1>2, <1>4, <1>5 DEF SentChangesNothing
<1>12. BesideOthersIsAstray'
  BY <1>1, <1>2, <1>4, <1>5 DEF ListInv, BesideOthersIsAstray, Running
<1> QED
  BY <1>7, <1>9, <1>10, <1>11, <1>12 DEF ListInv

\* The call is gone, and nobody runs who was not running.
LEMMA CallEnds ==
  ASSUME ListInv, NEW c \in Calls, call' = [call EXCEPT ![c] = NoCall]
  PROVE  /\ call' \in [Calls -> ProductCalls] /\ Running' = Running \ {c}
         /\ \A d \in Calls : call'[d].op \in {"add", "remove", "edit"} => call'[d].item # << >>
         /\ \A d \in Running' : d \in Running /\ call'[d] = call[d]
         /\ AloneIsOnly'
<1>1. call' \in [Calls -> ProductCalls] /\ call'[c] = NoCall /\ \A d \in Calls \ {c} : call'[d] = call[d]
  BY NoCallIsIdle DEF ListInv, ListTypes
<1>2. Running' = Running \ {c}
  BY <1>1, NoCallIsIdle DEF Running
<1>3. \A d \in Running' : d \in Running /\ call'[d] = call[d]
  BY <1>1, <1>2 DEF Running
<1>4. \A d \in Calls : call'[d].op \in {"add", "remove", "edit"} => call'[d].item # << >>
  BY <1>1, NoCallIsIdle DEF ListInv, ListTypes
<1>5. AloneIsOnly'
  BY <1>3 DEF ListInv, AloneIsOnly
<1> QED
  BY <1>1, <1>2, <1>3, <1>4, <1>5

\* setCart(updated): the list is the answer, and the cart if the call ran by itself.
LEMMA SetProductsInv ==
  ASSUME ListInv, NEW c \in Calls, SetProducts(c)
  PROVE  ListInv'
<1>1. /\ call[c].pc = "answered" /\ call' = [call EXCEPT ![c] = NoCall] /\ products' = call[c].answer
      /\ strayed' = ~call[c].alone /\ UNCHANGED <<rows, deleted, keptList, deletion, shown>>
      /\ editing' = editing \/ editing' = << >>
  BY DEF SetProducts, ListAfter, NotEditing
<1>2. call[c].answer \in Lists /\ call[c].alone \in BOOLEAN /\ c \in Running
  BY <1>1 DEF ListInv, ListTypes, ProductCalls, Running
<1>3. /\ call' \in [Calls -> ProductCalls] /\ Running' = Running \ {c}
      /\ \A d \in Calls : call'[d].op \in {"add", "remove", "edit"} => call'[d].item # << >>
      /\ \A d \in Running' : d \in Running /\ call'[d] = call[d]
      /\ AloneIsOnly'
  BY <1>1, CallEnds
<1>4. strayed' \in BOOLEAN
  BY <1>1, <1>2
<1>5. ListTypes'
  BY <1>1, <1>2, <1>3, <1>4 DEF ListInv, ListTypes
<1>6. AnswerIsTheCart'
  BY <1>1, <1>3 DEF ListInv, AnswerIsTheCart
<1>7. ~strayed' => products' = rows'
  BY <1>1, <1>2 DEF ListInv, AnswerIsTheCart
<1>8. ~strayed' => Running' = {}
  BY <1>1, <1>2, <1>3 DEF ListInv, AloneIsOnly
<1> QED
  BY <1>3, <1>5, <1>6, <1>7, <1>8 DEF ListInv, SentChangesNothing, BesideOthersIsAstray

\* An answer that finds no editor: the one that is there now, if any, is astray.
LEMMA AnswerFindsNobodyInv ==
  ASSUME ListInv, NEW c \in Calls, AnswerFindsNobody(c)
  PROVE  ListInv'
<1>1. /\ call[c].pc = "answered" /\ ~call[c].mine /\ call' = [call EXCEPT ![c] = NoCall]
      /\ UNCHANGED <<rows, deleted, products, keptList, editing, deletion, shown, strayed>>
  BY DEF AnswerFindsNobody
<1>2. /\ call' \in [Calls -> ProductCalls] /\ Running' = Running \ {c} /\ c \in Running
      /\ \A d \in Calls : call'[d].op \in {"add", "remove", "edit"} => call'[d].item # << >>
      /\ \A d \in Running' : d \in Running /\ call'[d] = call[d]
      /\ AloneIsOnly'
  BY <1>1, CallEnds DEF Running
<1>3. ListTypes'
  BY <1>1, <1>2 DEF ListInv, ListTypes
<1>4. shown => strayed
  BY <1>1, <1>2 DEF ListInv, BesideOthersIsAstray
<1> QED
  BY <1>1, <1>2, <1>3, <1>4 DEF ListInv, AnswerIsTheCart, SentChangesNothing, BesideOthersIsAstray

\* A call that breaks leaves the list as it is: only one that was sent, and is no reorder,
\* leaves the cart as it was, too.
LEMMA ProductCallBreaksInv ==
  ASSUME ListInv, NEW c \in Calls, ProductCallBreaks(c)
  PROVE  ListInv'
<1>1. /\ call[c].pc \in {"sent", "changed", "answered"} /\ call' = [call EXCEPT ![c] = NoCall]
      /\ UNCHANGED <<deleted, products, keptList, editing, deletion, shown>>
      /\ rows' = rows \/ rows' \in Shuffles(rows)
      /\ strayed' = (strayed \/ (call[c].mine /\ (call[c].pc # "sent" \/ call[c].op = "order")))
  BY DEF ProductCallBreaks
<1>2. rows' \in Lists /\ c \in Running
  BY <1>1, ShufflesAreLists DEF ListInv, ListTypes, Running
<1>3. /\ call' \in [Calls -> ProductCalls] /\ Running' = Running \ {c}
      /\ \A d \in Calls : call'[d].op \in {"add", "remove", "edit"} => call'[d].item # << >>
      /\ \A d \in Running' : d \in Running /\ call'[d] = call[d]
      /\ AloneIsOnly'
  BY <1>1, CallEnds
<1>4. strayed' \in BOOLEAN
  BY <1>1
<1>5. ListTypes'
  BY <1>1, <1>2, <1>3, <1>4 DEF ListInv, ListTypes
<1>6. AnswerIsTheCart'
  <2>1. SUFFICES ASSUME NEW d \in Running', call'[d].alone PROVE FALSE
    BY DEF AnswerIsTheCart
  <2>2. d \in Running /\ d # c /\ call[d].alone
    BY <1>3, <2>1
  <2> QED
    BY <1>2, <2>2 DEF ListInv, AloneIsOnly
<1>7. SentChangesNothing'
  <2>1. SUFFICES ASSUME shown, ~strayed', \A d \in Running' : call'[d].pc = "sent" /\ call'[d].op # "order"
                 PROVE  products = rows'
    BY <1>1 DEF SentChangesNothing
  <2>2. ~strayed /\ call[c].pc = "sent" /\ call[c].op # "order"
    <3>1. call[c].mine /\ ~strayed
      BY <1>1, <1>2, <2>1 DEF ListInv, BesideOthersIsAstray
    <3> QED
      BY <1>1, <2>1, <3>1
  <2>3. rows' = rows
    BY <2>2 DEF ProductCallBreaks
  <2>4. \A d \in Running : call[d].pc = "sent" /\ call[d].op # "order"
    BY <1>3, <2>1, <2>2
  <2> QED
    BY <2>1, <2>2, <2>3, <2>4 DEF ListInv, SentChangesNothing
<1>8. BesideOthersIsAstray'
  BY <1>1, <1>3 DEF ListInv, BesideOthersIsAstray
<1> QED
  BY <1>3, <1>5, <1>6, <1>7, <1>8 DEF ListInv

\* The editor is left, by its user or after the deletion: nothing is shown any more.
LEMMA LeaveInv ==
  ASSUME ListInv, LeaveList \/ DeleteAnswered
  PROVE  ListInv'
<1> DEFINE left(c) == [call[c] EXCEPT !.mine = FALSE, !.alone = FALSE]
<1>1. /\ Leave /\ ~shown' /\ editing' = << >> /\ products' = << >> /\ strayed' = FALSE
      /\ call' = [c \in Calls |-> left(c)]
      /\ UNCHANGED <<rows, deleted, keptList>> /\ deletion' \in {deletion, "none"}
  BY DEF LeaveList, DeleteAnswered, Leave, NotEditing
<1>2. \A c \in Calls : /\ left(c) \in ProductCalls /\ ~left(c).alone
                       /\ left(c).pc = call[c].pc /\ left(c).op = call[c].op /\ left(c).item = call[c].item
  BY DEF ListInv, ListTypes, ProductCalls
<1> HIDE DEF left
<1>3. /\ call' \in [Calls -> ProductCalls]
      /\ \A c \in Calls : ~call'[c].alone /\ call'[c].op = call[c].op /\ call'[c].item = call[c].item
  BY <1>1, <1>2
<1>4. << >> \in Lists
  <2>1. << >> \in Seq(Items) /\ Len(<< >>) = 0
    BY EmptySeq
  <2> QED
    BY <2>1 DEF Lists
<1>5. \A c \in Calls : call'[c].op \in {"add", "remove", "edit"} => call'[c].item # << >>
  BY <1>3 DEF ListInv, ListTypes
<1>6. deletion' \in {"none", "asked", "refused", "archived"} /\ rows' \in Lists /\ keptList' \subseteq Lists
  BY <1>1 DEF ListInv, ListTypes
<1>7. deleted' \in BOOLEAN /\ shown' = FALSE
  BY <1>1 DEF LeaveList, DeleteAnswered, Leave, ListInv, ListTypes
<1>8. ListTypes'
  BY <1>1, <1>3, <1>4, <1>5, <1>6, <1>7 DEF ListTypes
<1> QED
  BY <1>3, <1>7, <1>8
  DEF ListInv, AloneIsOnly, AnswerIsTheCart, SentChangesNothing, BesideOthersIsAstray, Running

\* The editor comes up with the rows, or with what the router has kept of them.
LEMMA OpenListInv ==
  ASSUME ListInv, OpenList
  PROVE  ListInv'
<1>1. PICK list \in keptList \cup {rows} :
        products' = list /\ keptList' = {list} /\ strayed' = (Running # {} \/ list # rows)
  BY DEF OpenList
<1>2. UNCHANGED <<rows, deleted, editing, call, deletion>> /\ shown'
  BY DEF OpenList
<1>3. list \in Lists /\ Running' = Running
  BY <1>1, <1>2 DEF ListInv, ListTypes, Running
<1>4. ListTypes'
  BY <1>1, <1>2, <1>3 DEF ListInv, ListTypes
<1>5. ~strayed' => Running' = {} /\ products' = rows'
  BY <1>1, <1>2, <1>3
<1> QED
  BY <1>2, <1>3, <1>4, <1>5
  DEF ListInv, AloneIsOnly, AnswerIsTheCart, SentChangesNothing, BesideOthersIsAstray
-----------------------------------------------------------------------------
\* The invariant of the product list, by action.
LEMMA ListInvIsInductive == ListInv /\ [ListNext]_listVars => ListInv'
<1> SUFFICES ASSUME ListInv, [ListNext]_listVars PROVE ListInv'
  OBVIOUS
<1>1. CASE UNCHANGED listVars
  BY <1>1, BesideTheCallsInv DEF listVars, ListInv, ListTypes
<1>2. CASE ListNext
  BY <1>2, AddProductInv, RemoveProductInv, MoveInv, EditProductInv, EditingInv, DeletionInv, ChangeInv,
     GetCartInv, SetProductsInv, AnswerFindsNobodyInv, ProductCallBreaksInv, LeaveInv, OpenListInv DEF ListNext
<1> QED
  BY <1>1, <1>2

\* It implies the types and that the list is the cart's.
LEMMA ListInvImplies == ListInv => ListTypeOK /\ ListIsTheCart
<1> SUFFICES ASSUME ListInv PROVE ListTypeOK /\ ListIsTheCart
  OBVIOUS
<1>1. /\ rows \in Lists /\ products \in Lists /\ keptList \subseteq Lists
      /\ \A c \in Calls : call[c] \in ProductCalls
  BY DEF ListInv, ListTypes
<1>2. \A list \in Lists : list \in BoundedSeq(Items, MaxItems) /\ IsInjective(Ids(list))
  BY ListsAreShort
<1>3. editing \in BoundedSeq(Items, 1)
  <2>1. << >> \in [1 .. 0 -> Items] /\ 0 \in 0 .. 1 /\ 1 \in 0 .. 1
    OBVIOUS
  <2>2. \A item \in Items : <<item>> \in [1 .. 1 -> Items]
    OBVIOUS
  <2>3. CASE editing = << >>
    BY <2>1, <2>3 DEF BoundedSeq, SeqOf
  <2>4. CASE \E item \in Items : editing = <<item>>
    BY <2>1, <2>2, <2>4 DEF BoundedSeq, SeqOf
  <2> QED
    BY <2>3, <2>4 DEF ListInv, ListTypes
<1>4. \A c \in Calls : call[c].answer \in Lists
  BY <1>1 DEF ProductCalls
<1>5. ListTypeOK
  BY <1>1, <1>2, <1>3, <1>4 DEF ListTypeOK, ListInv, ListTypes, AloneIsOnly, ProductCalls
<1>6. ListIsTheCart
  BY DEF ListInv, SentChangesNothing, ListIsTheCart
<1> QED
  BY <1>5, <1>6

\* The types of the product list: whatever overlaps or fails, no product is listed twice.
THEOREM ListTypeCorrect == ListSpec => []ListTypeOK
<1> QED
  BY ListInvInitially, ListInvIsInductive, ListInvImplies, PTL DEF ListSpec

\* At rest the editor shows the products as the server has them, unless calls overlapped or
\* failed half way, or the editor came up with an older page or beside calls of the one
\* before (setCart of editor.tsx), and no call has run by itself since.
THEOREM ListIsTheCartsProducts == ListSpec => []ListIsTheCart
<1> QED
  BY ListInvInitially, ListInvIsInductive, ListInvImplies, PTL DEF ListSpec
-----------------------------------------------------------------------------
(* The look of the cart                                                    *)

Changes == [cover : Covers \cup {Keep}, accent : Accents \cup {Keep}, visibility : Visibilities \cup {Keep}]
Patches == [pc : {"idle", "sent"}, cover : Covers \cup {Keep}, visibility : Visibilities \cup {Keep}]

LookTypes ==
  /\ at \in {"new", "editor", "away"} /\ naming \in {"idle", "sent", "stored"}
  /\ stored \in [there : BOOLEAN, cover : Covers, visibility : Visibilities]
  /\ look \in Looks /\ keptLook \subseteq Looks /\ unsent \in Changes
  /\ leftover \in Own \cup {Keep} /\ astray \subseteq Fields
  /\ patch \in Patches /\ (patch.pc = "idle" => patch = NoPatch)
  /\ upload \in [pc : {"idle", "sent"}, cover : Covers, mine : BOOLEAN]
  /\ upload.pc = "sent" => upload.cover \in Own
  /\ echo \in [pc : {"idle", "read"}, look : Looks, fresh : BOOLEAN]
  /\ coverOpen \in BOOLEAN /\ listing \in BOOLEAN /\ library \subseteq Covers

\* Only an editor has pickers, changes and calls of its own.
EditorsHaveThese ==
  /\ listing => coverOpen
  /\ coverOpen => at = "editor"
  /\ unsent # NothingNew => at = "editor"
  /\ upload.mine => at = "editor"
  /\ echo.pc = "read" => at = "editor"

\* A cart that is edited, or was, is there; the page that names one has none to edit.
EditedCartIsThere ==
  /\ at # "new" \/ naming = "stored" => stored.there
  /\ naming # "idle" => at = "new"

\* What the editor shows of a field that is not astray is what was picked last, on its way
\* or stored.
LookIsPicked ==
  at = "editor" => \A f \in Fields \ astray :
    look[f] = IF unsent[f] # Keep THEN unsent[f] ELSE IF patch[f] # Keep THEN patch[f] ELSE stored[f]

\* A product call that read an up-to-date cart brings it back.
FreshEchoIsTheCart ==
  echo.pc = "read" /\ echo.fresh =>
    /\ unsent = NothingNew /\ patch = NoPatch
    /\ \A f \in Fields : echo.look[f] = stored[f]

LookInv ==
  /\ LookTypes /\ EditorsHaveThese /\ EditedCartIsThere
  /\ LookIsPicked /\ FreshEchoIsTheCart
-----------------------------------------------------------------------------
\* What the constants say of covers, colours and visibilities.
LEMMA LookConstants ==
  /\ House \in Accents /\ Keep \notin Covers /\ Keep \notin Accents /\ Keep \notin Visibilities
  /\ Gradient \in Covers /\ Own \subseteq Covers /\ Curated \subseteq Covers /\ Used \subseteq Covers
  /\ NoLook \in Looks /\ NothingNew \in Changes /\ NoPatch \in Patches
  /\ NoUpload \in [pc : {"idle", "sent"}, cover : Covers, mine : BOOLEAN]
  /\ NoEcho \in [pc : {"idle", "read"}, look : Looks, fresh : BOOLEAN]
<1>1. /\ House \in Accents /\ Keep \notin Covers /\ Keep \notin Accents /\ Keep \notin Visibilities
      /\ Gradient \in Covers /\ Own \subseteq Covers /\ Curated \subseteq Covers /\ Used \subseteq Covers
  BY LookAssumption DEF Covers, Visibilities
<1>2. NoLook \in Looks
  BY <1>1 DEF NoLook, Looks, Visibilities
<1>3. NothingNew \in Changes /\ NoPatch \in Patches
  BY DEF NothingNew, NoPatch, Changes, Patches
<1>4. NoUpload \in [pc : {"idle", "sent"}, cover : Covers, mine : BOOLEAN]
  BY <1>1 DEF NoUpload
<1>5. NoEcho \in [pc : {"idle", "read"}, look : Looks, fresh : BOOLEAN]
  BY <1>2 DEF NoEcho
<1> QED
  BY <1>1, <1>2, <1>3, <1>4, <1>5

\* A cart or the page that names one, no editor, and nothing under way.
LEMMA LookInvInitially == LookInit => LookInv
<1> SUFFICES ASSUME LookInit PROVE LookInv
  OBVIOUS
<1>1. stored \in [there : BOOLEAN, cover : Covers, visibility : Visibilities] /\ (at # "new" => stored.there)
  <2>1. at \in {"new", "away"} /\ stored \in [there : {at = "away"}, cover : Covers, visibility : Visibilities]
    BY DEF LookInit
  <2> QED
    BY <2>1
<1>2. LookTypes
  BY <1>1, LookConstants DEF LookInit, LookTypes, NoUpload
<1>3. EditorsHaveThese
  BY DEF LookInit, EditorsHaveThese, NoUpload, NoEcho
<1> QED
  BY <1>1, <1>2, <1>3 DEF LookInit, LookInv, EditedCartIsThere, LookIsPicked, FreshEchoIsTheCart, NoEcho

\* The cart as the server renders it.
LEMMA MarshalIsStored ==
  ASSUME LookInv
  PROVE  /\ Marshal \in Looks
         /\ Marshal.cover = stored.cover /\ Marshal.visibility = stored.visibility
         /\ \A f \in Fields : Marshal[f] = stored[f]
BY LookConstants DEF LookInv, LookTypes, Marshal, Looks, Fields
-----------------------------------------------------------------------------
\* Something is picked: it is shown, and unsent.
LEMMA ChooseInv ==
  ASSUME LookInv, NEW f \in {"cover", "accent", "visibility"}, NEW v,
         f = "cover" => v \in Covers, f = "accent" => v \in Accents, f = "visibility" => v \in Visibilities,
         Choose(f, v),
         UNCHANGED <<at, naming, stored, keptLook, patch, coverOpen, library, listing>>,
         leftover' \in Own \cup {Keep},
         upload' = upload \/ upload' = NoUpload
  PROVE  LookInv'
<1>1. at = "editor"
  BY DEF Choose
<1>2. echo' \in [pc : {"idle", "read"}, look : Looks, fresh : BOOLEAN] /\ ~echo'.fresh /\ echo'.pc = echo.pc
  BY DEF Choose, LookInv, LookTypes
<1>3. /\ upload' \in [pc : {"idle", "sent"}, cover : Covers, mine : BOOLEAN]
      /\ upload'.pc = "sent" => upload'.cover \in Own
  BY LookConstants DEF LookInv, LookTypes, NoUpload
<1>4. /\ look' \in Looks /\ unsent' \in Changes
      /\ look'[f] = v /\ unsent'[f] = v
      /\ \A g \in Fields \ {f} : look'[g] = look[g] /\ unsent'[g] = unsent[g]
  <2>1. look' = [look EXCEPT ![f] = v] /\ unsent' = [unsent EXCEPT ![f] = v]
    BY DEF Choose
  <2>2. look \in Looks /\ unsent \in Changes
    BY DEF LookInv, LookTypes
  <2>3. CASE f = "cover"
    BY <2>1, <2>2, <2>3 DEF Looks, Changes, Fields
  <2>4. CASE f = "accent"
    BY <2>1, <2>2, <2>4 DEF Looks, Changes, Fields
  <2>5. CASE f = "visibility"
    BY <2>1, <2>2, <2>5 DEF Looks, Changes, Fields
  <2> QED
    BY <2>3, <2>4, <2>5
<1>5. LookTypes'
  BY <1>2, <1>3, <1>4 DEF LookInv, LookTypes, Choose
<1>6. EditorsHaveThese' /\ EditedCartIsThere'
  BY <1>1, <1>2 DEF LookInv, EditorsHaveThese, EditedCartIsThere, NoUpload
<1>7. LookIsPicked'
  <2>1. v # Keep
    BY LookConstants
  <2>2. astray' = astray \ {f}
    BY DEF Choose
  <2> QED
    BY <1>1, <1>4, <2>1, <2>2 DEF LookInv, LookIsPicked
<1>8. FreshEchoIsTheCart'
  BY <1>2 DEF FreshEchoIsTheCart
<1> QED
  BY <1>5, <1>6, <1>7, <1>8 DEF LookInv

\* Picking shows the look at once and has it pending.
LEMMA PickingInv ==
  ASSUME LookInv, \/ \E c \in Covers : PickTile(c) \/ ApplyUrl(c)
                  \/ \E a \in Accents : PickAccent(a)
                  \/ \E v \in Visibilities : SetVisibility(v)
  PROVE  LookInv'
<1>1. /\ UNCHANGED <<at, naming, stored, keptLook, patch, coverOpen, library, listing>>
      /\ upload' = upload /\ leftover' \in Own \cup {Keep}
  BY DEF PickTile, ApplyUrl, PickAccent, SetVisibility, LookInv, LookTypes
<1>2. ASSUME NEW c \in Covers, PickTile(c) \/ ApplyUrl(c) PROVE LookInv'
  <2>1. Choose("cover", c)
    BY <1>2 DEF PickTile, ApplyUrl
  <2> QED
    BY <1>1, <2>1, ChooseInv
<1>3. ASSUME NEW a \in Accents, PickAccent(a) PROVE LookInv'
  <2>1. Choose("accent", a)
    BY <1>3 DEF PickAccent
  <2> QED
    BY <1>1, <2>1, ChooseInv
<1>4. ASSUME NEW v \in Visibilities, SetVisibility(v) PROVE LookInv'
  <2>1. Choose("visibility", v)
    BY <1>4 DEF SetVisibility
  <2> QED
    BY <1>1, <2>1, ChooseInv
<1> QED
  BY <1>2, <1>3, <1>4

\* An upload of an editor that is gone is its leftover, and no other editor's change.
LEMMA CoverUploadedInv ==
  ASSUME LookInv, CoverUploaded
  PROVE  LookInv'
<1>1. /\ upload.pc = "sent" /\ upload.cover \in Own /\ upload.cover \in Covers
      /\ upload' = NoUpload /\ UNCHANGED <<at, naming, stored, keptLook, patch, coverOpen, library, listing>>
  BY LookConstants DEF CoverUploaded, LookInv, LookTypes
<1>2. CASE upload.mine
  <2>1. Choose("cover", upload.cover) /\ leftover' \in Own \cup {Keep}
    BY <1>2 DEF CoverUploaded, LookInv, LookTypes
  <2> QED
    BY <1>1, <2>1, ChooseInv
<1>3. CASE ~upload.mine
  <2>1. leftover' \in Own /\ UNCHANGED <<look, unsent, echo, astray>>
    BY <1>1, <1>3 DEF CoverUploaded
  <2>2. LookTypes'
    BY <1>1, <2>1, LookConstants DEF LookInv, LookTypes, NoUpload
  <2> QED
    BY <1>1, <2>1, <2>2 DEF LookInv, EditorsHaveThese, EditedCartIsThere, LookIsPicked, FreshEchoIsTheCart, NoUpload
<1> QED
  BY <1>2, <1>3

\* An upload of a cover begins or fails.
LEMMA UploadInv ==
  ASSUME LookInv, CoverUploadFails \/ \E c \in Covers : UploadCover(c)
  PROVE  LookInv'
<1>1. UNCHANGED <<at, naming, stored, keptLook, look, unsent, leftover, patch, coverOpen, library, listing, echo, astray>>
  BY DEF CoverUploadFails, UploadCover
<1>2. /\ upload' \in [pc : {"idle", "sent"}, cover : Covers, mine : BOOLEAN]
      /\ upload'.pc = "sent" => upload'.cover \in Own
      /\ upload'.mine => coverOpen
  <2>1. CASE CoverUploadFails
    BY <2>1, LookConstants DEF CoverUploadFails, NoUpload
  <2>2. ASSUME NEW c \in Covers, UploadCover(c)
        PROVE  /\ upload' \in [pc : {"idle", "sent"}, cover : Covers, mine : BOOLEAN]
               /\ upload'.pc = "sent" => upload'.cover \in Own
               /\ upload'.mine => coverOpen
    BY <2>2, LookConstants DEF UploadCover
  <2> QED
    BY <2>1, <2>2
<1>3. LookTypes'
  BY <1>1, <1>2 DEF LookInv, LookTypes
<1> QED
  BY <1>1, <1>2, <1>3 DEF LookInv, EditorsHaveThese, EditedCartIsThere, LookIsPicked, FreshEchoIsTheCart

\* The picker: its section, and its fetch.
LEMMA PickerInv ==
  ASSUME LookInv, ToggleCover \/ \E ok \in BOOLEAN : SetHistory(ok)
  PROVE  LookInv'
<1>1. UNCHANGED <<at, naming, stored, keptLook, look, unsent, leftover, patch, upload, echo, astray>>
  BY DEF ToggleCover, SetHistory
<1>2. coverOpen' \in BOOLEAN /\ listing' \in BOOLEAN /\ (listing' => coverOpen') /\ (coverOpen' => at = "editor")
  BY DEF ToggleCover, SetHistory, Picker, LookInv, LookTypes, EditorsHaveThese
<1>3. library' \subseteq Covers
  <2>1. stored.cover \in Covers
    BY DEF LookInv, LookTypes
  <2>2. History \subseteq Covers
    BY <2>1, LookConstants DEF History, ListUserCoverImages
  <2> QED
    BY <2>2 DEF ToggleCover, SetHistory, Picker, LookInv, LookTypes
<1>4. LookTypes'
  BY <1>1, <1>2, <1>3 DEF LookInv, LookTypes
<1> QED
  BY <1>1, <1>2, <1>4 DEF LookInv, EditorsHaveThese, EditedCartIsThere, LookIsPicked, FreshEchoIsTheCart
-----------------------------------------------------------------------------
\* An editor is mounted: what it shows is stored, but for what the router had kept and for
\* a PATCH of the one before.
LEMMA MountsInv ==
  ASSUME LookInv, at # "editor", stored.there, NEW cart \in Looks, Mounts(cart), naming' = "idle",
         UNCHANGED <<stored, unsent, leftover, patch, upload, echo>>
  PROVE  LookInv'
<1>1. /\ at' = "editor" /\ look' = cart /\ keptLook' = {cart} /\ library' = {}
      /\ astray' = {f \in Fields : patch[f] # Keep \/ cart[f] # Marshal[f]}
      /\ coverOpen' = (cart.cover = Gradient) /\ listing' = (cart.cover = Gradient)
  BY DEF Mounts, Picker
<1>2. unsent = NothingNew /\ echo.pc # "read"
  BY DEF LookInv, EditorsHaveThese
<1>3. coverOpen' \in BOOLEAN /\ listing' \in BOOLEAN /\ (listing' => coverOpen')
  BY <1>1
<1>4. LookTypes'
  BY <1>1, <1>3 DEF LookInv, LookTypes
<1>5. EditorsHaveThese' /\ EditedCartIsThere'
  BY <1>1, <1>3 DEF EditorsHaveThese, EditedCartIsThere
<1>6. LookIsPicked'
  <2>1. \A f \in Fields : unsent[f] = Keep
    BY <1>2 DEF NothingNew, Fields
  <2> QED
    BY <1>1, <2>1, MarshalIsStored DEF LookIsPicked
<1>7. FreshEchoIsTheCart'
  BY <1>2 DEF FreshEchoIsTheCart
<1> QED
  BY <1>4, <1>5, <1>6, <1>7 DEF LookInv

\* A cart is named and made, or not.
LEMMA NamingInv ==
  ASSUME LookInv, SubmitNewCart \/ CreateCart \/ NewCartFails
  PROVE  LookInv'
<1>1. at = "new" /\ UNCHANGED <<keptLook, look, unsent, leftover, patch, coverOpen, library, listing, upload, echo, astray>>
  BY DEF SubmitNewCart, CreateCart, NewCartFails, LookInv, EditedCartIsThere
<1>2. /\ stored' \in [there : BOOLEAN, cover : Covers, visibility : Visibilities]
      /\ at' \in {"new", "away"} /\ (at' = "away" => stored'.there)
      /\ naming' \in {"idle", "sent", "stored"} /\ (naming' = "stored" => stored'.there)
      /\ naming' # "idle" => at' = "new"
  <2>1. CASE SubmitNewCart
    BY <1>1, <2>1 DEF SubmitNewCart, LookInv, LookTypes
  <2>2. CASE CreateCart
    <3>1. /\ stored' = [NoCart EXCEPT !.there = TRUE] /\ naming' = "stored" /\ at' = at
      BY <2>2 DEF CreateCart
    <3>2. stored' \in [there : BOOLEAN, cover : Covers, visibility : Visibilities] /\ stored'.there
      BY <3>1, LookConstants DEF NoCart, Visibilities
    <3> QED
      BY <1>1, <3>1, <3>2
  <2>3. CASE NewCartFails
    BY <1>1, <2>3 DEF NewCartFails, LookInv, LookTypes
  <2> QED
    BY <2>1, <2>2, <2>3
<1>3. unsent = NothingNew /\ ~coverOpen /\ ~listing /\ ~upload.mine /\ echo.pc # "read"
  BY <1>1 DEF LookInv, EditorsHaveThese
<1>4. LookTypes'
  BY <1>1, <1>2 DEF LookInv, LookTypes
<1> QED
  BY <1>1, <1>2, <1>3, <1>4 DEF LookInv, EditorsHaveThese, EditedCartIsThere, LookIsPicked, FreshEchoIsTheCart

\* An editor opens on the stored look, or on the one that was kept.
LEMMA OpeningInv ==
  ASSUME LookInv, NewCartAnswered \/ OpenEditor
  PROVE  LookInv'
<1>1. at # "editor" /\ stored.there /\ naming' = "idle"
  BY DEF NewCartAnswered, OpenEditor, LookInv, LookTypes, EditedCartIsThere
<1>2. UNCHANGED <<stored, unsent, leftover, patch, upload, echo>>
  BY DEF NewCartAnswered, OpenEditor
<1>3. \E cart \in Looks : Mounts(cart)
  BY MarshalIsStored DEF NewCartAnswered, OpenEditor, LookInv, LookTypes
<1> QED
  BY <1>1, <1>2, <1>3, MountsInv
-----------------------------------------------------------------------------
\* flushSave: what was unsent is on its way, and nothing else is.
LEMMA FlushSends ==
  ASSUME LookInv, Flush
  PROVE  /\ unsent' = NothingNew /\ patch' \in Patches /\ (patch'.pc = "idle" => patch' = NoPatch)
         /\ patch'.cover = IF unsent.cover # Keep THEN unsent.cover ELSE patch.cover
         /\ patch'.visibility = IF unsent.visibility # Keep THEN unsent.visibility ELSE patch.visibility
<1>1. unsent' = NothingNew
  BY DEF Flush
<1>2. CASE unsent = NothingNew
  BY <1>1, <1>2 DEF Flush, LookInv, LookTypes, NothingNew
<1>3. CASE unsent # NothingNew
  <2>1. patch = NoPatch /\ patch' = Body
    BY <1>3 DEF Flush, LookInv, LookTypes
  <2>2. Body \in Patches /\ Body.pc = "sent" /\ Body.cover = unsent.cover /\ Body.visibility = unsent.visibility
    BY DEF Body, Patches, LookInv, LookTypes, Changes
  <2> QED
    BY <1>1, <2>1, <2>2 DEF NoPatch
<1> QED
  BY <1>2, <1>3

\* The pending change becomes the PATCH under way.
LEMMA FlushTimerInv ==
  ASSUME LookInv, FlushTimer
  PROVE  LookInv'
<1>1. Flush /\ UNCHANGED <<at, naming, stored, keptLook, look, leftover, coverOpen, library, listing, upload, echo, astray>>
  BY DEF FlushTimer
<1>2. unsent # NothingNew
  BY DEF FlushTimer
<1>3. LookTypes'
  BY <1>1, FlushSends, LookConstants DEF LookInv, LookTypes
<1>4. LookIsPicked'
  <2>1. \A f \in Fields : unsent'[f] = Keep /\ patch'[f] = IF unsent[f] # Keep THEN unsent[f] ELSE patch[f]
    BY <1>1, FlushSends DEF NothingNew, Fields
  <2> QED
    BY <1>1, <2>1 DEF LookInv, LookIsPicked
<1>5. FreshEchoIsTheCart'
  BY <1>1, <1>2 DEF LookInv, FreshEchoIsTheCart
<1>6. EditorsHaveThese' /\ EditedCartIsThere'
  BY <1>1, FlushSends DEF LookInv, EditorsHaveThese, EditedCartIsThere
<1> QED
  BY <1>3, <1>4, <1>5, <1>6 DEF LookInv

\* Leaving the editor sends what is pending; its uploads run on.
LEMMA LeaveEditorInv ==
  ASSUME LookInv, LeaveEditor
  PROVE  LookInv'
<1>1. /\ at = "editor" /\ at' = "away" /\ look' = NoLook /\ Flush /\ ~coverOpen' /\ ~listing' /\ library' = {}
      /\ upload' = [upload EXCEPT !.mine = FALSE] /\ echo' = NoEcho /\ astray' = {}
      /\ UNCHANGED <<naming, stored, keptLook, leftover>>
  BY DEF LeaveEditor, Picker
<1>2. coverOpen' = FALSE /\ listing' = FALSE
  BY DEF LeaveEditor, Picker
<1>3. /\ upload' \in [pc : {"idle", "sent"}, cover : Covers, mine : BOOLEAN]
      /\ upload'.pc = upload.pc /\ upload'.cover = upload.cover /\ ~upload'.mine
  BY <1>1 DEF LookInv, LookTypes
<1>4. LookTypes'
  BY <1>1, <1>2, <1>3, FlushSends, LookConstants DEF LookInv, LookTypes
<1> QED
  BY <1>1, <1>2, <1>3, <1>4, FlushSends DEF LookInv, EditorsHaveThese, EditedCartIsThere, LookIsPicked,
     FreshEchoIsTheCart, NoEcho

\* The cover an editor left behind leads the next one astray, unless it has another to send.
LEMMA LeftoverTimerInv ==
  ASSUME LookInv, LeftoverTimer
  PROVE  LookInv'
<1>1. /\ patch = NoPatch /\ leftover \in Own /\ leftover \in Covers
      /\ patch' = [pc |-> "sent", cover |-> leftover, visibility |-> Keep] /\ leftover' = Keep
      /\ astray' = IF at = "editor" /\ unsent.cover = Keep THEN astray \cup {"cover"} ELSE astray
      /\ UNCHANGED <<at, naming, stored, keptLook, look, unsent, coverOpen, library, listing, upload>>
  BY LookConstants DEF LeftoverTimer, LookInv, LookTypes
<1>2. patch' \in Patches /\ patch'.pc = "sent" /\ patch'.visibility = Keep /\ patch.visibility = Keep
  BY <1>1 DEF Patches, NoPatch
<1>3. astray' \subseteq Fields
  BY <1>1 DEF LookInv, LookTypes, Fields
<1>4. /\ echo' \in [pc : {"idle", "read"}, look : Looks, fresh : BOOLEAN]
      /\ echo'.pc = echo.pc /\ ~echo'.fresh
  BY DEF LeftoverTimer, LookInv, LookTypes
<1>5. LookTypes'
  BY <1>1, <1>2, <1>3, <1>4 DEF LookInv, LookTypes
<1>6. LookIsPicked'
  BY <1>1, <1>2 DEF LookInv, LookIsPicked, Fields
<1>7. FreshEchoIsTheCart'
  BY <1>4 DEF FreshEchoIsTheCart
<1> QED
  BY <1>1, <1>4, <1>5, <1>6, <1>7 DEF LookInv, EditorsHaveThese, EditedCartIsThere

\* The PATCH is stored.
LEMMA PatchStoredInv ==
  ASSUME LookInv, PatchStored
  PROVE  LookInv'
<1>1. /\ patch' = NoPatch
      /\ UNCHANGED <<at, naming, keptLook, look, unsent, leftover, coverOpen, library, listing, upload, echo, astray>>
  BY DEF PatchStored
<1>2. /\ stored' \in [there : BOOLEAN, cover : Covers, visibility : Visibilities]
      /\ stored'.there = stored.there
      /\ stored'.cover = IF patch.cover # Keep THEN patch.cover ELSE stored.cover
      /\ stored'.visibility = IF patch.visibility # Keep THEN patch.visibility ELSE stored.visibility
  <2>1. /\ stored \in [there : BOOLEAN, cover : Covers, visibility : Visibilities]
        /\ patch \in Patches
    BY DEF LookInv, LookTypes
  <2>2. DOMAIN stored = {"there", "cover", "visibility"}
    BY <2>1
  <2>3. stored' = [f \in {"there", "cover", "visibility"} |->
                     IF f \in Fields /\ patch[f] # Keep THEN patch[f] ELSE stored[f]]
    BY <2>2 DEF PatchStored
  <2>4. stored' = [there |-> stored.there,
                   cover |-> IF patch.cover # Keep THEN patch.cover ELSE stored.cover,
                   visibility |-> IF patch.visibility # Keep THEN patch.visibility ELSE stored.visibility]
    BY <2>3 DEF Fields
  <2>5. /\ (IF patch.cover # Keep THEN patch.cover ELSE stored.cover) \in Covers
        /\ (IF patch.visibility # Keep THEN patch.visibility ELSE stored.visibility) \in Visibilities
    BY <2>1 DEF Patches
  <2> QED
    BY <2>1, <2>4, <2>5
<1>3. LookTypes'
  BY <1>1, <1>2, LookConstants DEF LookInv, LookTypes
<1>4. LookIsPicked'
  <2>1. \A f \in Fields : stored'[f] = (IF patch[f] # Keep THEN patch[f] ELSE stored[f]) /\ patch'[f] = Keep
    BY <1>1, <1>2 DEF NoPatch, Fields
  <2> QED
    BY <1>1, <2>1 DEF LookInv, LookIsPicked
<1>5. FreshEchoIsTheCart'
  BY <1>1 DEF LookInv, FreshEchoIsTheCart, PatchStored, NoPatch
<1>6. EditorsHaveThese' /\ EditedCartIsThere'
  BY <1>1, <1>2 DEF LookInv, EditorsHaveThese, EditedCartIsThere
<1> QED
  BY <1>3, <1>4, <1>5, <1>6 DEF LookInv

\* A PATCH that fails leads the look astray.
LEMMA PatchFailsInv ==
  ASSUME LookInv, PatchFails
  PROVE  LookInv'
<1>1. /\ patch' = NoPatch
      /\ astray' = IF at = "editor" THEN astray \cup {f \in Fields : patch[f] # Keep /\ unsent[f] = Keep}
                                      ELSE {}
      /\ UNCHANGED <<at, naming, stored, keptLook, look, unsent, leftover, coverOpen, library, listing, upload, echo>>
  BY DEF PatchFails
<1>2. astray' \subseteq Fields
  BY <1>1 DEF LookInv, LookTypes
<1>3. LookTypes'
  BY <1>1, <1>2, LookConstants DEF LookInv, LookTypes
<1>4. patch.pc = "sent" /\ \A f \in Fields : patch'[f] = Keep
  BY <1>1 DEF PatchFails, NoPatch, Fields
<1>5. LookIsPicked'
  BY <1>1, <1>4 DEF LookInv, LookIsPicked
<1>6. FreshEchoIsTheCart'
  BY <1>1, <1>4 DEF LookInv, FreshEchoIsTheCart, NoPatch
<1> QED
  BY <1>1, <1>3, <1>5, <1>6 DEF LookInv, EditorsHaveThese, EditedCartIsThere
-----------------------------------------------------------------------------
\* A product call reads the cart with nothing on its way, or knows that it may be old.
LEMMA ReadEchoInv ==
  ASSUME LookInv, ReadEcho
  PROVE  LookInv'
<1>1. /\ at = "editor"
      /\ echo' = [pc |-> "read", look |-> Marshal, fresh |-> unsent = NothingNew /\ patch = NoPatch]
      /\ UNCHANGED <<at, naming, stored, keptLook, look, unsent, leftover, patch, coverOpen, library, listing, upload, astray>>
  BY DEF ReadEcho
<1>2. /\ echo' \in [pc : {"idle", "read"}, look : Looks, fresh : BOOLEAN]
      /\ echo'.look = Marshal /\ (echo'.fresh => unsent = NothingNew /\ patch = NoPatch)
  <2>1. (unsent = NothingNew /\ patch = NoPatch) \in BOOLEAN
    OBVIOUS
  <2> QED
    BY <1>1, <2>1, MarshalIsStored
<1>3. LookTypes'
  BY <1>1, <1>2 DEF LookInv, LookTypes
<1>4. FreshEchoIsTheCart'
  BY <1>1, <1>2, MarshalIsStored DEF FreshEchoIsTheCart, NoPatch
<1> QED
  BY <1>1, <1>3, <1>4 DEF LookInv, EditorsHaveThese, EditedCartIsThere, LookIsPicked

\* The answer of a product call brings the look it has read.
LEMMA SetEchoInv ==
  ASSUME LookInv, SetEcho
  PROVE  LookInv'
<1>1. /\ echo.pc = "read" /\ look' = echo.look /\ astray' = (IF echo.fresh THEN {} ELSE Fields) /\ echo' = NoEcho
      /\ UNCHANGED <<at, naming, stored, keptLook, unsent, leftover, patch, coverOpen, library, listing, upload>>
  BY DEF SetEcho
<1>2. LookTypes'
  BY <1>1, LookConstants DEF LookInv, LookTypes
<1>3. LookIsPicked'
  <2>1. CASE echo.fresh
    <3>1. \A f \in Fields : unsent[f] = Keep /\ patch[f] = Keep /\ echo.look[f] = stored[f]
      BY <1>1, <2>1 DEF LookInv, FreshEchoIsTheCart, NothingNew, NoPatch, Fields
    <3> QED
      BY <1>1, <3>1 DEF LookIsPicked
  <2>2. CASE ~echo.fresh
    BY <1>1, <2>2 DEF LookIsPicked, Fields
  <2> QED
    BY <2>1, <2>2
<1> QED
  BY <1>1, <1>2, <1>3 DEF LookInv, EditorsHaveThese, EditedCartIsThere, FreshEchoIsTheCart, NoEcho
-----------------------------------------------------------------------------
\* The invariant of the look, by action.
LEMMA LookInvIsInductive == LookInv /\ [LookNext]_lookVars => LookInv'
<1> SUFFICES ASSUME LookInv, [LookNext]_lookVars PROVE LookInv'
  OBVIOUS
<1>1. CASE UNCHANGED lookVars
  BY <1>1 DEF lookVars, LookInv, LookTypes, EditorsHaveThese, EditedCartIsThere, LookIsPicked, FreshEchoIsTheCart
<1>2. CASE LookNext
  BY <1>2, PickingInv, CoverUploadedInv, UploadInv, PickerInv, NamingInv, OpeningInv, FlushTimerInv, LeaveEditorInv,
     LeftoverTimerInv, PatchStoredInv, PatchFailsInv, ReadEchoInv, SetEchoInv DEF LookNext
<1> QED
  BY <1>1, <1>2

\* It implies the types and that the look is the cart's.
LEMMA LookInvImplies == LookInv => LookTypeOK /\ LookIsTheCart
<1> SUFFICES ASSUME LookInv PROVE LookTypeOK /\ LookIsTheCart
  OBVIOUS
<1>1. LookTypeOK
  BY DEF LookInv, LookTypes, EditorsHaveThese, LookTypeOK, Looks, Changes, Patches
<1>2. ASSUME at = "editor", NEW f \in Fields \ astray, unsent[f] = Keep, patch[f] = Keep
      PROVE  look[f] = Marshal[f]
  BY <1>2, MarshalIsStored DEF LookInv, LookIsPicked
<1>3. ASSUME at = "editor", astray = {}, unsent = NothingNew, patch = NoPatch
      PROVE  PublicPage.found = CartPreview.found /\ PublicPage.cover = CartPreview.cover
  <2>1. look.cover = stored.cover /\ look.visibility = stored.visibility /\ stored.there
    BY <1>3 DEF LookInv, LookIsPicked, EditedCartIsThere, NothingNew, NoPatch, Fields
  <2> QED
    BY <2>1, MarshalIsStored DEF PublicPage, CartPreview
<1>4. LookIsTheCart
  BY <1>2, <1>3 DEF LookIsTheCart, LookInv
<1> QED
  BY <1>1, <1>4

\* The types of a cart's look in its editor.
THEOREM LookTypeCorrect == LookSpec => []LookTypeOK
<1> QED
  BY LookInvInitially, LookInvIsInductive, LookInvImplies, PTL DEF LookSpec

\* Once a change was saved, the page followers get is the one the editor speaks of (patch and
\* flushSave of editor.tsx, GetPublicCart), except for a field that the editor came up with an
\* older page of, whose PATCH failed, which a PATCH of the editor before was still to change,
\* or which a product call brought an older value of, until it is picked again or a product
\* call reads the cart with nothing unsaved.
THEOREM LookIsTheCartsLook == LookSpec => []LookIsTheCart
<1> QED
  BY LookInvInitially, LookInvIsInductive, LookInvImplies, PTL DEF LookSpec
=============================================================================
