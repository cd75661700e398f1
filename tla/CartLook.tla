------------------------------- MODULE CartLook -------------------------------
(***************************************************************************)
(* A cart's look and who may see it, from "Name your new cart"             *)
(* (web/app/dashboard/carts/new) through its editor's sections (cover,     *)
(* accent colour, visibility: editor.tsx, cover-picker.tsx) to the public  *)
(* page (web/app/(share)/c/[slug]), which the editor's preview promises.   *)
(*                                                                         *)
(* The editor collects and sends changes as module EditorSave says; here   *)
(* they come from the pickers, one of which uploads a picture first and    *)
(* outlives the editor.  Overlapping PATCHes, and a tab that is closed on  *)
(* its changes, are EditorSave's; title and bio behave like the cover.     *)
(***************************************************************************)
EXTENDS Naturals, FiniteSets

CONSTANTS
  Curated,  \* covers the picker offers to everybody
  Own,      \* pictures of the creator: linked to, or uploaded
  Gradient, \* no cover
  Accents,  \* accent colours
  House,    \* the one the server answers with
  Used,     \* covers of the creator's other carts
  Keep      \* a field that is not changed

ASSUME LookAssumption ==
  /\ House \in Accents /\ Gradient \notin Curated \cup Own /\ Curated \cap Own = {} /\ Used \subseteq Curated \cup Own
  /\ Keep \notin Curated \cup Own \cup {Gradient} \cup Accents \cup {"public", "private"}

VARIABLES
  at,        \* "new" (the page that names a cart), "editor", or "away" from both
  naming,  \* the POST of the new cart
  stored,    \* the cart's row: whether it is there, its cover and its visibility
  keptLook,  \* the cart as the router keeps it from the last time the editor was rendered,
             \* if it ever was
  look,      \* cart of the editor
  unsent,    \* pending of the editor; its timer is armed if it has anything
  leftover,  \* pending of an editor that is gone: a cover
  patch,     \* the PATCH in flight
  coverOpen, \* the section with the cover picker is open
  library,   \* "Your covers" of the picker
  listing,   \* the picker is waiting for them
  upload,    \* the upload: pc, the picture, and whether its editor is there
  echo,      \* the cart a product call read, and (a history) whether it is up to date
  astray     \* history: fields in which the editor and the row parted, because the editor
             \* came up with an older cart, a product call answered with one, a PATCH failed,
             \* or one of the editor before was still to come; until one is picked again

lookVars == <<at, naming, stored, keptLook, look, unsent, leftover, patch, coverOpen, library,
              listing, upload, echo, astray>>
-----------------------------------------------------------------------------
Covers == Curated \cup Own \cup {Gradient}
Visibilities == {"public", "private"}
Fields == {"cover", "visibility"}
Looks == [cover : Covers, accent : Accents, visibility : Visibilities]
NothingNew == [cover |-> Keep, accent |-> Keep, visibility |-> Keep]

NoUpload == [pc |-> "idle", cover |-> Gradient, mine |-> FALSE]
NoPatch == [pc |-> "idle", cover |-> Keep, visibility |-> Keep]
NoCart == [there |-> FALSE, cover |-> Gradient, visibility |-> "public"]

\* MarshalCart: every cart has the house's colour.
Marshal == [cover |-> stored.cover, accent |-> House, visibility |-> stored.visibility]
NoLook == [cover |-> Gradient, accent |-> House, visibility |-> "public"]
NoEcho == [pc |-> "idle", look |-> NoLook, fresh |-> FALSE]

\* The page followers open: the cart's cover and colour, or "not found".
PublicPage ==
  IF stored.there /\ stored.visibility = "public"
    THEN [found |-> TRUE, cover |-> Marshal.cover, accent |-> Marshal.accent]
    ELSE [found |-> FALSE, cover |-> Gradient, accent |-> House]

\* What the editor says of that page: its preview, and the text on visibility.
CartPreview ==
  IF look.visibility = "public"
    THEN [found |-> TRUE, cover |-> look.cover, accent |-> look.accent]
    ELSE [found |-> FALSE, cover |-> Gradient, accent |-> House]

LookInit ==
  /\ at \in {"new", "away"}
  /\ stored \in [there : {at = "away"}, cover : Covers, visibility : Visibilities]
  /\ at = "new" => stored = NoCart
  /\ naming = "idle" /\ keptLook = {} /\ look = NoLook
  /\ unsent = NothingNew /\ leftover = Keep /\ patch = NoPatch
  /\ coverOpen = FALSE /\ library = {} /\ listing = FALSE
  /\ upload = NoUpload /\ echo = NoEcho
  /\ astray = {}
-----------------------------------------------------------------------------
\* The section is opened or closed, also with its editor: a picker is mounted, or the
\* picker goes and its fetch finds it not `alive`.
Picker(opens) ==
  /\ coverOpen' = opens /\ listing' = opens
  /\ library' = {}

\* An editor is mounted on a cart that the server has rendered, now or before.
Mounts(cart) ==
  /\ at' = "editor" /\ look' = cart /\ keptLook' = {cart}
  /\ Picker(cart.cover = Gradient)
  /\ astray' = {f \in Fields : patch[f] # Keep \/ cart[f] # Marshal[f]}

SubmitNewCart ==
  /\ at = "new" /\ naming = "idle" /\ ~stored.there
  /\ naming' = "sent"
  /\ UNCHANGED <<at, stored, keptLook, look, unsent, leftover, patch, coverOpen, library, listing,
                 upload, echo, astray>>

CreateCart ==
  /\ naming = "sent"
  /\ naming' = "stored"
  /\ stored' = [NoCart EXCEPT !.there = TRUE]
  /\ UNCHANGED <<at, keptLook, look, unsent, leftover, patch, coverOpen, library, listing, upload,
                 echo, astray>>

NewCartAnswered ==
  /\ naming = "stored"
  /\ naming' = "idle"
  /\ Mounts(Marshal)
  /\ UNCHANGED <<stored, unsent, leftover, patch, upload, echo>>

\* The page stays; a cart whose answer was lost is found on the dashboard.
NewCartFails ==
  /\ naming # "idle"
  /\ naming' = "idle"
  /\ at' = IF stored.there THEN "away" ELSE at
  /\ UNCHANGED <<stored, keptLook, look, unsent, leftover, patch, coverOpen, library, listing,
                 upload, echo, astray>>

\* On the server's page, or on the one the router keeps: on the way back always, and over a
\* link within half a minute.
OpenEditor ==
  /\ at = "away"
  /\ \E cart \in keptLook \cup {Marshal} : Mounts(cart)
  /\ UNCHANGED <<naming, stored, unsent, leftover, patch, upload, echo>>
-----------------------------------------------------------------------------
\* patch of the editor
Choose(f, v) ==
  /\ at = "editor"
  /\ look' = [look EXCEPT ![f] = v]
  /\ unsent' = [unsent EXCEPT ![f] = v]
  /\ echo' = [echo EXCEPT !.fresh = FALSE]
  /\ astray' = astray \ {f}

\* The tiles, each with its cover: none, the curated ones, and the creator's own.
Tiles == {Gradient} \cup Curated \cup library

PickTile(c) ==
  /\ coverOpen /\ c \in Tiles
  /\ Choose("cover", c)
  /\ UNCHANGED <<at, naming, stored, keptLook, leftover, patch, coverOpen, library, listing,
                 upload>>

ApplyUrl(c) ==
  /\ coverOpen /\ c \in Own
  /\ Choose("cover", c)
  /\ UNCHANGED <<at, naming, stored, keptLook, leftover, patch, coverOpen, library, listing,
                 upload>>

PickAccent(a) ==
  /\ coverOpen
  /\ Choose("accent", a)
  /\ UNCHANGED <<at, naming, stored, keptLook, leftover, patch, coverOpen, library, listing,
                 upload>>

SetVisibility(v) ==
  /\ v # look.visibility
  /\ Choose("visibility", v)
  /\ UNCHANGED <<at, naming, stored, keptLook, leftover, patch, coverOpen, library, listing,
                 upload>>

ToggleCover ==
  /\ at = "editor"
  /\ Picker(~coverOpen)
  /\ UNCHANGED <<at, naming, stored, keptLook, look, unsent, leftover, patch, upload, echo, astray>>
-----------------------------------------------------------------------------
\* "Your covers": what the creator's carts have, archived ones included.
ListUserCoverImages == ({stored.cover} \cup Used) \ {Gradient}

History == ListUserCoverImages \ Curated

\* The answer, or none.
SetHistory(ok) ==
  /\ listing
  /\ library' = IF ok THEN History ELSE library
  /\ listing' = FALSE
  /\ UNCHANGED <<at, naming, stored, keptLook, look, unsent, leftover, patch, coverOpen, upload, echo,
                 astray>>

\* One upload at a time: the button's own bound (a new picker has a new button).
UploadCover(c) ==
  /\ coverOpen /\ upload.pc = "idle" /\ c \in Own
  /\ upload' = [pc |-> "sent", cover |-> c, mine |-> TRUE]
  /\ UNCHANGED <<at, naming, stored, keptLook, look, unsent, leftover, patch, coverOpen, library,
                 listing, echo, astray>>

\* onUploaded is the patch of the editor the picture was picked in, there or not: one
\* that is gone still arms its timer.
CoverUploaded ==
  /\ upload.pc = "sent"
  /\ upload' = NoUpload
  /\ IF upload.mine
       THEN Choose("cover", upload.cover) /\ UNCHANGED leftover
       ELSE leftover' = upload.cover /\ UNCHANGED <<look, unsent, echo, astray>>
  /\ UNCHANGED <<at, naming, stored, keptLook, patch, coverOpen, library, listing>>

CoverUploadFails ==
  /\ upload.pc = "sent"
  /\ upload' = NoUpload
  /\ UNCHANGED <<at, naming, stored, keptLook, look, unsent, leftover, patch, coverOpen, library,
                 listing, echo, astray>>
-----------------------------------------------------------------------------
\* The body of the PATCH: there is no accent colour in it.
Body == [pc |-> "sent", cover |-> unsent.cover, visibility |-> unsent.visibility]

\* flushSave
Flush ==
  /\ unsent' = NothingNew
  /\ IF unsent = NothingNew THEN UNCHANGED patch
                            ELSE patch.pc = "idle" /\ patch' = Body

FlushTimer ==
  /\ unsent # NothingNew
  /\ Flush
  /\ UNCHANGED <<at, naming, stored, keptLook, look, leftover, coverOpen, library, listing,
                 upload, echo, astray>>

\* The timer of the editor that is gone.
LeftoverTimer ==
  /\ leftover # Keep /\ patch.pc = "idle"
  /\ patch' = [pc |-> "sent", cover |-> leftover, visibility |-> Keep]
  /\ leftover' = Keep
  /\ astray' = IF at = "editor" /\ unsent.cover = Keep THEN astray \cup {"cover"} ELSE astray
  /\ echo' = [echo EXCEPT !.fresh = FALSE]
  /\ UNCHANGED <<at, naming, stored, keptLook, look, unsent, coverOpen, library, listing, upload>>

PatchStored ==
  /\ patch.pc = "sent"
  /\ stored' = [f \in DOMAIN stored |->
       IF f \in Fields /\ patch[f] # Keep THEN patch[f] ELSE stored[f]]
  /\ patch' = NoPatch
  /\ UNCHANGED <<at, naming, keptLook, look, unsent, leftover, coverOpen, library, listing,
                 upload, echo, astray>>

PatchFails ==
  /\ patch.pc = "sent"
  /\ astray' = IF at = "editor" THEN astray \cup {f \in Fields : patch[f] # Keep /\ unsent[f] = Keep}
                                 ELSE {}
  /\ patch' = NoPatch
  /\ UNCHANGED <<at, naming, stored, keptLook, look, unsent, leftover, coverOpen, library,
                 listing, upload, echo>>

\* The effect's cleanup, on the way to any other page.
LeaveEditor ==
  /\ at = "editor"
  /\ at' = "away" /\ look' = NoLook
  /\ Flush
  /\ Picker(FALSE)
  /\ upload' = [upload EXCEPT !.mine = FALSE]
  /\ echo' = NoEcho /\ astray' = {}
  /\ UNCHANGED <<naming, stored, keptLook, leftover>>
-----------------------------------------------------------------------------
\* A product call (module ProductList) reads the cart, and its answer replaces the
\* editor's.
ReadEcho ==
  /\ at = "editor" /\ echo.pc = "idle"
  /\ echo' = [pc |-> "read", look |-> Marshal, fresh |-> unsent = NothingNew /\ patch = NoPatch]
  /\ UNCHANGED <<at, naming, stored, keptLook, look, unsent, leftover, patch, coverOpen, library,
                 listing, upload, astray>>

SetEcho ==
  /\ echo.pc = "read"
  /\ look' = echo.look
  /\ astray' = IF echo.fresh THEN {} ELSE Fields
  /\ echo' = NoEcho
  /\ UNCHANGED <<at, naming, stored, keptLook, unsent, leftover, patch, coverOpen, library,
                 listing, upload>>
-----------------------------------------------------------------------------
LookNext ==
  \/ SubmitNewCart \/ CreateCart \/ NewCartAnswered \/ NewCartFails
  \/ OpenEditor \/ LeaveEditor \/ ToggleCover
  \/ \E c \in Covers : PickTile(c) \/ ApplyUrl(c) \/ UploadCover(c)
  \/ \E a \in Accents : PickAccent(a)
  \/ \E v \in Visibilities : SetVisibility(v)
  \/ \E ok \in BOOLEAN : SetHistory(ok)
  \/ CoverUploaded \/ CoverUploadFails
  \/ FlushTimer \/ LeftoverTimer \/ PatchStored \/ PatchFails
  \/ ReadEcho \/ SetEcho

LookSpec == LookInit /\ [][LookNext]_lookVars
-----------------------------------------------------------------------------
LookTypeOK ==
  /\ at \in {"new", "editor", "away"} /\ naming \in {"idle", "sent", "stored"}
  /\ stored \in [there : BOOLEAN, cover : Covers, visibility : Visibilities]
  /\ look \in Looks /\ keptLook \subseteq Looks
  /\ unsent \in [cover : Covers \cup {Keep}, accent : Accents \cup {Keep},
                 visibility : Visibilities \cup {Keep}]
  /\ leftover \in Own \cup {Keep} /\ astray \subseteq Fields
  /\ patch \in [pc : {"idle", "sent"}, cover : Covers \cup {Keep},
                visibility : Visibilities \cup {Keep}]
  /\ library \subseteq Covers
  /\ listing => coverOpen
  /\ coverOpen => at = "editor"
  /\ unsent # NothingNew => at = "editor"
  /\ upload.mine => at = "editor"

\* Once a change was saved, the page followers get is the one the editor speaks of: no
\* page at all while it says "Only you can open this cart", and the preview's cover while
\* it says that anyone can.  A field parts from the row only where the editor came up with
\* the older page that the router kept, where a PATCH of the editor before came after that, a
\* product call answered with a cart from before a change, or a PATCH failed; and then only
\* until it is picked again, or a product call reads the cart with nothing unsaved.
LookIsTheCart ==
  /\ at = "editor" =>
       \A f \in Fields \ astray :
         unsent[f] = Keep /\ patch[f] = Keep => look[f] = Marshal[f]
  /\ at = "editor" /\ astray = {} /\ unsent = NothingNew /\ patch = NoPatch =>
       PublicPage.found = CartPreview.found /\ PublicPage.cover = CartPreview.cover
=============================================================================
