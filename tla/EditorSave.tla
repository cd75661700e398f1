---------------------------- MODULE EditorSave ----------------------------
(***************************************************************************)
(* The cart editor of one browser tab and the cart row behind it:          *)
(* web/app/dashboard/carts/[id]/editor.tsx.  Edits of the cart's own       *)
(* fields are collected in `pending` and sent 600 ms after the last one;   *)
(* product operations are sent at once and answer with the whole cart,     *)
(* which replaces what the editor shows.  An editor that is opened again   *)
(* may come up with the page the router kept instead of the row.           *)
(*                                                                         *)
(* Requests of one tab are not ordered: each fetch is a request of its own *)
(* and the server runs its handlers side by side.  A PATCH is the two      *)
(* statements of UpdateCart (module CartAccess): read the row, write every *)
(* column.                                                                 *)
(***************************************************************************)
EXTENDS Naturals, FiniteSets

CONSTANTS
  Fields,   \* title, bio, cover and visibility of the cart
  Values,   \* their contents
  Saves,    \* PATCH requests in flight at the same time
  Echoes,   \* product operations in flight at the same time
  Faults,   \* TRUE: requests may fail and the tab may be closed
  GoesOn,   \* FALSE bounds the runs: no more edits once `troubled`
  None      \* no pending change of a field

ASSUME ConstantsAssumption == {Faults, GoesOn} \subseteq BOOLEAN /\ None \notin Values

VARIABLES
  open,      \* the editor is mounted
  cart,      \* React state: the fields the editor shows
  keptPage,  \* the cart on the page the router keeps of the last time it was opened
  pending,   \* ref: changes not sent yet
  timer,     \* ref: saveTimer is armed
  row,       \* the fields of the carts row
  save,      \* PATCH requests
  echo,      \* product operations: the cart read after the mutation
  typed,     \* history: the last value the user gave each field
  troubled   \* history: a save failed, or was sent while another was running, or
             \* the tab was closed on pending edits

vars == <<open, cart, keptPage, pending, timer, row, save, echo, typed, troubled>>
-----------------------------------------------------------------------------
Contents == [Fields -> Values]
Changes == [Fields -> Values \cup {None}]
NoChange == [f \in Fields |-> None]

\* {...base, ...changes}
Merge(base, changes) == [f \in Fields |-> IF changes[f] = None THEN base[f] ELSE changes[f]]

NoSave == [s \in Saves |-> [pc |-> "idle", patch |-> NoChange, read |-> NoChange]]
NoEcho == [e \in Echoes |-> [pc |-> "idle", cart |-> NoChange]]

Init ==
  /\ open = TRUE
  /\ row \in Contents /\ cart = row /\ keptPage = {row} /\ typed = row
  /\ pending = NoChange /\ timer = FALSE
  /\ save = NoSave
  /\ echo = NoEcho
  /\ troubled = FALSE

Sent(s) == save[s].pc # "idle"
-----------------------------------------------------------------------------
\* Mutant: the new change replaces the pending ones.
PendOnly(f, v) == [NoChange EXCEPT ![f] = v]

Pend(f, v) == [pending EXCEPT ![f] = v]

\* patch: the user gives field f another value than the one shown.
Edit(f, v) ==
  /\ open /\ v # cart[f]
  /\ troubled => GoesOn
  /\ cart' = [cart EXCEPT ![f] = v]
  /\ typed' = [typed EXCEPT ![f] = v]
  /\ pending' = Pend(f, v)
  /\ timer' = TRUE
  /\ UNCHANGED <<open, keptPage, row, save, echo, troubled>>

\* Mutant: flushSave forgets to empty the ref.
FlushSaveKeeping ==
  /\ UNCHANGED pending
  /\ IF pending = NoChange
       THEN UNCHANGED <<save, troubled>>
       ELSE /\ \E s \in Saves :
                 /\ ~Sent(s)
                 /\ save' = [save EXCEPT ![s] =
                      [pc |-> "sent", patch |-> pending, read |-> NoChange]]
            /\ troubled' = (troubled \/ \E s \in Saves : Sent(s))

\* flushSave: one PATCH with everything that is pending.
FlushSave ==
  /\ pending' = NoChange
  /\ IF pending = NoChange
       THEN UNCHANGED <<save, troubled>>
       ELSE /\ \E s \in Saves :
                 /\ ~Sent(s)
                 /\ save' = [save EXCEPT ![s] =
                      [pc |-> "sent", patch |-> pending, read |-> NoChange]]
            /\ troubled' = (troubled \/ \E s \in Saves : Sent(s))

TimerFires ==
  /\ timer
  /\ timer' = FALSE
  /\ FlushSave
  /\ UNCHANGED <<open, cart, keptPage, row, echo, typed>>

\* Mutant: the effect's cleanup only clears the timer.
LeaveDroppingEdits ==
  /\ open
  /\ open' = FALSE /\ timer' = FALSE /\ pending' = NoChange
  /\ echo' = NoEcho
  /\ UNCHANGED <<cart, keptPage, row, save, typed, troubled>>

\* The effect's cleanup: the user goes to another page of the app.  The answers
\* of product calls find no editor to show them.
Leave ==
  /\ open
  /\ open' = FALSE /\ timer' = FALSE
  /\ FlushSave
  /\ echo' = NoEcho
  /\ UNCHANGED <<cart, keptPage, row, typed>>

\* The browser tab is closed: React runs no cleanup, and edits of the last 600 ms
\* go with it.
CloseTab ==
  /\ Faults /\ open
  /\ open' = FALSE /\ timer' = FALSE /\ pending' = NoChange
  /\ echo' = NoEcho /\ keptPage' = {}
  /\ troubled' = (troubled \/ pending # NoChange)
  /\ UNCHANGED <<cart, row, save, typed>>

\* page.tsx loads the cart, or the router brings back the page it kept of it, and a new
\* editor is mounted.
Open ==
  /\ ~open
  /\ open' = TRUE
  /\ cart' \in {row} \cup keptPage /\ keptPage' = {cart'}
  /\ UNCHANGED <<pending, timer, row, save, echo, typed, troubled>>
-----------------------------------------------------------------------------
\* UpdateCart on the server, in two statements; its answer is not used.
ReadRow(s) ==
  /\ save[s].pc = "sent"
  /\ save' = [save EXCEPT ![s].pc = "read", ![s].read = row]
  /\ UNCHANGED <<open, cart, keptPage, pending, timer, row, echo, typed, troubled>>

WriteRow(s) ==
  /\ save[s].pc = "read"
  /\ row' = Merge(save[s].read, save[s].patch)
  /\ save' = [save EXCEPT ![s] = NoSave[s]]
  /\ UNCHANGED <<open, cart, keptPage, pending, timer, echo, typed, troubled>>

\* A toast; the changes are in no ref any more.
SaveFails(s) ==
  /\ Faults /\ Sent(s)
  /\ save' = [save EXCEPT ![s] = NoSave[s]]
  /\ troubled' = TRUE
  /\ UNCHANGED <<open, cart, keptPage, pending, timer, row, echo, typed>>
-----------------------------------------------------------------------------
\* addProduct, removeProduct, editProduct, move and handleDragEnd: a mutation
\* of the items, then getCartById, then setCart(updated).
StartProductCall(e) ==
  /\ open /\ echo[e].pc = "idle"
  /\ echo' = [echo EXCEPT ![e].pc = "asked"]
  /\ UNCHANGED <<open, cart, keptPage, pending, timer, row, save, typed, troubled>>

GetCartById(e) ==
  /\ echo[e].pc = "asked"
  /\ echo' = [echo EXCEPT ![e] = [pc |-> "answered", cart |-> row]]
  /\ UNCHANGED <<open, cart, keptPage, pending, timer, row, save, typed, troubled>>

SetCart(e) ==
  /\ echo[e].pc = "answered"
  /\ cart' = echo[e].cart
  /\ echo' = [echo EXCEPT ![e] = NoEcho[e]]
  /\ UNCHANGED <<open, keptPage, pending, timer, row, save, typed, troubled>>

ProductCallFails(e) ==
  /\ Faults /\ echo[e].pc # "idle"
  /\ echo' = [echo EXCEPT ![e] = NoEcho[e]]
  /\ UNCHANGED <<open, cart, keptPage, pending, timer, row, save, typed, troubled>>
-----------------------------------------------------------------------------
Next ==
  \/ \E f \in Fields, v \in Values : Edit(f, v)
  \/ TimerFires \/ Leave \/ CloseTab \/ Open
  \/ \E s \in Saves : ReadRow(s) \/ WriteRow(s) \/ SaveFails(s)
  \/ \E e \in Echoes :
       StartProductCall(e) \/ GetCartById(e) \/ SetCart(e) \/ ProductCallFails(e)

Spec == Init /\ [][Next]_vars

\* The user pauses for 600 ms now and then, and requests that were sent run.
Fairness == WF_vars(TimerFires) /\ \A s \in Saves : WF_vars(ReadRow(s)) /\ WF_vars(WriteRow(s))

FairSpec == Spec /\ Fairness
-----------------------------------------------------------------------------
\* The state has its type; there is a timer or nothing pending, and an editor
\* that is closed has neither.
TypeOK ==
  /\ open \in BOOLEAN /\ timer \in BOOLEAN /\ troubled \in BOOLEAN
  /\ {cart, row, typed} \cup keptPage \subseteq Contents
  /\ pending \in Changes
  /\ save \in [Saves -> [pc : {"idle", "sent", "read"}, patch : Changes,
                         read : Contents \cup {NoChange}]]
  /\ echo \in [Echoes -> [pc : {"idle", "asked", "answered"}, cart : Contents \cup {NoChange}]]
  /\ timer <=> pending # NoChange
  /\ timer => open

\* A value the user typed that the row does not have yet is pending or on its way
\* to the server, as long as no save failed, no two saves overlapped and no tab was
\* closed on it.  Neither leaving the page nor the answers of product calls lose an
\* edit.
UnsavedIsOnItsWay ==
  ~troubled => \A f \in Fields : row[f] # typed[f] =>
    \/ pending[f] = typed[f]
    \/ \E s \in Saves : save[s].patch[f] = typed[f]

\* The last value given to a field reaches the row, under the same proviso.
SavedInTheEnd ==
  \A f \in Fields, v \in Values :
    typed[f] = v ~> (row[f] = v \/ typed[f] # v \/ troubled)
=============================================================================
