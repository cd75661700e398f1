-------------------------- MODULE EditorSave_proofs --------------------------
(***************************************************************************)
(* Proofs about the autosave of the cart editor (module EditorSave), for   *)
(* any fields and values, and any number of saves and product calls at the *)
(* same time.                                                              *)
(***************************************************************************)
EXTENDS EditorSave, TLAPS

SaveRecords == [pc : {"idle", "sent", "read"}, patch : Changes, read : Contents \cup {NoChange}]
EchoRecords == [pc : {"idle", "asked", "answered"}, cart : Contents \cup {NoChange}]

\* An idle slot carries nothing, and a request that has read has read a row.
SlotsAreFilled ==
  /\ \A s \in Saves : save[s].pc = "idle" => save[s].patch = NoChange
  /\ \A s \in Saves : save[s].pc = "read" => save[s].read \in Contents
  /\ \A e \in Echoes : echo[e].pc = "answered" => echo[e].cart \in Contents

\* What is pending is what the user typed last.
PendingIsTyped == \A f \in Fields : pending[f] # None => pending[f] = typed[f]

\* One save at a time, as long as there was no trouble ...
SavesTakeTurns == ~troubled => \A s, t \in Saves : Sent(s) /\ Sent(t) => s = t

\* ... so that the row it read is still the row it writes,
ReadsAreFresh == ~troubled => \A s \in Saves : save[s].pc = "read" => save[s].read = row

\* and only what was typed after it was sent is newer than what it carries.
SavesCarryTyped ==
  ~troubled => \A s \in Saves, f \in Fields :
    save[s].patch[f] # None => save[s].patch[f] = typed[f] \/ pending[f] = typed[f]

SaveInv ==
  /\ TypeOK /\ SlotsAreFilled
  /\ PendingIsTyped /\ SavesTakeTurns /\ ReadsAreFresh /\ SavesCarryTyped
  /\ UnsavedIsOnItsWay
-----------------------------------------------------------------------------
\* The types, apart from the rest of TypeOK.
LEMMA Types ==
  ASSUME TypeOK
  PROVE  /\ cart \in Contents /\ row \in Contents /\ typed \in Contents /\ pending \in Changes
         /\ save \in [Saves -> SaveRecords] /\ echo \in [Echoes -> EchoRecords]
         /\ open \in BOOLEAN /\ timer \in BOOLEAN /\ troubled \in BOOLEAN
         /\ keptPage \subseteq Contents
BY DEF TypeOK, SaveRecords, EchoRecords

\* TypeOK after a step, from the types of its parts.
LEMMA TypesSuffice ==
  ASSUME cart' \in Contents, row' \in Contents, typed' \in Contents, pending' \in Changes,
         save' \in [Saves -> SaveRecords], echo' \in [Echoes -> EchoRecords],
         open' \in BOOLEAN, timer' \in BOOLEAN, troubled' \in BOOLEAN, keptPage' \subseteq Contents,
         timer' <=> pending' # NoChange, timer' => open'
  PROVE  TypeOK'
BY DEF TypeOK, SaveRecords, EchoRecords

\* No change, no save and no echo have their types.
LEMMA NoChanges ==
  /\ NoChange \in Changes /\ \A f \in Fields : NoChange[f] = None
  /\ NoSave \in [Saves -> SaveRecords] /\ NoEcho \in [Echoes -> EchoRecords]
  /\ \A s \in Saves : NoSave[s] = [pc |-> "idle", patch |-> NoChange, read |-> NoChange]
  /\ \A e \in Echoes : NoEcho[e] = [pc |-> "idle", cart |-> NoChange]
<1>1. NoChange \in Changes /\ \A f \in Fields : NoChange[f] = None
  BY DEF NoChange, Changes
<1>2. [pc |-> "idle", patch |-> NoChange, read |-> NoChange] \in SaveRecords
  BY <1>1 DEF SaveRecords
<1>3. [pc |-> "idle", cart |-> NoChange] \in EchoRecords
  BY DEF EchoRecords
<1> QED
  BY <1>1, <1>2, <1>3 DEF NoSave, NoEcho

\* An editor that shows its row, with nothing pending.
LEMMA SaveInvInitially == Init => SaveInv
<1> SUFFICES ASSUME Init PROVE SaveInv
  OBVIOUS
<1>1. /\ row \in Contents /\ cart \in Contents /\ typed \in Contents /\ pending \in Changes
      /\ save \in [Saves -> SaveRecords] /\ echo \in [Echoes -> EchoRecords]
  BY NoChanges DEF Init
<1>2. TypeOK
  BY <1>1 DEF Init, TypeOK, SaveRecords, EchoRecords
<1>3. /\ \A s \in Saves : save[s].pc = "idle" /\ save[s].patch = NoChange
      /\ \A e \in Echoes : echo[e].pc = "idle"
      /\ \A f \in Fields : pending[f] = None
  BY NoChanges DEF Init
<1>4. SlotsAreFilled /\ PendingIsTyped
  BY <1>3 DEF SlotsAreFilled, PendingIsTyped
<1>5. SavesTakeTurns /\ ReadsAreFresh /\ SavesCarryTyped
  BY <1>3, NoChanges DEF SavesTakeTurns, ReadsAreFresh, SavesCarryTyped, Sent
<1>6. UnsavedIsOnItsWay
  BY DEF Init, UnsavedIsOnItsWay
<1> QED
  BY <1>2, <1>4, <1>5, <1>6 DEF SaveInv
-----------------------------------------------------------------------------
\* What the user types is pending.
LEMMA EditInv ==
  ASSUME SaveInv, NEW f \in Fields, NEW v \in Values, Edit(f, v)
  PROVE  SaveInv'
<1>1. TypeOK
  BY DEF SaveInv
<1>2. /\ cart' = [cart EXCEPT ![f] = v] /\ typed' = [typed EXCEPT ![f] = v]
      /\ pending' = [pending EXCEPT ![f] = v]
      /\ timer' = TRUE /\ open' = open /\ row' = row /\ save' = save /\ echo' = echo
      /\ keptPage' = keptPage /\ troubled' = troubled /\ open
  BY DEF Edit, Pend
<1>3. cart' \in Contents /\ typed' \in Contents /\ pending' \in Changes
  BY <1>1, <1>2, Types DEF Contents, Changes
<1>4. /\ typed'[f] = v /\ pending'[f] = v /\ v # None
      /\ \A g \in Fields : g # f => typed'[g] = typed[g] /\ pending'[g] = pending[g]
  BY <1>1, <1>2, Types, ConstantsAssumption DEF Contents, Changes
<1>5. pending' # NoChange
  BY <1>4, NoChanges
<1>6. TypeOK'
  BY <1>1, <1>2, <1>3, <1>5, Types, TypesSuffice
<1>7. SlotsAreFilled' /\ SavesTakeTurns' /\ ReadsAreFresh'
  BY <1>2 DEF SaveInv, SlotsAreFilled, SavesTakeTurns, ReadsAreFresh, Sent
<1>8. PendingIsTyped' /\ SavesCarryTyped' /\ UnsavedIsOnItsWay'
  BY <1>2, <1>4 DEF SaveInv, PendingIsTyped, SavesCarryTyped, UnsavedIsOnItsWay
<1> QED
  BY <1>6, <1>7, <1>8 DEF SaveInv

\* A flush moves what is pending into a save; with another one running that is trouble.
LEMMA FlushInv ==
  ASSUME SaveInv, FlushSave, timer' = FALSE, open' \in BOOLEAN,
         echo' = echo \/ echo' = NoEcho, UNCHANGED <<cart, keptPage, row, typed>>
  PROVE  SaveInv'
<1>1. TypeOK
  BY DEF SaveInv
<1>2. pending' = NoChange /\ \A f \in Fields : pending'[f] = None
  BY NoChanges DEF FlushSave
<1>3. echo' \in [Echoes -> EchoRecords] /\ \A e \in Echoes : echo'[e].pc = "answered" => echo'[e].cart \in Contents
  BY <1>1, Types, NoChanges DEF SaveInv, SlotsAreFilled
<1>4. CASE pending = NoChange
  <2>1. save' = save /\ troubled' = troubled
    BY <1>4 DEF FlushSave
  <2>2. TypeOK'
    BY <1>1, <1>2, <1>3, <2>1, Types, TypesSuffice, NoChanges
  <2> QED
    BY <1>2, <1>3, <1>4, <2>1, <2>2
    DEF SaveInv, SlotsAreFilled, PendingIsTyped, SavesTakeTurns, ReadsAreFresh, SavesCarryTyped, UnsavedIsOnItsWay, Sent
<1>5. CASE pending # NoChange
  <2> DEFINE sent == [pc |-> "sent", patch |-> pending, read |-> NoChange]
  <2>1. PICK s \in Saves : ~Sent(s) /\ save' = [save EXCEPT ![s] = sent]
    BY <1>5 DEF FlushSave
  <2>2. troubled' = (troubled \/ \E t \in Saves : Sent(t))
    BY <1>5 DEF FlushSave
  <2>3. sent \in SaveRecords /\ sent.pc = "sent" /\ sent.patch = pending
    BY <1>1, Types DEF SaveRecords
  <2> HIDE DEF sent
  <2>4. /\ save' \in [Saves -> SaveRecords] /\ save'[s] = sent
        /\ \A t \in Saves : t # s => save'[t] = save[t]
    BY <1>1, <2>1, <2>3, Types
  <2>5. TypeOK'
    BY <1>1, <1>2, <1>3, <2>2, <2>4, Types, TypesSuffice, NoChanges
  <2>6. SlotsAreFilled' /\ PendingIsTyped'
    BY <1>2, <1>3, <2>3, <2>4 DEF SaveInv, SlotsAreFilled, PendingIsTyped
  <2>7. ASSUME ~troubled'
        PROVE  ~troubled /\ \A t \in Saves : t # s => save'[t].pc = "idle" /\ save'[t].patch = NoChange
    BY <2>2, <2>4, <2>7 DEF Sent, SaveInv, SlotsAreFilled
  <2>8. SavesTakeTurns' /\ ReadsAreFresh'
    BY <2>3, <2>4, <2>7 DEF SavesTakeTurns, ReadsAreFresh, Sent
  <2>9. SavesCarryTyped'
    BY <2>3, <2>4, <2>7, NoChanges DEF SaveInv, SavesCarryTyped, PendingIsTyped
  <2>10. UnsavedIsOnItsWay'
    <3> SUFFICES ASSUME ~troubled', NEW f \in Fields, row[f] # typed[f]
                 PROVE  \E t \in Saves : save'[t].patch[f] = typed[f]
      BY DEF UnsavedIsOnItsWay
    <3>1. typed[f] # None
      BY <1>1, Types, ConstantsAssumption DEF Contents
    <3>2. \A t \in Saves : save[t].patch = NoChange
      BY <2>7, <2>2 DEF Sent, SaveInv, SlotsAreFilled
    <3>3. pending[f] = typed[f]
      BY <2>7, <3>1, <3>2, NoChanges DEF SaveInv, UnsavedIsOnItsWay
    <3> QED
      BY <2>3, <2>4, <3>3
  <2> QED
    BY <2>5, <2>6, <2>8, <2>9, <2>10 DEF SaveInv
<1> QED
  BY <1>4, <1>5

\* A closed tab takes nothing with it, or is trouble.
LEMMA CloseTabInv ==
  ASSUME SaveInv, CloseTab
  PROVE  SaveInv'
<1>1. TypeOK
  BY DEF SaveInv
<1>2. /\ pending' = NoChange /\ echo' = NoEcho /\ timer' = FALSE /\ open' = FALSE
      /\ keptPage' = {} /\ troubled' = (troubled \/ pending # NoChange)
      /\ cart' = cart /\ row' = row /\ save' = save /\ typed' = typed
  BY DEF CloseTab
<1>3. TypeOK'
  BY <1>1, <1>2, Types, TypesSuffice, NoChanges
<1>4. SlotsAreFilled' /\ PendingIsTyped'
  BY <1>2, NoChanges DEF SaveInv, SlotsAreFilled, PendingIsTyped
<1>5. ~troubled' => ~troubled /\ pending' = pending
  BY <1>2
<1>6. SavesTakeTurns' /\ ReadsAreFresh' /\ SavesCarryTyped' /\ UnsavedIsOnItsWay'
  BY <1>2, <1>5 DEF SaveInv, SavesTakeTurns, ReadsAreFresh, SavesCarryTyped, UnsavedIsOnItsWay, Sent
<1> QED
  BY <1>3, <1>4, <1>6 DEF SaveInv

\* A new mount shows the row or the page that was kept, with nothing pending.
LEMMA OpenInv ==
  ASSUME SaveInv, Open
  PROVE  SaveInv'
<1>1. TypeOK'
  BY Types, TypesSuffice DEF SaveInv, Open, TypeOK
<1> QED
  BY <1>1 DEF Open, SaveInv, SlotsAreFilled, PendingIsTyped, SavesTakeTurns, ReadsAreFresh, SavesCarryTyped,
     UnsavedIsOnItsWay, Sent
-----------------------------------------------------------------------------
\* First statement of a PATCH: the row as it is now.
LEMMA ReadRowInv ==
  ASSUME SaveInv, NEW s \in Saves, ReadRow(s)
  PROVE  SaveInv'
<1>1. TypeOK
  BY DEF SaveInv
<1> DEFINE new == [[save[s] EXCEPT !.pc = "read"] EXCEPT !.read = row]
<1>2. save[s] \in SaveRecords /\ save[s].pc = "sent" /\ row \in Contents
  BY <1>1, Types DEF ReadRow
<1>3. save' = [save EXCEPT ![s] = new]
  BY <1>1, Types DEF ReadRow
<1>4. new \in SaveRecords /\ new.pc = "read" /\ new.read = row /\ new.patch = save[s].patch
  BY <1>2 DEF SaveRecords
<1> HIDE DEF new
<1>5. /\ save' \in [Saves -> SaveRecords] /\ save'[s] = new
      /\ \A t \in Saves : t # s => save'[t] = save[t]
  BY <1>1, <1>3, <1>4, Types
<1>6. UNCHANGED <<open, cart, keptPage, pending, timer, row, echo, typed, troubled>>
  BY DEF ReadRow
<1>7. TypeOK'
  BY <1>1, <1>5, <1>6, Types, TypesSuffice DEF TypeOK
<1>8. SlotsAreFilled' /\ PendingIsTyped'
  BY <1>2, <1>4, <1>5, <1>6 DEF SaveInv, SlotsAreFilled, PendingIsTyped
<1>9. SavesTakeTurns' /\ ReadsAreFresh'
  BY <1>2, <1>4, <1>5, <1>6 DEF SaveInv, SavesTakeTurns, ReadsAreFresh, Sent
<1>10. \A t \in Saves : save'[t].patch = save[t].patch
  BY <1>4, <1>5
<1>11. SavesCarryTyped' /\ UnsavedIsOnItsWay'
  BY <1>6, <1>10 DEF SaveInv, SavesCarryTyped, UnsavedIsOnItsWay
<1> QED
  BY <1>7, <1>8, <1>9, <1>11 DEF SaveInv

\* Second statement: a field of the patch gets its value, the others the one they have.
LEMMA WriteRowInv ==
  ASSUME SaveInv, NEW s \in Saves, WriteRow(s)
  PROVE  SaveInv'
<1>1. TypeOK
  BY DEF SaveInv
<1>2. save[s] \in SaveRecords /\ save[s].pc = "read" /\ save[s].read \in Contents
  BY <1>1, Types DEF WriteRow, SaveInv, SlotsAreFilled
<1>3. /\ row' \in Contents
      /\ \A f \in Fields : row'[f] = IF save[s].patch[f] = None THEN save[s].read[f] ELSE save[s].patch[f]
  BY <1>2 DEF WriteRow, Merge, SaveRecords, Contents, Changes
<1>4. /\ save' \in [Saves -> SaveRecords] /\ save'[s].pc = "idle" /\ save'[s].patch = NoChange
      /\ \A t \in Saves : t # s => save'[t] = save[t]
  BY <1>1, Types, NoChanges DEF WriteRow
<1>5. UNCHANGED <<open, cart, keptPage, pending, timer, echo, typed, troubled>>
  BY DEF WriteRow
<1>6. TypeOK'
  BY <1>1, <1>3, <1>4, <1>5, Types, TypesSuffice DEF TypeOK
<1>7. SlotsAreFilled' /\ PendingIsTyped'
  BY <1>4, <1>5 DEF SaveInv, SlotsAreFilled, PendingIsTyped
<1>8. ~troubled => \A t \in Saves : t # s => save[t].pc = "idle" /\ save[t].patch = NoChange
  BY <1>2 DEF SaveInv, SavesTakeTurns, SlotsAreFilled, Sent
<1>9. SavesTakeTurns' /\ ReadsAreFresh'
  BY <1>4, <1>5, <1>8 DEF SavesTakeTurns, ReadsAreFresh, Sent
<1>10. SavesCarryTyped'
  BY <1>4, <1>5, NoChanges DEF SaveInv, SavesCarryTyped
<1>11. UnsavedIsOnItsWay'
  <2> SUFFICES ASSUME ~troubled, NEW f \in Fields, row'[f] # typed[f]
               PROVE  pending[f] = typed[f]
    BY <1>5 DEF UnsavedIsOnItsWay
  <2>1. CASE save[s].patch[f] # None
    BY <1>3, <2>1 DEF SaveInv, SavesCarryTyped
  <2>2. CASE save[s].patch[f] = None
    <3>1. row[f] # typed[f] /\ typed[f] # None
      BY <1>1, <1>2, <1>3, <2>2, Types, ConstantsAssumption DEF SaveInv, ReadsAreFresh, Contents
    <3>2. \A t \in Saves : save[t].patch[f] = None
      BY <1>8, <2>2, NoChanges
    <3> QED
      BY <3>1, <3>2 DEF SaveInv, UnsavedIsOnItsWay
  <2> QED
    BY <2>1, <2>2
<1> QED
  BY <1>6, <1>7, <1>9, <1>10, <1>11 DEF SaveInv

\* A failed save is trouble.
LEMMA SaveFailsInv ==
  ASSUME SaveInv, NEW s \in Saves, SaveFails(s)
  PROVE  SaveInv'
<1>1. TypeOK
  BY DEF SaveInv
<1>2. /\ save' \in [Saves -> SaveRecords] /\ save'[s].pc = "idle" /\ save'[s].patch = NoChange
      /\ \A t \in Saves : t # s => save'[t] = save[t]
  BY <1>1, Types, NoChanges DEF SaveFails
<1>3. UNCHANGED <<open, cart, keptPage, pending, timer, row, echo, typed>> /\ troubled' = TRUE
  BY DEF SaveFails
<1>4. TypeOK'
  BY <1>1, <1>2, <1>3, Types, TypesSuffice DEF TypeOK
<1>5. SlotsAreFilled' /\ PendingIsTyped'
  BY <1>2, <1>3 DEF SaveInv, SlotsAreFilled, PendingIsTyped
<1> QED
  BY <1>3, <1>4, <1>5 DEF SaveInv, SavesTakeTurns, ReadsAreFresh, SavesCarryTyped, UnsavedIsOnItsWay
-----------------------------------------------------------------------------
\* Product calls change what the editor shows, and nothing of what is saved.
LEMMA EchoInv ==
  ASSUME SaveInv, NEW e \in Echoes,
         StartProductCall(e) \/ GetCartById(e) \/ SetCart(e) \/ ProductCallFails(e)
  PROVE  SaveInv'
<1>1. TypeOK
  BY DEF SaveInv
<1>2. echo[e] \in EchoRecords /\ row \in Contents
  BY <1>1, Types
<1>3. PICK new \in EchoRecords : /\ echo' = [echo EXCEPT ![e] = new]
                                 /\ new.pc = "answered" => new.cart \in Contents
  <2>1. CASE StartProductCall(e)
    <3>1. [echo[e] EXCEPT !.pc = "asked"] \in EchoRecords /\ [echo[e] EXCEPT !.pc = "asked"].pc = "asked"
      BY <1>2 DEF EchoRecords
    <3> QED
      BY <2>1, <3>1 DEF StartProductCall
  <2>2. CASE GetCartById(e)
    <3>1. [pc |-> "answered", cart |-> row] \in EchoRecords
      BY <1>2 DEF EchoRecords
    <3> QED
      BY <1>2, <2>2, <3>1 DEF GetCartById
  <2>3. CASE SetCart(e) \/ ProductCallFails(e)
    <3>1. NoEcho[e] \in EchoRecords /\ NoEcho[e].pc = "idle"
      BY NoChanges
    <3> QED
      BY <2>3, <3>1 DEF SetCart, ProductCallFails
  <2> QED
    BY <2>1, <2>2, <2>3
<1>4. /\ echo' \in [Echoes -> EchoRecords]
      /\ \A d \in Echoes : echo'[d].pc = "answered" => echo'[d].cart \in Contents
  BY <1>1, <1>3, Types DEF SaveInv, SlotsAreFilled
<1>5. UNCHANGED <<open, keptPage, pending, timer, row, save, typed, troubled>>
  BY DEF StartProductCall, GetCartById, SetCart, ProductCallFails
<1>6. cart' \in Contents
  BY <1>1, Types DEF StartProductCall, GetCartById, SetCart, ProductCallFails, SaveInv, SlotsAreFilled
<1>7. TypeOK'
  BY <1>1, <1>4, <1>5, <1>6, Types, TypesSuffice DEF TypeOK
<1> QED
  BY <1>4, <1>5, <1>7 DEF SaveInv, SlotsAreFilled, PendingIsTyped, SavesTakeTurns, ReadsAreFresh,
     SavesCarryTyped, UnsavedIsOnItsWay, Sent
-----------------------------------------------------------------------------
\* The invariant holds in every reachable state of the editor.
THEOREM SaveInvariant == Spec => []SaveInv
<1>1. ASSUME SaveInv, [Next]_vars PROVE SaveInv'
  <2>1. CASE UNCHANGED vars
    BY <1>1, <2>1 DEF vars, SaveInv, TypeOK, SlotsAreFilled, PendingIsTyped, SavesTakeTurns, ReadsAreFresh,
       SavesCarryTyped, UnsavedIsOnItsWay, Sent
  <2>2. ASSUME NEW f \in Fields, NEW v \in Values, Edit(f, v) PROVE SaveInv'
    BY <1>1, <2>2, EditInv
  <2>3. CASE TimerFires
    BY <1>1, <2>3, FlushInv DEF TimerFires, SaveInv, TypeOK
  <2>4. CASE Leave
    BY <1>1, <2>4, FlushInv DEF Leave
  <2>5. CASE CloseTab \/ Open
    BY <1>1, <2>5, CloseTabInv, OpenInv
  <2>6. ASSUME NEW s \in Saves, ReadRow(s) \/ WriteRow(s) \/ SaveFails(s) PROVE SaveInv'
    BY <1>1, <2>6, ReadRowInv, WriteRowInv, SaveFailsInv
  <2>7. ASSUME NEW e \in Echoes, StartProductCall(e) \/ GetCartById(e) \/ SetCart(e) \/ ProductCallFails(e)
        PROVE  SaveInv'
    BY <1>1, <2>7, EchoInv
  <2> QED
    BY <1>1, <2>1, <2>2, <2>3, <2>4, <2>5, <2>6, <2>7 DEF Next
<1> QED
  BY <1>1, SaveInvInitially, PTL DEF Spec

\* The state of the editor always has its type; in particular there is a timer or nothing
\* pending, and an editor that is closed has neither (patch and flushSave of editor.tsx).
THEOREM TypeCorrect == Spec => []TypeOK
<1>1. SaveInv => TypeOK
  BY DEF SaveInv
<1> QED
  BY <1>1, SaveInvariant, PTL

\* What the user typed is in the row, pending, or on its way to it (flushSave, the
\* effect's cleanup and updateCart), as long as no save failed or overlapped another and
\* no tab was closed on it.
THEOREM EditsAreOnTheirWay == Spec => []UnsavedIsOnItsWay
<1>1. SaveInv => UnsavedIsOnItsWay
  BY DEF SaveInv
<1> QED
  BY <1>1, SaveInvariant, PTL
=============================================================================
