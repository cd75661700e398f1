--------------------------- MODULE Account_proofs ---------------------------
(***************************************************************************)
(* Proofs about signing in from several tabs (module SignIn), the          *)
(* navigation of one tab (module Chrome), and the forms a creator and a    *)
(* visitor send: the share form (module AddForm) and the feedback form     *)
(* (module Feedback); for any tabs, accounts, shares, carts, share texts   *)
(* and messages, and any bounds.                                           *)
(***************************************************************************)
EXTENDS SignIn, Chrome, AddForm, Feedback, FiniteSetTheorems, SequenceTheorems, TLAPS

-----------------------------------------------------------------------------
(* Signing in                                                              *)

Tabs ==
  [pc : {"login", "google", "callback", "upserted", "in", "refused"}, state : Nat, asks : Nexts,
   seen : Nexts, who : Members \cup {Nobody}]

SignInTypes ==
  /\ sessionOf \in Members \cup {Nobody}
  /\ temp \in [state : Nat, next : Nexts]
  /\ visit \in [Windows -> Tabs]
  /\ handles \in [Members -> {"no row", "plain", "suffixed"}]
  /\ starts \in 0 .. MaxStarts /\ crossed \in 0 .. starts /\ bumps \in 0 .. MaxMishaps
  /\ asked \in [Shares -> 0 .. starts] /\ landed \in [Shares -> Nat]

\* The cookie has the state of the newest start, and no two tabs have the same.
StatesAreStarts ==
  /\ temp.state \in {0, starts}
  /\ \A w \in Windows : visit[w].state <= starts /\ (visit[w].pc # "login" => visit[w].state # 0)
  /\ \A v, w \in Windows : visit[v].state = visit[w].state /\ visit[v].state # 0 => v = w

\* Who has a session, or is about to get one, has a row.
AccountsHaveRows ==
  /\ sessionOf # Nobody => handles[sessionOf] # "no row"
  /\ \A w \in Windows : Underway(w) =>
       visit[w].who \in Members /\ (visit[w].pc = "upserted" => handles[visit[w].who] # "no row")

Newest(w) == visit[w].state = starts

\* While the callback of the newest start is being answered, oauth_next is still what it saw.
NewestHasNext == \A w \in Windows : Underway(w) /\ Newest(w) => temp.next \in {visit[w].seen, NoNext}

\* Without mishaps and crossing starts only the newest start is ever answered, with the
\* cookies it has set itself.
NewestWillDo ==
  crossed = 0 /\ bumps = 0 => \A w \in Windows :
    /\ Underway(w) => Newest(w)
    /\ visit[w].pc = "google" /\ Newest(w) =>
         temp.state = starts /\ (visit[w].asks # NoNext => temp.next = visit[w].asks)
    /\ Underway(w) \/ visit[w].pc = "in" => visit[w].asks \in {NoNext, visit[w].seen}

One(b) == IF b THEN 1 ELSE 0

\* The callbacks that come back to a share; whether the cookie waits to send another one
\* there; and whether a callback is still to come that will be accepted.
Seeing(s) == {w \in Windows : Underway(w) /\ visit[w].seen = s}
Waiting(s) == temp.next = s /\ ~\E w \in Windows : Underway(w) /\ Newest(w)
ToCome == \E w \in Windows : visit[w].pc = "google" /\ Newest(w)

LandingsAreAsked ==
  \A s \in Shares :
    /\ landed[s] + Cardinality(Seeing(s)) + One(Waiting(s)) <= asked[s] + crossed
    /\ landed[s] + Cardinality(Seeing(s)) + One(ToCome) <= starts

SignInInv ==
  SignInTypes /\ StatesAreStarts /\ AccountsHaveRows /\ NewestHasNext /\ NewestWillDo /\ LandingsAreAsked

\* There are finitely many tabs, so the callbacks that come back to a share can be counted.
LEMMA SeeingIsFinite ==
  ASSUME NEW s
  PROVE  IsFiniteSet(Seeing(s)) /\ Cardinality(Seeing(s)) \in Nat
BY SignInAssumption, FS_Subset, FS_CardinalityType DEF Seeing

\* One tab changes: whether it comes back to s before and after is all that counts.
LEMMA TabChanges ==
  ASSUME SignInTypes, NEW w \in Windows, NEW t \in Tabs, visit' = [visit EXCEPT ![w] = t], NEW s
  PROVE  /\ visit' \in [Windows -> Tabs]
         /\ visit'[w] = t /\ \A v \in Windows \ {w} : visit'[v] = visit[v]
         /\ Cardinality(Seeing(s)') =
              Cardinality(Seeing(s)) - One(Underway(w) /\ visit[w].seen = s)
                + One(t.pc \in {"callback", "upserted"} /\ t.seen = s)
<1>1. /\ visit' \in [Windows -> Tabs]
      /\ visit'[w] = t /\ \A v \in Windows \ {w} : visit'[v] = visit[v]
  BY DEF SignInTypes
<1> DEFINE rest == Seeing(s) \ {w}
           then == t.pc \in {"callback", "upserted"} /\ t.seen = s
<1>2. Seeing(s)' = {v \in Windows : visit'[v].pc \in {"callback", "upserted"} /\ visit'[v].seen = s}
  BY DEF Seeing, Underway
<1>3. Seeing(s) = {v \in Windows : visit[v].pc \in {"callback", "upserted"} /\ visit[v].seen = s}
  BY DEF Seeing, Underway
<1>4. IsFiniteSet(rest) /\ Cardinality(rest) \in Nat /\ w \notin rest
  BY SeeingIsFinite, FS_Subset, FS_CardinalityType
<1>5. Cardinality(rest \cup {w}) = Cardinality(rest) + 1
  BY <1>4, FS_AddElement
<1>6. Cardinality(Seeing(s)) = Cardinality(rest) + One(Underway(w) /\ visit[w].seen = s)
  <2>1. CASE w \in Seeing(s)
    <3>1. Seeing(s) = rest \cup {w} /\ Underway(w) /\ visit[w].seen = s
      BY <2>1 DEF Seeing
    <3> QED
      BY <3>1, <1>5 DEF One
  <2>2. CASE w \notin Seeing(s)
    <3>1. Seeing(s) = rest /\ ~(Underway(w) /\ visit[w].seen = s)
      BY <2>2 DEF Seeing
    <3> QED
      BY <3>1, <1>4 DEF One
  <2> QED
    BY <2>1, <2>2
<1>7. Cardinality(Seeing(s)') = Cardinality(rest) + One(then)
  <2>1. CASE then
    <3>1. Seeing(s)' = rest \cup {w}
      BY <2>1, <1>1, <1>2, <1>3
    <3> QED
      BY <3>1, <2>1, <1>5 DEF One
  <2>2. CASE ~then
    <3>1. Seeing(s)' = rest
      BY <2>2, <1>1, <1>2, <1>3
    <3> QED
      BY <3>1, <2>2, <1>4 DEF One
  <2> QED
    BY <2>1, <2>2
<1>8. One(Underway(w) /\ visit[w].seen = s) \in Nat /\ One(then) \in Nat
  BY DEF One
<1> HIDE DEF rest, then
<1>9. Cardinality(Seeing(s)') = Cardinality(Seeing(s)) - One(Underway(w) /\ visit[w].seen = s) + One(then)
  BY <1>4, <1>6, <1>7, <1>8
<1> QED
  BY <1>1, <1>9 DEF then

\* No tab, no cookie and no account yet.
LEMMA SignInInvInitially == SignInInit => SignInInv
<1> SUFFICES ASSUME SignInInit PROVE SignInInv
  OBVIOUS
<1>1. AtLogin \in Tabs /\ AtLogin.pc = "login" /\ AtLogin.state = 0
  BY SignInAssumption DEF AtLogin, Tabs, Nexts
<1>2. visit \in [Windows -> Tabs] /\ \A w \in Windows : visit[w] = AtLogin
  BY <1>1 DEF SignInInit
<1>3. \A w \in Windows : ~Underway(w) /\ visit[w].pc = "login" /\ visit[w].state = 0
  BY <1>1, <1>2 DEF Underway
<1>4. SignInTypes
  <2>1. MaxStarts \in Nat /\ MaxMishaps \in Nat
    BY SignInAssumption
  <2>2. sessionOf = Nobody /\ starts = 0 /\ crossed = 0 /\ bumps = 0
    BY DEF SignInInit
  <2>3. temp \in [state : Nat, next : Nexts]
    <3>1. temp = [state |-> 0, next |-> NoNext]
      BY DEF SignInInit
    <3>2. NoNext \in Nexts /\ 0 \in Nat
      BY DEF Nexts
    <3> QED
      BY <3>1, <3>2
  <2>4. 0 \in 0 .. 0 /\ 0 \in 0 .. MaxStarts /\ 0 \in 0 .. MaxMishaps
    BY <2>1
  <2>5. asked \in [Shares -> 0 .. starts] /\ landed \in [Shares -> Nat]
    <3>1. asked = [s \in Shares |-> 0] /\ landed = [s \in Shares |-> 0]
      BY DEF SignInInit
    <3> QED
      BY <3>1, <2>2, <2>4
  <2>6. handles \in [Members -> {"no row", "plain", "suffixed"}]
    BY DEF SignInInit
  <2>7. sessionOf \in Members \cup {Nobody}
        /\ starts \in 0 .. MaxStarts /\ crossed \in 0 .. starts /\ bumps \in 0 .. MaxMishaps
    BY <2>2, <2>4
  <2> QED
    BY <1>2, <2>3, <2>5, <2>6, <2>7 DEF SignInTypes
<1>5. \A s : Seeing(s) = {} /\ Cardinality(Seeing(s)) = 0
  BY <1>3, FS_EmptySet DEF Seeing
<1>6. LandingsAreAsked
  <2> SUFFICES ASSUME NEW s \in Shares
               PROVE  /\ landed[s] + Cardinality(Seeing(s)) + One(Waiting(s)) <= asked[s] + crossed
                      /\ landed[s] + Cardinality(Seeing(s)) + One(ToCome) <= starts
    BY DEF LandingsAreAsked
  <2>1. One(Waiting(s)) = 0 /\ One(ToCome) = 0
    BY <1>3, SignInAssumption DEF SignInInit, Waiting, ToCome, One
  <2>2. landed[s] = 0 /\ asked[s] = 0 /\ starts = 0 /\ crossed = 0 /\ Cardinality(Seeing(s)) = 0
    BY <1>5 DEF SignInInit
  <2> QED
    BY <2>1, <2>2
<1>7. temp.state = 0 /\ starts = 0 /\ sessionOf = Nobody
  BY DEF SignInInit
<1>8. StatesAreStarts
  BY <1>3, <1>7 DEF StatesAreStarts
<1>9. AccountsHaveRows /\ NewestHasNext /\ NewestWillDo
  BY <1>3, <1>7 DEF AccountsHaveRows, NewestHasNext, NewestWillDo
<1> QED
  BY <1>4, <1>6, <1>8, <1>9 DEF SignInInv

\* What the invariant says of numbers.
LEMMA SignInNumbers ==
  ASSUME SignInTypes
  PROVE  /\ starts \in Nat /\ crossed \in Nat /\ bumps \in Nat /\ MaxStarts \in Nat /\ MaxMishaps \in Nat
         /\ starts <= MaxStarts /\ crossed <= starts /\ bumps <= MaxMishaps
         /\ \A s \in Shares : asked[s] \in Nat /\ asked[s] <= starts /\ landed[s] \in Nat
         /\ \A w \in Windows : visit[w] \in Tabs /\ visit[w].state \in Nat
<1>1. /\ starts \in Nat /\ crossed \in Nat /\ bumps \in Nat /\ MaxStarts \in Nat /\ MaxMishaps \in Nat
      /\ starts <= MaxStarts /\ crossed <= starts /\ bumps <= MaxMishaps
  <2>1. starts \in 0 .. MaxStarts /\ crossed \in 0 .. starts /\ bumps \in 0 .. MaxMishaps
    BY DEF SignInTypes
  <2>2. MaxStarts \in Nat /\ MaxMishaps \in Nat
    BY SignInAssumption
  <2> QED
    BY <2>1, <2>2
<1>2. \A s \in Shares : asked[s] \in 0 .. starts /\ landed[s] \in Nat
  BY DEF SignInTypes
<1>3. \A s \in Shares : asked[s] \in Nat /\ asked[s] <= starts
  BY <1>1, <1>2
<1>4. \A w \in Windows : visit[w] \in Tabs /\ visit[w].state \in Nat
  BY DEF SignInTypes, Tabs
<1> QED
  BY <1>1, <1>2, <1>3, <1>4

\* A start replaces both cookies, or oauth_state alone, for every tab.
LEMMA HandleGoogleStartInv ==
  ASSUME SignInInv, NEW w \in Windows, NEW next \in Nexts, ~Underway(w), HandleGoogleStart(w, next),
         UNCHANGED <<sessionOf, handles, landed>>, bumps' \in bumps .. MaxMishaps
  PROVE  SignInInv'
<1> USE DEF SignInInv
<1> DEFINE t == [pc |-> "google", state |-> starts + 1, asks |-> next, seen |-> NoNext, who |-> Nobody]
           busy == \E v \in Windows : Underway(v)
<1>1. /\ starts \in Nat /\ crossed \in Nat /\ bumps \in Nat /\ MaxStarts \in Nat /\ MaxMishaps \in Nat
      /\ crossed <= starts
  BY SignInNumbers
<1>2. /\ starts' = starts + 1 /\ starts + 1 <= MaxStarts
      /\ temp' = [state |-> starts + 1, next |-> IF next = NoNext THEN temp.next ELSE next]
      /\ crossed' = crossed + IF busy THEN 1 ELSE 0
      /\ asked' = IF next = NoNext THEN asked ELSE [asked EXCEPT ![next] = @ + 1]
  BY <1>1 DEF HandleGoogleStart
<1>3. t \in Tabs /\ t.pc = "google" /\ t.state = starts + 1 /\ t.asks = next
  BY <1>1 DEF Tabs, Nexts
<1>4. visit' = [visit EXCEPT ![w] = t]
  BY <1>2 DEF HandleGoogleStart
<1> HIDE DEF t, busy
<1>5. /\ visit' \in [Windows -> Tabs]
      /\ visit'[w] = t /\ \A v \in Windows \ {w} : visit'[v] = visit[v]
  BY <1>3, <1>4, TabChanges
<1>6. temp.next \in Nexts /\ temp'.state = starts + 1
      /\ temp'.next = (IF next = NoNext THEN temp.next ELSE next) /\ temp' \in [state : Nat, next : Nexts]
  <2> DEFINE then == IF next = NoNext THEN temp.next ELSE next
  <2>1. temp.next \in Nexts
    BY DEF SignInTypes
  <2>2. then \in Nexts
    BY <2>1
  <2>3. temp' = [state |-> starts + 1, next |-> then]
    BY <1>2
  <2> HIDE DEF then
  <2>4. temp'.state = starts + 1 /\ temp'.next = then /\ temp' \in [state : Nat, next : Nexts]
    BY <1>1, <2>2, <2>3
  <2> QED
    BY <2>1, <2>4 DEF then
<1>7. crossed' \in 0 .. starts' /\ crossed' >= crossed /\ (crossed' = 0 => crossed = 0 /\ ~busy)
      /\ (busy => crossed' = crossed + 1)
  BY <1>1, <1>2
<1>8. \A s \in Shares : /\ asked'[s] = asked[s] + One(next = s)
                        /\ asked'[s] \in 0 .. starts'
  <2> SUFFICES ASSUME NEW s \in Shares
               PROVE  asked'[s] = asked[s] + One(next = s) /\ asked'[s] \in 0 .. starts'
    OBVIOUS
  <2>1. asked[s] \in Nat /\ asked[s] <= starts /\ s # NoNext
    BY SignInNumbers, SignInAssumption
  <2>2. asked'[s] = asked[s] + One(next = s)
    <3>1. asked \in [Shares -> 0 .. starts]
      BY DEF SignInTypes
    <3>2. CASE next = NoNext
      BY <3>2, <1>2, <2>1 DEF One
    <3>3. CASE next # NoNext
      BY <3>1, <3>3, <1>2, <2>1 DEF One
    <3> QED
      BY <3>2, <3>3
  <2> QED
    BY <1>1, <1>2, <2>1, <2>2 DEF One
<1>9. SignInTypes'
  <2>1. asked' \in [Shares -> 0 .. starts']
    <3>1. DOMAIN asked' = Shares /\ asked' = [s \in Shares |-> asked'[s]]
      BY <1>2 DEF SignInTypes
    <3> QED
      BY <1>8, <3>1
  <2>2. starts' \in 0 .. MaxStarts /\ bumps' \in 0 .. MaxMishaps
    BY <1>1, <1>2
  <2>3. /\ sessionOf' \in Members \cup {Nobody}
        /\ handles' \in [Members -> {"no row", "plain", "suffixed"}]
        /\ landed' \in [Shares -> Nat]
    BY DEF SignInTypes
  <2> QED
    BY <1>5, <1>6, <1>7, <2>1, <2>2, <2>3 DEF SignInTypes
<1>10. \A v \in Windows : Underway(v)' <=> Underway(v) /\ v # w
  BY <1>3, <1>5 DEF Underway
<1>11. \A v \in Windows : visit[v].state <= starts /\ visit[v].state \in Nat
  BY SignInNumbers DEF StatesAreStarts
<1>12. \A v \in Windows : visit'[v].state = starts + 1 <=> v = w
  BY <1>1, <1>3, <1>5, <1>11
<1>13. \A v \in Windows : Newest(v)' <=> v = w
  BY <1>2, <1>12 DEF Newest
<1>14. StatesAreStarts'
  <2>1. temp'.state \in {0, starts'}
    BY <1>2, <1>6
  <2>2. \A v \in Windows : visit'[v].state <= starts' /\ (visit'[v].pc # "login" => visit'[v].state # 0)
    BY <1>1, <1>2, <1>3, <1>5, <1>11 DEF StatesAreStarts
  <2>3. \A v, u \in Windows : visit'[v].state = visit'[u].state /\ visit'[v].state # 0 => v = u
    BY <1>5, <1>12, <1>3 DEF StatesAreStarts
  <2> QED
    BY <2>1, <2>2, <2>3 DEF StatesAreStarts
<1>15. AccountsHaveRows'
  BY <1>5, <1>10 DEF AccountsHaveRows
<1>16. NewestHasNext'
  BY <1>10, <1>13 DEF NewestHasNext
<1>17. NewestWillDo'
  <2> SUFFICES ASSUME crossed' = 0 /\ bumps' = 0, NEW v \in Windows
               PROVE  /\ Underway(v)' => Newest(v)'
                      /\ visit'[v].pc = "google" /\ Newest(v)' =>
                           temp'.state = starts' /\ (visit'[v].asks # NoNext => temp'.next = visit'[v].asks)
                      /\ Underway(v)' \/ visit'[v].pc = "in" => visit'[v].asks \in {NoNext, visit'[v].seen}
    BY DEF NewestWillDo
  <2>1. crossed = 0 /\ bumps = 0 /\ ~busy
    BY <1>1, <1>7
  <2>2. ~Underway(v)'
    BY <2>1, <1>10 DEF busy
  <2>3. CASE v = w
    BY <2>2, <2>3, <1>2, <1>3, <1>5, <1>6
  <2>4. CASE v # w
    BY <2>1, <2>2, <2>4, <1>5, <1>13 DEF NewestWillDo
  <2> QED
    BY <2>3, <2>4
<1>18. LandingsAreAsked'
  <2> SUFFICES ASSUME NEW s \in Shares
               PROVE  /\ landed'[s] + Cardinality(Seeing(s)') + One(Waiting(s)') <= asked'[s] + crossed'
                      /\ landed'[s] + Cardinality(Seeing(s)') + One(ToCome') <= starts'
    BY DEF LandingsAreAsked
  <2>1. Cardinality(Seeing(s)') = Cardinality(Seeing(s)) - One(Underway(w) /\ visit[w].seen = s)
          + One(t.pc \in {"callback", "upserted"} /\ t.seen = s)
    BY <1>3, <1>4, TabChanges
  <2>2. Cardinality(Seeing(s)) \in Nat /\ Cardinality(Seeing(s)') = Cardinality(Seeing(s))
    BY <2>1, <1>3, SeeingIsFinite DEF One
  <2>3. Waiting(s)' <=> temp'.next = s
    BY <1>10, <1>13 DEF Waiting
  <2>4. landed'[s] = landed[s] /\ landed[s] \in Nat /\ asked[s] \in Nat
    BY SignInNumbers
  <2>5. /\ landed[s] + Cardinality(Seeing(s)) + One(Waiting(s)) <= asked[s] + crossed
        /\ landed[s] + Cardinality(Seeing(s)) + One(ToCome) <= starts
    BY DEF LandingsAreAsked
  <2>6. One(Waiting(s)) \in {0, 1} /\ One(ToCome) \in {0, 1} /\ One(Waiting(s)') \in {0, 1} /\ One(ToCome') \in {0, 1}
    BY DEF One
  <2>7. One(Waiting(s)') <= One(next = s) + (crossed' - crossed) + One(Waiting(s))
    <3>1. One(next = s) \in {0, 1} /\ (next = s => One(next = s) = 1)
      BY DEF One
    <3>2. CASE ~(temp'.next = s)
      <4>1. One(Waiting(s)') = 0
        BY <3>2, <2>3 DEF One
      <4> QED
        BY <3>1, <4>1, <2>6, <1>1, <1>7
    <3>3. CASE next = s
      BY <3>1, <3>3, <2>6, <1>1, <1>7
    <3>4. CASE temp'.next = s /\ next # s /\ busy
      BY <3>1, <3>4, <2>6, <1>1, <1>7
    <3>5. CASE temp'.next = s /\ next # s /\ ~busy
      <4>1. next = NoNext /\ temp.next = s
        BY <3>5, <1>6
      <4>2. Waiting(s)
        BY <3>5, <4>1 DEF Waiting, busy
      <4>3. One(Waiting(s)) = 1
        BY <4>2 DEF One
      <4> QED
        BY <3>1, <4>3, <2>6, <1>1, <1>7
    <3> QED
      BY <3>2, <3>3, <3>4, <3>5
  <2>8. One(next = s) \in {0, 1} /\ asked'[s] = asked[s] + One(next = s)
    BY <1>8 DEF One
  <2>9. landed'[s] + Cardinality(Seeing(s)') + One(Waiting(s)') <= asked'[s] + crossed'
    BY <1>1, <1>7, <2>2, <2>4, <2>5, <2>6, <2>7, <2>8
  <2>10. landed'[s] + Cardinality(Seeing(s)') + One(ToCome') <= starts'
    BY <1>1, <1>2, <2>2, <2>4, <2>5, <2>6
  <2> QED
    BY <2>9, <2>10
<1> QED
  BY <1>9, <1>14, <1>15, <1>16, <1>17, <1>18

\* A tab goes away from what it was doing, and the answer, if there was one, has taken no
\* more than the state.
LEMMA TabLeavesInv ==
  ASSUME SignInInv, NEW w \in Windows, NEW t \in Tabs,
         t.pc \in {"login", "refused"}, t.state \in {0, visit[w].state},
         t.pc = "refused" => visit[w].pc # "login",
         visit' = [visit EXCEPT ![w] = t],
         \/ UNCHANGED <<temp, bumps>>
         \/ temp' \in {temp, [temp EXCEPT !.state = 0]} /\ bumps' = bumps + 1 /\ bumps < MaxMishaps,
         t.pc = "refused" => t.state # 0,
         UNCHANGED <<sessionOf, handles, starts, asked, landed, crossed>>
  PROVE  SignInInv'
<1> USE DEF SignInInv
<1>1. /\ starts \in Nat /\ crossed \in Nat /\ bumps \in Nat /\ MaxStarts \in Nat /\ MaxMishaps \in Nat
      /\ bumps <= MaxMishaps
  BY SignInNumbers
<1>2. /\ visit' \in [Windows -> Tabs]
      /\ visit'[w] = t /\ \A v \in Windows \ {w} : visit'[v] = visit[v]
  BY TabChanges
<1>3. /\ temp' \in [state : Nat, next : Nexts] /\ temp'.next = temp.next /\ temp'.state \in {0, temp.state}
      /\ bumps' \in 0 .. MaxMishaps /\ (bumps' = 0 => bumps = 0 /\ temp' = temp)
  <2>1. temp \in [state : Nat, next : Nexts]
    BY DEF SignInTypes
  <2>2. [temp EXCEPT !.state = 0] \in [state : Nat, next : Nexts]
        /\ [temp EXCEPT !.state = 0].next = temp.next /\ [temp EXCEPT !.state = 0].state = 0
    BY <2>1
  <2>3. temp' \in {temp, [temp EXCEPT !.state = 0]}
    OBVIOUS
  <2>4. temp' \in [state : Nat, next : Nexts] /\ temp'.next = temp.next /\ temp'.state \in {0, temp.state}
    BY <2>1, <2>2, <2>3
  <2>5. bumps' \in 0 .. MaxMishaps /\ (bumps' = 0 => bumps = 0 /\ temp' = temp)
    BY <1>1
  <2> QED
    BY <2>4, <2>5
<1>4. SignInTypes'
  BY <1>2, <1>3 DEF SignInTypes
<1>5. \A v \in Windows : Underway(v)' <=> Underway(v) /\ v # w
  BY <1>2 DEF Underway
<1>6. \A v \in Windows \ {w} : Newest(v)' <=> Newest(v)
  BY <1>2 DEF Newest
<1>7. StatesAreStarts'
  <2>1. temp'.state \in {0, starts}
    BY <1>3 DEF StatesAreStarts
  <2>2. \A v \in Windows : visit'[v].state \in {0, visit[v].state}
    BY <1>2
  <2>3. \A v \in Windows : visit'[v].state <= starts' /\ (visit'[v].pc # "login" => visit'[v].state # 0)
    BY <1>1, <1>2, <2>2 DEF StatesAreStarts
  <2>4. \A v, u \in Windows : visit'[v].state = visit'[u].state /\ visit'[v].state # 0 => v = u
    BY <2>2 DEF StatesAreStarts
  <2> QED
    BY <2>1, <2>3, <2>4 DEF StatesAreStarts
<1>8. AccountsHaveRows'
  BY <1>2, <1>5 DEF AccountsHaveRows
<1>9. NewestHasNext'
  BY <1>2, <1>3, <1>5, <1>6 DEF NewestHasNext
<1>10. NewestWillDo'
  <2> SUFFICES ASSUME crossed' = 0 /\ bumps' = 0, NEW v \in Windows
               PROVE  /\ Underway(v)' => Newest(v)'
                      /\ visit'[v].pc = "google" /\ Newest(v)' =>
                           temp'.state = starts' /\ (visit'[v].asks # NoNext => temp'.next = visit'[v].asks)
                      /\ Underway(v)' \/ visit'[v].pc = "in" => visit'[v].asks \in {NoNext, visit'[v].seen}
    BY DEF NewestWillDo
  <2>1. crossed = 0 /\ bumps = 0 /\ temp' = temp
    BY <1>3
  <2>2. CASE v = w
    BY <2>2, <1>2, <1>5
  <2>3. CASE v # w
    BY <2>1, <2>3, <1>2, <1>5, <1>6 DEF NewestWillDo
  <2> QED
    BY <2>2, <2>3
<1>11. LandingsAreAsked'
  <2> SUFFICES ASSUME NEW s \in Shares
               PROVE  /\ landed'[s] + Cardinality(Seeing(s)') + One(Waiting(s)') <= asked'[s] + crossed'
                      /\ landed'[s] + Cardinality(Seeing(s)') + One(ToCome') <= starts'
    BY DEF LandingsAreAsked
  <2> DEFINE left == Underway(w) /\ visit[w].seen = s
  <2>1. Cardinality(Seeing(s)') = Cardinality(Seeing(s)) - One(left)
          + One(t.pc \in {"callback", "upserted"} /\ t.seen = s)
    BY TabChanges
  <2>2. One(t.pc \in {"callback", "upserted"} /\ t.seen = s) = 0
    BY DEF One
  <2>3. Cardinality(Seeing(s)) \in Nat /\ landed[s] \in Nat /\ asked[s] \in Nat
    BY SignInNumbers, SeeingIsFinite
  <2>4. /\ landed[s] + Cardinality(Seeing(s)) + One(Waiting(s)) <= asked[s] + crossed
        /\ landed[s] + Cardinality(Seeing(s)) + One(ToCome) <= starts
    BY DEF LandingsAreAsked
  <2>5. /\ One(Waiting(s)) \in {0, 1} /\ One(ToCome) \in {0, 1} /\ One(left) \in {0, 1}
        /\ One(Waiting(s)') \in {0, 1} /\ One(ToCome') \in {0, 1}
    BY DEF One
  <2>6. One(ToCome') <= One(ToCome)
    <3>1. ToCome' => ToCome
      BY <1>2, <1>6 DEF ToCome
    <3> QED
      BY <3>1 DEF One
  <2>7. One(Waiting(s)') <= One(Waiting(s)) + One(left)
    <3>1. ASSUME Waiting(s)', ~Waiting(s) PROVE left
      <4>1. temp.next = s
        BY <3>1, <1>3 DEF Waiting
      <4>2. PICK v \in Windows : Underway(v) /\ Newest(v)
        BY <3>1, <4>1 DEF Waiting
      <4>3. v = w
        BY <3>1, <4>2, <1>5, <1>6 DEF Waiting
      <4>4. s # NoNext
        BY SignInAssumption
      <4> QED
        BY <4>1, <4>2, <4>3, <4>4 DEF NewestHasNext
    <3>2. CASE ~Waiting(s)'
      BY <3>2, <2>5 DEF One
    <3>3. CASE Waiting(s)
      BY <3>3, <2>5 DEF One
    <3>4. CASE left
      BY <3>4, <2>5 DEF One
    <3> QED
      BY <3>1, <3>2, <3>3, <3>4
  <2> HIDE DEF left
  <2> QED
    BY <1>1, <2>1, <2>2, <2>3, <2>4, <2>5, <2>6, <2>7
<1> QED
  BY <1>4, <1>7, <1>8, <1>9, <1>10, <1>11

\* CallbackFails, CallbackLost, and a callback that is refused
LEMMA LeavingInv ==
  ASSUME SignInInv, NEW w \in Windows, NEW a \in Members,
         CallbackFails(w) \/ CallbackLost(w)
           \/ (CallbackArrives(w, a) /\ visit[w].state # temp.state)
  PROVE  SignInInv'
<1>1. visit[w] \in Tabs /\ visit \in [Windows -> Tabs]
  BY DEF SignInInv, SignInTypes
<1> DEFINE refused == [visit[w] EXCEPT !.pc = "refused"]
<1>2. refused \in Tabs /\ refused.pc = "refused" /\ refused.state = visit[w].state
  BY <1>1 DEF Tabs
<1>3. visit[w].pc # "login" => visit[w].state # 0
  BY DEF SignInInv, StatesAreStarts
<1>4. [visit EXCEPT ![w].pc = "refused"] = [visit EXCEPT ![w] = refused]
  BY <1>1
<1> HIDE DEF refused
<1>5. CASE CallbackFails(w)
  BY <1>2, <1>3, <1>4, <1>5, TabLeavesInv DEF CallbackFails, Bump
<1>6. CASE CallbackLost(w)
  BY <1>2, <1>3, <1>4, <1>6, TabLeavesInv DEF CallbackLost, Bump, Underway
<1>7. CASE CallbackArrives(w, a) /\ visit[w].state # temp.state
  BY <1>2, <1>3, <1>4, <1>7, TabLeavesInv DEF CallbackArrives
<1> QED
  BY <1>5, <1>6, <1>7

\* A callback is accepted: its tab has the newest state, and no other tab has.
LEMMA CallbackArrivesInv ==
  ASSUME SignInInv, NEW w \in Windows, NEW a \in Members, CallbackArrives(w, a),
         visit[w].state = temp.state
  PROVE  SignInInv'
<1> USE DEF SignInInv
<1> DEFINE t == [visit[w] EXCEPT !.pc = "callback", !.seen = temp.next, !.who = a]
<1>1. visit[w] \in Tabs /\ visit \in [Windows -> Tabs] /\ temp.next \in Nexts /\ visit[w].pc = "google"
  BY DEF SignInTypes, CallbackArrives
<1>2. /\ t \in Tabs /\ t.pc = "callback" /\ t.state = visit[w].state /\ t.asks = visit[w].asks
      /\ t.seen = temp.next /\ t.who = a
  BY <1>1 DEF Tabs
<1>3. visit' = [visit EXCEPT ![w] = t]
  <2>1. visit' = [visit EXCEPT ![w].pc = "callback", ![w].seen = temp.next, ![w].who = a]
    BY DEF CallbackArrives
  <2> QED
    BY <1>1, <2>1
<1>4. UNCHANGED <<sessionOf, temp, handles, starts, asked, landed, crossed, bumps>>
  BY DEF CallbackArrives
<1> HIDE DEF t
<1>5. /\ visit' \in [Windows -> Tabs]
      /\ visit'[w] = t /\ \A v \in Windows \ {w} : visit'[v] = visit[v]
  BY <1>2, <1>3, TabChanges
<1>6. Newest(w) /\ visit[w].state # 0 /\ temp.state = starts
  BY <1>1 DEF StatesAreStarts, Newest
<1>7. \A v \in Windows : Newest(v) <=> v = w
  BY <1>6 DEF StatesAreStarts, Newest
<1>8. \A v \in Windows : visit'[v].state = visit[v].state /\ visit'[v].asks = visit[v].asks
                           /\ (Newest(v)' <=> v = w)
  BY <1>2, <1>4, <1>5, <1>7 DEF Newest
<1>9. \A v \in Windows : Underway(v)' <=> Underway(v) \/ v = w
  BY <1>2, <1>5 DEF Underway
<1>10. SignInTypes'
  BY <1>4, <1>5 DEF SignInTypes
<1>11. StatesAreStarts'
  <2>1. \A v \in Windows : visit'[v].state <= starts' /\ (visit'[v].pc # "login" => visit'[v].state # 0)
    BY <1>4, <1>5, <1>6, <1>8 DEF StatesAreStarts
  <2>2. \A v, u \in Windows : visit'[v].state = visit'[u].state /\ visit'[v].state # 0 => v = u
    BY <1>8 DEF StatesAreStarts
  <2> QED
    BY <2>1, <2>2, <1>4, <1>6 DEF StatesAreStarts
<1>12. AccountsHaveRows'
  BY <1>2, <1>4, <1>5, <1>9 DEF AccountsHaveRows
<1>13. NewestHasNext'
  BY <1>2, <1>4, <1>5, <1>8 DEF NewestHasNext
<1>14. NewestWillDo'
  <2> SUFFICES ASSUME crossed' = 0 /\ bumps' = 0, NEW v \in Windows
               PROVE  /\ Underway(v)' => Newest(v)'
                      /\ visit'[v].pc = "google" /\ Newest(v)' =>
                           temp'.state = starts' /\ (visit'[v].asks # NoNext => temp'.next = visit'[v].asks)
                      /\ Underway(v)' \/ visit'[v].pc = "in" => visit'[v].asks \in {NoNext, visit'[v].seen}
    BY DEF NewestWillDo
  <2>1. CASE v = w
    BY <2>1, <1>1, <1>2, <1>4, <1>5, <1>6, <1>8 DEF NewestWillDo
  <2>2. CASE v # w
    BY <2>2, <1>4, <1>5, <1>7, <1>8, <1>9 DEF NewestWillDo
  <2> QED
    BY <2>1, <2>2
<1>15. LandingsAreAsked'
  <2> SUFFICES ASSUME NEW s \in Shares
               PROVE  /\ landed'[s] + Cardinality(Seeing(s)') + One(Waiting(s)') <= asked'[s] + crossed'
                      /\ landed'[s] + Cardinality(Seeing(s)') + One(ToCome') <= starts'
    BY DEF LandingsAreAsked
  <2>1. Cardinality(Seeing(s)') = Cardinality(Seeing(s)) - One(Underway(w) /\ visit[w].seen = s)
          + One(t.pc \in {"callback", "upserted"} /\ t.seen = s)
    BY <1>2, <1>3, TabChanges
  <2>2. One(Underway(w) /\ visit[w].seen = s) = 0
    BY <1>1 DEF One, Underway
  <2>3. Waiting(s) <=> t.pc \in {"callback", "upserted"} /\ t.seen = s
    BY <1>1, <1>2, <1>7 DEF Waiting, Underway
  <2>4. One(Waiting(s)) = One(t.pc \in {"callback", "upserted"} /\ t.seen = s)
    BY <2>3 DEF One
  <2>5. One(Waiting(s)') = 0 /\ One(ToCome') = 0
    <3>1. ~Waiting(s)'
      BY <1>8, <1>9 DEF Waiting
    <3>2. ~ToCome'
      BY <1>2, <1>5, <1>8 DEF ToCome
    <3> QED
      BY <3>1, <3>2 DEF One
  <2>6. One(ToCome) = 1
    BY <1>1, <1>6 DEF ToCome, One
  <2>7. Cardinality(Seeing(s)) \in Nat /\ landed[s] \in Nat /\ asked[s] \in Nat /\ starts \in Nat /\ crossed \in Nat
    BY SignInNumbers, SeeingIsFinite
  <2>8. /\ landed[s] + Cardinality(Seeing(s)) + One(Waiting(s)) <= asked[s] + crossed
        /\ landed[s] + Cardinality(Seeing(s)) + One(ToCome) <= starts
    BY DEF LandingsAreAsked
  <2>9. One(Waiting(s)) \in {0, 1}
    BY DEF One
  <2> QED
    BY <1>4, <2>1, <2>2, <2>4, <2>5, <2>6, <2>7, <2>8, <2>9
<1> QED
  BY <1>10, <1>11, <1>12, <1>13, <1>14, <1>15

\* The upsert writes the row of the account that Google named, under a handle or a suffixed one.
LEMMA UpsertGoogleUserInv ==
  ASSUME SignInInv, NEW w \in Windows, UpsertGoogleUser(w)
  PROVE  SignInInv'
<1> USE DEF SignInInv
<1> DEFINE t == [visit[w] EXCEPT !.pc = "upserted"]
<1>1. visit[w] \in Tabs /\ visit \in [Windows -> Tabs] /\ visit[w].pc = "callback"
  BY DEF SignInTypes, UpsertGoogleUser
<1>2. /\ t \in Tabs /\ t.pc = "upserted" /\ t.state = visit[w].state /\ t.asks = visit[w].asks
      /\ t.seen = visit[w].seen /\ t.who = visit[w].who
  BY <1>1 DEF Tabs
<1>3. visit' = [visit EXCEPT ![w] = t]
  <2>1. visit' = [visit EXCEPT ![w].pc = "upserted"]
    BY DEF UpsertGoogleUser
  <2> QED
    BY <1>1, <2>1
<1>4. UNCHANGED <<sessionOf, temp, starts, asked, landed, crossed, bumps>>
  BY DEF UpsertGoogleUser
<1>5. /\ handles' \in [Members -> {"no row", "plain", "suffixed"}]
      /\ visit[w].who \in Members /\ handles'[visit[w].who] # "no row"
      /\ \A a \in Members : handles[a] # "no row" => handles'[a] # "no row"
  <2>1. visit[w].who \in Members /\ handles \in [Members -> {"no row", "plain", "suffixed"}]
    BY <1>1 DEF AccountsHaveRows, SignInTypes, Underway
  <2>2. PICK h \in Handles(visit[w].who) : handles' = [handles EXCEPT ![visit[w].who] = h]
    BY DEF UpsertGoogleUser
  <2>3. h \in {"plain", "suffixed"}
    BY <2>1, <2>2 DEF Handles
  <2> QED
    BY <2>1, <2>2, <2>3
<1> HIDE DEF t
<1>6. /\ visit' \in [Windows -> Tabs]
      /\ visit'[w] = t /\ \A v \in Windows \ {w} : visit'[v] = visit[v]
  BY <1>2, <1>3, TabChanges
<1>7. \A v \in Windows : /\ visit'[v].state = visit[v].state /\ visit'[v].asks = visit[v].asks
                         /\ visit'[v].seen = visit[v].seen /\ visit'[v].who = visit[v].who
                         /\ (Underway(v)' <=> Underway(v)) /\ (Newest(v)' <=> Newest(v))
                         /\ (v # w => visit'[v].pc = visit[v].pc)
  BY <1>1, <1>2, <1>4, <1>6 DEF Underway, Newest
<1>8. visit'[w].pc = "upserted"
  BY <1>2, <1>6
<1>9. SignInTypes'
  BY <1>4, <1>5, <1>6 DEF SignInTypes
<1>10. StatesAreStarts'
  <2>1. \A v \in Windows : visit'[v].state <= starts' /\ (visit'[v].pc # "login" => visit'[v].state # 0)
    BY <1>1, <1>4, <1>7 DEF StatesAreStarts
  <2>2. \A v, u \in Windows : visit'[v].state = visit'[u].state /\ visit'[v].state # 0 => v = u
    BY <1>7 DEF StatesAreStarts
  <2> QED
    BY <2>1, <2>2, <1>4 DEF StatesAreStarts
<1>11. AccountsHaveRows'
  <2>1. sessionOf' # Nobody => handles'[sessionOf'] # "no row"
    BY <1>4, <1>5 DEF AccountsHaveRows, SignInTypes
  <2> QED
    BY <2>1, <1>5, <1>7 DEF AccountsHaveRows
<1>12. NewestHasNext'
  BY <1>4, <1>7 DEF NewestHasNext
<1>13. NewestWillDo'
  BY <1>1, <1>4, <1>7, <1>8 DEF NewestWillDo
<1>14. LandingsAreAsked'
  <2> SUFFICES ASSUME NEW s \in Shares
               PROVE  /\ landed'[s] + Cardinality(Seeing(s)') + One(Waiting(s)') <= asked'[s] + crossed'
                      /\ landed'[s] + Cardinality(Seeing(s)') + One(ToCome') <= starts'
    BY DEF LandingsAreAsked
  <2>1. Seeing(s)' = Seeing(s)
    BY <1>7 DEF Seeing
  <2>2. (Waiting(s)' <=> Waiting(s)) /\ (ToCome' <=> ToCome)
    BY <1>1, <1>4, <1>7, <1>8 DEF Waiting, ToCome
  <2>3. One(Waiting(s)') = One(Waiting(s)) /\ One(ToCome') = One(ToCome)
    BY <2>2 DEF One
  <2> QED
    BY <2>1, <2>3, <1>4 DEF LandingsAreAsked
<1> QED
  BY <1>9, <1>10, <1>11, <1>12, <1>13, <1>14

\* The answer of a callback clears the cookies, opens the session and goes to what it saw.
LEMMA CallbackAnsweredInv ==
  ASSUME SignInInv, NEW w \in Windows, CallbackAnswered(w)
  PROVE  SignInInv'
<1> USE DEF SignInInv
<1> DEFINE t == [visit[w] EXCEPT !.pc = "in"]
<1>1. visit[w] \in Tabs /\ visit \in [Windows -> Tabs] /\ visit[w].pc = "upserted" /\ Underway(w)
  BY DEF SignInTypes, CallbackAnswered, Underway
<1>2. t \in Tabs /\ t.pc = "in" /\ t.state = visit[w].state /\ t.asks = visit[w].asks /\ t.seen = visit[w].seen
  BY <1>1 DEF Tabs
<1>3. visit' = [visit EXCEPT ![w] = t]
  <2>1. visit' = [visit EXCEPT ![w].pc = "in"]
    BY DEF CallbackAnswered
  <2> QED
    BY <1>1, <2>1
<1>4. UNCHANGED <<handles, starts, asked, crossed, bumps>> /\ sessionOf' = visit[w].who
  BY DEF CallbackAnswered
<1>5. temp' \in [state : Nat, next : Nexts] /\ temp'.state = 0 /\ temp'.next = NoNext
  <2>1. temp' = [state |-> 0, next |-> NoNext] /\ NoNext \in Nexts
    BY DEF CallbackAnswered, TempAfterSignIn, Nexts
  <2> QED
    BY <2>1
<1>6. landed' \in [Shares -> Nat] /\ \A s \in Shares : landed'[s] = landed[s] + One(visit[w].seen = s)
  <2>1. landed \in [Shares -> Nat] /\ visit[w].seen \in Nexts
    BY <1>1 DEF SignInTypes, Tabs
  <2>2. CASE visit[w].seen = NoNext
    <3>1. landed' = landed /\ \A s \in Shares : s # visit[w].seen
      BY <2>2, SignInAssumption DEF CallbackAnswered
    <3> QED
      BY <2>1, <3>1 DEF One
  <2>3. CASE visit[w].seen # NoNext
    <3>1. landed' = [landed EXCEPT ![visit[w].seen] = @ + 1] /\ visit[w].seen \in Shares
      BY <2>1, <2>3 DEF CallbackAnswered, Nexts
    <3> QED
      BY <2>1, <3>1 DEF One
  <2> QED
    BY <2>2, <2>3
<1> HIDE DEF t
<1>7. /\ visit' \in [Windows -> Tabs]
      /\ visit'[w] = t /\ \A v \in Windows \ {w} : visit'[v] = visit[v]
  BY <1>2, <1>3, TabChanges
<1>8. \A v \in Windows : /\ visit'[v].state = visit[v].state /\ visit'[v].asks = visit[v].asks
                         /\ visit'[v].seen = visit[v].seen
                         /\ (Underway(v)' <=> Underway(v) /\ v # w) /\ (Newest(v)' <=> Newest(v))
  BY <1>1, <1>2, <1>4, <1>7 DEF Underway, Newest
<1>9. visit[w].state # 0 /\ \A v \in Windows : Newest(v) /\ Newest(w) => v = w
  BY <1>1 DEF StatesAreStarts, Newest
<1>10. visit[w].who \in Members /\ handles[visit[w].who] # "no row"
  BY <1>1 DEF AccountsHaveRows
<1>11. SignInTypes'
  BY <1>4, <1>5, <1>6, <1>7, <1>10 DEF SignInTypes
<1>12. StatesAreStarts'
  <2>1. \A v \in Windows : visit'[v].state <= starts' /\ (visit'[v].pc # "login" => visit'[v].state # 0)
    BY <1>4, <1>7, <1>8, <1>9 DEF StatesAreStarts
  <2>2. \A v, u \in Windows : visit'[v].state = visit'[u].state /\ visit'[v].state # 0 => v = u
    BY <1>8 DEF StatesAreStarts
  <2> QED
    BY <2>1, <2>2, <1>5 DEF StatesAreStarts
<1>13. AccountsHaveRows'
  BY <1>4, <1>7, <1>8, <1>10 DEF AccountsHaveRows
<1>14. NewestHasNext'
  BY <1>5 DEF NewestHasNext
<1>15. NewestWillDo'
  <2> SUFFICES ASSUME crossed' = 0 /\ bumps' = 0, NEW v \in Windows
               PROVE  /\ Underway(v)' => Newest(v)'
                      /\ visit'[v].pc = "google" /\ Newest(v)' =>
                           temp'.state = starts' /\ (visit'[v].asks # NoNext => temp'.next = visit'[v].asks)
                      /\ Underway(v)' \/ visit'[v].pc = "in" => visit'[v].asks \in {NoNext, visit'[v].seen}
    BY DEF NewestWillDo
  <2>1. crossed = 0 /\ bumps = 0 /\ Newest(w)
    BY <1>1, <1>4 DEF NewestWillDo
  <2>2. CASE v = w
    BY <2>1, <2>2, <1>1, <1>2, <1>7, <1>8 DEF NewestWillDo
  <2>3. CASE v # w
    BY <2>1, <2>3, <1>7, <1>8, <1>9 DEF NewestWillDo
  <2> QED
    BY <2>2, <2>3
<1>16. LandingsAreAsked'
  <2> SUFFICES ASSUME NEW s \in Shares
               PROVE  /\ landed'[s] + Cardinality(Seeing(s)') + One(Waiting(s)') <= asked'[s] + crossed'
                      /\ landed'[s] + Cardinality(Seeing(s)') + One(ToCome') <= starts'
    BY DEF LandingsAreAsked
  <2>1. Cardinality(Seeing(s)') = Cardinality(Seeing(s)) - One(Underway(w) /\ visit[w].seen = s)
          + One(t.pc \in {"callback", "upserted"} /\ t.seen = s)
    BY <1>2, <1>3, TabChanges
  <2>2. One(t.pc \in {"callback", "upserted"} /\ t.seen = s) = 0
    BY <1>2 DEF One
  <2>3. One(Underway(w) /\ visit[w].seen = s) = One(visit[w].seen = s) /\ One(visit[w].seen = s) \in {0, 1}
    BY <1>1 DEF One
  <2>4. One(Waiting(s)') = 0
    BY <1>5, SignInAssumption DEF Waiting, One
  <2>5. One(ToCome') <= One(ToCome) /\ One(ToCome) \in {0, 1} /\ One(ToCome') \in {0, 1}
    <3>1. ToCome' => ToCome
      BY <1>2, <1>7, <1>8 DEF ToCome
    <3> QED
      BY <3>1 DEF One
  <2>6. Cardinality(Seeing(s)) \in Nat /\ landed[s] \in Nat /\ asked[s] \in Nat /\ starts \in Nat /\ crossed \in Nat
    BY SignInNumbers, SeeingIsFinite
  <2>7. /\ landed[s] + Cardinality(Seeing(s)) + One(Waiting(s)) <= asked[s] + crossed
        /\ landed[s] + Cardinality(Seeing(s)) + One(ToCome) <= starts
    BY DEF LandingsAreAsked
  <2>8. One(Waiting(s)) \in {0, 1} /\ landed'[s] = landed[s] + One(visit[w].seen = s)
    BY <1>6 DEF One
  <2> QED
    BY <1>4, <2>1, <2>2, <2>3, <2>4, <2>5, <2>6, <2>7, <2>8
<1> QED
  BY <1>11, <1>12, <1>13, <1>14, <1>15, <1>16

\* The steps that leave the tabs alone: signing out, and cookies that expire.
LEMMA CookiesGoInv ==
  ASSUME SignInInv, UNCHANGED <<visit, handles, starts, asked, landed, crossed>>,
         sessionOf' \in {sessionOf, Nobody},
         \/ UNCHANGED <<temp, bumps>>
         \/ /\ temp' \in {[temp EXCEPT !.next = NoNext], [state |-> 0, next |-> NoNext]}
            /\ bumps' = bumps + 1 /\ bumps < MaxMishaps
  PROVE  SignInInv'
<1> USE DEF SignInInv
<1>1. /\ starts \in Nat /\ bumps \in Nat /\ MaxMishaps \in Nat /\ bumps <= MaxMishaps
  BY SignInNumbers
<1>2. /\ temp' \in [state : Nat, next : Nexts] /\ temp'.next \in {temp.next, NoNext}
      /\ temp'.state \in {0, temp.state}
      /\ bumps' \in 0 .. MaxMishaps /\ (bumps' = 0 => bumps = 0 /\ temp' = temp)
  <2>1. temp \in [state : Nat, next : Nexts] /\ NoNext \in Nexts
    BY DEF SignInTypes, Nexts
  <2>2. /\ [temp EXCEPT !.next = NoNext] \in [state : Nat, next : Nexts]
        /\ [temp EXCEPT !.next = NoNext].next = NoNext /\ [temp EXCEPT !.next = NoNext].state = temp.state
        /\ [state |-> 0, next |-> NoNext] \in [state : Nat, next : Nexts]
    BY <2>1
  <2>3. CASE UNCHANGED <<temp, bumps>>
    BY <1>1, <2>1, <2>3
  <2>4. CASE /\ temp' \in {[temp EXCEPT !.next = NoNext], [state |-> 0, next |-> NoNext]}
             /\ bumps' = bumps + 1 /\ bumps < MaxMishaps
    <3>1. bumps' \in 0 .. MaxMishaps /\ bumps' # 0
      BY <1>1, <2>4
    <3> QED
      BY <2>2, <2>4, <3>1
  <2> QED
    BY <2>3, <2>4
<1>3. \A v \in Windows : (Underway(v)' <=> Underway(v)) /\ (Newest(v)' <=> Newest(v))
  BY DEF Underway, Newest
<1>4. SignInTypes'
  BY <1>2 DEF SignInTypes
<1>5. StatesAreStarts'
  BY <1>2 DEF StatesAreStarts
<1>6. AccountsHaveRows'
  BY <1>3 DEF AccountsHaveRows
<1>7. NewestHasNext'
  BY <1>2, <1>3 DEF NewestHasNext
<1>8. NewestWillDo'
  BY <1>2, <1>3 DEF NewestWillDo
<1>9. LandingsAreAsked'
  <2> SUFFICES ASSUME NEW s \in Shares
               PROVE  /\ landed'[s] + Cardinality(Seeing(s)') + One(Waiting(s)') <= asked'[s] + crossed'
                      /\ landed'[s] + Cardinality(Seeing(s)') + One(ToCome') <= starts'
    BY DEF LandingsAreAsked
  <2>1. Seeing(s)' = Seeing(s)
    BY <1>3 DEF Seeing
  <2>2. ToCome' <=> ToCome
    BY <1>3 DEF ToCome
  <2>3. Waiting(s)' => Waiting(s)
    BY <1>2, <1>3, SignInAssumption DEF Waiting
  <2>4. One(ToCome') = One(ToCome)
    BY <2>2 DEF One
  <2>5. One(Waiting(s)') <= One(Waiting(s)) /\ One(Waiting(s)) \in {0, 1} /\ One(Waiting(s)') \in {0, 1}
    BY <2>3 DEF One
  <2>6. Cardinality(Seeing(s)) \in Nat /\ landed[s] \in Nat /\ asked[s] \in Nat /\ crossed \in Nat
    BY SignInNumbers, SeeingIsFinite
  <2>7. /\ landed[s] + Cardinality(Seeing(s)) + One(Waiting(s)) <= asked[s] + crossed
        /\ landed[s] + Cardinality(Seeing(s)) + One(ToCome) <= starts
    BY DEF LandingsAreAsked
  <2> QED
    BY <2>1, <2>4, <2>5, <2>6, <2>7
<1> QED
  BY <1>4, <1>5, <1>6, <1>7, <1>8, <1>9

\* The invariant of signing in, by action.
LEMMA SignInInvIsInductive == SignInInv /\ [SignInNext]_signInVars => SignInInv'
<1> SUFFICES ASSUME SignInInv, [SignInNext]_signInVars PROVE SignInInv'
  OBVIOUS
<1>1. bumps \in Nat /\ MaxMishaps \in Nat /\ bumps <= MaxMishaps
  BY SignInNumbers DEF SignInInv
<1>2. bumps \in bumps .. MaxMishaps /\ (Bump => bumps' \in bumps .. MaxMishaps)
  BY <1>1 DEF Bump
<1>3. NoNext \in Nexts /\ Shares \subseteq Nexts
  BY DEF Nexts
<1>4. ASSUME NEW w \in Windows, HandleGoogle(w) PROVE SignInInv'
  <2>1. ~Underway(w)
    BY <1>4 DEF HandleGoogle, Underway
  <2> QED
    BY <2>1, <1>2, <1>3, <1>4, HandleGoogleStartInv DEF HandleGoogle
<1>5. ASSUME NEW w \in Windows, NEW s \in Shares, AddPage(w, s) PROVE SignInInv'
  BY <1>2, <1>3, <1>5, HandleGoogleStartInv DEF AddPage
<1>6. ASSUME NEW w \in Windows, NEW a \in Members, CallbackArrives(w, a) PROVE SignInInv'
  BY <1>6, CallbackArrivesInv, LeavingInv
<1>7. ASSUME NEW w \in Windows, OpenLogin(w) PROVE SignInInv'
  <2>1. AtLogin \in Tabs /\ AtLogin.pc = "login" /\ AtLogin.state = 0
    BY SignInAssumption DEF AtLogin, Tabs, Nexts
  <2> QED
    BY <2>1, <1>7, TabLeavesInv DEF OpenLogin
<1>8. ASSUME NEW w \in Windows, CallbackFails(w) \/ CallbackLost(w) PROVE SignInInv'
  <2>1. Underway(w)
    BY <1>8 DEF CallbackFails, CallbackLost, Underway
  <2>2. visit[w].who \in Members
    BY <2>1 DEF SignInInv, AccountsHaveRows
  <2> QED
    BY <1>8, <2>2, LeavingInv
<1>9. CASE HandleLogout
  BY <1>9, CookiesGoInv DEF HandleLogout
<1>10. CASE TempExpires
  BY <1>10, CookiesGoInv DEF TempExpires, Bump
<1>11. CASE UNCHANGED signInVars
  BY <1>11, CookiesGoInv DEF signInVars
<1> QED
  BY <1>4, <1>5, <1>6, <1>7, <1>8, <1>9, <1>10, <1>11, UpsertGoogleUserInv, CallbackAnsweredInv DEF SignInNext

\* It implies the types and what a sign-in promises.
LEMMA SignInInvImplies == SignInInv => SignInTypeOK /\ SignInKeepsItsWord
<1> SUFFICES ASSUME SignInInv PROVE SignInTypeOK /\ SignInKeepsItsWord
  OBVIOUS
<1> USE DEF SignInInv
<1>1. starts \in Nat /\ crossed \in Nat
  BY SignInNumbers
<1>2. \A s \in Shares : landed[s] <= starts /\ landed[s] <= asked[s] + crossed
  <2> SUFFICES ASSUME NEW s \in Shares PROVE landed[s] <= starts /\ landed[s] <= asked[s] + crossed
    OBVIOUS
  <2>1. Cardinality(Seeing(s)) \in Nat /\ landed[s] \in Nat /\ asked[s] \in Nat
    BY SignInNumbers, SeeingIsFinite
  <2>2. /\ landed[s] + Cardinality(Seeing(s)) + One(Waiting(s)) <= asked[s] + crossed
        /\ landed[s] + Cardinality(Seeing(s)) + One(ToCome) <= starts
    BY DEF LandingsAreAsked
  <2>3. One(Waiting(s)) \in {0, 1} /\ One(ToCome) \in {0, 1}
    BY DEF One
  <2> QED
    BY <1>1, <2>1, <2>2, <2>3
<1>3. SignInTypeOK
  <2>1. temp \in [state : 0 .. starts, next : Nexts]
    <3>1. temp \in [state : Nat, next : Nexts]
      BY DEF SignInTypes
    <3>2. temp.state \in {0, starts} /\ 0 \in 0 .. starts /\ starts \in 0 .. starts
      BY <1>1 DEF StatesAreStarts
    <3> QED
      BY <3>1, <3>2
  <2> DEFINE Short == [pc : {"login", "google", "callback", "upserted", "in", "refused"},
                       state : 0 .. starts, asks : Nexts, seen : Nexts, who : Members \cup {Nobody}]
  <2>2. \A w \in Windows : visit[w] \in Short
    <3> SUFFICES ASSUME NEW w \in Windows PROVE visit[w] \in Short
      OBVIOUS
    <3>1. visit[w] \in Tabs /\ visit[w].state \in 0 .. starts
      BY <1>1, SignInNumbers DEF StatesAreStarts
    <3> QED
      BY <3>1 DEF Tabs
  <2> HIDE DEF Short
  <2>3. visit \in [Windows -> Short]
    BY <2>2 DEF SignInTypes
  <2>4. landed \in [Shares -> 0 .. starts]
    <3>1. \A n \in Nat : n <= starts => n \in 0 .. starts
      BY <1>1
    <3>2. landed \in [Shares -> Nat]
      BY DEF SignInTypes
    <3> QED
      BY <1>2, <3>1, <3>2
  <2> QED
    BY <2>1, <2>3, <2>4 DEF SignInTypes, SignInTypeOK, AccountsHaveRows, Short
<1>4. SignInKeepsItsWord
  <2>1. \A w \in Windows : visit[w].state = starts <=> Newest(w)
    BY DEF Newest
  <2> QED
    BY <1>2, <2>1 DEF SignInKeepsItsWord, NewestWillDo
<1> QED
  BY <1>3, <1>4

\* HandleGoogleStart, HandleGoogleCallback and HandleLogout keep their types: in
\* particular nobody has a session without a users row, and no share is come back to more
\* often than there were sign-ins.
THEOREM SignInTypeCorrect == SignInSpec => []SignInTypeOK
<1>1. SignInSpec => []SignInInv
  BY SignInInvInitially, SignInInvIsInductive, PTL DEF SignInSpec
<1> QED
  BY <1>1, SignInInvImplies, PTL

\* HandleGoogleStart with HandleGoogleCallback keep what they promise, for any number of
\* tabs: the newest start is accepted, who asked to come back to a share does, and nobody
\* is sent to one more often than it was asked for.
THEOREM SignInsKeepTheirWord == SignInSpec => []SignInKeepsItsWord
<1>1. SignInSpec => []SignInInv
  BY SignInInvInitially, SignInInvIsInductive, PTL DEF SignInSpec
<1> QED
  BY <1>1, SignInInvImplies, PTL

-----------------------------------------------------------------------------
(* The navigation of one tab                                               *)

Documents ==
  [page : Routes, missing : BOOLEAN, frame : Users, bar : Users, body : Users,
   wanted : Routes \cup {"any"}, mode : {"options", "phone"}]

ChromeTypes ==
  /\ session \in Users /\ doc \in Documents
  /\ drawer \in BOOLEAN /\ leaving \in BOOLEAN /\ stale \in BOOLEAN
  /\ pages \in [Private -> Users] /\ shells \in [public : Users, private : Users]

\* The page a document shows and what is around it.
PageIsGuarded ==
  /\ doc.mode = "phone" => doc.page = "login"
  /\ doc.missing => doc.page = "admin"
  /\ drawer => HasBar
  /\ doc.page \in Private /\ ~doc.missing => doc.body # Anonymous
  /\ doc.body # Anonymous => doc.page \in Private /\ (doc.page = "admin" => doc.body \in Admins)
  /\ pages["admin"] # Anonymous => pages["admin"] \in Admins

\* Nothing the router shows or keeps is for anybody else.
RouterIsCurrent ==
  ~stale =>
    /\ doc.frame = session /\ (HasBar => doc.bar = session)
    /\ doc.body \in {Anonymous, session} /\ \A p \in Private : pages[p] \in {Anonymous, session}
    /\ shells.public = session /\ shells.private = session
    /\ doc.wanted # "any" => doc.page = doc.wanted /\ ~doc.missing

ChromeInv == ChromeTypes /\ PageIsGuarded /\ RouterIsCurrent

\* Nobody without a session is an administrator.
LEMMA AdminsAreSomebody == Anonymous \notin Admins /\ Admins \subseteq Users
BY ChromeAssumption DEF Users

\* What is shown of a page: never a private page for nobody, and the page itself, if the
\* layout and the page agree on a user who may see it.
LEMMA RenderedPage ==
  ASSUME NEW p \in Routes, NEW frame \in Users, NEW layout \in Users, NEW user \in Users, NEW r,
         r = Rendered(p, frame, layout, user)
  PROVE  /\ r \in Documents /\ r.frame = frame /\ r.wanted = p /\ r.mode = "options"
         /\ r.missing => r.page = "admin" /\ r.bar = user
         /\ ~r.missing /\ r.page \in Public \cup Private => r.bar = layout
         /\ r.page \in Private /\ ~r.missing => r.body # Anonymous
         /\ r.body # Anonymous =>
              r.page \in Private /\ r.body = user /\ (r.page = "admin" => r.body \in Admins)
         /\ layout = user /\ (p \in Private => user # Anonymous) /\ (p = "admin" => user \in Admins) =>
              r.page = p /\ ~r.missing
<1>1. Anonymous \in Users /\ "login" \in Routes
  BY DEF Users, Routes
<1>2. CASE p \in Private /\ ~Admitted(p, user, layout)
  <2>1. r = [page |-> "login", missing |-> FALSE, frame |-> frame, bar |-> Anonymous,
             body |-> Anonymous, wanted |-> p, mode |-> "options"]
    BY <1>2 DEF Rendered
  <2>2. r \in Documents
    BY <1>1, <2>1 DEF Documents
  <2>3. ~(layout = user /\ (p \in Private => user # Anonymous) /\ (p = "admin" => user \in Admins))
    BY <1>2 DEF Admitted
  <2>4. "login" \notin Public \cup Private
    BY DEF Public, Private
  <2> QED
    BY <2>1, <2>2, <2>3, <2>4
<1>3. CASE p = "admin" /\ Admitted(p, user, layout) /\ user \notin Admins
  <2>1. r = [page |-> p, missing |-> TRUE, frame |-> frame, bar |-> user,
             body |-> Anonymous, wanted |-> p, mode |-> "options"]
    BY <1>3 DEF Rendered
  <2>2. r \in Documents
    BY <1>1, <2>1 DEF Documents
  <2> QED
    BY <1>3, <2>1, <2>2
<1>4. CASE ~(p \in Private /\ ~Admitted(p, user, layout)) /\ ~(p = "admin" /\ Admitted(p, user, layout) /\ user \notin Admins)
  <2> DEFINE bar == IF p \in Public \cup Private THEN layout ELSE Anonymous
             body == IF p \in Private THEN user ELSE Anonymous
  <2>1. r = [page |-> p, missing |-> FALSE, frame |-> frame, bar |-> bar,
             body |-> body, wanted |-> p, mode |-> "options"]
    BY <1>4 DEF Rendered
  <2>2. bar \in Users /\ body \in Users
    BY <1>1
  <2>3. p \in Public \cup Private => bar = layout
    OBVIOUS
  <2>4. p \in Private => body # Anonymous
    BY <1>4, AdminsAreSomebody DEF Admitted
  <2>5. body # Anonymous => p \in Private /\ body = user
    OBVIOUS
  <2>6. p = "admin" /\ body # Anonymous => body \in Admins
    BY <1>4 DEF Private
  <2> HIDE DEF bar, body
  <2>7. r \in Documents
    BY <2>1, <2>2 DEF Documents
  <2>8. r.page = p /\ r.missing = FALSE /\ r.frame = frame /\ r.bar = bar /\ r.body = body /\ r.wanted = p /\ r.mode = "options"
    BY <2>1
  <2> QED
    BY <2>3, <2>4, <2>5, <2>6, <2>7, <2>8
<1> QED
  BY <1>2, <1>3, <1>4

\* A document loaded with the session there is, and nothing else kept.
LEMMA ChromeInvInitially == ChromeInit => ChromeInv
<1> SUFFICES ASSUME ChromeInit PROVE ChromeInv
  OBVIOUS
<1>1. PICK p \in Routes, outcome \in {"found", "lost", "late"} : LoadDocument(p, outcome)
  BY DEF ChromeInit, Outcomes
<1> DEFINE me == GetCurrentUser(outcome)
           user == PageUser(outcome)
           r == Rendered(p, me, me, user)
<1>2. session \in Users /\ Anonymous \in Users /\ me \in Users /\ user \in Users
  BY DEF ChromeInit, GetCurrentUser, PageUser, Users
<1>3. outcome = "found" => me = session /\ user = session
  BY DEF GetCurrentUser, PageUser
<1>4. /\ doc = [r EXCEPT !.wanted = "any"]
      /\ drawer = FALSE /\ leaving = FALSE
      /\ pages = IF doc.body = Anonymous THEN NotVisited ELSE [NotVisited EXCEPT ![p] = doc.body]
      /\ shells = [public |-> me, private |-> me]
      /\ stale = (outcome # "found")
  BY <1>1 DEF LoadDocument
<1> HIDE DEF me, user
<1>5. /\ r \in Documents /\ r.frame = me /\ r.mode = "options"
      /\ r.missing => r.page = "admin" /\ r.bar = user
      /\ ~r.missing /\ r.page \in Public \cup Private => r.bar = me
      /\ r.page \in Private /\ ~r.missing => r.body # Anonymous
      /\ r.body # Anonymous =>
           r.page \in Private /\ r.body = user /\ (r.page = "admin" => r.body \in Admins)
  BY <1>2, RenderedPage
<1>6. r.body # Anonymous => r.page = p
  BY DEF Rendered
<1> HIDE DEF r
<1>7. /\ doc \in Documents /\ doc.wanted = "any" /\ doc.page = r.page /\ doc.missing = r.missing
      /\ doc.frame = r.frame /\ doc.bar = r.bar /\ doc.body = r.body /\ doc.mode = r.mode
  BY <1>4, <1>5 DEF Documents
<1>8. pages \in [Private -> Users] /\ \A q \in Private : pages[q] # Anonymous => doc.page = q /\ pages[q] = doc.body
  <2>1. doc.body \in Users
    BY <1>7 DEF Documents
  <2>2. NotVisited \in [Private -> Users] /\ \A q \in Private : NotVisited[q] = Anonymous
    BY <1>2 DEF NotVisited
  <2>3. CASE doc.body = Anonymous
    BY <1>4, <2>2, <2>3
  <2>4. CASE doc.body # Anonymous
    <3>1. pages = [NotVisited EXCEPT ![p] = doc.body]
      BY <1>4, <2>4
    <3>2. doc.page = p
      BY <1>6, <1>7, <2>4
    <3> QED
      BY <2>1, <2>2, <3>1, <3>2
  <2> QED
    BY <2>3, <2>4
<1>9. "admin" \in Private
  BY DEF Private
<1>10. ChromeTypes
  BY <1>2, <1>4, <1>7, <1>8 DEF ChromeTypes
<1>11. PageIsGuarded
  BY <1>4, <1>5, <1>7, <1>8, <1>9 DEF PageIsGuarded
<1>12. RouterIsCurrent
  <2> SUFFICES ASSUME ~stale PROVE RouterIsCurrent
    BY DEF RouterIsCurrent
  <2>1. me = session /\ user = session
    BY <1>3, <1>4
  <2>2. HasBar => doc.bar = session
    BY <2>1, <1>5, <1>7 DEF HasBar
  <2>3. shells.public = session /\ shells.private = session /\ doc.frame = session
    BY <2>1, <1>4, <1>5, <1>7
  <2>4. doc.body \in {Anonymous, session}
    BY <2>1, <1>5, <1>7
  <2> QED
    BY <2>2, <2>3, <2>4, <1>7, <1>8 DEF RouterIsCurrent
<1> QED
  BY <1>10, <1>11, <1>12 DEF ChromeInv

\* A page is shown and remembered.
LEMMA ShownInv ==
  ASSUME ChromeInv, Remember,
         session' \in Users, drawer' \in BOOLEAN, leaving' \in BOOLEAN, stale' \in BOOLEAN, doc' \in Documents,
         doc'.mode = "options", doc'.missing => doc'.page = "admin", drawer' => HasBar',
         doc'.page \in Private /\ ~doc'.missing => doc'.body # Anonymous,
         doc'.body # Anonymous => doc'.page \in Private /\ (doc'.page = "admin" => doc'.body \in Admins),
         ~stale' => /\ ~stale /\ session' = session
                    /\ doc'.frame = session /\ (HasBar' => doc'.bar = session)
                    /\ doc'.body \in {Anonymous, session} /\ doc'.page = doc'.wanted /\ ~doc'.missing
  PROVE  ChromeInv'
<1> USE DEF ChromeInv
<1>1. pages \in [Private -> Users] /\ shells \in [public : Users, private : Users]
  BY DEF ChromeTypes
<1>2. doc'.bar \in Users /\ doc'.body \in Users
  BY DEF Documents
<1>3. /\ pages' \in [Private -> Users]
      /\ \A p \in Private : pages'[p] = pages[p] \/ (p = doc'.page /\ pages'[p] = doc'.body)
  <2>1. CASE doc'.body = Anonymous
    BY <1>1, <2>1 DEF Remember
  <2>2. CASE doc'.body # Anonymous
    BY <1>1, <1>2, <2>2 DEF Remember
  <2> QED
    BY <2>1, <2>2
<1>4. /\ shells' \in [public : Users, private : Users]
      /\ shells'.public \in {shells.public, doc'.bar} /\ shells'.private \in {shells.private, doc'.bar}
      /\ shells' # shells => HasBar'
  <2>1. CASE doc'.page \in Public \cup Private /\ ~doc'.missing
    <3>1. shells' = [shells EXCEPT ![Section(doc'.page)] = doc'.bar] /\ HasBar'
      BY <2>1 DEF Remember, HasBar
    <3>2. Section(doc'.page) \in {"public", "private"}
      BY DEF Section
    <3> QED
      BY <1>1, <1>2, <3>1, <3>2
  <2>2. CASE ~(doc'.page \in Public \cup Private /\ ~doc'.missing)
    BY <1>1, <2>2 DEF Remember
  <2> QED
    BY <2>1, <2>2
<1>5. "admin" \in Private
  BY DEF Private
<1>6. ChromeTypes'
  BY <1>3, <1>4 DEF ChromeTypes
<1>7. PageIsGuarded'
  BY <1>3, <1>5 DEF PageIsGuarded
<1>8. RouterIsCurrent'
  BY <1>3, <1>4 DEF RouterIsCurrent
<1> QED
  BY <1>6, <1>7, <1>8

\* While the document is current every link to a private page is for a user who may see it.
LEMMA LinksAreAllowed ==
  ASSUME ChromeInv, ~stale, NEW p \in Links
  PROVE  (p \in Private => session # Anonymous) /\ (p = "admin" => session \in Admins)
<1> USE DEF ChromeInv
<1>1. /\ doc.frame = session /\ (HasBar => doc.bar = session) /\ doc.body \in {Anonymous, session}
      /\ drawer => HasBar
      /\ doc.page \in Private /\ ~doc.missing => doc.body # Anonymous
  BY DEF RouterIsCurrent, PageIsGuarded
<1>2. \A u : OwnProfile(u) \subseteq {"profile"}
  BY DEF OwnProfile
<1>3. p \in BodyLinks => p \notin Private
  <2>1. BodyLinks \subseteq {"profile", "add", "discover"}
    BY <1>2 DEF BodyLinks, DashboardLinks, HeroLinks, FeedLinks, FeedItem
  <2> QED
    BY <2>1 DEF Private
<1>4. HasBar /\ p \in BarLinks => (p \in Private => session # Anonymous) /\ p # "admin"
  BY <1>1 DEF BarLinks, Private
<1>5. p \in DrawerLinks(session) => (p \in Private => session # Anonymous) /\ (p = "admin" => session \in Admins)
  BY <1>2 DEF DrawerLinks, Private
<1>6. p \in RailLinks(session) => (p = "admin" => session \in Admins)
  BY <1>2 DEF RailLinks
<1>7. p \in TabLinks(session) => p # "admin"
  BY <1>2 DEF TabLinks
<1>8. (RailShown => session # Anonymous) /\ (TabBarShown => session # Anonymous)
  BY <1>1 DEF RailShown, TabBarShown
<1>9. "home" \notin Private
  BY DEF Private
<1>10. \/ p \in BodyLinks \/ (HasBar /\ p \in BarLinks) \/ p = "home"
       \/ (drawer /\ p \in DrawerLinks(doc.bar))
       \/ (RailShown /\ p \in RailLinks(doc.frame)) \/ (TabBarShown /\ p \in TabLinks(doc.frame))
  BY DEF Links
<1> QED
  BY <1>1, <1>3, <1>4, <1>5, <1>6, <1>7, <1>8, <1>9, <1>10 DEF Private

\* A link is followed: what is rendered is fetched, or came from the router's caches.
LEMMA FollowInv ==
  ASSUME ChromeInv, NEW p \in Routes, NEW outcome \in {"found", "lost", "late"}, Follow(p, outcome)
  PROVE  ChromeInv'
<1> USE DEF ChromeInv
<1> DEFINE me == GetCurrentUser(outcome)
           user == PageUser(outcome)
<1>1. session \in Users /\ doc.frame \in Users /\ doc.bar \in Users /\ shells.public \in Users /\ shells.private \in Users
  BY DEF ChromeTypes, Documents
<1>2. me \in Users /\ user \in Users /\ (outcome = "found" => me = session /\ user = session)
  BY <1>1 DEF GetCurrentUser, PageUser, Users
<1>3. PICK layout \in IF Kept(Section(p)) THEN {doc.bar} ELSE {shells[Section(p)], me} :
        doc' = Rendered(p, doc.frame, layout, user)
  BY DEF Follow, GoTo
<1>4. /\ Remember /\ drawer' = FALSE /\ session' = session /\ leaving' = leaving
      /\ stale' = (stale \/ outcome # "found") /\ p \in Links
  BY DEF Follow, GoTo
<1> HIDE DEF me, user
<1>5. layout \in {doc.bar, shells.public, shells.private, me}
      /\ (layout \in {shells.public, shells.private, me} \/ HasBar)
  BY <1>3 DEF Section, Kept
<1>6. /\ doc' \in Documents /\ doc'.frame = doc.frame /\ doc'.wanted = p /\ doc'.mode = "options"
      /\ doc'.missing => doc'.page = "admin" /\ doc'.bar = user
      /\ ~doc'.missing /\ doc'.page \in Public \cup Private => doc'.bar = layout
      /\ doc'.page \in Private /\ ~doc'.missing => doc'.body # Anonymous
      /\ doc'.body # Anonymous =>
           doc'.page \in Private /\ doc'.body = user /\ (doc'.page = "admin" => doc'.body \in Admins)
      /\ layout = user /\ (p \in Private => user # Anonymous) /\ (p = "admin" => user \in Admins) =>
           doc'.page = p /\ ~doc'.missing
  <2>1. layout \in Users
    BY <1>1, <1>2, <1>5
  <2> DEFINE frame == doc.frame
             r == Rendered(p, frame, layout, user)
  <2>2. p \in Routes /\ frame \in Users /\ layout \in Users /\ user \in Users
    BY <1>1, <1>2, <2>1
  <2> HIDE DEF frame
  <2>3. /\ r \in Documents /\ r.frame = frame /\ r.wanted = p /\ r.mode = "options"
        /\ r.missing => r.page = "admin" /\ r.bar = user
        /\ ~r.missing /\ r.page \in Public \cup Private => r.bar = layout
        /\ r.page \in Private /\ ~r.missing => r.body # Anonymous
        /\ r.body # Anonymous =>
             r.page \in Private /\ r.body = user /\ (r.page = "admin" => r.body \in Admins)
        /\ layout = user /\ (p \in Private => user # Anonymous) /\ (p = "admin" => user \in Admins) =>
             r.page = p /\ ~r.missing
    BY <2>2, RenderedPage
  <2>4. doc' = r /\ frame = doc.frame
    BY <1>3 DEF frame
  <2> HIDE DEF r
  <2> QED
    BY <2>3, <2>4
<1>7. ASSUME ~stale'
      PROVE  /\ ~stale /\ session' = session
             /\ doc'.frame = session /\ (HasBar' => doc'.bar = session)
             /\ doc'.body \in {Anonymous, session} /\ doc'.page = doc'.wanted /\ ~doc'.missing
  <2>1. ~stale /\ me = session /\ user = session
    BY <1>2, <1>4, <1>7
  <2>2. layout = session
    BY <2>1, <1>5, <1>7 DEF RouterIsCurrent
  <2>3. (p \in Private => session # Anonymous) /\ (p = "admin" => session \in Admins)
    BY <2>1, <1>4, LinksAreAllowed
  <2>4. doc'.page = p /\ ~doc'.missing
    BY <2>1, <2>2, <2>3, <1>6
  <2>5. HasBar' => doc'.bar = session
    BY <2>1, <2>2, <2>4, <1>6 DEF HasBar
  <2>6. doc'.frame = session
    BY <2>1, <1>6 DEF RouterIsCurrent
  <2> QED
    BY <2>1, <2>4, <2>5, <2>6, <1>4, <1>6
<1>8. session' \in Users /\ drawer' \in BOOLEAN /\ leaving' \in BOOLEAN /\ stale' \in BOOLEAN /\ ~drawer'
  BY <1>1, <1>4 DEF ChromeTypes
<1> QED
  BY <1>4, <1>6, <1>7, <1>8, ShownInv

\* The answer of a logout has cleared the cookie or has not, and brings the landing page.
LEMMA LogoutAnsweredInv ==
  ASSUME ChromeInv, NEW cleared \in BOOLEAN, NEW ok \in BOOLEAN, LogoutAnswered(cleared, ok)
  PROVE  ChromeInv'
<1> USE DEF ChromeInv
<1>1. /\ session \in Users /\ Anonymous \in Users /\ doc.frame \in Users /\ doc.bar \in Users
      /\ shells.public \in Users /\ drawer \in BOOLEAN
  BY DEF ChromeTypes, Documents, Users
<1>2. PICK layout \in IF Kept("public") THEN {doc.bar} ELSE {shells.public, IF ok THEN session' ELSE Anonymous} :
       doc' = [page |-> "home", missing |-> FALSE, frame |-> doc.frame, bar |-> layout,
               body |-> Anonymous, wanted |-> "home", mode |-> "options"]
  BY DEF LogoutAnswered
<1>3. /\ session' = (IF cleared THEN Anonymous ELSE session) /\ leaving' = FALSE /\ Remember
      /\ drawer' = (drawer /\ Kept("public")) /\ stale' = TRUE
  BY DEF LogoutAnswered
<1>4. session' \in Users
  BY <1>1, <1>3
<1>5. layout \in Users
  BY <1>1, <1>2, <1>4
<1>6. "home" \in Routes /\ "home" \in Public /\ "home" \notin Private
  BY DEF Routes, Public, Private
<1>7. doc' \in Documents /\ doc'.page = "home" /\ ~doc'.missing /\ doc'.body = Anonymous /\ doc'.mode = "options"
  BY <1>1, <1>2, <1>5, <1>6 DEF Documents
<1>8. HasBar'
  BY <1>6, <1>7 DEF HasBar
<1>9. drawer' \in BOOLEAN
  BY <1>3
<1> QED
  BY <1>3, <1>4, <1>6, <1>7, <1>8, <1>9, ShownInv

\* The back button brings a page that the router kept.
LEMMA RevisitInv ==
  ASSUME ChromeInv, NEW p \in Private, Revisit(p)
  PROVE  ChromeInv'
<1> USE DEF ChromeInv
<1>1. /\ UNCHANGED <<session, leaving, pages, shells, stale>> /\ pages[p] # Anonymous
      /\ doc' = [page |-> p, missing |-> FALSE, frame |-> doc.frame, body |-> pages[p],
                 bar |-> shells.private, wanted |-> p, mode |-> "options"]
      /\ drawer' \in {FALSE, drawer /\ Kept("private")}
  BY DEF Revisit
<1>2. doc.frame \in Users /\ pages[p] \in Users /\ shells.private \in Users /\ p \in Routes
  BY DEF ChromeTypes, Documents, Routes
<1>3. /\ doc' \in Documents /\ doc'.page = p /\ ~doc'.missing /\ doc'.frame = doc.frame
      /\ doc'.body = pages[p] /\ doc'.bar = shells.private /\ doc'.wanted = p /\ doc'.mode = "options"
  BY <1>1, <1>2 DEF Documents
<1>4. HasBar'
  BY <1>3 DEF HasBar
<1>5. drawer' \in BOOLEAN
  BY <1>1
<1>6. ChromeTypes'
  BY <1>1, <1>3, <1>5 DEF ChromeTypes
<1>7. PageIsGuarded'
  BY <1>1, <1>3, <1>4 DEF PageIsGuarded
<1>8. RouterIsCurrent'
  BY <1>1, <1>3, <1>4 DEF RouterIsCurrent
<1> QED
  BY <1>6, <1>7, <1>8

\* The steps that leave the page as it is: the login page's modes, the drawer, the layout
\* that is fetched ahead, and the requests to sign out.
LEMMA PageStaysInv ==
  ASSUME ChromeInv,
         Prefetch \/ SetMode \/ OpenDrawer \/ CloseDrawer \/ SignOut \/ LogoutFails \/ UNCHANGED chromeVars
  PROVE  ChromeInv'
<1> USE DEF ChromeInv
<1>1. CASE UNCHANGED chromeVars
  BY <1>1 DEF chromeVars, ChromeTypes, PageIsGuarded, RouterIsCurrent, HasBar
<1>2. CASE Prefetch
  <2>1. shells' = [shells EXCEPT !.private = session] /\ UNCHANGED <<session, doc, drawer, leaving, pages, stale>>
    BY <1>2 DEF Prefetch
  <2>2. shells \in [public : Users, private : Users] /\ session \in Users
    BY DEF ChromeTypes
  <2>3. shells' \in [public : Users, private : Users] /\ shells'.public = shells.public /\ shells'.private = session
    BY <2>1, <2>2
  <2> QED
    BY <2>1, <2>3 DEF ChromeTypes, PageIsGuarded, RouterIsCurrent, HasBar
<1>3. CASE SetMode
  <2>1. PICK m \in {"phone", "options"} : doc' = [doc EXCEPT !.mode = m]
    BY <1>3 DEF SetMode
  <2>2. UNCHANGED <<session, drawer, leaving, pages, shells, stale>> /\ doc.page = "login"
    BY <1>3 DEF SetMode
  <2>3. doc \in Documents
    BY DEF ChromeTypes
  <2>4. /\ doc' \in Documents /\ doc'.mode = m /\ doc'.page = doc.page /\ doc'.missing = doc.missing
        /\ doc'.frame = doc.frame /\ doc'.bar = doc.bar /\ doc'.body = doc.body /\ doc'.wanted = doc.wanted
    BY <2>1, <2>3 DEF Documents
  <2>5. HasBar' <=> HasBar
    BY <2>4 DEF HasBar
  <2> QED
    BY <2>2, <2>4, <2>5 DEF ChromeTypes, PageIsGuarded, RouterIsCurrent
<1>4. ASSUME OpenDrawer \/ CloseDrawer \/ SignOut \/ LogoutFails PROVE ChromeInv'
  <2>1. /\ UNCHANGED <<session, doc, pages, shells, stale>>
        /\ drawer' \in BOOLEAN /\ leaving' \in BOOLEAN /\ (drawer' => HasBar)
    <3>1. drawer \in BOOLEAN /\ leaving \in BOOLEAN /\ (drawer => HasBar)
      BY DEF ChromeTypes, PageIsGuarded
    <3>2. CASE OpenDrawer
      BY <3>1, <3>2 DEF OpenDrawer
    <3>3. CASE CloseDrawer
      BY <3>1, <3>3 DEF CloseDrawer
    <3>4. CASE SignOut
      BY <3>1, <3>4 DEF SignOut
    <3>5. CASE LogoutFails
      BY <3>1, <3>5 DEF LogoutFails
    <3> QED
      BY <1>4, <3>2, <3>3, <3>4, <3>5
  <2>2. HasBar' <=> HasBar
    BY <2>1 DEF HasBar
  <2> QED
    BY <2>1, <2>2 DEF ChromeTypes, PageIsGuarded, RouterIsCurrent
<1> QED
  BY <1>1, <1>2, <1>3, <1>4

\* Another tab signs in or out: this one's document is stale from then on.
LEMMA OtherTabInv ==
  ASSUME ChromeInv, NEW u \in Users, OtherTab(u)
  PROVE  ChromeInv'
<1>1. session' = u /\ stale' = TRUE /\ UNCHANGED <<doc, drawer, leaving, pages, shells>>
  BY DEF OtherTab
<1>2. HasBar' <=> HasBar
  BY <1>1 DEF HasBar
<1> QED
  BY <1>1, <1>2 DEF ChromeInv, ChromeTypes, PageIsGuarded, RouterIsCurrent

\* The invariant of the navigation, by action.
LEMMA ChromeInvIsInductive == ChromeInv /\ [ChromeNext]_chromeVars => ChromeInv'
<1> SUFFICES ASSUME ChromeInv, [ChromeNext]_chromeVars PROVE ChromeInv'
  OBVIOUS
<1>1. \A p \in Routes : Outcomes(p) \subseteq {"found", "lost", "late"}
  BY DEF Outcomes
<1> QED
  BY <1>1, FollowInv, RevisitInv, PageStaysInv, LogoutAnsweredInv, OtherTabInv DEF ChromeNext

\* It implies the types and that no page and no menu is somebody else's.
LEMMA ChromeInvImplies == ChromeInv => ChromeTypeOK /\ ChromeIsHonest
<1> SUFFICES ASSUME ChromeInv PROVE ChromeTypeOK /\ ChromeIsHonest
  OBVIOUS
<1> USE DEF ChromeInv
<1>1. ChromeTypeOK
  BY DEF ChromeTypes, PageIsGuarded, Documents, ChromeTypeOK
<1>2. doc.page \in Private /\ ~doc.missing => doc.body # Anonymous /\ (doc.page = "admin" => doc.body \in Admins)
  BY DEF PageIsGuarded
<1>3. ASSUME ~stale
      PROVE  /\ doc.frame = session /\ (HasBar => doc.bar = session)
             /\ doc.wanted # "any" => doc.page = doc.wanted /\ ~doc.missing
  BY <1>3 DEF RouterIsCurrent
<1>4. ASSUME ~stale, HasBar PROVE RailShown <=> ~TriggerOnDesktop
  BY <1>3, <1>4 DEF RailShown, TriggerOnDesktop
<1>5. TabBarShown <=> RailShown
  BY DEF TabBarShown, RailShown, IsAppRoute, IsPrimaryRoute
<1> QED
  BY <1>1, <1>2, <1>3, <1>4, <1>5 DEF ChromeIsHonest

\* The documents, the router's cache and the drawer keep their types.
THEOREM ChromeTypeCorrect == ChromeSpec => []ChromeTypeOK
<1>1. ChromeSpec => []ChromeInv
  BY ChromeInvInitially, ChromeInvIsInductive, PTL DEF ChromeSpec
<1> QED
  BY <1>1, ChromeInvImplies, PTL

\* The guards of the private pages (dashboard/layout.tsx, the pages' own reads and the
\* admin page's role check), and the navigation that app-frame.tsx, nav-bar.tsx and the
\* drawer show around them, for any people: nobody sees a private page without a session,
\* and a current document's navigation is for its user and leads nowhere else.
THEOREM NavigationIsHonest == ChromeSpec => []ChromeIsHonest
<1>1. ChromeSpec => []ChromeInv
  BY ChromeInvInitially, ChromeInvIsInductive, PTL DEF ChromeSpec
<1> QED
  BY <1>1, ChromeInvImplies, PTL

-----------------------------------------------------------------------------
(* The share form                                                          *)

USE DEF photoVars

FieldTexts == Shared \cup {Empty}
FormRecords ==
  [open : BOOLEAN, title : FieldTexts, link : FieldTexts, photo : Pictured \cup {Empty}]
Post == [pc : {"idle", "sent", "stored"}, cart : CartIds \cup {Empty}]

\* The types, as far as the rest needs them.
FormTypes ==
  /\ made \subseteq CartIds /\ copies \in Seq(CartIds)
  /\ form \in FormRecords
  /\ ToSet(cartList) \subseteq made /\ IsInjective(cartList) /\ cartList \in Seq(CartIds)
  /\ cartId \in CartIds \cup {Empty} /\ lastCart \in CartIds \cup {Empty} /\ added \in CartIds \cup {Empty}
  /\ submitted \in Post /\ creating \in Post
  /\ lost \in Nat /\ mishaps \in 0 .. MaxLost /\ sources \subseteq Shared
  /\ cartId = Empty <=> cartList = << >>
  /\ uploading \in Pictured \cup {Empty} /\ earlier \subseteq Pictured /\ late \subseteq Pictured

\* A POST is about a cart, the one of a new cart once it is made, and the page that
\* makes a cart has none yet.
PostsHaveCarts ==
  /\ submitted.pc # "idle" => submitted.cart # Empty
  /\ creating.pc = "stored" => creating.cart \in made
  /\ form.open /\ creating.pc # "idle" => cartList = << >>

\* One row is there for each answer that was lost, and one for the POST that is stored
\* or was answered; while "Added" is shown, nothing is on its way.
RowsAreAnswers ==
  form.open =>
    /\ added # Empty => submitted.pc = "idle" /\ added \in ToSet(copies)
    /\ submitted.pc = "stored" => submitted.cart \in ToSet(copies)
    /\ added = Empty /\ submitted.pc # "stored" => Len(copies) <= lost
    /\ Len(copies) <= 1 + lost

FieldsAreSources == form.open => {form.title, form.link} \subseteq sources \cup {Empty}

\* A picture is one of the product of this form, typed, chosen or on its way, or one that was
\* on its way when the form was emptied; and only a form has pictures on their way.
PicturesAreSources ==
  /\ form.open => form.photo \in sources \cup late \cup {Empty}
  /\ uploading \in sources \cup {Empty} /\ earlier \subseteq sources \cup late
  /\ uploading # Empty => form.open /\ added = Empty
  /\ earlier # {} => form.open

FormInv == FormTypes /\ PostsHaveCarts /\ RowsAreAnswers /\ FieldsAreSources /\ PicturesAreSources
-----------------------------------------------------------------------------
\* The carts in any order are a list of them without a double.
LEMMA ListsOfCarts ==
  ASSUME NEW S \in SUBSET CartIds, NEW list \in SetToSeqs(S)
  PROVE  list \in Seq(CartIds) /\ ToSet(list) \subseteq S /\ IsInjective(list)
<1>1. IsFiniteSet(S)
  BY FormAssumption, FS_Subset
<1>2. Cardinality(S) \in Nat
  BY <1>1, FS_CardinalityType
<1>3. list \in [1 .. Cardinality(S) -> S] /\ \A i, j \in 1 .. Cardinality(S) : i # j => list[i] # list[j]
  BY DEF SetToSeqs
<1>4. list \in Seq(S)
  BY <1>2, <1>3
<1>5. list \in Seq(CartIds)
  BY <1>4, SeqMonotonic
<1> QED
  BY <1>3, <1>5 DEF ToSet, IsInjective

\* No form, no cart and no product yet.
LEMMA FormInvInitially == FormInit => FormInv
<1> SUFFICES ASSUME FormInit PROVE FormInv
  OBVIOUS
<1> USE FormAssumption DEF FormInit, NoPost, Closed
<1>1. << >> \in Seq(CartIds) /\ ToSet(<< >>) = {} /\ IsInjective(<< >>) /\ Len(<< >>) = 0
  BY EmptySeq DEF ToSet, IsInjective
<1>2. FormTypes
  BY <1>1 DEF FormTypes, FieldTexts, FormRecords, Post
<1> QED
  BY <1>2 DEF FormInv, PostsHaveCarts, RowsAreAnswers, FieldsAreSources, PicturesAreSources
-----------------------------------------------------------------------------
\* The page starts over: no row, and the text it was opened with.
LEMMA OpenFormInv ==
  ASSUME FormInv, NEW p \in Shared, NEW linked \in BOOLEAN, NEW titled \in BOOLEAN, NEW ok \in BOOLEAN,
         OpenForm(p, linked, titled, ok)
  PROVE  FormInv'
<1> USE FormAssumption DEF OpenForm, Settled
<1>1. << >> \in Seq(CartIds) /\ ToSet(<< >>) = {} /\ IsInjective(<< >>) /\ Len(<< >>) = 0
  BY EmptySeq DEF ToSet, IsInjective
<1>2. cartList' \in Seq(CartIds) /\ ToSet(cartList') \subseteq made /\ IsInjective(cartList')
  <2>1. CASE ok
    BY <2>1, ListsOfCarts DEF FormInv, FormTypes
  <2>2. CASE ~ok
    BY <2>2, <1>1
  <2> QED
    BY <2>1, <2>2
<1>3. cartId' \in CartIds \cup {Empty} /\ (cartId' = Empty <=> cartList' = << >>)
  <2>1. CASE lastCart \in ToSet(cartList')
    <3>1. cartList' # << >>
      BY <2>1, <1>1
    <3> QED
      BY <2>1, <3>1, <1>2 DEF FormInv, FormTypes
  <2>2. CASE lastCart \notin ToSet(cartList') /\ cartList' = << >>
    BY <2>2
  <2>3. CASE lastCart \notin ToSet(cartList') /\ cartList' # << >>
    <3>1. Head(cartList') \in CartIds
      BY <2>3, <1>2, HeadTailProperties
    <3> QED
      BY <2>3, <3>1
  <2> QED
    BY <2>1, <2>2, <2>3
<1>4. /\ form' \in FormRecords
      /\ {form'.title, form'.link} \subseteq {p, Empty} /\ form'.photo = Empty
  BY DEF Found, FieldTexts, FormRecords
<1>5. mishaps' \in 0 .. MaxLost
  BY DEF FormInv, FormTypes, Mishap
<1>6. FormTypes'
  BY <1>1, <1>2, <1>3, <1>4, <1>5 DEF FormInv, FormTypes, Post
<1> QED
  BY <1>1, <1>4, <1>6 DEF FormInv, FormTypes, Post, PostsHaveCarts, RowsAreAnswers, FieldsAreSources, PicturesAreSources

\* What is pasted is a source of the fields it fills.
LEMMA ApplyPastedInv ==
  ASSUME FormInv, NEW p \in Shared, NEW linked \in BOOLEAN, NEW titled \in BOOLEAN,
         ApplyPasted(p, linked, titled)
  PROVE  FormInv'
<1> USE DEF ApplyPasted
<1>1. /\ form' \in FormRecords
      /\ form'.open = form.open
      /\ {form'.title, form'.link} \subseteq {form.title, form.link, p} /\ form'.photo = form.photo
  BY DEF FormInv, FormTypes, Found, FieldTexts, FormRecords
<1>2. FormTypes'
  BY <1>1 DEF FormInv, FormTypes
<1> QED
  BY <1>1, <1>2 DEF FormInv, PostsHaveCarts, RowsAreAnswers, FieldsAreSources, PicturesAreSources

\* Picking a cart changes where the next product goes.
LEMMA PickCartInv ==
  ASSUME FormInv, NEW c \in CartIds, PickCart(c)
  PROVE  FormInv'
<1>1. FormTypes'
  <2>1. c # Empty /\ cartList # << >>
    BY FormAssumption DEF PickCart, ToSet
  <2> QED
    BY <2>1 DEF PickCart, FormInv, FormTypes
<1> QED
  BY <1>1 DEF PickCart, FormInv, PostsHaveCarts, RowsAreAnswers, FieldsAreSources, PicturesAreSources

\* A picture is typed, or its upload begins: it is a source from then on.
LEMMA ChoosePhotoInv ==
  ASSUME FormInv, NEW p \in Pictured, TypePhoto(p) \/ AddPhoto(p)
  PROVE  FormInv'
<1> USE DEF TypePhoto, AddPhoto
<1>1. /\ form' \in FormRecords /\ form'.open = form.open /\ form.open
      /\ form'.title = form.title /\ form'.link = form.link /\ form'.photo \in {form.photo, p}
  BY DEF FormInv, FormTypes, FormRecords
<1>2. p \in Shared /\ p # Empty /\ added = Empty
  BY FormAssumption DEF FormView
<1>3. FormTypes'
  BY <1>1, <1>2 DEF FormInv, FormTypes
<1>4. PicturesAreSources'
  BY <1>1, <1>2 DEF FormInv, PicturesAreSources
<1> QED
  BY <1>1, <1>3, <1>4 DEF FormInv, PostsHaveCarts, RowsAreAnswers, FieldsAreSources

\* An upload ends: its picture is a source, or one that came late.
LEMMA UploadEndsInv ==
  ASSUME FormInv, NEW p \in Pictured, PhotoUploaded(p) \/ PhotoFails(p)
  PROVE  FormInv'
<1> USE DEF PhotoUploaded, PhotoFails
<1>1. /\ form' \in FormRecords /\ form'.open = form.open
      /\ form'.title = form.title /\ form'.link = form.link /\ form'.photo \in {form.photo, p}
  BY DEF FormInv, FormTypes, FormRecords
<1>2. /\ p # Empty /\ (p = uploading \/ p \in earlier)
      /\ uploading' \in {uploading, Empty} /\ earlier' \subseteq earlier
      /\ UNCHANGED <<made, copies, cartList, cartId, lastCart, added, late, submitted, creating, sources,
                     lost, mishaps>>
  BY FormAssumption DEF UploadEnds
<1>3. FormTypes'
  BY <1>1, <1>2 DEF FormInv, FormTypes
<1>4. PicturesAreSources'
  BY <1>1, <1>2 DEF FormInv, PicturesAreSources
<1> QED
  BY <1>1, <1>2, <1>3, <1>4 DEF FormInv, PostsHaveCarts, RowsAreAnswers, FieldsAreSources
-----------------------------------------------------------------------------
\* submit: as long as "Added" is not shown and nothing is on its way, there is no row
\* without a lost answer.
LEMMA SubmitInv ==
  ASSUME FormInv, Submit
  PROVE  FormInv'
<1>1. added = Empty /\ submitted.pc = "idle"
  BY DEF Submit, FormView, Busy
<1>2. submitted' \in Post /\ submitted'.pc = "sent" /\ submitted'.cart # Empty
  BY DEF Submit, FormInv, FormTypes, Post
<1>3. FormTypes'
  BY <1>2 DEF Submit, FormInv, FormTypes
<1> QED
  BY <1>1, <1>2, <1>3 DEF Submit, FormInv, PostsHaveCarts, RowsAreAnswers, FieldsAreSources, PicturesAreSources

\* The server stores the product of the POST under way.
LEMMA StoreInv ==
  ASSUME FormInv, Store
  PROVE  FormInv'
<1>1. submitted.pc = "sent" /\ submitted.cart \in CartIds
  BY DEF Store, FormInv, FormTypes, PostsHaveCarts, Post
<1>2. submitted' \in Post /\ submitted'.pc = "stored" /\ submitted'.cart = submitted.cart
  BY DEF Store, FormInv, FormTypes, Post
<1>3. /\ copies' \in Seq(CartIds) /\ Len(copies') = Len(copies) + 1 /\ Len(copies) \in Nat
      /\ submitted.cart \in ToSet(copies')
  <2>1. copies' = Append(copies, submitted.cart) /\ copies \in Seq(CartIds)
    BY DEF Store, FormInv, FormTypes
  <2>2. /\ copies' \in Seq(CartIds) /\ Len(copies') = Len(copies) + 1
        /\ copies'[Len(copies) + 1] = submitted.cart /\ Len(copies) \in Nat
    BY <1>1, <2>1, AppendProperties, LenProperties
  <2>3. DOMAIN copies' = 1 .. Len(copies')
    BY <2>2, LenProperties
  <2> QED
    BY <2>2, <2>3 DEF ToSet
<1>4. FormTypes'
  BY <1>2, <1>3 DEF Store, FormInv, FormTypes
<1>5. RowsAreAnswers'
  <2>1. form' = form /\ added' = added /\ lost' = lost /\ lost \in Nat
    BY DEF Store, FormInv, FormTypes
  <2> QED
    BY <1>1, <1>2, <1>3, <2>1 DEF FormInv, RowsAreAnswers
<1> QED
  BY <1>1, <1>2, <1>4, <1>5, FormAssumption DEF Store, FormInv, PostsHaveCarts, FieldsAreSources, PicturesAreSources

\* The answer: "Added", for the cart that has the row.
LEMMA SubmitAnsweredInv ==
  ASSUME FormInv, SubmitAnswered
  PROVE  FormInv'
<1>1. submitted' \in Post /\ submitted'.pc = "idle"
  BY DEF SubmitAnswered, NoPost, Post
<1>2. FormTypes'
  BY <1>1 DEF SubmitAnswered, FormInv, FormTypes, Post
<1> QED
  BY <1>1, <1>2 DEF SubmitAnswered, FormInv, FormTypes, PostsHaveCarts, RowsAreAnswers, FieldsAreSources, PicturesAreSources

\* No answer: the row that may be there is counted as lost.
LEMMA SubmitFailsInv ==
  ASSUME FormInv, SubmitFails
  PROVE  FormInv'
<1>1. submitted' \in Post /\ submitted'.pc = "idle"
  BY DEF SubmitFails, NoPost, Post
<1>2. lost' \in Nat /\ mishaps' \in 0 .. MaxLost
  BY FormAssumption DEF SubmitFails, FormInv, FormTypes, Mishap
<1>3. FormTypes'
  BY <1>1, <1>2 DEF SubmitFails, FormInv, FormTypes
<1>4. RowsAreAnswers'
  <2>1. Len(copies) \in Nat /\ lost \in Nat
    BY LenProperties DEF FormInv, FormTypes
  <2>2. form.open => added = Empty
    BY DEF SubmitFails, FormInv, RowsAreAnswers
  <2> QED
    BY <1>1, <2>1, <2>2 DEF SubmitFails, FormInv, RowsAreAnswers
<1> QED
  BY <1>1, <1>3, <1>4 DEF SubmitFails, FormInv, PostsHaveCarts, FieldsAreSources, PicturesAreSources

\* "Add another": nothing is on its way, so the next product starts without a row.
LEMMA AddAnotherInv ==
  ASSUME FormInv, AddAnother
  PROVE  FormInv'
<1> USE DEF AddAnother
<1>1. << >> \in Seq(CartIds) /\ Len(<< >>) = 0
  BY EmptySeq
<1>2. /\ form' \in FormRecords
      /\ form'.open = form.open /\ form'.title = Empty /\ form'.link = Empty
      /\ form'.photo = Empty
  BY DEF FormInv, FormTypes, FieldTexts, FormRecords
<1>3. FormTypes'
  BY <1>1, <1>2 DEF FormInv, FormTypes
<1>4. submitted.pc = "idle"
  BY DEF FormView, FormInv, RowsAreAnswers
<1>5. PicturesAreSources'
  <2>1. uploading = Empty
    BY DEF FormView, FormInv, PicturesAreSources
  <2> QED
    BY <1>2, <2>1 DEF FormInv, PicturesAreSources
<1> QED
  BY <1>1, <1>2, <1>3, <1>4, <1>5 DEF FormInv, FormTypes, PostsHaveCarts, RowsAreAnswers, FieldsAreSources
-----------------------------------------------------------------------------
\* makeCart is on the page without carts.
LEMMA MakeCartInv ==
  ASSUME FormInv, MakeCart
  PROVE  FormInv'
<1>1. cartList = << >>
  BY DEF MakeCart, FormView
<1>2. creating' \in Post /\ creating'.pc = "sent"
  BY DEF MakeCart, Post
<1>3. FormTypes'
  BY <1>2 DEF MakeCart, FormInv, FormTypes
<1> QED
  BY <1>1, <1>2, <1>3 DEF MakeCart, FormInv, PostsHaveCarts, RowsAreAnswers, FieldsAreSources, PicturesAreSources

\* The server makes the cart of the POST under way.
LEMMA CreateOnServerInv ==
  ASSUME FormInv, NEW c \in CartIds, CreateOnServer(c)
  PROVE  FormInv'
<1>1. creating.pc = "sent" /\ creating' \in Post /\ creating'.pc = "stored" /\ creating'.cart = c
  BY DEF CreateOnServer, Post
<1>2. FormTypes'
  BY <1>1 DEF CreateOnServer, FormInv, FormTypes
<1> QED
  BY <1>1, <1>2 DEF CreateOnServer, FormInv, PostsHaveCarts, RowsAreAnswers, FieldsAreSources, PicturesAreSources

\* The new cart is the only one the form knows.
LEMMA CreateAnsweredInv ==
  ASSUME FormInv, CreateAnswered
  PROVE  FormInv'
<1> USE DEF CreateAnswered
<1>1. creating' \in Post /\ creating'.pc = "idle"
  BY DEF NoPost, Post
<1>2. creating.cart \in made /\ creating.cart \in CartIds
  BY DEF FormInv, FormTypes, PostsHaveCarts
<1>3. CASE form.open
  <2>1. cartList' = <<creating.cart>> /\ cartId' = creating.cart
    <3>1. cartList = << >> /\ <<creating.cart>> \in Seq(CartIds)
      BY <1>2, <1>3 DEF FormInv, PostsHaveCarts
    <3> QED
      BY <1>3, <3>1, ConcatEmptySeq DEF CartAfterMake
  <2>2. /\ cartList' \in Seq(CartIds) /\ ToSet(cartList') = {creating.cart} /\ IsInjective(cartList')
        /\ cartList' # << >> /\ cartId' # Empty
    BY <1>2, <2>1, FormAssumption DEF ToSet, IsInjective
  <2>3. FormTypes'
    BY <1>1, <1>2, <2>1, <2>2 DEF FormInv, FormTypes
  <2> QED
    BY <1>1, <2>3 DEF FormInv, PostsHaveCarts, RowsAreAnswers, FieldsAreSources, PicturesAreSources
<1>4. CASE ~form.open
  <2>1. FormTypes'
    BY <1>1, <1>4 DEF FormInv, FormTypes
  <2> QED
    BY <1>1, <1>4, <2>1 DEF FormInv, PostsHaveCarts, RowsAreAnswers, FieldsAreSources, PicturesAreSources
<1> QED
  BY <1>3, <1>4

\* The POST of a cart fails, or its answer is lost after the cart was made.
LEMMA CreateFailsInv ==
  ASSUME FormInv, CreateFails
  PROVE  FormInv'
<1>1. creating' \in Post /\ creating'.pc = "idle"
  BY DEF CreateFails, NoPost, Post
<1>2. mishaps' \in 0 .. MaxLost
  BY FormAssumption DEF CreateFails, FormInv, FormTypes, Mishap
<1>3. FormTypes'
  BY <1>1, <1>2 DEF CreateFails, FormInv, FormTypes
<1> QED
  BY <1>1, <1>3 DEF CreateFails, FormInv, PostsHaveCarts, RowsAreAnswers, FieldsAreSources, PicturesAreSources

\* Leaving the form begins a new count; what is on its way runs on.
LEMMA LeaveFormInv ==
  ASSUME FormInv, LeaveForm
  PROVE  FormInv'
<1>1. << >> \in Seq(CartIds) /\ ToSet(<< >>) = {} /\ IsInjective(<< >>)
  BY EmptySeq DEF ToSet, IsInjective
<1>2. form' \in FormRecords /\ ~form'.open
  BY DEF LeaveForm, Closed, FieldTexts, FormRecords
<1>3. FormTypes'
  BY <1>1, <1>2 DEF LeaveForm, FormInv, FormTypes
<1> QED
  BY <1>2, <1>3 DEF LeaveForm, FormInv, PostsHaveCarts, RowsAreAnswers, FieldsAreSources, PicturesAreSources
-----------------------------------------------------------------------------
\* The invariant of the share form, by action.
LEMMA FormInvIsInductive == FormInv /\ [FormNext]_formVars => FormInv'
<1> SUFFICES ASSUME FormInv, [FormNext]_formVars PROVE FormInv'
  OBVIOUS
<1>1. CASE UNCHANGED formVars
  BY <1>1 DEF formVars, photoVars, FormInv, FormTypes, PostsHaveCarts, RowsAreAnswers, FieldsAreSources, PicturesAreSources
<1>2. CASE FormNext
  BY <1>2, OpenFormInv, ApplyPastedInv, PickCartInv, ChoosePhotoInv, UploadEndsInv, SubmitInv, StoreInv, SubmitAnsweredInv, SubmitFailsInv,
     AddAnotherInv, MakeCartInv, CreateOnServerInv, CreateAnsweredInv, CreateFailsInv, LeaveFormInv
     DEF FormNext
<1> QED
  BY <1>1, <1>2

\* It implies the types and that a product is added once.
LEMMA FormInvImplies == FormInv => FormTypeOK /\ AddedOnce
<1> SUFFICES ASSUME FormInv PROVE FormTypeOK /\ AddedOnce
  OBVIOUS
<1>1. FormTypeOK
  BY DEF FormInv, FormTypes, FormTypeOK, FieldTexts, FormRecords, Post
<1>2. AddedOnce
  BY DEF FormInv, RowsAreAnswers, FieldsAreSources, PicturesAreSources, AddedOnce
<1> QED
  BY <1>1, <1>2

\* The types of the share form.
THEOREM FormTypeCorrect == FormSpec => []FormTypeOK
<1> QED
  BY FormInvInitially, FormInvIsInductive, FormInvImplies, PTL DEF FormSpec

\* "Added" is shown for a cart that has the product, which is there once, and once more for
\* each lost answer that was tried again (submit); what is submitted comes from what was
\* shared, pasted, typed or picked since the form was empty (addAnother), except for a photo
\* whose upload was still under way then (onUploaded).
THEOREM ProductsAreAddedOnce == FormSpec => []AddedOnce
<1> QED
  BY FormInvInitially, FormInvIsInductive, FormInvImplies, PTL DEF FormSpec

HIDE DEF photoVars
-----------------------------------------------------------------------------
(* The feedback form                                                       *)

LetterMessages == Messages \cup {NoMessage}

FeedbackTypes ==
  /\ letter \in [message : LetterMessages, trap : BOOLEAN, state : {"idle", "loading", "success", "error"}]
  /\ sending \in [pc : {"idle", "sent", "done", "error"}, message : LetterMessages, trap : BOOLEAN]
  /\ feedback \in Seq(Messages \ Torn)
  /\ inbox.view \in {"closed", "list", "forbidden", "error"} /\ Len(inbox.items) <= InboxLimit
  /\ sends \in 0 .. MaxSends /\ heard \in Nat /\ unheard \in Nat /\ mails \in Nat /\ mailed \in Nat

\* While the form says "Sending", and only then, its letter is on the way: with a message,
\* and not past a hidden field that is filled on the page no more.
LetterIsSending ==
  /\ letter.state = "loading" <=> sending.pc # "idle"
  /\ sending.pc # "idle" => sending.message # NoMessage /\ (sending.trap => letter.trap)
  /\ sending.pc = "done" => heard > 0 \/ sending.trap

\* Each row of this form is about a letter whose answer is still to come, has come, or
\* was lost; and each row of the table about one of the requests.
RowsAreLetters ==
  /\ sending.pc # "done" /\ letter.state # "success" => heard <= unheard
  /\ Len(feedback) <= sends
  /\ sending.pc = "sent" => Len(feedback) < sends

FeedbackInv == FeedbackTypes /\ LetterIsSending /\ RowsAreLetters /\ FeedbackHeardOnce
-----------------------------------------------------------------------------
\* An empty form, an empty table and an inbox nobody opened.
LEMMA FeedbackInvInitially == FeedbackInit => FeedbackInv
<1> SUFFICES ASSUME FeedbackInit PROVE FeedbackInv
  OBVIOUS
<1> USE FeedbackAssumption DEF FeedbackInit, BlankLetter, NotSending, ClosedInbox
<1>1. << >> \in Seq(Messages \ Torn) /\ Len(<< >>) = 0
  BY EmptySeq
<1>2. FeedbackTypes
  BY <1>1 DEF FeedbackTypes, LetterMessages
<1> QED
  BY <1>1, <1>2 DEF FeedbackInv, LetterIsSending, RowsAreLetters, FeedbackHeardOnce

\* What is written, or filled in for the visitor, is not what is on the way.
LEMMA WritingInv ==
  ASSUME FeedbackInv, FillTrap \/ \E m \in LetterMessages : Write(m)
  PROVE  FeedbackInv'
<1>1. /\ letter' \in [message : LetterMessages, trap : BOOLEAN, state : {"idle", "loading", "success", "error"}]
      /\ letter'.state = letter.state /\ (letter.trap => letter'.trap)
  BY DEF Write, FillTrap, FeedbackInv, FeedbackTypes
<1>2. UNCHANGED <<sending, feedback, mails, mailed, inbox, sends, heard, unheard>>
  BY DEF Write, FillTrap
<1>3. FeedbackTypes'
  BY <1>1, <1>2 DEF FeedbackInv, FeedbackTypes
<1> QED
  BY <1>1, <1>2, <1>3 DEF FeedbackInv, LetterIsSending, RowsAreLetters, FeedbackHeardOnce

\* handleSubmit: no row without a lost answer, as "thanks" has no way back.
LEMMA HandleSubmitInv ==
  ASSUME FeedbackInv, HandleSubmit
  PROVE  FeedbackInv'
<1>1. letter.state \notin {"success", "loading"} /\ letter.message # NoMessage
  BY DEF HandleSubmit, Sendable, FormControls
<1>2. /\ letter' \in [message : LetterMessages, trap : BOOLEAN, state : {"idle", "loading", "success", "error"}]
      /\ letter'.state = "loading" /\ letter'.trap = letter.trap
  BY DEF HandleSubmit, FeedbackInv, FeedbackTypes
<1>3. /\ sending' \in [pc : {"idle", "sent", "done", "error"}, message : LetterMessages, trap : BOOLEAN]
      /\ sending'.pc = "sent" /\ sending'.message = letter.message /\ sending'.trap = letter.trap
  BY DEF HandleSubmit, FeedbackInv, FeedbackTypes
<1>4. sends' = sends + 1 /\ sends' \in 0 .. MaxSends /\ sends \in Nat
  BY FeedbackAssumption DEF HandleSubmit, FeedbackInv, FeedbackTypes
<1>5. UNCHANGED <<feedback, mails, mailed, inbox, heard, unheard>>
  BY DEF HandleSubmit
<1>6. FeedbackTypes'
  BY <1>2, <1>3, <1>4, <1>5 DEF FeedbackInv, FeedbackTypes
<1>7. Len(feedback) \in Nat
  BY LenProperties DEF FeedbackInv, FeedbackTypes
<1>8. RowsAreLetters'
  BY <1>1, <1>3, <1>4, <1>5, <1>7 DEF FeedbackInv, LetterIsSending, RowsAreLetters
<1> QED
  BY <1>1, <1>2, <1>3, <1>5, <1>6, <1>8 DEF FeedbackInv, LetterIsSending, FeedbackHeardOnce

\* Handler: one row and one goroutine, or none of both.
LEMMA HandlerInv ==
  ASSUME FeedbackInv, Handler
  PROVE  FeedbackInv'
<1>1. sending.pc = "sent" /\ letter.state = "loading" /\ heard <= unheard /\ Len(feedback) < sends
  BY DEF Handler, FeedbackInv, LetterIsSending, RowsAreLetters
<1>2. UNCHANGED <<letter, mailed, inbox, sends, unheard>>
  BY DEF Handler
<1>3. /\ sending' \in [pc : {"idle", "sent", "done", "error"}, message : LetterMessages, trap : BOOLEAN]
      /\ sending'.pc \in {"done", "error"} /\ sending'.message = sending.message
      /\ sending'.trap = sending.trap
  BY DEF Handler, FeedbackInv, FeedbackTypes
<1>4. Len(feedback) \in Nat /\ sends \in Nat /\ heard \in Nat /\ unheard \in Nat /\ mails \in Nat /\ mailed \in Nat
  BY LenProperties DEF FeedbackInv, FeedbackTypes
<1>5. \/ /\ sending'.pc = "error" \/ sending.trap
         /\ UNCHANGED <<feedback, mails, heard>>
      \/ /\ sending'.pc = "done"
         /\ feedback' = <<sending.message>> \o feedback /\ sending.message \notin Torn
         /\ mails' = mails + 1 /\ heard' = heard + 1
  BY DEF Handler, FeedbackInv, FeedbackTypes
<1>6. CASE UNCHANGED <<feedback, mails, heard>> /\ (sending'.pc = "error" \/ sending.trap)
  <2>1. FeedbackTypes'
    BY <1>2, <1>3, <1>6 DEF FeedbackInv, FeedbackTypes
  <2>2. LetterIsSending' /\ RowsAreLetters'
    BY <1>1, <1>2, <1>3, <1>4, <1>6 DEF FeedbackInv, LetterIsSending, RowsAreLetters
  <2> QED
    BY <1>1, <1>2, <1>6, <2>1, <2>2 DEF FeedbackInv, FeedbackHeardOnce
<1>7. CASE /\ sending'.pc = "done"
           /\ feedback' = <<sending.message>> \o feedback /\ sending.message \notin Torn
           /\ mails' = mails + 1 /\ heard' = heard + 1
  <2>1. sending.message \in Messages \ Torn
    BY <1>1, <1>7 DEF FeedbackInv, FeedbackTypes, LetterIsSending, LetterMessages
  <2>2. <<sending.message>> \in Seq(Messages \ Torn) /\ Len(<<sending.message>>) = 1
    BY <2>1
  <2>3. feedback' \in Seq(Messages \ Torn) /\ Len(feedback') = 1 + Len(feedback)
    <3>1. feedback \in Seq(Messages \ Torn)
      BY DEF FeedbackInv, FeedbackTypes
    <3> QED
      BY <1>7, <2>2, <3>1, ConcatProperties
  <2>4. FeedbackTypes'
    BY <1>2, <1>3, <1>4, <1>7, <2>3 DEF FeedbackInv, FeedbackTypes
  <2>5. LetterIsSending' /\ RowsAreLetters'
    BY <1>1, <1>2, <1>3, <1>4, <1>7, <2>3 DEF FeedbackInv, LetterIsSending, RowsAreLetters
  <2>6. FeedbackHeardOnce'
    BY <1>1, <1>2, <1>4, <1>7, <2>3 DEF FeedbackInv, FeedbackHeardOnce
  <2> QED
    BY <2>4, <2>5, <2>6 DEF FeedbackInv
<1> QED
  BY <1>5, <1>6, <1>7

\* The answer, or none: in the second case a stored row is one more that was not heard of.
LEMMA FeedbackEndsInv ==
  ASSUME FeedbackInv, FeedbackAnswered \/ FeedbackFails
  PROVE  FeedbackInv'
<1>1. /\ sending.pc # "idle" /\ letter.state = "loading" /\ sending' = NotSending
      /\ UNCHANGED <<feedback, mails, mailed, inbox, sends, heard>>
  BY DEF FeedbackAnswered, FeedbackFails, FeedbackInv, LetterIsSending
<1>2. /\ letter' \in [message : LetterMessages, trap : BOOLEAN, state : {"idle", "loading", "success", "error"}]
      /\ letter'.state \in {"success", "error"} /\ letter'.trap = letter.trap
      /\ letter'.state = "success" => sending.pc = "done"
  BY DEF FeedbackAnswered, FeedbackFails, FeedbackInv, FeedbackTypes
<1>3. /\ sending' \in [pc : {"idle", "sent", "done", "error"}, message : LetterMessages, trap : BOOLEAN]
      /\ sending'.pc = "idle"
  BY <1>1 DEF NotSending, LetterMessages
<1>4. heard \in Nat /\ unheard \in Nat
  BY DEF FeedbackInv, FeedbackTypes
<1>5. /\ unheard' \in Nat /\ unheard' >= unheard
      /\ letter'.state = "success" \/ heard <= unheard'
  BY <1>2, <1>4 DEF FeedbackAnswered, FeedbackFails, FeedbackInv, FeedbackTypes, FeedbackHeardOnce, RowsAreLetters, LetterIsSending
<1>6. FeedbackTypes'
  BY <1>1, <1>2, <1>3, <1>5 DEF FeedbackInv, FeedbackTypes
<1>7. LetterIsSending' /\ RowsAreLetters'
  BY <1>1, <1>2, <1>3, <1>5 DEF FeedbackInv, LetterIsSending, RowsAreLetters
<1>8. FeedbackHeardOnce'
  <2>1. letter'.state = "success" => heard' > 0 \/ letter'.trap
    BY <1>1, <1>2 DEF FeedbackInv, LetterIsSending
  <2>2. heard' <= 1 + unheard'
    <3>1. heard' = heard /\ heard' \in Nat
      BY <1>1, <1>4
    <3>2. heard <= 1 + unheard
      BY DEF FeedbackInv, FeedbackHeardOnce
    <3>3. unheard' \in Nat /\ unheard' >= unheard
      BY <1>5
    <3>4. \A a, b, c \in Nat : a <= 1 + b /\ c >= b => a <= 1 + c
      OBVIOUS
    <3> QED
      BY <3>1, <3>2, <3>3, <3>4, <1>4
  <2>3. mails' + mailed' <= Len(feedback')
    BY <1>1 DEF FeedbackInv, FeedbackHeardOnce
  <2> QED
    BY <2>1, <2>2, <2>3 DEF FeedbackHeardOnce
<1> QED
  BY <1>6, <1>7, <1>8 DEF FeedbackInv

\* A form that is opened again has no row.
LEMMA LeaveFeedbackInv ==
  ASSUME FeedbackInv, LeaveFeedback
  PROVE  FeedbackInv'
<1>1. FeedbackTypes'
  BY DEF LeaveFeedback, BlankLetter, LetterMessages, FeedbackInv, FeedbackTypes
<1> QED
  BY <1>1 DEF LeaveFeedback, BlankLetter, FeedbackInv, FeedbackTypes, LetterIsSending, RowsAreLetters, FeedbackHeardOnce

\* A goroutine ends with one mail or none, and the inbox reads.
LEMMA SendMailInv ==
  ASSUME FeedbackInv, SendMail
  PROVE  FeedbackInv'
<1>1. mails \in Nat /\ mailed \in Nat /\ mails > 0 /\ mails' = mails - 1
  BY DEF SendMail, FeedbackInv, FeedbackTypes
<1>2. mailed' = mailed \/ mailed' = mailed + 1
  BY DEF SendMail
<1>3. mails' \in Nat /\ mailed' \in Nat /\ mails' + mailed' <= mails + mailed
  BY <1>1, <1>2
<1>4. FeedbackTypes'
  BY <1>3 DEF SendMail, FeedbackInv, FeedbackTypes
<1>5. Len(feedback) \in Nat
  BY LenProperties DEF FeedbackInv, FeedbackTypes
<1> QED
  BY <1>1, <1>3, <1>4, <1>5 DEF SendMail, FeedbackInv, LetterIsSending, RowsAreLetters, FeedbackHeardOnce

\* The inbox only reads.
LEMMA FeedbackInboxPageInv ==
  ASSUME FeedbackInv, NEW admin \in BOOLEAN, NEW ok \in BOOLEAN, FeedbackInboxPage(admin, ok)
  PROVE  FeedbackInv'
<1>1. Len(feedback) \in Nat /\ feedback \in Seq(Messages \ Torn)
  BY LenProperties DEF FeedbackInv, FeedbackTypes
<1>2. ASSUME NEW n \in 0 .. Len(feedback)
      PROVE  Len(SubSeq(feedback, 1, n)) = n
  <2>1. n \in Int /\ \A i \in 1 .. n : feedback[i] \in Messages \ Torn
    BY <1>1, ElementOfSeq
  <2> QED
    BY <1>1, <2>1, SubSeqProperties
<1>3. inbox'.view \in {"closed", "list", "forbidden", "error"} /\ Len(inbox'.items) <= InboxLimit
  <2>1. CASE ok /\ admin
    <3> DEFINE n == IF Len(feedback) < InboxLimit THEN Len(feedback) ELSE InboxLimit
    <3>1. n \in 0 .. Len(feedback) /\ n <= InboxLimit
      BY <1>1, FeedbackAssumption
    <3>2. inbox' = [view |-> "list", items |-> SubSeq(feedback, 1, n)]
      BY <2>1 DEF FeedbackInboxPage
    <3> HIDE DEF n
    <3> QED
      BY <1>2, <3>1, <3>2
  <2>2. CASE ~(ok /\ admin)
    <3>1. inbox'.view \in {"forbidden", "error"} /\ inbox'.items = << >>
      BY <2>2 DEF FeedbackInboxPage
    <3>2. Len(<< >>) = 0
      BY EmptySeq
    <3> QED
      BY <3>1, <3>2, FeedbackAssumption
  <2> QED
    BY <2>1, <2>2
<1>4. FeedbackTypes'
  BY <1>3 DEF FeedbackInboxPage, FeedbackInv, FeedbackTypes
<1> QED
  BY <1>4 DEF FeedbackInboxPage, FeedbackInv, LetterIsSending, RowsAreLetters, FeedbackHeardOnce
-----------------------------------------------------------------------------
\* The invariant of the feedback form, by action.
LEMMA FeedbackInvIsInductive == FeedbackInv /\ [FeedbackNext]_feedbackVars => FeedbackInv'
<1> SUFFICES ASSUME FeedbackInv, [FeedbackNext]_feedbackVars PROVE FeedbackInv'
  OBVIOUS
<1>1. CASE UNCHANGED feedbackVars
  BY <1>1 DEF feedbackVars, FeedbackInv, FeedbackTypes, LetterIsSending, RowsAreLetters, FeedbackHeardOnce
<1>2. CASE FeedbackNext
  BY <1>2, WritingInv, HandleSubmitInv, HandlerInv, FeedbackEndsInv, LeaveFeedbackInv, SendMailInv, FeedbackInboxPageInv
     DEF FeedbackNext, LetterMessages
<1> QED
  BY <1>1, <1>2

\* It implies the types and that what is thanked for is stored once.
LEMMA FeedbackInvImplies == FeedbackInv => FeedbackTypeOK /\ FeedbackHeardOnce
<1> SUFFICES ASSUME FeedbackInv PROVE FeedbackTypeOK /\ FeedbackHeardOnce
  OBVIOUS
<1>1. FeedbackTypeOK
  BY DEF FeedbackInv, FeedbackTypes, RowsAreLetters, FeedbackTypeOK, LetterMessages
<1> QED
  BY <1>1 DEF FeedbackInv

\* The types of the feedback form.
THEOREM FeedbackTypeCorrect == FeedbackSpec => []FeedbackTypeOK
<1> QED
  BY FeedbackInvInitially, FeedbackInvIsInductive, FeedbackInvImplies, PTL DEF FeedbackSpec

\* "Thanks" is said for a stored message, unless the hidden field was filled; it is stored
\* once, and once more for each lost answer that was tried again; and there is at most one
\* mail for each row.
THEOREM FeedbackIsHeardOnce == FeedbackSpec => []FeedbackHeardOnce
<1> QED
  BY FeedbackInvInitially, FeedbackInvIsInductive, FeedbackInvImplies, PTL DEF FeedbackSpec
=============================================================================
