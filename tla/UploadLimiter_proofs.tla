----------------------- MODULE UploadLimiter_proofs -----------------------
(* Proofs about UploadLimiter, for every number of users and requests, every *)
(* limit and every window.                                                   *)
EXTENDS UploadLimiter, TLAPS

\* What INCR and EXPIRE establish together: a counter without a time to live has
\* at most one request that is about to set it, and the counter is never behind
\* the number of uploads it has let through.
StartsOnce ==
  \A r \in Requests : req[r].pc = "expire" =>
    /\ req[r].user \in Users
    /\ count[req[r].user] > 0
    /\ ttl[req[r].user] = None
    /\ \A q \in Requests \ {r} : req[q].pc = "expire" => req[q].user # req[r].user

InRequest == \A r \in Requests : req[r].pc # "idle" => req[r].user \in Users

CountsAllowed == \A u \in Users : allowed[u] <= count[u] /\ allowed[u] <= Max

IInv == TypeOK /\ InRequest /\ StartsOnce /\ CountsAllowed

\* The state before the first request satisfies the invariant.
LEMMA InitInv == Init => IInv
BY ConstantsAssumption DEF Init, IInv, TypeOK, InRequest, StartsOnce, CountsAllowed, Idle, PCs, Ceiling

\* A new request has not touched the counters.
LEMMA StartInv ==
  ASSUME IInv, NEW r \in Requests, NEW u \in Users, Start(r, u)
  PROVE  IInv'
BY ConstantsAssumption
   DEF Start, IInv, TypeOK, InRequest, StartsOnce, CountsAllowed, Idle, PCs, Ceiling

\* INCR gives 1 only when there was no key: no other request is to start its window.
LEMMA IncrInv ==
  ASSUME IInv, NEW r \in Requests, Incr(r)
  PROVE  IInv'
<1> DEFINE u == req[r].user
           n == IF count[u] < Ceiling THEN count[u] + 1 ELSE Ceiling
<1>1. u \in Users /\ count[u] \in 0..Ceiling /\ allowed[u] \in Nat /\ Max \in Nat
  BY ConstantsAssumption DEF IInv, InRequest, TypeOK, Incr
<1>2. n \in 1..Ceiling /\ (n = 1 => count[u] = 0) /\ n >= count[u]
  BY <1>1 DEF Ceiling
<1>3. /\ count' = [count EXCEPT ![u] = n]
      /\ req' = [req EXCEPT ![r].pc = IF n = 1 THEN "expire" ELSE "decide", ![r].n = n]
      /\ allowed' = IF n <= Max THEN [allowed EXCEPT ![u] = @ + 1] ELSE allowed
      /\ ttl' = ttl /\ stuck' = stuck
  BY DEF Incr, StartsWindow, Within
<1>4. n <= Max => n = count[u] + 1
  BY <1>1 DEF Ceiling
<1> HIDE DEF n
<1>5. TypeOK'
  <2>1. Ceiling \in Nat
    BY <1>1 DEF Ceiling
  <2>2. n \in 0..Ceiling /\ n > 0
    BY <1>2, <2>1
  <2>3. count' \in [Users -> 0..Ceiling] /\ \A v \in Users : count[v] > 0 => count'[v] > 0
    <3> HIDE DEF u
    <3> USE <1>1, <1>3, <2>2
    <3>1. count \in [Users -> 0..Ceiling]
      BY DEF IInv, TypeOK
    <3>2. count' \in [Users -> 0..Ceiling]
      BY <3>1
    <3>3. \A v \in Users : count'[v] = IF v = u THEN n ELSE count[v]
      BY <3>1
    <3>4. QED
      BY <3>2, <3>3
  <2>4. req' \in [Requests -> [pc : PCs, user : Users \cup {None}, n : 0..Ceiling]]
    <3> DEFINE Rec == [pc : PCs, user : Users \cup {None}, n : 0..Ceiling]
               pc == IF n = 1 THEN "expire" ELSE "decide"
    <3>1. req \in [Requests -> Rec] /\ pc \in PCs
      BY DEF IInv, TypeOK, PCs
    <3>2. req' = [req EXCEPT ![r] = [[req[r] EXCEPT !.pc = pc] EXCEPT !.n = n]]
      BY <1>3, <3>1
    <3> HIDE DEF pc
    <3>3. [[req[r] EXCEPT !.pc = pc] EXCEPT !.n = n] \in Rec
      BY <3>1, <2>2
    <3> HIDE DEF Rec
    <3>4. req' \in [Requests -> Rec]
      BY <3>1, <3>2, <3>3
    <3>5. QED
      BY <3>4 DEF Rec
  <2>5. allowed' \in [Users -> Nat]
    BY <1>1, <1>3 DEF IInv, TypeOK
  <2>6. QED
    BY <1>3, <2>3, <2>4, <2>5 DEF IInv, TypeOK
<1>6. InRequest'
  BY <1>1, <1>3 DEF IInv, TypeOK, InRequest
<1>7. n = 1 => ttl[u] = None /\ \A q \in Requests : req[q].pc = "expire" => req[q].user # u
  BY <1>1, <1>2 DEF IInv, TypeOK, StartsOnce
<1>8. StartsOnce'
  BY <1>1, <1>2, <1>3, <1>7 DEF IInv, TypeOK, StartsOnce
<1>9. CountsAllowed'
  BY <1>1, <1>2, <1>3, <1>4 DEF IInv, TypeOK, CountsAllowed
<1>10. QED
  BY <1>5, <1>6, <1>8, <1>9 DEF IInv

\* An INCR that fails may have counted; it lets nothing through.
LEMMA IncrFailsInv ==
  ASSUME IInv, NEW r \in Requests, IncrFails(r)
  PROVE  IInv'
<1> DEFINE u == req[r].user
<1>1. u \in Users /\ count[u] \in 0..Ceiling /\ ttl' = ttl /\ allowed' = allowed
  BY DEF IInv, InRequest, TypeOK, IncrFails
<1>2. \A v \in Users : count'[v] \in 0..Ceiling /\ count'[v] >= count[v]
  BY <1>1, ConstantsAssumption DEF IInv, TypeOK, IncrFails, Ceiling
<1>3. count' \in [Users -> 0..Ceiling]
  BY <1>1, ConstantsAssumption DEF IInv, TypeOK, IncrFails, Ceiling
<1>4. req' = [req EXCEPT ![r].pc = "upload"]
  BY DEF IncrFails
<1>5. stuck' \subseteq Users
  BY <1>1 DEF IncrFails, IInv, TypeOK
<1>6. QED
  BY <1>1, <1>2, <1>3, <1>4, <1>5, ConstantsAssumption
     DEF IInv, TypeOK, InRequest, StartsOnce, CountsAllowed, PCs, Ceiling

\* EXPIRE is sent by the one request that is to send it.
LEMMA ExpireInv ==
  ASSUME IInv, NEW r \in Requests, Expire(r)
  PROVE  IInv'
BY ConstantsAssumption
   DEF Expire, IInv, TypeOK, InRequest, StartsOnce, CountsAllowed, PCs, Ceiling

\* The steps that only move a request on.
LEMMA OthersInv ==
  ASSUME IInv, NEW r \in Requests, ExpireFails(r) \/ Decide(r) \/ Respond(r) \/ Abort(r)
  PROVE  IInv'
<1>1. /\ UNCHANGED <<count, ttl, allowed>>
      /\ req' \in [Requests -> [pc : PCs, user : Users \cup {None}, n : 0..Ceiling]]
      /\ req'[r].pc \in {"idle", "decide", "upload", "limited"}
      /\ req'[r].pc # "idle" => req'[r].user = req[r].user /\ req[r].pc # "idle"
      /\ \A q \in Requests \ {r} : req'[q] = req[q]
      /\ stuck' \subseteq Users
  <2>1. req[r].user \in Users \/ req[r].pc = "idle"
    BY DEF IInv, InRequest
  <2>2. QED
    BY <2>1, ConstantsAssumption
       DEF ExpireFails, Decide, Respond, Abort, IInv, TypeOK, Idle, PCs, Ceiling
<1>2. TypeOK' /\ CountsAllowed'
  BY <1>1 DEF IInv, TypeOK, CountsAllowed
<1>3. InRequest'
  BY <1>1 DEF IInv, InRequest
<1>4. StartsOnce'
  BY <1>1 DEF IInv, StartsOnce
<1>5. QED
  BY <1>2, <1>3, <1>4 DEF IInv

\* A key without a time to live does not go away.
LEMMA TickInv == IInv /\ Tick => IInv'
<1> SUFFICES ASSUME IInv, Tick PROVE IInv'
  OBVIOUS
<1>1. req' = req /\ stuck' = stuck
  BY DEF Tick
<1>2. \A u \in Users :
        \/ u \in Expiring /\ ttl[u] # None /\ ttl'[u] = None /\ count'[u] = 0 /\ allowed'[u] = 0
        \/ /\ u \notin Expiring /\ count'[u] = count[u] /\ allowed'[u] = allowed[u]
           /\ ttl[u] = None => ttl'[u] = None
           /\ ttl[u] # None => ttl'[u] \in 1..Window
  BY ConstantsAssumption DEF Tick, Expiring, IInv, TypeOK
<1>3. count' \in [Users -> 0..Ceiling] /\ allowed' \in [Users -> Nat]
  BY ConstantsAssumption DEF Tick, Expiring, IInv, TypeOK, Ceiling
<1>4. ttl' \in [Users -> (1..Window) \cup {None}]
  BY ConstantsAssumption DEF Tick, Expiring, IInv, TypeOK
<1>5. TypeOK'
  BY <1>1, <1>2, <1>3, <1>4 DEF IInv, TypeOK
<1>6. InRequest' /\ StartsOnce'
  BY <1>1, <1>2 DEF IInv, InRequest, StartsOnce
<1>7. CountsAllowed'
  BY <1>2, ConstantsAssumption DEF IInv, CountsAllowed
<1>8. QED
  BY <1>5, <1>6, <1>7 DEF IInv

\* The invariant holds in every reachable state.
LEMMA Inductive == Spec => []IInv
<1>1. IInv /\ [Next]_vars => IInv'
  <2> SUFFICES ASSUME IInv, [Next]_vars PROVE IInv'
    OBVIOUS
  <2>1. CASE UNCHANGED vars
    BY <2>1 DEF vars, IInv, TypeOK, InRequest, StartsOnce, CountsAllowed
  <2>2. CASE Tick
    BY <2>2, TickInv
  <2>3. ASSUME NEW r \in Requests, NEW u \in Users, Start(r, u) PROVE IInv'
    BY <2>3, StartInv
  <2>4. ASSUME NEW r \in Requests, Progress(r) \/ Abort(r) PROVE IInv'
    BY <2>4, IncrInv, IncrFailsInv, ExpireInv, OthersInv DEF Progress
  <2>5. QED
    BY <2>1, <2>2, <2>3, <2>4 DEF Next
<1>2. QED
  BY <1>1, InitInv, PTL DEF Spec

\* The counters, times to live and requests always have their types.
THEOREM TypeCorrect == Spec => []TypeOK
<1>1. IInv => TypeOK
  BY DEF IInv
<1>2. QED
  BY <1>1, Inductive, PTL

\* However many uploads run side by side and whatever fails, the counter lets no
\* more than Max of them through between two expiries of the key.
THEOREM NeverMoreThanMax == Spec => []AtMostMax
<1>1. IInv => AtMostMax
  BY DEF IInv, CountsAllowed, AtMostMax
<1>2. QED
  BY <1>1, Inductive, PTL

\* No upload extends a window that is running.
THEOREM WindowsAreFixed == Spec => WindowNotExtended
<1> DEFINE Kept == \A u \in Users : ttl[u] # None => ttl'[u] = None \/ ttl'[u] <= ttl[u]
<1>1. IInv /\ [Next]_vars => [Kept]_vars
  <2> SUFFICES ASSUME IInv, Next, NEW u \in Users, ttl[u] # None
               PROVE  ttl'[u] = None \/ ttl'[u] <= ttl[u]
    OBVIOUS
  <2>1. ttl[u] \in 1..Window /\ Window \in Nat
    BY ConstantsAssumption DEF IInv, TypeOK
  <2>2. CASE Tick
    BY <2>1, <2>2 DEF Tick
  <2>3. ASSUME NEW r \in Requests, Expire(r) PROVE ttl'[u] = ttl[u]
    BY <2>3 DEF Expire, IInv, TypeOK, StartsOnce
  <2>4. CASE ttl' = ttl
    BY <2>1, <2>4
  <2>5. ASSUME NEW r \in Requests, Progress(r) \/ Abort(r) PROVE ttl'[u] = ttl[u]
    BY <2>3, <2>5 DEF Progress, Incr, IncrFails, ExpireFails, Decide, Respond, Abort
  <2>6. ASSUME NEW r \in Requests, NEW v \in Users, Start(r, v) PROVE ttl' = ttl
    BY <2>6 DEF Start
  <2>7. QED
    BY <2>1, <2>2, <2>4, <2>5, <2>6 DEF Next
<1>2. QED
  BY <1>1, Inductive, PTL DEF Spec, WindowNotExtended
=============================================================================
