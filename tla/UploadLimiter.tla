--------------------------- MODULE UploadLimiter ---------------------------
(***************************************************************************)
(* The upload rate limit: RedisLimiter.Allow of                            *)
(* internal/uploads/ratelimit.go, called by the handler of uploads.go.     *)
(* Redis keeps one counter per user, which goes away when its time to live *)
(* is over.  Allow is two commands, INCR and, by whoever got 1 from it,    *)
(* EXPIRE; uploads of one user run side by side.                           *)
(***************************************************************************)
EXTENDS Naturals, FiniteSets

CONSTANTS
  Users,
  Requests,   \* upload requests in flight at the same time
  Max,        \* uploads per window, 30 in main.go
  Window,     \* ticks in a window, an hour there
  Faults,     \* TRUE: Redis commands may fail and the API may die
  None        \* no key, no time to live, or no user

ASSUME ConstantsAssumption ==
  /\ Max \in Nat \ {0} /\ Window \in Nat \ {0}
  /\ Faults \in BOOLEAN
  /\ None \notin Users \cup Nat

VARIABLES
  count,     \* value of the key upload_rate:<user>, 0 when there is none
  ttl,       \* ticks until the key expires, None when it does not
  req,       \* progress of each request
  allowed,   \* history: uploads the counter has let through since the key exists
  stuck      \* history: users whose key lost the request that was to start its window

vars == <<count, ttl, req, allowed, stuck>>
-----------------------------------------------------------------------------
Idle == [pc |-> "idle", user |-> None, n |-> 0]

PCs == {"idle", "incr", "expire", "decide", "upload", "limited"}

Init ==
  /\ count = [u \in Users |-> 0]
  /\ ttl = [u \in Users |-> None]
  /\ req = [r \in Requests |-> Idle]
  /\ allowed = [u \in Users |-> 0]
  /\ stuck = {}

Start(r, u) ==
  /\ req[r] = Idle
  /\ req' = [req EXCEPT ![r] = [Idle EXCEPT !.pc = "incr", !.user = u]]
  /\ UNCHANGED <<count, ttl, allowed, stuck>>

\* Mutants: every hit restarts the window; one upload too many.
StartsWindowAlways(n) == TRUE
WithinOneMore(n) == n <= Max + 1

StartsWindow(n) == n = 1
Within(n) == n <= Max

\* Counting on beyond this makes no difference to any request.
Ceiling == Max + 2

Incr(r) ==
  LET u == req[r].user
      n == IF count[u] < Ceiling THEN count[u] + 1 ELSE Ceiling IN
  /\ req[r].pc = "incr"
  /\ count' = [count EXCEPT ![u] = n]
  /\ req' = [req EXCEPT ![r].pc = IF StartsWindow(n) THEN "expire" ELSE "decide", ![r].n = n]
  /\ allowed' = IF Within(n) THEN [allowed EXCEPT ![u] = @ + 1] ELSE allowed
  /\ UNCHANGED <<ttl, stuck>>

\* The limiter's error: the upload goes on, and Redis may have counted it or not.
IncrFails(r) ==
  LET u == req[r].user IN
  /\ Faults
  /\ req[r].pc = "incr"
  /\ req' = [req EXCEPT ![r].pc = "upload"]
  /\ \/ UNCHANGED <<count, stuck>>
     \/ /\ count[u] < Ceiling
        /\ count' = [count EXCEPT ![u] = @ + 1]
        /\ stuck' = IF count[u] = 0 THEN stuck \cup {u} ELSE stuck
  /\ UNCHANGED <<ttl, allowed>>

\* Mutant: the first hit does not start the time to live.
ExpireForgotten(r) ==
  /\ req[r].pc = "expire"
  /\ req' = [req EXCEPT ![r].pc = "decide"]
  /\ UNCHANGED <<count, ttl, allowed, stuck>>

Expire(r) ==
  LET u == req[r].user IN
  /\ req[r].pc = "expire"
  /\ ttl' = IF count[u] > 0 THEN [ttl EXCEPT ![u] = Window] ELSE ttl
  /\ req' = [req EXCEPT ![r].pc = "decide"]
  /\ UNCHANGED <<count, allowed, stuck>>

\* The error of EXPIRE is dropped.
ExpireFails(r) ==
  /\ Faults
  /\ req[r].pc = "expire"
  /\ req' = [req EXCEPT ![r].pc = "decide"]
  /\ stuck' = stuck \cup {req[r].user}
  /\ UNCHANGED <<count, ttl, allowed>>

\* Mutant: a refused upload gives its hit back.
DecideGivingBack(r) ==
  /\ req[r].pc = "decide"
  /\ req' = [req EXCEPT ![r].pc = IF Within(req[r].n) THEN "upload" ELSE "limited"]
  /\ count' = IF Within(req[r].n) THEN count ELSE [count EXCEPT ![req[r].user] = @ - 1]
  /\ UNCHANGED <<ttl, allowed, stuck>>

Decide(r) ==
  /\ req[r].pc = "decide"
  /\ req' = [req EXCEPT ![r].pc = IF Within(req[r].n) THEN "upload" ELSE "limited"]
  /\ UNCHANGED <<count, ttl, allowed, stuck>>

\* The image is stored and its URL sent, or the 429 is.
Respond(r) ==
  /\ req[r].pc \in {"upload", "limited"}
  /\ req' = [req EXCEPT ![r] = Idle]
  /\ UNCHANGED <<count, ttl, allowed, stuck>>

\* The process dies between the two commands of a request.
Abort(r) ==
  /\ Faults
  /\ req[r].pc \in {"expire", "decide"}
  /\ req' = [req EXCEPT ![r] = Idle]
  /\ stuck' = IF req[r].pc = "expire" THEN stuck \cup {req[r].user} ELSE stuck
  /\ UNCHANGED <<count, ttl, allowed>>

\* Redis: time passes, and a key whose time is over is gone.
Expiring == {u \in Users : ttl[u] = 1}

Tick ==
  /\ \E u \in Users : ttl[u] # None
  /\ ttl' = [u \in Users |-> IF ttl[u] = None \/ u \in Expiring THEN None ELSE ttl[u] - 1]
  /\ count' = [u \in Users |-> IF u \in Expiring THEN 0 ELSE count[u]]
  /\ allowed' = [u \in Users |-> IF u \in Expiring THEN 0 ELSE allowed[u]]
  /\ UNCHANGED <<req, stuck>>

Progress(r) == Incr(r) \/ IncrFails(r) \/ Expire(r) \/ ExpireFails(r) \/ Decide(r) \/ Respond(r)

Next ==
  \/ \E r \in Requests : (\E u \in Users : Start(r, u)) \/ Progress(r) \/ Abort(r)
  \/ Tick

Spec == Init /\ [][Next]_vars

\* Handlers run and time passes.
Fairness == WF_vars(Tick) /\ \A r \in Requests : WF_vars(Progress(r))

FairSpec == Spec /\ Fairness
-----------------------------------------------------------------------------
\* The counters and the requests have their types; only a key has a time to live.
TypeOK ==
  /\ count \in [Users -> 0..Ceiling]
  /\ ttl \in [Users -> (1..Window) \cup {None}]
  /\ req \in [Requests -> [pc : PCs, user : Users \cup {None}, n : 0..Ceiling]]
  /\ allowed \in [Users -> Nat]
  /\ stuck \subseteq Users
  /\ \A u \in Users : ttl[u] # None => count[u] > 0

\* Between two expiries of a user's key the counter lets Max uploads through, and
\* the next ones only after the key is gone: uploads running side by side, some of
\* them still between INCR and EXPIRE, cannot get past it together.
AtMostMax == \A u \in Users : allowed[u] <= Max

\* A window that has started is not extended by later uploads, though the EXPIRE
\* of the first one may come after their INCRs.
WindowNotExtended ==
  [][\A u \in Users : ttl[u] # None => ttl'[u] = None \/ ttl'[u] <= ttl[u]]_vars

\* A user who has been told to try again later can: the key goes away, unless the
\* one request that was to start its window never got to it.
LimitedComesBack ==
  \A u \in Users :
    (\E r \in Requests : req[r].pc = "limited" /\ req[r].user = u)
      ~> (count[u] = 0 \/ u \in stuck)
=============================================================================
