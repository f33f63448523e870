----------------------------- MODULE RateLimiter -----------------------------
(***************************************************************************)
(* The counters of ONE limit key (a scope and an identifier) and the       *)
(* concurrent executions that check them: app/ratelimit.py's RateLimiter   *)
(* over its DynamoDBStore, as driven by app/dependencies.py and            *)
(* app/routers/auth.py.                                                    *)
(*                                                                         *)
(* A request reads the clock, reads two counters one after the other,      *)
(* decides, reads the clock AGAIN and adds one to the counter of the       *)
(* window it finds then.  Nothing holds these steps together, so any other *)
(* execution, the clock, a failure of the store or the Lambda's own        *)
(* timeout can come between any two of them.                               *)
(***************************************************************************)
EXTENDS SlidingWindow, FiniteSets

CONSTANTS
  Executions,    \* what can run at once (the function's reserved concurrency)
  Counting,      \* "admissions": check().  "failures": peek() ... record()
  Timeout,       \* ticks after which Lambda kills an execution
  ExpirySlack,   \* expires_at is two windows plus this after the increment
  MaxAttempts,   \* how often the AWS SDK sends one UpdateItem
  MaxTime,       \* bound: the clock stops here
  MaxOpenings,   \* bound: store failures answered by failing open
  MaxLosses      \* bound: counts that never reach the store

ASSUME ExecutionsAssumption == IsFiniteSet(Executions) /\ Executions # {}
ASSUME CountingAssumption == Counting \in {"admissions", "failures"}
ASSUME TimesAssumption ==
  /\ Timeout \in Nat /\ ExpirySlack \in Nat /\ MaxTime \in Nat
  /\ Timeout <= ExpirySlack
ASSUME BoundsAssumption ==
  MaxAttempts \in Nat \ {0} /\ MaxOpenings \in Nat /\ MaxLosses \in Nat

VARIABLES
  now,       \* the wall clock, in ticks
  count,     \* the table: window |-> stored count, 0 when there is no item
  expires,   \* the table: window |-> expires_at of its item
  pc,        \* where each execution is
  start,     \* the `now` that _decide read
  seen,      \* the `current` that _decide read
  countedAt, \* the `now` that _increment read
  attempts,  \* UpdateItem calls already made for this increment
  landed     \* has one of them been applied?

(* What the store does not know, for the properties only.                  *)
VARIABLES
  charged,    \* window |-> decisions taken in it that must be counted
  lastCharge, \* when the latest of them was taken
  openings,   \* decisions that failed open
  losses      \* charges that were never counted

store == <<count, expires>>
local == <<pc, start, seen, countedAt, attempts, landed>>
ghost == <<charged, lastCharge, openings, losses>>
vars == <<now, store, local, ghost>>

Times == 0 .. MaxTime
Windows == 0 .. WindowOf(MaxTime)

Reading == {"readCurrent", "readPrevious"}
Counted == {"count", "write"}
States == {"idle", "attempt"} \cup Reading \cup Counted

-----------------------------------------------------------------------------
(* Helpers.                                                                *)

(* store.get: zero if there is no such item.                               *)
Stored(w) == IF w \in Windows THEN count[w] ELSE 0

(* The key that _increment built, and the window _decide looked at.        *)
CountedIn(e) == WindowOf(countedAt[e])
StartedIn(e) == WindowOf(start[e])

(* The execution has answered: its local variables are gone.               *)
Finish(e) ==
  /\ pc' = [pc EXCEPT ![e] = "idle"]
  /\ start' = [start EXCEPT ![e] = 0]
  /\ seen' = [seen EXCEPT ![e] = 0]
  /\ countedAt' = [countedAt EXCEPT ![e] = 0]
  /\ attempts' = [attempts EXCEPT ![e] = 0]
  /\ landed' = [landed EXCEPT ![e] = FALSE]

(* The decision now has to be counted.                                     *)
Charge(e) ==
  /\ charged' = [charged EXCEPT ![StartedIn(e)] = @ + 1]
  /\ lastCharge' = now

(* Mistakes the runs must notice: one attempt too many; a request let      *)
(* through and never counted; an item that expires after one window; a     *)
(* first read that looks at the clock again; a refusal that is counted.    *)
OneAttemptTooMany(e) == attempts[e] < MaxAttempts

AllowUncounted(e) == Finish(e) /\ Charge(e)

AddForOneWindow(w, t) ==
  /\ count' = [count EXCEPT ![w] = @ + 1]
  /\ expires' = [expires EXCEPT ![w] = t + Window]

ReadLatest(e) ==
  /\ pc[e] = "readCurrent"
  /\ seen' = [seen EXCEPT ![e] = Stored(WindowOf(now))]
  /\ pc' = [pc EXCEPT ![e] = "readPrevious"]
  /\ UNCHANGED <<now, store, start, countedAt, attempts, landed, ghost>>

RefuseAndCount(e) ==
  /\ pc[e] = "readPrevious"
  /\ ~ Admits(Stored(StartedIn(e) - 1), seen[e], start[e])
  /\ pc' = [pc EXCEPT ![e] = "count"]
  /\ UNCHANGED <<now, store, start, seen, countedAt, attempts, landed, ghost>>

(* Will the SDK send the UpdateItem once more?                             *)
AttemptsLeft(e) == attempts[e] + 1 < MaxAttempts

(* The decision allowed the request: check() goes on to count it, while    *)
(* after peek() the caller makes the attempt and counts only a failure.    *)
Allow(e) ==
  /\ seen' = [seen EXCEPT ![e] = 0]
  /\ UNCHANGED <<start, countedAt, attempts, landed>>
  /\ IF Counting = "admissions"
       THEN pc' = [pc EXCEPT ![e] = "count"] /\ Charge(e)
       ELSE pc' = [pc EXCEPT ![e] = "attempt"] /\ UNCHANGED <<charged, lastCharge>>

(* ADD #c :one SET expires_at = :exp, atomic in the store.                 *)
Add(w, t) ==
  /\ count' = [count EXCEPT ![w] = @ + 1]
  /\ expires' = [expires EXCEPT ![w] = t + 2 * Window + ExpirySlack]

-----------------------------------------------------------------------------
Init ==
  /\ now = 0
  /\ count = [w \in Windows |-> 0]
  /\ expires = [w \in Windows |-> 0]
  /\ pc = [e \in Executions |-> "idle"]
  /\ start = [e \in Executions |-> 0]
  /\ seen = [e \in Executions |-> 0]
  /\ countedAt = [e \in Executions |-> 0]
  /\ attempts = [e \in Executions |-> 0]
  /\ landed = [e \in Executions |-> FALSE]
  /\ charged = [w \in Windows |-> 0]
  /\ lastCharge = 0
  /\ openings = 0
  /\ losses = 0

(* A request arrives and _decide reads the clock.                          *)
Start(e) ==
  /\ pc[e] = "idle"
  /\ pc' = [pc EXCEPT ![e] = "readCurrent"]
  /\ start' = [start EXCEPT ![e] = now]
  /\ UNCHANGED <<now, store, seen, countedAt, attempts, landed, ghost>>

(* The first GetItem, strongly consistent.                                 *)
ReadCurrent(e) ==
  /\ pc[e] = "readCurrent"
  /\ seen' = [seen EXCEPT ![e] = Stored(StartedIn(e))]
  /\ pc' = [pc EXCEPT ![e] = "readPrevious"]
  /\ UNCHANGED <<now, store, start, countedAt, attempts, landed, ghost>>

(* The second GetItem and the decision: allowed ...                        *)
Admit(e) ==
  /\ pc[e] = "readPrevious"
  /\ Admits(Stored(StartedIn(e) - 1), seen[e], start[e])
  /\ Allow(e)
  /\ UNCHANGED <<now, store, openings, losses>>

(* ... or refused, which counts nothing: 429.                              *)
Refuse(e) ==
  /\ pc[e] = "readPrevious"
  /\ ~ Admits(Stored(StartedIn(e) - 1), seen[e], start[e])
  /\ Finish(e)
  /\ UNCHANGED <<now, store, ghost>>

(* Either GetItem raised: _fail_open allows the request.                   *)
FailOpen(e) ==
  /\ pc[e] \in Reading
  /\ openings < MaxOpenings
  /\ openings' = openings + 1
  /\ Allow(e)
  /\ UNCHANGED <<now, store, losses>>

(* After peek(): the password was right, so nothing is counted.            *)
AttemptSucceeds(e) ==
  /\ pc[e] = "attempt"
  /\ Finish(e)
  /\ UNCHANGED <<now, store, ghost>>

(* After peek(): the password was wrong or the address unknown.            *)
AttemptFails(e) ==
  /\ pc[e] = "attempt"
  /\ Charge(e)
  /\ pc' = [pc EXCEPT ![e] = "count"]
  /\ UNCHANGED <<now, store, start, seen, countedAt, attempts, landed,
                 openings, losses>>

(* _increment reads the clock again and builds the key of that window.     *)
ReadClockAgain(e) ==
  /\ pc[e] = "count"
  /\ countedAt' = [countedAt EXCEPT ![e] = now]
  /\ pc' = [pc EXCEPT ![e] = "write"]
  /\ UNCHANGED <<now, store, start, seen, attempts, landed, ghost>>

(* UpdateItem is applied and answered: the request is done.                *)
WriteAnswered(e) ==
  /\ pc[e] = "write"
  /\ Add(CountedIn(e), countedAt[e])
  /\ Finish(e)
  /\ UNCHANGED <<now, ghost>>

(* UpdateItem is applied but its answer is lost: the SDK sends it again    *)
(* until its attempts run out, and the caller swallows the exception.      *)
WriteUnanswered(e) ==
  /\ pc[e] = "write"
  /\ Add(CountedIn(e), countedAt[e])
  /\ IF AttemptsLeft(e)
       THEN /\ attempts' = [attempts EXCEPT ![e] = @ + 1]
            /\ landed' = [landed EXCEPT ![e] = TRUE]
            /\ UNCHANGED <<pc, start, seen, countedAt>>
       ELSE Finish(e)
  /\ UNCHANGED <<now, ghost>>

(* UpdateItem fails without effect.                                        *)
WriteFails(e) ==
  /\ pc[e] = "write"
  /\ IF AttemptsLeft(e)
       THEN /\ attempts' = [attempts EXCEPT ![e] = @ + 1]
            /\ UNCHANGED <<pc, start, seen, countedAt, landed, losses>>
       ELSE /\ Finish(e)
            /\ IF landed[e] THEN UNCHANGED losses
                            ELSE losses < MaxLosses /\ losses' = losses + 1
  /\ UNCHANGED <<now, store, charged, lastCharge, openings>>

(* Lambda kills the execution, or it crashes.  An UpdateItem already on    *)
(* the wire lands (the first disjunct of the last conjunct) or does not.   *)
Kill(e) ==
  /\ pc[e] # "idle"
  /\ Finish(e)
  /\ UNCHANGED <<now, charged, lastCharge, openings>>
  /\ \/ /\ pc[e] = "write"
        /\ Add(CountedIn(e), countedAt[e])
        /\ UNCHANGED losses
     \/ /\ UNCHANGED store
        /\ IF pc[e] \in Counted /\ ~ landed[e]
             THEN losses < MaxLosses /\ losses' = losses + 1
             ELSE UNCHANGED losses

(* DynamoDB deletes an item some time after it expired.                    *)
DeleteExpired(w) ==
  /\ count[w] > 0
  /\ expires[w] < now
  /\ count' = [count EXCEPT ![w] = 0]
  /\ expires' = [expires EXCEPT ![w] = 0]
  /\ UNCHANGED <<now, local, ghost>>

(* Time passes, but no execution outlives its timeout.                     *)
Tick ==
  /\ now < MaxTime
  /\ \A e \in Executions : pc[e] # "idle" => now < start[e] + Timeout
  /\ now' = now + 1
  /\ UNCHANGED <<store, local, ghost>>

Step(e) ==
  \/ Start(e)
  \/ ReadCurrent(e)
  \/ Admit(e)
  \/ Refuse(e)
  \/ AttemptSucceeds(e)
  \/ AttemptFails(e)
  \/ ReadClockAgain(e)
  \/ WriteAnswered(e)
  \/ FailOpen(e)
  \/ WriteUnanswered(e)
  \/ WriteFails(e)
  \/ Kill(e)

Next ==
  \/ \E e \in Executions : Step(e)
  \/ \E w \in Windows : DeleteExpired(w)
  \/ Tick

Spec == Init /\ [][Next]_vars

-----------------------------------------------------------------------------
(* Properties.                                                             *)

TypeOK ==
  /\ now \in Times
  /\ count \in [Windows -> Nat]
  /\ expires \in [Windows -> Nat]
  /\ pc \in [Executions -> States]
  /\ start \in [Executions -> Times]
  /\ seen \in [Executions -> Nat]
  /\ countedAt \in [Executions -> Times]
  /\ attempts \in [Executions -> 0 .. MaxAttempts - 1]
  /\ landed \in [Executions -> BOOLEAN]
  /\ charged \in [Windows -> Nat]
  /\ lastCharge \in Times
  /\ openings \in Nat
  /\ losses \in Nat

Concurrency == Cardinality(Executions)

(* What the executions can still add to a counter that was below the limit *)
(* when they read it: one increment each, as often as the SDK repeats it,  *)
(* and the same again for every decision that failed open.                 *)
Ceiling == Limit - 1 + (Concurrency + openings) * MaxAttempts

(* check() and peek() decide on counts that other executions are about to  *)
(* raise, so a counter can pass the limit, but never the ceiling above: by *)
(* Concurrency - 1 when every read and write succeeds.                     *)
OvershootBounded == \A w \in Windows : count[w] <= Ceiling

(* What the sliding window buys over a fixed one: two neighbouring windows *)
(* never both reach the ceiling.  Alone and without failures, a client     *)
(* gets at most 2 * Limit - 1 requests into them ("19 against 10").        *)
TwoWindowsBounded ==
  \A w \in Windows : count[w] + Stored(w - 1) < 2 * Ceiling

(* What the limit is for: the requests (or failed logins) let through in a *)
(* window.  The race costs at most one per other execution; beyond that,   *)
(* only counts that were lost and decisions that failed open let more in.  *)
(* A request let through in one window and counted in the next is no way   *)
(* around it.                                                              *)
ChargesBounded ==
  \A w \in Windows :
    charged[w] <= Limit - 1 + Concurrency + losses + openings

(* _decide will refuse this request.                                       *)
Refusing(e) ==
  /\ pc[e] = "readPrevious"
  /\ ~ Admits(Stored(StartedIn(e) - 1), seen[e], start[e])

(* A refusal is never the product of a stale read: the counters as they    *)
(* stand when the 429 is sent refuse the request too.                      *)
RefusalJustified ==
  \A e \in Executions : Refusing(e) =>
    ~ Admits(Stored(StartedIn(e) - 1), Stored(StartedIn(e)), start[e])

(* No lockout: a refusal is always explained by something counted within   *)
(* the last two windows (give or take the run time of one request), so a   *)
(* client that hammers cannot push its own quota away for longer.          *)
LockoutBounded ==
  \A e \in Executions :
    Refusing(e) => start[e] < lastCharge + 2 * Window + Timeout

(* "TTL is housekeeping, not correctness": DynamoDB never collects a       *)
(* counter that the clock or a running execution can still look at.        *)
ExpiryIsHousekeeping ==
  [][\A w \in Windows : count'[w] < count[w] =>
       /\ w < WindowOf(now) - 1
       /\ \A e \in Executions : pc[e] # "idle" => w < StartedIn(e) - 1]_vars

-----------------------------------------------------------------------------
(* The inductive invariant behind OvershootBounded.                        *)

(* May this execution still add to the counter of window w?  Yes if its    *)
(* key is already that of w, or if it started early enough to find the     *)
(* clock in w when it reads it again; an execution that started in w       *)
(* itself must first have found the counter below the limit.               *)
MayCount(e, w) ==
  \/ pc[e] = "write" /\ CountedIn(e) = w
  \/ pc[e] \in States \ {"idle", "write"} /\ StartedIn(e) < w
  \/ /\ StartedIn(e) = w
     /\ \/ pc[e] \in {"attempt", "count"}
        \/ pc[e] = "readPrevious" /\ seen[e] < Limit

(* One token for each increment that may still hit the counter of w.       *)
Tokens(w) ==
  {p \in Executions \X (1 .. MaxAttempts) :
     MayCount(p[1], w) /\ p[2] > attempts[p[1]]}

(* No counter of a window that has not begun.                              *)
FutureIsEmpty == \A w \in Windows : w > WindowOf(now) => count[w] = 0

(* The clocks that executions have read.                                   *)
ReadClocks ==
  \A e \in Executions : start[e] <= now /\ countedAt[e] <= now

(* Every increment still possible already fits under the ceiling.          *)
RoomForTokens ==
  \A w \in Windows : count[w] + Cardinality(Tokens(w)) <= Ceiling

(* The inductive invariant.                                                *)
IInv == TypeOK /\ ReadClocks /\ FutureIsEmpty /\ RoomForTokens

=============================================================================
