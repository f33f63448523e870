----------------------- MODULE RateLimiterBoundsProofs -----------------------
(***************************************************************************)
(* More of what TLAPS proves of RateLimiter, again for every number of     *)
(* executions, every quota and every bound: that expiry never takes a      *)
(* counter somebody still looks at, that refusals are explained, and how   *)
(* many requests the race, the lost counts and the failures let through.   *)
(***************************************************************************)
EXTENDS RateLimiterProofs

(* ---- Windows and instants --------------------------------------------- *)

(* A window begins at its first tick and ends before that of the next.     *)
LEMMA WindowBounds ==
  ASSUME NEW t \in Nat
  PROVE  /\ WindowOf(t) \in Nat
         /\ WindowOf(t) * Window <= t
         /\ t < (WindowOf(t) + 1) * Window
BY QuotaAssumption DEF WindowOf

(* An instant after the beginning of a window is in it or in a later one.  *)
LEMMA WindowReached ==
  ASSUME NEW t \in Nat, NEW k \in Int, k * Window <= t
  PROVE  k <= WindowOf(t)
<1>1. WindowOf(t) \in Nat /\ t < (WindowOf(t) + 1) * Window
  BY WindowBounds
<1>2. Window \in Nat /\ Window > 0
  BY QuotaAssumption
<1>3. k * Window < (WindowOf(t) + 1) * Window
  BY <1>1, <1>2
<1>4. CASE k >= WindowOf(t) + 1
  <2>1. (k - (WindowOf(t) + 1)) * Window >= 0
    BY <1>1, <1>2, <1>4
  <2>2. (k - (WindowOf(t) + 1)) * Window = k * Window - (WindowOf(t) + 1) * Window
    BY <1>1, <1>2
  <2> QED
    BY <1>1, <1>2, <1>3, <2>1, <2>2
<1> QED
  BY <1>1, <1>4

(* Whoever is refused at some count is refused at a higher one.            *)
LEMMA AdmitsMonotone ==
  ASSUME NEW p \in Nat, NEW q \in Nat, NEW c \in Nat, NEW d \in Nat, NEW t \in Nat,
         p <= q, c <= d, Admits(q, d, t)
  PROVE  Admits(p, c, t)
<1>1. Window \in Nat /\ Window > 0 /\ Limit \in Nat
  BY QuotaAssumption
<1>2. Elapsed(t) \in 0 .. Window - 1
  BY <1>1 DEF Elapsed
<1> DEFINE age == Window - Elapsed(t)
<1>3. age \in Nat
  BY <1>1, <1>2
<1> HIDE DEF age
<1>4. (q - p) * age >= 0 /\ (q - p) * age = q * age - p * age
  BY <1>3
<1>5. (d - c) * Window >= 0 /\ (d - c) * Window = (d + 1) * Window - (c + 1) * Window
  BY <1>1
<1>6. q * age + (d + 1) * Window <= Limit * Window
  BY DEF Admits, Estimate, age
<1>7. /\ p * age \in Int /\ q * age \in Int /\ Limit * Window \in Int
      /\ (c + 1) * Window \in Int /\ (d + 1) * Window \in Int
  BY <1>1, <1>3
<1>8. p * age + (c + 1) * Window <= Limit * Window
  BY <1>4, <1>5, <1>6, <1>7
<1> QED
  BY <1>8 DEF Admits, Estimate, age

(* A request that finds nothing counted is admitted.                       *)
LEMMA AdmitsTheFirst ==
  ASSUME NEW t \in Nat
  PROVE  Admits(0, 0, t)
<1>1. Window \in Nat /\ Window > 0 /\ Limit \in Nat /\ Limit >= 1
  BY QuotaAssumption
<1>2. Elapsed(t) \in 0 .. Window - 1
  BY <1>1 DEF Elapsed
<1>3. 1 * Window <= Limit * Window
  BY <1>1
<1> QED
  BY <1>1, <1>2, <1>3 DEF Admits, Estimate

(* ---- The clock invariant ---------------------------------------------- *)

(* No execution outlives its timeout, and charges lie in the past.         *)
InTime ==
  /\ lastCharge <= now
  /\ \A e \in Executions : pc[e] # "idle" => now <= start[e] + Timeout

(* The order in which an execution does what it does, and that counters do *)
(* not shrink while it looks at them.                                      *)
Ordered ==
  \A e \in Executions :
    /\ pc[e] = "write" => start[e] <= countedAt[e]
    /\ pc[e] \in Counted => start[e] <= lastCharge
    /\ landed[e] => pc[e] = "write"
    /\ pc[e] = "readPrevious" => seen[e] <= count[StartedIn(e)]

(* An item outlives the window after the one it counts, by as long as an   *)
(* execution may run; and it exists because of a recent charge.            *)
Kept ==
  \A w \in Windows : count[w] > 0 =>
    /\ (w + 2) * Window + ExpirySlack <= expires[w]
    /\ w * Window <= lastCharge + Timeout

CInv == TypeOK /\ ReadClocks /\ InTime /\ Ordered /\ Kept

(* The types, as the arithmetic needs them.                                *)
LEMMA Instants ==
  ASSUME CInv
  PROVE  /\ Window \in Nat /\ Window > 0
         /\ Timeout \in Nat /\ ExpirySlack \in Nat /\ Timeout <= ExpirySlack
         /\ now \in Nat /\ lastCharge \in Nat /\ WindowOf(now) \in Nat
         /\ \A e \in Executions :
              /\ start[e] \in Nat /\ start[e] <= now
              /\ countedAt[e] \in Nat /\ countedAt[e] <= now
              /\ StartedIn(e) \in Windows /\ StartedIn(e) \in Nat
              /\ CountedIn(e) \in Windows /\ CountedIn(e) \in Nat
              /\ StartedIn(e) <= WindowOf(now)
         /\ \A w \in Windows : w \in Nat /\ count[w] \in Nat /\ expires[w] \in Nat
<1>1. Window \in Nat /\ Window > 0
      /\ Timeout \in Nat /\ ExpirySlack \in Nat /\ Timeout <= ExpirySlack
  BY QuotaAssumption, TimesAssumption
<1>2. now \in Nat /\ lastCharge \in Nat /\ WindowOf(now) \in Nat
  BY WindowBounds DEF CInv, TypeOK, Times
<1>3. \A w \in Windows : w \in Nat /\ count[w] \in Nat /\ expires[w] \in Nat
  <2>1. WindowOf(MaxTime) \in Nat
    BY WindowBounds, TimesAssumption
  <2>2. \A w \in Windows : w \in Nat
    BY <2>1 DEF Windows
  <2> QED
    BY <2>2 DEF CInv, TypeOK
<1>4. ASSUME NEW e \in Executions
      PROVE  /\ start[e] \in Nat /\ start[e] <= now
             /\ countedAt[e] \in Nat /\ countedAt[e] <= now
             /\ StartedIn(e) \in Windows /\ StartedIn(e) \in Nat
             /\ CountedIn(e) \in Windows /\ CountedIn(e) \in Nat
             /\ StartedIn(e) <= WindowOf(now)
  <2>1. start[e] \in Times /\ countedAt[e] \in Times
    BY DEF CInv, TypeOK
  <2>2. StartedIn(e) \in Windows /\ CountedIn(e) \in Windows
    BY <2>1, WindowOfTimes DEF StartedIn, CountedIn
  <2>3. start[e] \in Nat /\ start[e] <= now
        /\ countedAt[e] \in Nat /\ countedAt[e] <= now
    BY <2>1 DEF Times, CInv, ReadClocks
  <2>4. StartedIn(e) <= WindowOf(now)
    BY <1>2, <2>3, WindowOfMonotone DEF StartedIn
  <2> QED
    BY <1>3, <2>2, <2>3, <2>4
<1> QED
  BY <1>1, <1>2, <1>3, <1>4

(* What DynamoDB deletes is older than everything that is looked at.       *)
LEMMA DeletedIsOld ==
  ASSUME CInv, NEW w \in Windows, DeleteExpired(w)
  PROVE  /\ w < WindowOf(now) - 1
         /\ \A e \in Executions : pc[e] # "idle" => w < StartedIn(e) - 1
<1>1. (w + 2) * Window \in Nat
  BY Instants
<1>2. (w + 2) * Window + ExpirySlack <= expires[w] /\ expires[w] < now
  BY Instants DEF CInv, Kept, DeleteExpired
<1>3. w + 2 <= WindowOf(now)
  BY <1>1, <1>2, Instants, WindowReached
<1>4. ASSUME NEW e \in Executions, pc[e] # "idle" PROVE w + 2 <= StartedIn(e)
  <2>1. now <= start[e] + Timeout
    BY <1>4 DEF CInv, InTime
  <2>2. (w + 2) * Window <= start[e]
    BY <1>1, <1>2, <2>1, Instants
  <2> QED
    BY <2>2, Instants, WindowReached DEF StartedIn
<1> QED
  BY <1>3, <1>4, Instants

(* The counters change by an UpdateItem that is applied, or by expiry.     *)
LEMMA StoreStep ==
  ASSUME [Next]_vars
  PROVE  \/ UNCHANGED store
         \/ \E e \in Executions : pc[e] = "write" /\ Add(CountedIn(e), countedAt[e])
                                  /\ now' = now
         \/ \E w \in Windows : DeleteExpired(w)
BY DEF Next, Step, Start, ReadCurrent, Admit, Refuse, FailOpen,
   AttemptSucceeds, AttemptFails, ReadClockAgain, WriteAnswered,
   WriteUnanswered, AttemptsLeft, WriteFails, Kill, Tick, vars, store

(* A charge is taken now.                                                  *)
LEMMA LastChargeStep ==
  ASSUME [Next]_vars
  PROVE  lastCharge' \in {lastCharge, now}
BY DEF Next, Step, Start, ReadCurrent, Admit, Refuse, FailOpen, Allow, Charge,
   AttemptSucceeds, AttemptFails, ReadClockAgain, WriteAnswered, ghost,
   WriteUnanswered, AttemptsLeft, WriteFails, Kill, DeleteExpired, Tick, vars

LEMMA NowStep ==
  ASSUME [Next]_vars
  PROVE  now' = now \/ (Tick /\ now' = now + 1)
BY DEF Next, Step, Start, ReadCurrent, Admit, Refuse, FailOpen,
   AttemptSucceeds, AttemptFails, ReadClockAgain, WriteAnswered,
   WriteUnanswered, AttemptsLeft, WriteFails, Kill, DeleteExpired, Tick, vars

LEMMA InTimeStep ==
  ASSUME CInv, TypeOK', [Next]_vars
  PROVE  InTime'
<1>1. CASE Tick
  BY <1>1, Instants DEF Tick, local, ghost, CInv, InTime
<1>2. CASE ~ Tick
  <2>1. now' = now
    BY <1>2, NowStep
  <2>2. \A e \in Executions :
          \/ pc'[e] = "idle"
          \/ start'[e] = now
          \/ pc[e] # "idle" /\ start'[e] = start[e]
    BY <1>2 DEF CInv, TypeOK, Next, Step, Start, ReadCurrent, Admit, Refuse, FailOpen,
       AttemptSucceeds, AttemptFails, ReadClockAgain, WriteAnswered, Allow, Finish,
       WriteUnanswered, AttemptsLeft, WriteFails, Kill, DeleteExpired, vars, local,
       Reading
  <2>3. lastCharge' <= now
    BY LastChargeStep, Instants DEF CInv, InTime
  <2> QED
    BY <2>1, <2>2, <2>3, Instants, TimesAssumption DEF CInv, InTime
<1> QED
  BY <1>1, <1>2

(* A counter that is being looked at does not shrink.                      *)
LEMMA LookedAtGrows ==
  ASSUME CInv, [Next]_vars, NEW e \in Executions, pc[e] # "idle",
         NEW w \in Windows, w >= StartedIn(e) - 1
  PROVE  count'[w] >= count[w]
<1>1. CASE UNCHANGED store
  BY <1>1, Instants DEF store
<1>2. ASSUME NEW x \in Executions, Add(CountedIn(x), countedAt[x])
      PROVE  count'[w] >= count[w]
  BY <1>2, Instants DEF Add, CInv, TypeOK
<1>3. ASSUME NEW d \in Windows, DeleteExpired(d)
      PROVE  count'[w] >= count[w]
  <2>1. d < StartedIn(e) - 1
    BY <1>3, DeletedIsOld
  <2> QED
    BY <1>3, <2>1, Instants DEF DeleteExpired, CInv, TypeOK
<1> QED
  BY <1>1, <1>2, <1>3, StoreStep

LEMMA OrderedStep ==
  ASSUME CInv, TypeOK', [Next]_vars
  PROVE  Ordered'
<1>1. ASSUME NEW e \in Executions, pc'[e] = "write"
      PROVE  start'[e] <= countedAt'[e]
  <2>1. \/ pc[e] = "write" /\ start'[e] = start[e] /\ countedAt'[e] = countedAt[e]
        \/ start'[e] = start[e] /\ countedAt'[e] = now
    BY <1>1 DEF CInv, TypeOK, Next, Step, Start, ReadCurrent, Admit, Refuse, FailOpen,
       AttemptSucceeds, AttemptFails, ReadClockAgain, WriteAnswered, Allow, Finish,
       WriteUnanswered, AttemptsLeft, WriteFails, Kill, DeleteExpired, Tick, vars, local
  <2> QED
    BY <2>1, Instants DEF CInv, Ordered
<1>2. ASSUME NEW e \in Executions, pc'[e] \in Counted
      PROVE  start'[e] <= lastCharge'
  <2>1. \/ pc[e] \in Counted /\ start'[e] = start[e]
        \/ start'[e] = start[e] /\ lastCharge' = now
    BY <1>2 DEF CInv, TypeOK, Next, Step, Start, ReadCurrent, Admit, Refuse, FailOpen,
       AttemptSucceeds, AttemptFails, ReadClockAgain, WriteAnswered, Allow, Finish,
       WriteUnanswered, AttemptsLeft, WriteFails, Kill, DeleteExpired, Tick, vars,
       local, Counted, Charge
  <2> QED
    BY <2>1, Instants, LastChargeStep DEF CInv, Ordered
<1>3. ASSUME NEW e \in Executions, landed'[e]
      PROVE  pc'[e] = "write"
  BY <1>3 DEF CInv, Ordered, TypeOK, Next, Step, Start, ReadCurrent, Admit, Refuse,
     FailOpen, AttemptSucceeds, AttemptFails, ReadClockAgain, WriteAnswered, Allow,
     Finish, WriteUnanswered, AttemptsLeft, WriteFails, Kill, DeleteExpired, Tick,
     vars, local, Reading
<1>4. ASSUME NEW e \in Executions, pc'[e] = "readPrevious"
      PROVE  seen'[e] <= count'[StartedIn(e)']
  <2>1. \/ pc[e] = "readPrevious" /\ start'[e] = start[e] /\ seen'[e] = seen[e]
        \/ /\ pc[e] = "readCurrent" /\ start'[e] = start[e]
           /\ seen'[e] = Stored(StartedIn(e))
    BY <1>4 DEF CInv, TypeOK, Next, Step, Start, ReadCurrent, Admit, Refuse, FailOpen,
       AttemptSucceeds, AttemptFails, ReadClockAgain, WriteAnswered, Allow, Finish,
       WriteUnanswered, AttemptsLeft, WriteFails, Kill, DeleteExpired, Tick, vars, local
  <2>2. StartedIn(e)' = StartedIn(e)
    BY <2>1 DEF StartedIn
  <2>3. seen'[e] <= count[StartedIn(e)]
    BY <2>1, Instants DEF CInv, Ordered, Stored
  <2>4. count'[StartedIn(e)] >= count[StartedIn(e)]
    BY <2>1, Instants, LookedAtGrows
  <2> QED
    BY <2>2, <2>3, <2>4, Instants DEF TypeOK
<1> QED
  BY <1>1, <1>2, <1>3, <1>4 DEF Ordered

LEMMA KeptStep ==
  ASSUME CInv, TypeOK', [Next]_vars
  PROVE  Kept'
<1> SUFFICES ASSUME NEW w \in Windows, count'[w] > 0
             PROVE  /\ (w + 2) * Window + ExpirySlack <= expires'[w]
                    /\ w * Window <= lastCharge' + Timeout
  BY DEF Kept
<1>1. lastCharge' \in Nat /\ lastCharge <= lastCharge'
  BY LastChargeStep, Instants DEF CInv, InTime
<1>2. CASE count[w] > 0 /\ expires'[w] = expires[w]
  BY <1>1, <1>2, Instants DEF CInv, Kept
<1>3. CASE ~ (count[w] > 0 /\ expires'[w] = expires[w])
  <2>1. PICK e \in Executions :
          pc[e] = "write" /\ Add(CountedIn(e), countedAt[e])
    BY <1>3, StoreStep, Instants DEF store, DeleteExpired, CInv, TypeOK
  <2>2. CASE CountedIn(e) = w
    <3>1. expires'[w] = countedAt[e] + 2 * Window + ExpirySlack
      BY <2>1, <2>2 DEF Add, CInv, TypeOK
    <3>2. w * Window <= countedAt[e]
      BY <2>2, Instants, WindowBounds DEF CountedIn
    <3>3. countedAt[e] <= lastCharge + Timeout
      BY <2>1, Instants DEF CInv, InTime, Ordered, Counted
    <3>4. (w + 2) * Window = w * Window + 2 * Window /\ w * Window \in Nat
      BY Instants
    <3> QED
      BY <1>1, <3>1, <3>2, <3>3, <3>4, Instants
  <2>3. CASE CountedIn(e) # w
    BY <1>3, <2>1, <2>3 DEF Add, CInv, TypeOK
  <2> QED
    BY <2>2, <2>3
<1> QED
  BY <1>2, <1>3

LEMMA CInvInit == Init => CInv
BY TypeOKInit DEF Init, CInv, ReadClocks, InTime, Ordered, Kept, Counted

LEMMA CInvStep == CInv /\ [Next]_vars => CInv'
<1> SUFFICES ASSUME CInv, [Next]_vars PROVE CInv'
  OBVIOUS
<1>1. TypeOK'
  BY TypeOKStep DEF CInv
<1>2. ReadClocks'
  BY <1>1, ReadClocksStep DEF CInv
<1> QED
  BY <1>1, <1>2, InTimeStep, OrderedStep, KeptStep DEF CInv

LEMMA CInvInvariant == Spec => []CInv
BY CInvInit, CInvStep, PTL DEF Spec

(* "TTL is housekeeping, not correctness": a counter only shrinks when it  *)
(* is too old for the clock and for every execution still running.         *)
THEOREM HousekeepingOnly == Spec => ExpiryIsHousekeeping
<1>1. ASSUME CInv, [Next]_vars, NEW w \in Windows, count'[w] < count[w]
      PROVE  /\ w < WindowOf(now) - 1
             /\ \A e \in Executions : pc[e] # "idle" => w < StartedIn(e) - 1
  <2>1. PICK d \in Windows : DeleteExpired(d)
    <3>1. ~ UNCHANGED store
      BY <1>1, Instants DEF store
    <3>2. \A e \in Executions : ~ Add(CountedIn(e), countedAt[e])
      BY <1>1, Instants DEF Add, CInv, TypeOK
    <3> QED
      BY <1>1, <3>1, <3>2, StoreStep
  <2>2. d = w
    BY <1>1, <2>1, Instants DEF DeleteExpired, CInv, TypeOK
  <2> QED
    BY <1>1, <2>1, <2>2, DeletedIsOld
<1>2. CInv /\ [Next]_vars =>
        [\A w \in Windows : count'[w] < count[w] =>
           /\ w < WindowOf(now) - 1
           /\ \A e \in Executions : pc[e] # "idle" => w < StartedIn(e) - 1]_vars
  BY <1>1
<1> QED
  BY <1>2, CInvInvariant, PTL DEF Spec, ExpiryIsHousekeeping

LEMMA RefusedNow ==
  ASSUME CInv, NEW e \in Executions, Refusing(e)
  PROVE  ~ Admits(Stored(StartedIn(e) - 1), Stored(StartedIn(e)), start[e])
<1>1. TypeOK /\ seen[e] \in Nat /\ start[e] \in Nat
  BY Instants DEF CInv, TypeOK
<1>2. Stored(StartedIn(e) - 1) \in Nat /\ Stored(StartedIn(e)) \in Nat
  BY <1>1, StoredType
<1>3. seen[e] <= Stored(StartedIn(e))
  BY Instants DEF CInv, Ordered, Stored, Refusing
<1> QED
  BY <1>1, <1>2, <1>3, AdmitsMonotone DEF Refusing

(* No refusal is the product of a stale read: counters that refused a      *)
(* request still refuse it when it is told so.                             *)
THEOREM RefusalsAreJustified == Spec => []RefusalJustified
<1>1. CInv => RefusalJustified
  BY RefusedNow DEF RefusalJustified
<1> QED
  BY <1>1, CInvInvariant, PTL

LEMMA RefusedLately ==
  ASSUME CInv, NEW e \in Executions, Refusing(e)
  PROVE  start[e] < lastCharge + 2 * Window + Timeout
<1>1. PICK w \in Windows : count[w] > 0 /\ w >= StartedIn(e) - 1
  <2>1. seen[e] \in Nat /\ start[e] \in Nat
    BY Instants DEF CInv, TypeOK
  <2>2. CASE seen[e] > 0
    <3>1. count[StartedIn(e)] > 0
      BY <2>1, <2>2, Instants DEF CInv, Ordered, Refusing
    <3> QED
      BY <3>1, Instants
  <2>3. CASE Stored(StartedIn(e) - 1) > 0
    BY <2>3, Instants DEF Stored
  <2>4. CASE seen[e] = 0 /\ Stored(StartedIn(e) - 1) = 0
    BY <2>1, <2>4, AdmitsTheFirst DEF Refusing
  <2> QED
    BY <2>1, <2>2, <2>3, <2>4, StoredType DEF CInv
<1>2. w * Window <= lastCharge + Timeout /\ w * Window \in Nat
  BY <1>1, Instants DEF CInv, Kept
<1>3. start[e] < (StartedIn(e) + 1) * Window
  BY Instants, WindowBounds DEF StartedIn
<1>4. (StartedIn(e) + 1) * Window <= (w + 2) * Window
  <2> DEFINE gap == w + 2 - (StartedIn(e) + 1)
  <2>1. gap \in Nat /\ gap * Window >= 0
    BY <1>1, Instants
  <2>2. gap * Window = (w + 2) * Window - (StartedIn(e) + 1) * Window
    BY Instants
  <2> QED
    BY <2>1, <2>2, Instants
<1>5. (w + 2) * Window = w * Window + 2 * Window
  BY Instants
<1> QED
  BY <1>2, <1>3, <1>4, <1>5, Instants

(* No lockout: a refusal means that something was counted within the last  *)
(* two windows, give or take the run time of one request.                  *)
THEOREM LockoutIsBounded == Spec => []LockoutBounded
<1>1. CInv => LockoutBounded
  BY RefusedLately DEF LockoutBounded
<1> QED
  BY <1>1, CInvInvariant, PTL

(* ---- How many requests are let through -------------------------------- *)

(* Executions that started in w and whose charge is yet to be counted, are *)
(* yet to be charged if they will be, and will be charged whatever the     *)
(* counters come to say.                                                   *)
Pending(w) ==
  {e \in Executions : StartedIn(e) = w /\ pc[e] \in Counted /\ ~ landed[e]}
Uncharged(w) ==
  {e \in Executions : StartedIn(e) = w /\ pc[e] \in Reading \cup {"attempt"}}
Chargers(w) ==
  {e \in Executions :
     /\ StartedIn(e) = w
     /\ pc[e] = "attempt" \/ (pc[e] = "readPrevious" /\ seen[e] < Limit)}

(* While the clock is in w every charge in it is counted, lost or pending. *)
CountedInTime ==
  \A w \in Windows : w >= WindowOf(now) =>
    charged[w] <= count[w] + losses + Cardinality(Pending(w))

(* Once the clock has left w, charges may be counted in the next window;   *)
(* but only by executions that were running when the window ended.         *)
CountedAfterwards ==
  \A w \in Windows : w < WindowOf(now) /\ Uncharged(w) # {} =>
    charged[w] + Cardinality(Uncharged(w)) <= count[w] + losses + Concurrency

(* Whoever will be charged in w already fits.                              *)
RoomForCharges ==
  \A w \in Windows :
    charged[w] + Cardinality(Chargers(w))
      <= Limit - 1 + Concurrency + losses + openings

BInv == CInv /\ CountedInTime /\ CountedAfterwards /\ RoomForCharges

(* Sets of executions are finite, and two that are disjoint fit together.  *)
LEMMA ExecutionSets ==
  ASSUME NEW P \in SUBSET Executions, NEW Q \in SUBSET Executions
  PROVE  /\ IsFiniteSet(P) /\ Cardinality(P) \in Nat
         /\ Concurrency \in Nat
         /\ P \subseteq Q => Cardinality(P) <= Cardinality(Q)
         /\ P \cap Q = {} => Cardinality(P) + Cardinality(Q) <= Concurrency
<1>1. IsFiniteSet(P) /\ IsFiniteSet(Q) /\ IsFiniteSet(Executions)
  BY ExecutionsAssumption, FS_Subset
<1>2. Cardinality(P) \in Nat /\ Cardinality(Q) \in Nat /\ Concurrency \in Nat
  BY <1>1, ConcurrencyType, FS_CardinalityType
<1>3. P \subseteq Q => Cardinality(P) <= Cardinality(Q)
  BY <1>1, FS_Subset
<1>4. ASSUME P \cap Q = {} PROVE Cardinality(P) + Cardinality(Q) <= Concurrency
  <2>1. Cardinality(P \cup Q)
          = Cardinality(P) + Cardinality(Q) - Cardinality(P \cap Q)
    BY <1>1, FS_Union
  <2>2. Cardinality(P \cap Q) = 0
    BY <1>4, FS_EmptySet
  <2>3. Cardinality(P \cup Q) <= Concurrency
    BY <1>1, FS_Subset DEF Concurrency
  <2> QED
    BY <1>2, <2>1, <2>2, <2>3
<1> QED
  BY <1>1, <1>2, <1>3, <1>4

(* One execution more, or one less.                                        *)
LEMMA OneExecution ==
  ASSUME NEW P \in SUBSET Executions, NEW e \in Executions
  PROVE  /\ e \in P => Cardinality(P \ {e}) = Cardinality(P) - 1
         /\ e \notin P => Cardinality(P \cup {e}) = Cardinality(P) + 1
         /\ Cardinality(P \cup {e}) <= Cardinality(P) + 1
         /\ Cardinality(P \ {e}) >= Cardinality(P) - 1
<1>1. IsFiniteSet(P) /\ Cardinality(P) \in Nat
  BY ExecutionSets
<1>2. e \in P => Cardinality(P \ {e}) = Cardinality(P) - 1
  BY <1>1, FS_RemoveElement
<1>3. e \notin P => Cardinality(P \cup {e}) = Cardinality(P) + 1
  BY <1>1, FS_AddElement
<1>4. CASE e \in P
  <2>1. P \cup {e} = P
    BY <1>4
  <2>2. Cardinality(P \cup {e}) = Cardinality(P)
    BY <2>1
  <2>3. Cardinality(P \ {e}) = Cardinality(P) - 1
    BY <1>2, <1>4
  <2> QED
    BY <1>1, <1>4, <2>2, <2>3
<1>5. CASE e \notin P
  <2>1. P \ {e} = P
    BY <1>5
  <2>2. Cardinality(P \ {e}) = Cardinality(P)
    BY <2>1
  <2>3. Cardinality(P \cup {e}) = Cardinality(P) + 1
    BY <1>3, <1>5
  <2> QED
    BY <1>1, <1>5, <2>2, <2>3
<1> QED
  BY <1>4, <1>5

LEMMA ChargeSets ==
  \A w : /\ Pending(w) \in SUBSET Executions /\ Pending(w)' \in SUBSET Executions
         /\ Uncharged(w) \in SUBSET Executions /\ Uncharged(w)' \in SUBSET Executions
         /\ Chargers(w) \in SUBSET Executions /\ Chargers(w)' \in SUBSET Executions
         /\ Pending(w) \cap Uncharged(w) = {}
         /\ Pending(w) \cap Chargers(w) = {}
         /\ Pending(w)' \cap Uncharged(w)' = {}
         /\ Chargers(w)' \subseteq Uncharged(w)'
         /\ Chargers(w) \subseteq Uncharged(w)
BY DEF Pending, Uncharged, Chargers, Counted, Reading

(* ---- The kinds of steps ----------------------------------------------- *)

(* Of the executions, only e moves.                                        *)
OnlyMoves(e) ==
  \A x \in Executions \ {e} :
    /\ pc'[x] = pc[x] /\ start'[x] = start[x] /\ seen'[x] = seen[x]
    /\ landed'[x] = landed[x]

(* e has passed: its decision allowed the request, or failed open.         *)
Passes(e, statement) ==
  /\ OnlyMoves(e)
  /\ pc[e] \in Reading \cup {"attempt"} /\ pc'[e] = statement
  /\ start'[e] = start[e] /\ ~ landed'[e]
  /\ UNCHANGED <<now, store, losses>>
  /\ \/ e \in Chargers(StartedIn(e)) /\ openings' = openings
     \/ openings' = openings + 1

(* e goes on with a charge that was taken, or ends: what was pending is    *)
(* still pending, has been counted or is lost.                             *)
Settles(e) ==
  /\ OnlyMoves(e)
  /\ \/ pc'[e] = "idle"
     \/ pc[e] \in Counted /\ pc'[e] \in Counted /\ start'[e] = start[e]
  /\ UNCHANGED <<now, charged, openings>>
  /\ \/ /\ UNCHANGED <<store, losses>>
        /\ e \in Pending(StartedIn(e)) => pc'[e] \in Counted /\ ~ landed'[e]
     \/ /\ pc[e] = "write" /\ Add(CountedIn(e), countedAt[e])
        /\ losses' = losses
     \/ UNCHANGED store /\ losses' = losses + 1

LEMMA StepKinds ==
  ASSUME CInv, NEW e \in Executions, Step(e)
  PROVE  \/ Start(e)
         \/ ReadCurrent(e)
         \/ Passes(e, "count") /\ Charge(e)
         \/ Passes(e, "attempt") /\ UNCHANGED charged
         \/ Settles(e)
<1> USE DEF CInv, TypeOK
<1>1. ASSUME Allow(e), pc[e] \in Reading, UNCHANGED <<now, store, losses>>,
             \/ e \in Chargers(StartedIn(e)) /\ openings' = openings
             \/ openings' = openings + 1
      PROVE  \/ Passes(e, "count") /\ Charge(e)
             \/ Passes(e, "attempt") /\ UNCHANGED charged
  <2>1. ~ landed[e]
    BY <1>1 DEF Ordered, Reading
  <2> QED
    BY <1>1, <2>1 DEF Allow, Passes, OnlyMoves
<1>2. CASE Admit(e)
  <2>1. seen[e] < Limit
    BY <1>2, Instants, AdmitsBelowLimit, StoredType DEF Admit
  <2>2. e \in Chargers(StartedIn(e))
    BY <1>2, <2>1 DEF Admit, Chargers
  <2> QED
    BY <1>1, <1>2, <2>2 DEF Admit, Reading
<1>3. CASE FailOpen(e)
  BY <1>1, <1>3 DEF FailOpen
<1>4. CASE AttemptFails(e)
  <2>1. ~ landed[e]
    BY <1>4 DEF Ordered, AttemptFails
  <2> QED
    BY <1>4, <2>1 DEF AttemptFails, Passes, OnlyMoves, Chargers
<1>5. CASE Refuse(e) \/ AttemptSucceeds(e)
  BY <1>5 DEF Refuse, AttemptSucceeds, Finish, Settles, OnlyMoves, Pending,
     Counted, store, ghost
<1>6. CASE ReadClockAgain(e)
  BY <1>6 DEF ReadClockAgain, Settles, OnlyMoves, Pending, Counted, store, ghost
<1>7. CASE WriteAnswered(e)
  BY <1>7 DEF WriteAnswered, Finish, Settles, OnlyMoves, ghost
<1>8. CASE WriteUnanswered(e)
  BY <1>8 DEF WriteUnanswered, AttemptsLeft, Finish, Settles, OnlyMoves, Counted, ghost
<1>9. CASE WriteFails(e)
  BY <1>9 DEF WriteFails, AttemptsLeft, Finish, Settles, OnlyMoves, Pending,
     Counted, store
<1>10. CASE Kill(e)
  BY <1>10 DEF Kill, Finish, Settles, OnlyMoves, Pending, Counted, store
<1> QED
  BY <1>2, <1>3, <1>4, <1>5, <1>6, <1>7, <1>8, <1>9, <1>10 DEF Step

(* ---- The three parts of the invariant, step by step ------------------- *)

(* The types of the counters, before and after a step.                     *)
LEMMA Counters ==
  ASSUME CInv, TypeOK', NEW w \in Windows
  PROVE  /\ w \in Nat /\ Limit \in Nat /\ Limit > 0
         /\ count[w] \in Nat /\ count'[w] \in Nat
         /\ charged[w] \in Nat /\ charged'[w] \in Nat
         /\ losses \in Nat /\ losses' \in Nat
         /\ openings \in Nat /\ openings' \in Nat
         /\ Concurrency \in Nat /\ Concurrency' = Concurrency
         /\ Cardinality(Pending(w)) \in Nat /\ Cardinality(Pending(w)') \in Nat
         /\ Cardinality(Uncharged(w)) \in Nat /\ Cardinality(Uncharged(w)') \in Nat
         /\ Cardinality(Chargers(w)) \in Nat /\ Cardinality(Chargers(w)') \in Nat
<1>1. w \in Nat
  BY Instants
<1>2. Concurrency' = Concurrency
  BY DEF Concurrency
<1> QED
  BY <1>1, <1>2, ChargeSets, ExecutionSets, QuotaAssumption DEF CInv, TypeOK

(* If only e moves, membership of the sets changes for e alone.            *)
LEMMA OthersKeepSets ==
  ASSUME NEW e \in Executions, OnlyMoves(e), NEW w
  PROVE  /\ Pending(w)' \ {e} = Pending(w) \ {e}
         /\ Uncharged(w)' \ {e} = Uncharged(w) \ {e}
         /\ Chargers(w)' \ {e} = Chargers(w) \ {e}
BY DEF OnlyMoves, Pending, Uncharged, Chargers, StartedIn, WindowOf

(* A charge by e in the window it started in.                              *)
LEMMA PassesSets ==
  ASSUME CInv, TypeOK', NEW e \in Executions, NEW w \in Windows,
         Passes(e, "count")
  PROVE  /\ StartedIn(e) = w =>
              /\ e \in Uncharged(w) /\ Uncharged(w)' = Uncharged(w) \ {e}
              /\ e \notin Pending(w) /\ Pending(w)' = Pending(w) \cup {e}
              /\ Chargers(w)' = Chargers(w) \ {e}
         /\ StartedIn(e) # w =>
              /\ Uncharged(w)' = Uncharged(w) /\ Pending(w)' = Pending(w)
              /\ Chargers(w)' = Chargers(w)
<1>1. StartedIn(e)' = StartedIn(e)
  BY DEF StartedIn, Passes
<1>2. /\ e \in Uncharged(w) <=> StartedIn(e) = w
      /\ e \notin Pending(w)
      /\ e \in Chargers(w) => StartedIn(e) = w
  BY DEF Passes, Uncharged, Pending, Chargers, Reading, Counted
<1>3. /\ e \notin Uncharged(w)' /\ e \notin Chargers(w)'
      /\ e \in Pending(w)' <=> StartedIn(e) = w
  BY <1>1 DEF Passes, Uncharged, Pending, Chargers, Reading, Counted
<1>4. /\ Pending(w)' \ {e} = Pending(w) \ {e}
      /\ Uncharged(w)' \ {e} = Uncharged(w) \ {e}
      /\ Chargers(w)' \ {e} = Chargers(w) \ {e}
  BY OthersKeepSets DEF Passes
<1> QED
  BY <1>2, <1>3, <1>4

(* The step that starts a request gives it no charge yet.                  *)
LEMMA StartSets ==
  ASSUME CInv, TypeOK', NEW e \in Executions, NEW w \in Windows, Start(e)
  PROVE  /\ Pending(w)' = Pending(w) /\ Chargers(w)' = Chargers(w)
         /\ w # WindowOf(now) => Uncharged(w)' = Uncharged(w)
<1>1. OnlyMoves(e)
  BY DEF OnlyMoves, Start, CInv, TypeOK
<1>2. pc'[e] = "readCurrent" /\ start'[e] = now /\ pc[e] = "idle"
  BY DEF Start, CInv, TypeOK
<1>3. StartedIn(e)' = WindowOf(now)
  BY <1>2 DEF StartedIn, WindowOf
<1>4. /\ e \notin Pending(w) /\ e \notin Pending(w)'
      /\ e \notin Chargers(w) /\ e \notin Chargers(w)'
      /\ e \notin Uncharged(w) /\ (w # WindowOf(now) => e \notin Uncharged(w)')
  BY <1>2, <1>3 DEF Pending, Chargers, Uncharged, Counted, Reading
<1>5. /\ Pending(w)' \ {e} = Pending(w) \ {e}
      /\ Uncharged(w)' \ {e} = Uncharged(w) \ {e}
      /\ Chargers(w)' \ {e} = Chargers(w) \ {e}
  BY <1>1, OthersKeepSets
<1> QED
  BY <1>4, <1>5

(* Reading the counter of its window makes a charger of e if it is below   *)
(* the limit.                                                              *)
LEMMA ReadCurrentSets ==
  ASSUME CInv, TypeOK', NEW e \in Executions, NEW w \in Windows, ReadCurrent(e)
  PROVE  /\ Pending(w)' = Pending(w) /\ Uncharged(w)' = Uncharged(w)
         /\ StartedIn(e) # w \/ count[w] >= Limit => Chargers(w)' = Chargers(w)
         /\ e \in Uncharged(StartedIn(e))
<1>1. OnlyMoves(e)
  BY DEF OnlyMoves, ReadCurrent, CInv, TypeOK
<1>2. /\ pc'[e] = "readPrevious" /\ pc[e] = "readCurrent" /\ start'[e] = start[e]
      /\ seen'[e] = count[StartedIn(e)]
  BY Instants DEF ReadCurrent, CInv, TypeOK, Stored
<1>3. StartedIn(e)' = StartedIn(e)
  BY <1>2 DEF StartedIn, WindowOf
<1>4. /\ e \notin Pending(w) /\ e \notin Pending(w)'
      /\ e \in Uncharged(w) <=> StartedIn(e) = w
      /\ e \in Uncharged(w)' <=> StartedIn(e) = w
      /\ e \notin Chargers(w)
  BY <1>2, <1>3 DEF Pending, Chargers, Uncharged, Counted, Reading
<1>5. StartedIn(e) # w \/ count[w] >= Limit => e \notin Chargers(w)'
  BY <1>2, <1>3, Instants, QuotaAssumption DEF Chargers
<1>6. /\ Pending(w)' \ {e} = Pending(w) \ {e}
      /\ Uncharged(w)' \ {e} = Uncharged(w) \ {e}
      /\ Chargers(w)' \ {e} = Chargers(w) \ {e}
  BY <1>1, OthersKeepSets
<1>7. e \in Uncharged(StartedIn(e))
  BY <1>2 DEF Uncharged, Reading
<1> QED
  BY <1>4, <1>5, <1>6, <1>7

(* Settling makes nobody a charger, and takes at most e from the pending.  *)
LEMMA SettlesSets ==
  ASSUME CInv, TypeOK', NEW e \in Executions, NEW w \in Windows, Settles(e)
  PROVE  /\ Chargers(w)' \subseteq Chargers(w)
         /\ Uncharged(w)' \subseteq Uncharged(w)
         /\ Pending(w) \ {e} \subseteq Pending(w)'
         /\ e \in Pending(w) =>
              StartedIn(e) = w /\ pc[e] \in Counted /\ ~ landed[e]
<1>1. /\ Pending(w)' \ {e} = Pending(w) \ {e}
      /\ Uncharged(w)' \ {e} = Uncharged(w) \ {e}
      /\ Chargers(w)' \ {e} = Chargers(w) \ {e}
  BY OthersKeepSets DEF Settles
<1>2. e \notin Chargers(w)' /\ e \notin Uncharged(w)'
  BY DEF Settles, Chargers, Uncharged, Counted, Reading
<1>3. e \in Pending(w) =>
        StartedIn(e) = w /\ pc[e] \in Counted /\ ~ landed[e]
  BY DEF Pending
<1> QED
  BY <1>1, <1>2, <1>3

(* A login attempt to come is a charger.                                   *)
LEMMA AttemptSets ==
  ASSUME CInv, TypeOK', NEW e \in Executions, NEW w \in Windows,
         Passes(e, "attempt")
  PROVE  /\ Pending(w)' = Pending(w) /\ Uncharged(w)' = Uncharged(w)
         /\ Chargers(w)' \subseteq Chargers(w) \cup {e}
         /\ openings' = openings => Chargers(w)' \subseteq Chargers(w)
<1>1. StartedIn(e)' = StartedIn(e)
  BY DEF StartedIn, Passes
<1>2. /\ e \in Uncharged(w) <=> StartedIn(e) = w
      /\ e \in Uncharged(w)' <=> StartedIn(e) = w
      /\ e \notin Pending(w) /\ e \notin Pending(w)'
      /\ e \in Chargers(w)' => StartedIn(e) = w
  BY <1>1 DEF Passes, Uncharged, Pending, Chargers, Reading, Counted
<1>3. openings' = openings => e \in Chargers(StartedIn(e))
  BY DEF Passes, CInv, TypeOK
<1>4. /\ Pending(w)' \ {e} = Pending(w) \ {e}
      /\ Uncharged(w)' \ {e} = Uncharged(w) \ {e}
      /\ Chargers(w)' \ {e} = Chargers(w) \ {e}
  BY OthersKeepSets DEF Passes
<1> QED
  BY <1>2, <1>3, <1>4

(* Where e charges: the window it started in, and no other.                *)
LEMMA ChargeCounts ==
  ASSUME CInv, TypeOK', NEW e \in Executions, NEW w \in Windows, Charge(e)
  PROVE  /\ StartedIn(e) = w => charged'[w] = charged[w] + 1
         /\ StartedIn(e) # w => charged'[w] = charged[w]
BY DEF Charge, CInv, TypeOK

LEMMA RoomForChargesStep ==
  ASSUME BInv, TypeOK', [Next]_vars, NEW w \in Windows
  PROVE  charged'[w] + Cardinality(Chargers(w)')
           <= Limit - 1 + Concurrency + losses' + openings'
<1> DEFINE Goal == charged'[w] + Cardinality(Chargers(w)')
                     <= Limit - 1 + Concurrency + losses' + openings'
<1>0. /\ charged[w] + Cardinality(Chargers(w))
           <= Limit - 1 + Concurrency + losses + openings
      /\ CInv
  BY DEF BInv, RoomForCharges
<1>1. ASSUME charged'[w] = charged[w], losses' >= losses, openings' >= openings,
             Chargers(w)' \subseteq Chargers(w)
      PROVE  Goal
  <2>1. Cardinality(Chargers(w)') <= Cardinality(Chargers(w))
    BY <1>1, ChargeSets, ExecutionSets
  <2> QED
    BY <1>0, <1>1, <2>1, Counters
<1>2. ASSUME NEW e \in Executions, Start(e) PROVE Goal
  BY <1>0, <1>1, <1>2, StartSets, Counters DEF Start, ghost
<1>3. ASSUME NEW e \in Executions, ReadCurrent(e) PROVE Goal
  <2>1. charged' = charged /\ losses' = losses /\ openings' = openings
    BY <1>3 DEF ReadCurrent, ghost
  <2>2. CASE StartedIn(e) # w \/ count[w] >= Limit
    BY <1>0, <1>1, <1>3, <2>1, <2>2, ReadCurrentSets, Counters
  <2>3. CASE StartedIn(e) = w /\ count[w] < Limit
    <3>1. e \in Uncharged(w)
      BY <1>0, <1>3, <2>3, ReadCurrentSets
    <3>2. Cardinality(Chargers(w)') <= Cardinality(Uncharged(w))
      <4>1. Uncharged(w)' = Uncharged(w)
        BY <1>0, <1>3, ReadCurrentSets
      <4>2. Chargers(w)' \subseteq Uncharged(w)
        BY <4>1, ChargeSets
      <4> QED
        BY <4>2, ChargeSets, ExecutionSets
    <3>3. CASE w < WindowOf(now)
      <4>1. charged[w] + Cardinality(Uncharged(w)) <= count[w] + losses + Concurrency
        BY <3>1, <3>3 DEF BInv, CountedAfterwards
      <4> QED
        BY <1>0, <2>1, <2>3, <3>2, <4>1, Counters
    <3>4. CASE ~ (w < WindowOf(now))
      <4>1. charged[w] <= count[w] + losses + Cardinality(Pending(w))
        BY <1>0, <3>4, Instants DEF BInv, CountedInTime
      <4>2. Cardinality(Pending(w)) + Cardinality(Uncharged(w)) <= Concurrency
        BY ChargeSets, ExecutionSets
      <4> QED
        BY <1>0, <2>1, <2>3, <3>2, <4>1, <4>2, Counters
    <3> QED
      BY <3>3, <3>4
  <2> QED
    BY <1>0, <2>2, <2>3, Counters
<1>4. ASSUME NEW e \in Executions, Passes(e, "count"), Charge(e) PROVE Goal
  <2>1. losses' = losses /\ (openings' = openings \/ openings' = openings + 1)
    BY <1>4 DEF Passes
  <2>2. CASE StartedIn(e) # w
    BY <1>0, <1>1, <1>4, <2>1, <2>2, PassesSets, ChargeCounts, Counters
  <2>3. CASE StartedIn(e) = w
    <3>1. charged'[w] = charged[w] + 1 /\ Chargers(w)' = Chargers(w) \ {e}
      BY <1>0, <1>4, <2>3, PassesSets, ChargeCounts
    <3>2. CASE e \in Chargers(w)
      <4>1. Cardinality(Chargers(w)') = Cardinality(Chargers(w)) - 1
        BY <3>1, <3>2, ChargeSets, OneExecution
      <4> QED
        BY <1>0, <2>1, <3>1, <4>1, Counters
    <3>3. CASE e \notin Chargers(w)
      <4>1. openings' = openings + 1
        BY <1>4, <2>3, <3>3 DEF Passes
      <4>2. Cardinality(Chargers(w)') <= Cardinality(Chargers(w))
        BY <3>1, ChargeSets, ExecutionSets
      <4>3. charged'[w] = charged[w] + 1
        BY <3>1
      <4> QED
        BY <1>0, <2>1, <4>1, <4>2, <4>3, Counters
    <3> QED
      BY <3>2, <3>3
  <2> QED
    BY <2>2, <2>3
<1>5. ASSUME NEW e \in Executions, Passes(e, "attempt"), UNCHANGED charged PROVE Goal
  <2>1. losses' = losses /\ (openings' = openings \/ openings' = openings + 1)
    BY <1>5 DEF Passes
  <2>2. CASE openings' = openings
    BY <1>0, <1>1, <1>5, <2>1, <2>2, AttemptSets, Counters
  <2>3. CASE openings' = openings + 1
    <3>1. Cardinality(Chargers(w)') <= Cardinality(Chargers(w) \cup {e})
      <4>1. Chargers(w)' \subseteq Chargers(w) \cup {e}
        BY <1>0, <1>5, AttemptSets
      <4>2. Chargers(w) \cup {e} \in SUBSET Executions
        BY ChargeSets
      <4> QED
        BY <4>1, <4>2, ChargeSets, ExecutionSets
    <3>2. Cardinality(Chargers(w) \cup {e}) <= Cardinality(Chargers(w)) + 1
      BY ChargeSets, OneExecution
    <3>3. Cardinality(Chargers(w) \cup {e}) \in Nat
      BY ChargeSets, ExecutionSets
    <3> QED
      BY <1>0, <1>5, <2>1, <2>3, <3>1, <3>2, <3>3, Counters
  <2> QED
    BY <2>1, <2>2, <2>3
<1>6. ASSUME NEW e \in Executions, Settles(e) PROVE Goal
  <2>1. charged' = charged /\ openings' = openings /\ losses' >= losses
    BY <1>0, <1>6, Counters DEF Settles
  <2> QED
    BY <1>0, <1>1, <1>6, <2>1, SettlesSets, Counters
<1>7. CASE Tick \/ UNCHANGED vars \/ \E d \in Windows : DeleteExpired(d)
  <2>1. UNCHANGED <<local, ghost>>
    BY <1>7 DEF Tick, DeleteExpired, vars
  <2>2. Chargers(w)' = Chargers(w)
    BY <2>1 DEF local, Chargers, StartedIn, WindowOf
  <2> QED
    BY <1>0, <1>1, <2>1, <2>2, Counters DEF ghost
<1> QED
  BY <1>0, <1>2, <1>3, <1>4, <1>5, <1>6, <1>7, StepKinds DEF Next

(* Until the clock leaves w, an increment by an execution that started in  *)
(* w is one of the counter of w.                                           *)
LEMMA CountedInTimeStep ==
  ASSUME BInv, TypeOK', [Next]_vars, NEW w \in Windows, w >= WindowOf(now)'
  PROVE  charged'[w] <= count'[w] + losses' + Cardinality(Pending(w)')
<1> DEFINE Goal == charged'[w] <= count'[w] + losses' + Cardinality(Pending(w)')
<1>0. /\ CInv /\ w >= WindowOf(now)
      /\ charged[w] <= count[w] + losses + Cardinality(Pending(w))
  <2>1. CInv /\ now' \in Nat /\ now <= now'
    BY Instants, NowStep DEF BInv, TypeOK, Times
  <2>2. w >= WindowOf(now)
    BY <2>1, Instants, WindowOfMonotone DEF WindowOf
  <2> QED
    BY <2>1, <2>2 DEF BInv, CountedInTime
<1>1. ASSUME charged'[w] = charged[w], count'[w] >= count[w], losses' >= losses,
             Pending(w) \subseteq Pending(w)'
      PROVE  Goal
  <2>1. Cardinality(Pending(w)) <= Cardinality(Pending(w)')
    BY <1>1, ChargeSets, ExecutionSets
  <2> QED
    BY <1>0, <1>1, <2>1, Counters
<1>2. ASSUME NEW e \in Executions, Start(e) \/ ReadCurrent(e) PROVE Goal
  <2>1. UNCHANGED <<store, ghost>>
    BY <1>2 DEF Start, ReadCurrent
  <2> QED
    BY <1>0, <1>1, <1>2, <2>1, StartSets, ReadCurrentSets, Counters DEF store, ghost
<1>3. ASSUME NEW e \in Executions, Passes(e, "count"), Charge(e) PROVE Goal
  <2>1. UNCHANGED <<store, losses>>
    BY <1>3 DEF Passes
  <2>2. CASE StartedIn(e) # w
    BY <1>0, <1>1, <1>3, <2>1, <2>2, PassesSets, ChargeCounts, Counters DEF store
  <2>3. CASE StartedIn(e) = w
    <3>1. Cardinality(Pending(w)') = Cardinality(Pending(w)) + 1
      BY <1>0, <1>3, <2>3, PassesSets, ChargeSets, OneExecution
    <3> QED
      BY <1>0, <1>3, <2>1, <2>3, <3>1, ChargeCounts, Counters DEF store
  <2> QED
    BY <2>2, <2>3
<1>4. ASSUME NEW e \in Executions, Passes(e, "attempt"), UNCHANGED charged PROVE Goal
  BY <1>0, <1>1, <1>4, AttemptSets, Counters DEF Passes, store
<1>5. ASSUME NEW e \in Executions, Settles(e) PROVE Goal
  <2>1. charged'[w] = charged[w] /\ losses' >= losses
    BY <1>0, <1>5, Counters DEF Settles
  <2>2. count'[w] >= count[w]
    BY <1>0, <1>5, Counters, Instants DEF Settles, store, Add, CInv, TypeOK
  <2>3. CASE e \notin Pending(w) \/ e \in Pending(w)'
    <3>1. Pending(w) \subseteq Pending(w)'
      BY <1>0, <1>5, <2>3, SettlesSets
    <3> QED
      BY <1>1, <2>1, <2>2, <3>1
  <2>4. CASE e \in Pending(w) /\ e \notin Pending(w)'
    <3>1. StartedIn(e) = w /\ pc[e] \in Counted /\ ~ landed[e]
      BY <1>0, <1>5, <2>4, SettlesSets
    <3>2. Cardinality(Pending(w)') >= Cardinality(Pending(w)) - 1
      <4>1. Pending(w) \ {e} \subseteq Pending(w)'
        BY <1>0, <1>5, SettlesSets
      <4>2. Pending(w) \ {e} \in SUBSET Executions
        BY ChargeSets
      <4>3. Cardinality(Pending(w) \ {e}) = Cardinality(Pending(w)) - 1
        BY <2>4, ChargeSets, OneExecution
      <4>4. Cardinality(Pending(w) \ {e}) <= Cardinality(Pending(w)')
        BY <4>1, <4>2, ChargeSets, ExecutionSets
      <4> QED
        BY <4>3, <4>4
    <3>3. CASE pc[e] = "write" /\ Add(CountedIn(e), countedAt[e])
      <4>1. CountedIn(e) = w
        <5>1. start[e] <= countedAt[e] /\ countedAt[e] <= now
          BY <1>0, <3>3, Instants DEF CInv, Ordered
        <5>2. StartedIn(e) <= CountedIn(e) /\ CountedIn(e) <= WindowOf(now)
          BY <1>0, <5>1, Instants, WindowOfMonotone DEF StartedIn, CountedIn
        <5> QED
          BY <1>0, <3>1, <5>2, Instants
      <4>2. count'[w] = count[w] + 1
        BY <1>0, <3>3, <4>1 DEF Add, CInv, TypeOK
      <4> QED
        BY <1>0, <2>1, <3>2, <4>2, Counters
    <3>4. CASE losses' = losses + 1
      BY <1>0, <2>1, <2>2, <3>2, <3>4, Counters
    <3>5. CASE e \in Pending(StartedIn(e)) => pc'[e] \in Counted /\ ~ landed'[e]
      <4>1. pc'[e] \in Counted /\ ~ landed'[e]
        BY <2>4, <3>1, <3>5
      <4>2. start'[e] = start[e]
        BY <1>5, <4>1 DEF Settles, Counted
      <4>3. e \in Pending(w)'
        BY <3>1, <4>1, <4>2 DEF Pending, StartedIn, WindowOf
      <4> QED
        BY <2>4, <4>3
    <3> QED
      BY <1>5, <3>3, <3>4, <3>5 DEF Settles
  <2> QED
    BY <2>3, <2>4
<1>6. ASSUME NEW d \in Windows, DeleteExpired(d) PROVE Goal
  <2>1. d # w
    BY <1>0, <1>6, DeletedIsOld, Instants
  <2>2. count'[w] = count[w] /\ UNCHANGED <<local, ghost>>
    BY <1>0, <1>6, <2>1 DEF DeleteExpired, CInv, TypeOK
  <2>3. Pending(w)' = Pending(w)
    BY <2>2 DEF local, Pending, StartedIn, WindowOf
  <2> QED
    BY <1>0, <1>1, <2>2, <2>3, Counters DEF ghost
<1>7. CASE Tick \/ UNCHANGED vars
  <2>1. UNCHANGED <<store, local, ghost>>
    BY <1>7 DEF Tick, vars
  <2>2. Pending(w)' = Pending(w)
    BY <2>1 DEF local, Pending, StartedIn, WindowOf
  <2> QED
    BY <1>0, <1>1, <2>1, <2>2, Counters DEF ghost, store
<1> QED
  BY <1>0, <1>2, <1>3, <1>4, <1>5, <1>6, <1>7, StepKinds DEF Next

(* When the clock has left w nobody starts in it any more: every charge is *)
(* one uncharged execution less, and the counters of w only grow.          *)
LEMMA LeftWindowStep ==
  ASSUME CInv, TypeOK', [Next]_vars, NEW w \in Windows, w # WindowOf(now)
  PROVE  /\ losses' >= losses
         /\ Uncharged(w)' \subseteq Uncharged(w)
         /\ charged'[w] + Cardinality(Uncharged(w)')
              <= charged[w] + Cardinality(Uncharged(w))
<1> DEFINE Goal == /\ losses' >= losses
                   /\ Uncharged(w)' \subseteq Uncharged(w)
                   /\ charged'[w] + Cardinality(Uncharged(w)')
                        <= charged[w] + Cardinality(Uncharged(w))
<1>1. ASSUME charged'[w] = charged[w], losses' >= losses,
             Uncharged(w)' \subseteq Uncharged(w)
      PROVE  Goal
  <2>1. Cardinality(Uncharged(w)') <= Cardinality(Uncharged(w))
    BY <1>1, ChargeSets, ExecutionSets
  <2> QED
    BY <1>1, <2>1, Counters
<1>2. ASSUME NEW e \in Executions, Start(e) \/ ReadCurrent(e) PROVE Goal
  <2>1. UNCHANGED ghost
    BY <1>2 DEF Start, ReadCurrent
  <2> QED
    BY <1>1, <1>2, <2>1, StartSets, ReadCurrentSets, Counters DEF ghost
<1>3. ASSUME NEW e \in Executions, Passes(e, "count"), Charge(e) PROVE Goal
  <2>1. losses' = losses
    BY <1>3 DEF Passes
  <2>2. CASE StartedIn(e) # w
    BY <1>1, <1>3, <2>1, <2>2, PassesSets, ChargeCounts, Counters
  <2>3. CASE StartedIn(e) = w
    <3>1. e \in Uncharged(w) /\ Uncharged(w)' = Uncharged(w) \ {e}
      BY <1>3, <2>3, PassesSets
    <3>2. Cardinality(Uncharged(w) \ {e}) = Cardinality(Uncharged(w)) - 1
      BY <3>1, ChargeSets, OneExecution
    <3>3. Cardinality(Uncharged(w)') = Cardinality(Uncharged(w)) - 1
      BY <3>1, <3>2
    <3>4. charged'[w] = charged[w] + 1
      BY <1>3, <2>3, ChargeCounts
    <3>5. Uncharged(w)' \subseteq Uncharged(w)
      BY <3>1
    <3> QED
      BY <2>1, <3>3, <3>4, <3>5, Counters
  <2> QED
    BY <2>2, <2>3
<1>4. ASSUME NEW e \in Executions, Passes(e, "attempt"), UNCHANGED charged PROVE Goal
  BY <1>1, <1>4, AttemptSets, Counters DEF Passes
<1>5. ASSUME NEW e \in Executions, Settles(e) PROVE Goal
  <2>1. charged'[w] = charged[w] /\ losses' >= losses
    BY <1>5, Counters DEF Settles
  <2> QED
    BY <1>1, <1>5, <2>1, SettlesSets
<1>6. CASE Tick \/ UNCHANGED vars \/ \E d \in Windows : DeleteExpired(d)
  <2>1. UNCHANGED <<local, ghost>>
    BY <1>6 DEF Tick, DeleteExpired, vars
  <2>2. Uncharged(w)' = Uncharged(w)
    BY <2>1 DEF local, Uncharged, StartedIn, WindowOf
  <2> QED
    BY <1>1, <2>1, <2>2, Counters DEF ghost
<1> QED
  BY <1>2, <1>3, <1>4, <1>5, <1>6, StepKinds DEF Next

(* Charges may be counted in the next window only by executions that were  *)
(* running when theirs ended, and all of those run at once.                *)
LEMMA CountedAfterwardsStep ==
  ASSUME BInv, TypeOK', [Next]_vars, NEW w \in Windows, w < WindowOf(now)',
         Uncharged(w)' # {}
  PROVE  charged'[w] + Cardinality(Uncharged(w)') <= count'[w] + losses' + Concurrency
<1>0. CInv
  BY DEF BInv
<1>1. CASE w < WindowOf(now)
  <2>1. /\ losses' >= losses
        /\ Uncharged(w)' \subseteq Uncharged(w)
        /\ charged'[w] + Cardinality(Uncharged(w)')
             <= charged[w] + Cardinality(Uncharged(w))
    BY <1>0, <1>1, Instants, LeftWindowStep
  <2>2. PICK x \in Executions : x \in Uncharged(w)
    BY <2>1, ChargeSets
  <2>3. pc[x] # "idle" /\ StartedIn(x) = w
    BY <2>2 DEF Uncharged, Reading
  <2>4. count'[w] >= count[w]
    BY <1>0, <2>3, Instants, LookedAtGrows
  <2>5. charged[w] + Cardinality(Uncharged(w)) <= count[w] + losses + Concurrency
    BY <1>1, <2>2 DEF BInv, CountedAfterwards
  <2> QED
    BY <1>0, <2>1, <2>4, <2>5, Counters
<1>2. CASE w >= WindowOf(now)
  <2>1. Tick
    BY <1>0, <1>2, NowStep, Instants DEF WindowOf
  <2>2. UNCHANGED <<store, local, ghost>>
    BY <2>1 DEF Tick
  <2>3. Uncharged(w)' = Uncharged(w)
    BY <2>2 DEF local, Uncharged, StartedIn, WindowOf
  <2>4. Cardinality(Uncharged(w)') = Cardinality(Uncharged(w))
    BY <2>3
  <2>5. charged[w] <= count[w] + losses + Cardinality(Pending(w))
    BY <1>2 DEF BInv, CountedInTime
  <2>6. Cardinality(Pending(w)) + Cardinality(Uncharged(w)) <= Concurrency
    BY ChargeSets, ExecutionSets
  <2>7. charged' = charged /\ count' = count /\ losses' = losses
    BY <2>2 DEF store, ghost
  <2> QED
    BY <1>0, <2>4, <2>5, <2>6, <2>7, Counters
<1> QED
  BY <1>0, <1>1, <1>2, Instants

LEMMA BInvInit == Init => BInv
<1> SUFFICES ASSUME Init PROVE BInv
  OBVIOUS
<1>1. CInv
  BY CInvInit
<1>2. \A w : Pending(w) = {} /\ Uncharged(w) = {} /\ Chargers(w) = {}
  BY DEF Init, Pending, Uncharged, Chargers, Counted, Reading
<1>3. Cardinality({}) = 0
  BY FS_EmptySet
<1>4. CountedInTime /\ CountedAfterwards
  BY <1>2, <1>3 DEF Init, CountedInTime, CountedAfterwards
<1>5. ASSUME NEW w \in Windows
      PROVE  charged[w] + Cardinality(Chargers(w))
               <= Limit - 1 + Concurrency + losses + openings
  <2>1. Cardinality(Chargers(w)) = 0
    BY <1>2, <1>3
  <2>2. charged[w] = 0 /\ losses = 0 /\ openings = 0
    BY DEF Init
  <2>3. Limit \in Nat /\ Limit >= 1 /\ Concurrency \in Nat
    BY QuotaAssumption, ConcurrencyType
  <2> QED
    BY <2>1, <2>2, <2>3
<1> QED
  BY <1>1, <1>4, <1>5 DEF BInv, RoomForCharges

LEMMA BInvStep == BInv /\ [Next]_vars => BInv'
<1> SUFFICES ASSUME BInv, [Next]_vars PROVE BInv'
  OBVIOUS
<1>1. CInv' /\ TypeOK'
  BY CInvStep DEF BInv, CInv
<1>2. Windows' = Windows /\ Concurrency' = Concurrency /\ Limit' = Limit
  BY DEF Windows, WindowOf, Concurrency
<1>3. CountedInTime'
  BY <1>1, <1>2, CountedInTimeStep DEF CountedInTime
<1>4. CountedAfterwards'
  BY <1>1, <1>2, CountedAfterwardsStep DEF CountedAfterwards
<1>5. RoomForCharges'
  BY <1>1, <1>2, RoomForChargesStep DEF RoomForCharges
<1> QED
  BY <1>1, <1>3, <1>4, <1>5 DEF BInv

LEMMA BInvInvariant == Spec => []BInv
BY BInvInit, BInvStep, PTL DEF Spec

(* The requests let through in a window pass the limit by at most one for  *)
(* each other execution, each lost count and each decision that failed     *)
(* open: counting in the next window is no way around the limit.           *)
THEOREM ChargesAreBounded == Spec => []ChargesBounded
<1>1. ASSUME BInv, NEW w \in Windows
      PROVE  charged[w] <= Limit - 1 + Concurrency + losses + openings
  <2>1. /\ charged[w] + Cardinality(Chargers(w))
             <= Limit - 1 + Concurrency + losses + openings
        /\ CInv
    BY <1>1 DEF BInv, RoomForCharges
  <2>2. Cardinality(Chargers(w)) \in Nat /\ Concurrency \in Nat
    BY ChargeSets, ExecutionSets
  <2>3. /\ charged[w] \in Nat /\ Limit \in Nat
        /\ losses \in Nat /\ openings \in Nat
    BY <2>1, QuotaAssumption DEF CInv, TypeOK
  <2> QED
    BY <2>1, <2>2, <2>3
<1>2. BInv => ChargesBounded
  BY <1>1 DEF ChargesBounded
<1> QED
  BY <1>2, BInvInvariant, PTL

(* ---- Two neighbouring windows ------------------------------------------ *)

(* Will this execution send an increment, as the counters stand now?  What *)
(* it has still to read can only grow, so a yes may become a no but never  *)
(* the other way round.                                                    *)
WillCount(e) ==
  \/ pc[e] \in {"attempt", "count"}
  \/ pc[e] = "readPrevious" /\ Admits(Stored(StartedIn(e) - 1), seen[e], start[e])
  \/ /\ pc[e] = "readCurrent"
     /\ Admits(Stored(StartedIn(e) - 1), Stored(StartedIn(e)), start[e])

(* May it still add to the counter of w or of the window before w?         *)
WillHit(e, w) ==
  \/ pc[e] = "write" /\ CountedIn(e) \in {w - 1, w}
  \/ WillCount(e) /\ WindowOf(now) <= w

(* One for each increment that may still hit one of the two.               *)
Strokes(w) ==
  {p \in Slots : WillHit(p[1], w) /\ p[2] > attempts[p[1]]}

Both(w) == count[w] + Stored(w - 1)

(* Every increment still possible fits into the two windows together.      *)
RoomForStrokes ==
  \A w \in Windows : Both(w) + Cardinality(Strokes(w)) < 2 * Ceiling

TInv == IInv /\ CInv /\ RoomForStrokes

(* What store.get will answer after the step.                              *)
StoredNext(w) == IF w \in Windows THEN count'[w] ELSE 0

LEMMA WillCountNext ==
  ASSUME NEW e \in Executions, start'[e] = start[e]
  PROVE  WillCount(e)' <=>
           \/ pc'[e] \in {"attempt", "count"}
           \/ /\ pc'[e] = "readPrevious"
              /\ Admits(StoredNext(StartedIn(e) - 1), seen'[e], start[e])
           \/ /\ pc'[e] = "readCurrent"
              /\ Admits(StoredNext(StartedIn(e) - 1), StoredNext(StartedIn(e)), start[e])
BY DEF WillCount, StoredNext, Stored, StartedIn, WindowOf, Windows, Admits, Estimate,
   Elapsed

(* A counter that an execution has still to read does not shrink.          *)
LEMMA StoredGrows ==
  ASSUME CInv, TypeOK', [Next]_vars, NEW e \in Executions, pc[e] # "idle"
  PROVE  /\ StoredNext(StartedIn(e)) >= Stored(StartedIn(e))
         /\ StoredNext(StartedIn(e) - 1) >= Stored(StartedIn(e) - 1)
         /\ Stored(StartedIn(e)) \in Nat /\ StoredNext(StartedIn(e)) \in Nat
         /\ Stored(StartedIn(e) - 1) \in Nat /\ StoredNext(StartedIn(e) - 1) \in Nat
<1>1. StartedIn(e) \in Nat
  BY Instants
<1>2. \A w \in Windows : count'[w] \in Nat /\ count[w] \in Nat
  BY DEF CInv, TypeOK
<1>3. ASSUME NEW w \in Int, w >= StartedIn(e) - 1
      PROVE  /\ StoredNext(w) >= Stored(w)
             /\ Stored(w) \in Nat /\ StoredNext(w) \in Nat
  <2>1. CASE w \in Windows
    BY <1>2, <1>3, <2>1, LookedAtGrows DEF Stored, StoredNext
  <2>2. CASE w \notin Windows
    BY <2>2 DEF Stored, StoredNext
  <2> QED
    BY <2>1, <2>2
<1> QED
  BY <1>1, <1>3

(* Nobody who waits gains an increment.                                    *)
LEMMA WaitersGainNothing ==
  ASSUME CInv, TypeOK', [Next]_vars, NEW e \in Executions, NEW w \in Windows,
         pc'[e] = pc[e], start'[e] = start[e], seen'[e] = seen[e],
         countedAt'[e] = countedAt[e], WillHit(e, w)'
  PROVE  WillHit(e, w)
<1>1. WindowOf(now)' \in Nat /\ WindowOf(now) <= WindowOf(now)'
  <2>1. now' \in Nat /\ now <= now'
    BY NowStep, Instants DEF TypeOK, Times
  <2> QED
    BY <2>1, Instants, WindowOfMonotone DEF WindowOf
<1>2. WillCount(e)' => WillCount(e)
  <2>1. pc[e] # "idle" /\ start[e] \in Nat /\ seen[e] \in Nat
        => (WillCount(e)' => WillCount(e))
    BY StoredGrows, WillCountNext, AdmitsMonotone DEF WillCount
  <2>2. start[e] \in Nat /\ seen[e] \in Nat
    BY Instants DEF CInv, TypeOK
  <2>3. WillCount(e)' => pc[e] # "idle"
    BY WillCountNext
  <2> QED
    BY <2>1, <2>2, <2>3
<1>3. CountedIn(e)' = CountedIn(e)
  BY DEF CountedIn, WindowOf
<1> QED
  BY <1>1, <1>2, <1>3, Instants DEF WillHit

(* Of the executions, only e changes at all.                               *)
OnlySteps(e) ==
  \A x \in Executions \ {e} :
    /\ pc'[x] = pc[x] /\ start'[x] = start[x] /\ seen'[x] = seen[x]
    /\ countedAt'[x] = countedAt[x] /\ attempts'[x] = attempts[x]

LEMMA OneAtATime ==
  ASSUME TypeOK, NEW e \in Executions, Step(e)
  PROVE  OnlySteps(e)
BY DEF TypeOK, OnlySteps, Step, Start, ReadCurrent, Admit, Refuse, FailOpen, Allow,
   AttemptSucceeds, AttemptFails, ReadClockAgain, WriteAnswered, Finish,
   WriteUnanswered, AttemptsLeft, WriteFails, Kill

LEMMA CeilingIsNat == TypeOK => Ceiling \in Nat
BY CeilingType

(* The types of what is compared, before and after a step.                 *)
LEMMA StrokeTypes ==
  ASSUME TypeOK, TypeOK', NEW w \in Windows
  PROVE  /\ Strokes(w) \in SUBSET Slots /\ Strokes(w)' \in SUBSET Slots
         /\ IsFiniteSet(Strokes(w)) /\ IsFiniteSet(Strokes(w)')
         /\ Cardinality(Strokes(w)) \in Nat /\ Cardinality(Strokes(w)') \in Nat
         /\ Both(w) \in Nat /\ Both(w)' \in Nat
         /\ Ceiling \in Nat /\ Ceiling' \in Nat
         /\ MaxAttempts \in Nat /\ MaxAttempts >= 1
<1>1. Strokes(w) \in SUBSET Slots /\ Strokes(w)' \in SUBSET Slots
  BY DEF Strokes, Slots
<1>2. Both(w) \in Nat /\ Both(w)' \in Nat
  <2>1. count[w] \in Nat /\ count'[w] \in Nat
    BY DEF TypeOK, Windows, WindowOf
  <2>2. Stored(w - 1) \in Nat
    BY StoredType
  <2>3. StoredNext(w - 1) \in Nat
    BY DEF TypeOK, Windows, WindowOf, StoredNext
  <2>4. Both(w)' = count'[w] + StoredNext(w - 1)
    BY DEF Both, Stored, StoredNext, Windows, WindowOf
  <2> QED
    BY <2>1, <2>2, <2>3, <2>4 DEF Both
<1>3. Ceiling \in Nat /\ Ceiling' \in Nat
  <2>1. TypeOK' => (Ceiling \in Nat)'
    BY CeilingIsNat, PTL
  <2> QED
    BY <2>1, CeilingIsNat
<1> QED
  BY <1>1, <1>2, <1>3, TokenCount, BoundsAssumption

(* Room when nobody gains an increment and neither counter grows ...       *)
LEMMA RoomKept ==
  ASSUME TypeOK, TypeOK', RoomForStrokes, NEW w \in Windows,
         Both(w)' <= Both(w), openings' = openings, Strokes(w)' \subseteq Strokes(w)
  PROVE  Both(w)' + Cardinality(Strokes(w)') < 2 * Ceiling'
<1>1. Cardinality(Strokes(w)') <= Cardinality(Strokes(w))
  BY StrokeTypes, FS_Subset
<1>2. Ceiling' = Ceiling
  BY DEF Ceiling, Concurrency
<1> QED
  BY <1>1, <1>2, StrokeTypes DEF RoomForStrokes

(* ... or an increment is spent on one of them ...                         *)
LEMMA RoomSpent ==
  ASSUME TypeOK, TypeOK', RoomForStrokes, NEW w \in Windows,
         Both(w)' <= Both(w) + 1, openings' = openings,
         NEW s \in Strokes(w), Strokes(w)' \subseteq Strokes(w) \ {s}
  PROVE  Both(w)' + Cardinality(Strokes(w)') < 2 * Ceiling'
<1>1. /\ IsFiniteSet(Strokes(w) \ {s})
      /\ Cardinality(Strokes(w) \ {s}) = Cardinality(Strokes(w)) - 1
  BY StrokeTypes, FS_RemoveElement
<1>2. Cardinality(Strokes(w)') <= Cardinality(Strokes(w)) - 1
  <2>1. Cardinality(Strokes(w)') <= Cardinality(Strokes(w) \ {s})
    BY <1>1, FS_Subset
  <2> QED
    BY <1>1, <2>1
<1>3. Ceiling' = Ceiling
  BY DEF Ceiling, Concurrency
<1> QED
  BY <1>2, <1>3, StrokeTypes DEF RoomForStrokes

(* ... or a decision failed open, which raises both ceilings.              *)
LEMMA RoomOpened ==
  ASSUME TypeOK, TypeOK', RoomForStrokes, NEW w \in Windows,
         Both(w)' <= Both(w), openings' = openings + 1, NEW e \in Executions,
         Strokes(w)' \subseteq Strokes(w) \cup ({e} \X (1 .. MaxAttempts))
  PROVE  Both(w)' + Cardinality(Strokes(w)') < 2 * Ceiling'
<1> DEFINE E == {e} \X (1 .. MaxAttempts)
<1>1. IsFiniteSet(E) /\ Cardinality(E) = MaxAttempts
  <2>1. IsFiniteSet(1 .. MaxAttempts) /\ Cardinality(1 .. MaxAttempts) = MaxAttempts
    BY FS_Interval, BoundsAssumption
  <2>2. IsFiniteSet({e}) /\ Cardinality({e}) = 1
    BY FS_Singleton
  <2>3. IsFiniteSet(E) /\ Cardinality(E) = 1 * MaxAttempts
    BY <2>1, <2>2, FS_Product
  <2> QED
    BY <2>3, BoundsAssumption
<1>2. Strokes(w)' \subseteq Strokes(w) \cup E
  OBVIOUS
<1> HIDE DEF E
<1>3. IsFiniteSet(Strokes(w) \cup E)
      /\ Cardinality(Strokes(w) \cup E) <= Cardinality(Strokes(w)) + MaxAttempts
  <2>1. /\ IsFiniteSet(Strokes(w) \cup E)
        /\ Cardinality(Strokes(w) \cup E)
             = Cardinality(Strokes(w)) + Cardinality(E) - Cardinality(Strokes(w) \cap E)
    BY <1>1, StrokeTypes, FS_Union
  <2>2. Cardinality(Strokes(w) \cap E) \in Nat
    BY <1>1, StrokeTypes, FS_Intersection, FS_CardinalityType
  <2> QED
    BY <1>1, <2>1, <2>2, StrokeTypes
<1>4. Cardinality(Strokes(w)') <= Cardinality(Strokes(w)) + MaxAttempts
  <2>1. Cardinality(Strokes(w)') <= Cardinality(Strokes(w) \cup E)
    BY <1>2, <1>3, FS_Subset
  <2>2. Cardinality(Strokes(w) \cup E) \in Nat
    BY <1>3, FS_CardinalityType
  <2> QED
    BY <1>3, <2>1, <2>2, StrokeTypes
<1>5. Ceiling' = Ceiling + MaxAttempts
  <2>1. Concurrency \in Nat /\ MaxAttempts \in Nat /\ openings \in Nat /\ Limit \in Nat
    BY ConcurrencyType, BoundsAssumption, QuotaAssumption DEF TypeOK
  <2>2. (Concurrency + openings + 1) * MaxAttempts
          = (Concurrency + openings) * MaxAttempts + MaxAttempts
    BY <2>1
  <2>3. (Concurrency + openings) * MaxAttempts \in Nat
    BY <2>1
  <2> QED
    BY <2>1, <2>2, <2>3 DEF Ceiling, Concurrency
<1> QED
  BY <1>4, <1>5, StrokeTypes DEF RoomForStrokes

(* If only e steps, the others have no increments but those they had.      *)
LEMMA OthersStrokes ==
  ASSUME CInv, TypeOK', [Next]_vars, NEW e \in Executions, OnlySteps(e),
         NEW w \in Windows
  PROVE  /\ Strokes(w)' \subseteq Strokes(w) \cup ({e} \X (1 .. MaxAttempts))
         /\ ~ WillHit(e, w)' =>
              Strokes(w)' \subseteq Strokes(w) \ ({e} \X (1 .. MaxAttempts))
         /\ (WillHit(e, w)' => WillHit(e, w)) /\ attempts[e] <= attempts'[e] =>
              Strokes(w)' \subseteq Strokes(w)
<1>1. \A x \in Executions \ {e} :
        (WillHit(x, w)' => WillHit(x, w)) /\ attempts'[x] = attempts[x]
  BY WaitersGainNothing DEF OnlySteps
<1>2. \A p \in Strokes(w)' : /\ p \in Slots /\ p[1] \in Executions /\ p[2] \in Int
                             /\ WillHit(p[1], w)' /\ p[2] > attempts'[p[1]]
  BY DEF Strokes, Slots
<1>3. attempts[e] \in Int /\ attempts'[e] \in Int
  BY BoundsAssumption DEF CInv, TypeOK
<1>4. \A p \in Strokes(w)' : p[1] # e => p \in Strokes(w)
  BY <1>1, <1>2 DEF Strokes
<1>5. \A p \in Strokes(w)' : p[1] = e => p \in {e} \X (1 .. MaxAttempts)
  BY <1>2 DEF Slots
<1>6. ~ WillHit(e, w)' => \A p \in Strokes(w)' : p[1] # e
  BY <1>2
<1>7. (WillHit(e, w)' => WillHit(e, w)) /\ attempts[e] <= attempts'[e] =>
        \A p \in Strokes(w)' : p[1] = e => p \in Strokes(w)
  BY <1>2, <1>3 DEF Strokes
<1>8. \A p \in {e} \X (1 .. MaxAttempts) : p[1] = e
  OBVIOUS
<1> QED
  BY <1>4, <1>5, <1>6, <1>7, <1>8

(* An increment that is applied is spent, on one of the two windows or on  *)
(* neither.                                                                *)
LEMMA RoomWhenAdded ==
  ASSUME CInv, TypeOK', [Next]_vars, RoomForStrokes, NEW e \in Executions,
         OnlySteps(e), NEW w \in Windows, pc[e] = "write",
         Add(CountedIn(e), countedAt[e]), openings' = openings,
         \/ pc'[e] = "idle"
         \/ /\ pc'[e] = "write" /\ countedAt'[e] = countedAt[e]
            /\ attempts'[e] = attempts[e] + 1
  PROVE  Both(w)' + Cardinality(Strokes(w)') < 2 * Ceiling'
<1>0. TypeOK
  BY DEF CInv
<1>1. CountedIn(e) \in Windows /\ \A x \in Windows : x \in Int /\ count[x] \in Nat
  BY Instants
<1>2. attempts[e] \in 0 .. MaxAttempts - 1 /\ MaxAttempts \in Nat
  BY BoundsAssumption DEF CInv, TypeOK
<1> DEFINE s == <<e, attempts[e] + 1>>
<1>3. s \in {e} \X (1 .. MaxAttempts) /\ s \in Slots
  BY <1>2 DEF Slots
<1>4. Strokes(w)' \subseteq Strokes(w) /\ s \notin Strokes(w)'
  <2>1. CASE pc'[e] = "idle"
    <3>1. ~ WillHit(e, w)'
      BY <2>1 DEF WillHit, WillCount
    <3> QED
      BY <1>3, <3>1, OthersStrokes
  <2>2. CASE /\ pc'[e] = "write" /\ countedAt'[e] = countedAt[e]
             /\ attempts'[e] = attempts[e] + 1
    <3>1. WillHit(e, w)' => WillHit(e, w)
      BY <2>2 DEF WillHit, WillCount, CountedIn, WindowOf
    <3>2. attempts[e] <= attempts'[e]
      BY <1>2, <2>2
    <3>3. s \notin Strokes(w)'
      BY <1>2, <2>2 DEF Strokes
    <3> QED
      BY <3>1, <3>2, <3>3, OthersStrokes
  <2> QED
    BY <2>1, <2>2
<1>5. CASE CountedIn(e) \in {w - 1, w}
  <2>1. s \in Strokes(w)
    BY <1>2, <1>3, <1>5 DEF Strokes, WillHit
  <2>2. Both(w)' <= Both(w) + 1
    <3>1. Both(w)' = count'[w] + StoredNext(w - 1)
      BY DEF Both, Stored, StoredNext, Windows, WindowOf
    <3>2. count' = [count EXCEPT ![CountedIn(e)] = @ + 1]
      BY DEF Add
    <3>3. CASE CountedIn(e) = w
      <4>1. count'[w] = count[w] + 1 /\ StoredNext(w - 1) = Stored(w - 1)
        BY <1>0, <1>1, <3>2, <3>3 DEF TypeOK, Stored, StoredNext
      <4> QED
        BY <1>0, <1>1, <3>1, <4>1, StoredType DEF Both
    <3>4. CASE CountedIn(e) = w - 1
      <4>1. count'[w] = count[w] /\ StoredNext(w - 1) = Stored(w - 1) + 1
        BY <1>0, <1>1, <3>2, <3>4 DEF TypeOK, Stored, StoredNext
      <4> QED
        BY <1>0, <1>1, <3>1, <4>1, StoredType DEF Both
    <3> QED
      BY <1>5, <3>3, <3>4
  <2>3. Strokes(w)' \subseteq Strokes(w) \ {s}
    BY <1>4
  <2> HIDE DEF s
  <2> QED
    BY <1>0, <2>1, <2>2, <2>3, RoomSpent
<1>6. CASE CountedIn(e) \notin {w - 1, w}
  <2>1. Both(w)' = Both(w)
    <3>1. Both(w)' = count'[w] + StoredNext(w - 1)
      BY DEF Both, Stored, StoredNext, Windows, WindowOf
    <3>2. count'[w] = count[w] /\ StoredNext(w - 1) = Stored(w - 1)
      BY <1>0, <1>6 DEF Add, TypeOK, Stored, StoredNext
    <3> QED
      BY <3>1, <3>2 DEF Both
  <2>2. Both(w)' <= Both(w)
    BY <1>0, <2>1, StrokeTypes
  <2> QED
    BY <1>0, <1>4, <2>2, RoomKept
<1> QED
  BY <1>5, <1>6

(* An admission that finds the previous counter in use leaves two of the   *)
(* limit: the weight of the previous window is at least one tick.          *)
LEMMA AdmitsBelowShare ==
  ASSUME NEW p \in Nat, NEW c \in Nat, NEW t \in Nat, Admits(p, c, t), p > 0
  PROVE  c + 1 < Limit
<1>1. Window \in Nat /\ Window > 0 /\ Limit \in Nat
  BY QuotaAssumption
<1>2. Elapsed(t) \in 0 .. Window - 1
  BY <1>1 DEF Elapsed
<1> DEFINE age == Window - Elapsed(t)
<1>3. age \in Nat /\ age > 0
  BY <1>1, <1>2
<1>4. p * age + (c + 1) * Window <= Limit * Window
  BY DEF Admits, Estimate, age
<1> HIDE DEF age
<1>5. p * age > 0
  BY <1>3
<1>6. (c + 1) * Window < Limit * Window
  BY <1>1, <1>3, <1>4, <1>5
<1> QED
  BY <1>1, <1>6

(* A request that starts is admitted, as the counters stand, only if the   *)
(* two windows have room for whatever anyone may still count.              *)
LEMMA RoomWhenStarted ==
  ASSUME TInv, TypeOK', NEW w \in Windows, Both(w)' = Both(w), openings' = openings,
         w >= WindowOf(now),
         Admits(Stored(WindowOf(now) - 1), Stored(WindowOf(now)), now)
  PROVE  Both(w)' + Cardinality(Strokes(w)') < 2 * Ceiling'
<1> DEFINE n == WindowOf(now)
           slots == Concurrency * MaxAttempts
<1>1. TypeOK /\ CInv
  BY DEF TInv, CInv
<1>2. n \in Nat /\ now \in Nat /\ w \in Nat /\ count[w] \in Nat
  BY <1>1, Instants
<1>3. Limit \in Nat /\ Limit >= 1 /\ slots \in Nat /\ slots >= 1
  <2>1. Concurrency \in Nat /\ Concurrency > 0
    <3>1. Concurrency # 0
      BY ExecutionsAssumption, FS_EmptySet DEF Concurrency
    <3> QED
      BY <3>1, ConcurrencyType
  <2>2. MaxAttempts \in Nat /\ MaxAttempts > 0
    BY BoundsAssumption
  <2> QED
    BY <2>1, <2>2, QuotaAssumption
<1>4. /\ Cardinality(Strokes(w)') \in Nat /\ Cardinality(Strokes(w)') <= slots
      /\ Ceiling \in Nat /\ Ceiling >= Limit - 1 + slots
      /\ Ceiling' = Ceiling
  <2>1. Strokes(w)' \in SUBSET Slots
    BY <1>1, StrokeTypes
  <2>2. Cardinality(Strokes(w)') \in Nat /\ Cardinality(Strokes(w)') <= slots
    BY <2>1, TokenCount
  <2>3. Ceiling \in Nat /\ Ceiling >= Limit - 1 + slots
    BY <1>1, CeilingType
  <2>4. Ceiling' = Ceiling
    BY DEF Ceiling, Concurrency
  <2> QED
    BY <2>2, <2>3, <2>4
<1>5. Stored(n - 1) \in Nat /\ Stored(n) \in Nat /\ Stored(w - 1) \in Nat
  BY <1>1, StoredType
<1>6. \A x \in Windows : x > n => count[x] = 0
  BY DEF TInv, IInv, FutureIsEmpty
<1>7. Stored(n) < Limit
  BY <1>2, <1>5, AdmitsBelowLimit
<1> HIDE DEF n, slots
<1>8. CASE Both(w) < Limit
  BY <1>1, <1>3, <1>4, <1>8, StrokeTypes
<1>9. CASE ~ (Both(w) < Limit)
  <2>1. w = n
    <3>1. CASE w > n + 1
      <4>1. Stored(w - 1) = 0
        BY <1>2, <1>6, <3>1 DEF Stored
      <4> QED
        BY <1>2, <1>3, <1>6, <1>9, <3>1, <4>1 DEF Both
    <3>2. CASE w = n + 1
      <4>1. Stored(w - 1) = Stored(n)
        <5>1. w - 1 = n
          BY <1>2, <3>2
        <5> QED
          BY <5>1
      <4> QED
        BY <1>2, <1>5, <1>6, <1>7, <1>9, <3>2, <4>1 DEF Both
    <3> QED
      BY <1>2, <3>1, <3>2 DEF n
  <2>2. Both(w) = Stored(n) + Stored(n - 1)
    BY <2>1 DEF Both, Stored
  <2>3. Stored(n - 1) > 0
    BY <1>3, <1>5, <1>7, <1>9, <2>2
  <2>4. Stored(n) + 1 < Limit
    BY <1>2, <1>5, <2>3, AdmitsBelowShare DEF n
  <2>5. Stored(n - 1) <= Ceiling
    <3>1. n - 1 \in Windows
      BY <2>3 DEF Stored
    <3>2. count[n - 1] + Cardinality(Tokens(n - 1)) <= Ceiling
      BY <3>1 DEF TInv, IInv, RoomForTokens
    <3>3. Cardinality(Tokens(n - 1)) \in Nat
      BY TokenCount, TokensAreSlots
    <3>4. Stored(n - 1) = count[n - 1]
      BY <3>1 DEF Stored
    <3> QED
      BY <1>4, <1>5, <3>2, <3>3, <3>4
  <2> QED
    BY <1>3, <1>4, <1>5, <2>2, <2>4, <2>5
<1> QED
  BY <1>8, <1>9

LEMMA RoomForStrokesStep ==
  ASSUME TInv, TypeOK', [Next]_vars, NEW w \in Windows
  PROVE  Both(w)' + Cardinality(Strokes(w)') < 2 * Ceiling'
<1> DEFINE Goal == Both(w)' + Cardinality(Strokes(w)') < 2 * Ceiling'
<1>0. TypeOK /\ CInv /\ RoomForStrokes
  BY DEF TInv, CInv
<1>1. count' = count => Both(w)' = Both(w) /\ Both(w)' <= Both(w)
  <2>1. count' = count => Both(w)' = Both(w)
    BY DEF Both, Stored, Windows, WindowOf
  <2> QED
    BY <1>0, <2>1, StrokeTypes
<1>2. ASSUME NEW e \in Executions, OnlySteps(e), count' = count, openings' = openings,
             \/ pc'[e] = "idle"
             \/ (WillHit(e, w)' => WillHit(e, w)) /\ attempts[e] <= attempts'[e]
      PROVE  Goal
  <2>1. pc'[e] = "idle" => ~ WillHit(e, w)'
    BY DEF WillHit, WillCount
  <2>2. Strokes(w)' \subseteq Strokes(w)
    BY <1>0, <1>2, <2>1, OthersStrokes
  <2> QED
    BY <1>0, <1>1, <1>2, <2>2, RoomKept
<1>3. ASSUME NEW e \in Executions, Start(e), OnlySteps(e) PROVE Goal
  <2>1. /\ count' = count /\ openings' = openings /\ now' = now
        /\ pc'[e] = "readCurrent" /\ start'[e] = now /\ attempts'[e] = attempts[e]
    BY <1>0, <1>3 DEF Start, store, ghost, TypeOK
  <2>2. WillHit(e, w)' =>
          /\ w >= WindowOf(now)
          /\ Admits(Stored(WindowOf(now) - 1), Stored(WindowOf(now)), now)
    BY <1>0, <2>1, Instants
       DEF WillHit, WillCount, StartedIn, Stored, Windows, WindowOf, Admits, Estimate,
           Elapsed
  <2>3. attempts[e] <= attempts'[e]
    BY <1>0, <2>1, BoundsAssumption DEF TypeOK
  <2>4. CASE WillHit(e, w)'
    BY <1>1, <2>1, <2>2, <2>4, RoomWhenStarted
  <2>5. CASE ~ WillHit(e, w)'
    BY <1>2, <1>3, <2>1, <2>3, <2>5
  <2> QED
    BY <2>4, <2>5
<1>4. ASSUME NEW e \in Executions, ReadCurrent(e), OnlySteps(e) PROVE Goal
  <2>1. /\ count' = count /\ openings' = openings /\ now' = now
        /\ pc'[e] = "readPrevious" /\ pc[e] = "readCurrent" /\ start'[e] = start[e]
        /\ seen'[e] = Stored(StartedIn(e)) /\ attempts'[e] = attempts[e]
    BY <1>0, <1>4 DEF ReadCurrent, store, ghost, TypeOK
  <2>2. StoredNext(StartedIn(e) - 1) = Stored(StartedIn(e) - 1)
    BY <2>1 DEF StoredNext, Stored
  <2>3. WillCount(e)' => WillCount(e)
    BY <2>1, <2>2, WillCountNext DEF WillCount
  <2>4. WillHit(e, w)' => WillHit(e, w)
    BY <2>1, <2>3 DEF WillHit, WindowOf
  <2>5. attempts[e] <= attempts'[e]
    BY <1>0, <2>1, BoundsAssumption DEF TypeOK
  <2> QED
    BY <1>2, <1>4, <2>1, <2>4, <2>5
<1>5. ASSUME NEW e \in Executions, Admit(e) \/ AttemptFails(e), OnlySteps(e) PROVE Goal
  <2>1. /\ count' = count /\ openings' = openings /\ now' = now
        /\ WillCount(e) /\ pc'[e] # "write" /\ attempts'[e] = attempts[e]
    BY <1>0, <1>5 DEF Admit, AttemptFails, Allow, store, TypeOK, WillCount
  <2>2. WillHit(e, w)' => WillHit(e, w)
    BY <2>1 DEF WillHit, WindowOf
  <2>3. attempts[e] <= attempts'[e]
    BY <1>0, <2>1, BoundsAssumption DEF TypeOK
  <2> QED
    BY <1>2, <1>5, <2>1, <2>2, <2>3
<1>6. ASSUME NEW e \in Executions, Refuse(e) \/ AttemptSucceeds(e), OnlySteps(e) PROVE Goal
  <2>1. count' = count /\ openings' = openings /\ pc'[e] = "idle"
    BY <1>0, <1>6 DEF Refuse, AttemptSucceeds, Finish, store, ghost, TypeOK
  <2> QED
    BY <1>2, <1>6, <2>1
<1>7. ASSUME NEW e \in Executions, FailOpen(e), OnlySteps(e) PROVE Goal
  <2>1. count' = count /\ openings' = openings + 1
    BY <1>7 DEF FailOpen, store
  <2>2. Strokes(w)' \subseteq Strokes(w) \cup ({e} \X (1 .. MaxAttempts))
    BY <1>0, <1>7, OthersStrokes
  <2> QED
    BY <1>0, <1>1, <2>1, <2>2, RoomOpened
<1>8. ASSUME NEW e \in Executions, ReadClockAgain(e), OnlySteps(e) PROVE Goal
  <2>1. /\ count' = count /\ openings' = openings
        /\ WillCount(e) /\ pc'[e] = "write" /\ countedAt'[e] = now
        /\ attempts'[e] = attempts[e]
    BY <1>0, <1>8 DEF ReadClockAgain, store, ghost, TypeOK, WillCount
  <2>2. CountedIn(e)' = WindowOf(now)
    BY <2>1 DEF CountedIn, WindowOf
  <2>3. ~ WillCount(e)'
    BY <2>1 DEF WillCount
  <2>4. WillHit(e, w)' => WillHit(e, w)
    BY <1>0, <2>1, <2>2, <2>3, Instants DEF WillHit
  <2>5. attempts[e] <= attempts'[e]
    BY <1>0, <2>1, BoundsAssumption DEF TypeOK
  <2> QED
    BY <1>2, <1>8, <2>1, <2>4, <2>5
<1>9. ASSUME NEW e \in Executions, WriteAnswered(e) \/ WriteUnanswered(e), OnlySteps(e)
      PROVE  Goal
  <2>1. /\ pc[e] = "write" /\ Add(CountedIn(e), countedAt[e]) /\ openings' = openings
        /\ \/ pc'[e] = "idle"
           \/ /\ pc'[e] = "write" /\ countedAt'[e] = countedAt[e]
              /\ attempts'[e] = attempts[e] + 1
    BY <1>0, <1>9 DEF WriteAnswered, WriteUnanswered, AttemptsLeft, Finish, ghost, TypeOK
  <2> QED
    BY <1>0, <1>9, <2>1, RoomWhenAdded
<1>10. ASSUME NEW e \in Executions, WriteFails(e), OnlySteps(e) PROVE Goal
  <2>1. /\ count' = count /\ openings' = openings
        /\ \/ pc'[e] = "idle"
           \/ /\ pc'[e] = "write" /\ pc[e] = "write" /\ countedAt'[e] = countedAt[e]
              /\ attempts'[e] = attempts[e] + 1
    BY <1>0, <1>10 DEF WriteFails, AttemptsLeft, Finish, store, TypeOK
  <2>2. pc'[e] = "write" /\ pc[e] = "write" /\ countedAt'[e] = countedAt[e] =>
          (WillHit(e, w)' => WillHit(e, w))
    BY DEF WillHit, WillCount, CountedIn, WindowOf
  <2>3. attempts'[e] = attempts[e] + 1 => attempts[e] <= attempts'[e]
    BY <1>0, BoundsAssumption DEF TypeOK
  <2> QED
    BY <1>2, <1>10, <2>1, <2>2, <2>3
<1>11. ASSUME NEW e \in Executions, Kill(e), OnlySteps(e) PROVE Goal
  <2>1. /\ openings' = openings /\ pc'[e] = "idle"
        /\ \/ count' = count
           \/ pc[e] = "write" /\ Add(CountedIn(e), countedAt[e])
    BY <1>0, <1>11 DEF Kill, Finish, store, TypeOK
  <2> QED
    BY <1>0, <1>2, <1>11, <2>1, RoomWhenAdded
<1>12. CASE Tick \/ UNCHANGED vars \/ \E d \in Windows : DeleteExpired(d)
  <2>1. UNCHANGED <<local, ghost>>
    BY <1>12 DEF Tick, DeleteExpired, vars
  <2>2. \A e \in Executions :
          (WillHit(e, w)' => WillHit(e, w)) /\ attempts'[e] = attempts[e]
    BY <1>0, <2>1, WaitersGainNothing DEF local
  <2>3. Strokes(w)' \subseteq Strokes(w)
    BY <2>2 DEF Strokes, Slots
  <2>4. Both(w)' <= Both(w)
    <3>1. CASE count' = count
      BY <1>1, <3>1
    <3>2. ASSUME NEW d \in Windows, DeleteExpired(d) PROVE Both(w)' <= Both(w)
      <4>1. \A x \in Windows : count'[x] <= count[x]
        BY <1>0, <3>2 DEF DeleteExpired, TypeOK
      <4>2. StoredNext(w - 1) <= Stored(w - 1)
        BY <4>1 DEF Stored, StoredNext
      <4>3. /\ Both(w)' = count'[w] + StoredNext(w - 1)
            /\ Stored(w - 1) \in Nat /\ StoredNext(w - 1) \in Nat
            /\ count[w] \in Nat /\ count'[w] \in Nat
        BY <1>0, StoredType DEF Both, Stored, StoredNext, Windows, WindowOf, TypeOK
      <4> QED
        BY <4>1, <4>2, <4>3 DEF Both
    <3> QED
      BY <1>12, <3>1, <3>2 DEF Tick, vars, store
  <2> QED
    BY <1>0, <2>1, <2>3, <2>4, RoomKept DEF ghost
<1> QED
  BY <1>0, <1>3, <1>4, <1>5, <1>6, <1>7, <1>8, <1>9, <1>10, <1>11, <1>12, OneAtATime
     DEF Next, Step

LEMMA TInvInit == Init => TInv
<1> SUFFICES ASSUME Init PROVE TInv
  OBVIOUS
<1>1. IInv /\ CInv
  BY IInvInit, CInvInit
<1>2. ASSUME NEW w \in Windows
      PROVE  Both(w) + Cardinality(Strokes(w)) < 2 * Ceiling
  <2>1. Strokes(w) = {}
    BY DEF Init, Strokes, WillHit, WillCount, Slots
  <2>2. Cardinality(Strokes(w)) = 0
    BY <2>1, FS_EmptySet
  <2>3. Both(w) = 0
    BY DEF Init, Both, Stored
  <2>4. Ceiling \in Nat /\ Ceiling >= 1
    <3>1. Concurrency * MaxAttempts \in Nat /\ Concurrency * MaxAttempts >= 1
      <4>1. Concurrency # 0
        BY ExecutionsAssumption, FS_EmptySet DEF Concurrency
      <4>2. Concurrency \in Nat /\ Concurrency > 0 /\ MaxAttempts \in Nat /\ MaxAttempts > 0
        BY <4>1, ConcurrencyType, BoundsAssumption
      <4> QED
        BY <4>2
    <3>2. Ceiling \in Nat /\ Ceiling >= Limit - 1 + Concurrency * MaxAttempts
      BY <1>1, CeilingType DEF CInv
    <3> QED
      BY <3>1, <3>2, QuotaAssumption
  <2> QED
    BY <2>2, <2>3, <2>4
<1> QED
  BY <1>1, <1>2 DEF TInv, RoomForStrokes

LEMMA TInvStep == TInv /\ [Next]_vars => TInv'
<1> SUFFICES ASSUME TInv, [Next]_vars PROVE TInv'
  OBVIOUS
<1>1. IInv' /\ CInv' /\ TypeOK'
  BY IInvStep, CInvStep DEF TInv, CInv
<1>2. Windows' = Windows
  BY DEF Windows, WindowOf
<1>3. RoomForStrokes'
  BY <1>1, <1>2, RoomForStrokesStep DEF RoomForStrokes
<1> QED
  BY <1>1, <1>3 DEF TInv

(* Two neighbouring windows never both reach the ceiling: whoever finds    *)
(* the previous counter in use is admitted only below its share of the     *)
(* limit.                                                                  *)
THEOREM TwoWindowsAreBounded == Spec => []TwoWindowsBounded
<1>1. ASSUME TInv, NEW w \in Windows
      PROVE  count[w] + Stored(w - 1) < 2 * Ceiling
  <2>1. TypeOK /\ Both(w) + Cardinality(Strokes(w)) < 2 * Ceiling
    BY <1>1 DEF TInv, CInv, RoomForStrokes
  <2>2. Cardinality(Strokes(w)) \in Nat
    BY TokenCount DEF Strokes
  <2>3. Both(w) \in Nat /\ Ceiling \in Nat
    BY <1>1, <2>1, StoredType, CeilingType, Instants DEF Both, TInv
  <2> QED
    BY <2>1, <2>2, <2>3 DEF Both
<1>2. TInv => TwoWindowsBounded
  BY <1>1 DEF TwoWindowsBounded
<1>3. Spec => []TInv
  BY TInvInit, TInvStep, PTL DEF Spec
<1> QED
  BY <1>2, <1>3, PTL

=============================================================================
