-------------------------- MODULE RateLimiterProofs --------------------------
(***************************************************************************)
(* What TLAPS proves of RateLimiter, for every number of executions, every *)
(* limit, every window and every bound.                                    *)
(***************************************************************************)
EXTENDS RateLimiter, FiniteSetTheorems, TLAPS

(* ---- Windows ---------------------------------------------------------- *)

(* The window of an instant is a natural number, and later instants fall   *)
(* in the same window or a later one.                                      *)
LEMMA WindowOfMonotone ==
  ASSUME NEW a \in Nat, NEW b \in Nat, a <= b
  PROVE  /\ WindowOf(a) \in Nat
         /\ WindowOf(b) \in Nat
         /\ WindowOf(a) <= WindowOf(b)
BY QuotaAssumption DEF WindowOf

(* Every instant the clock shows has a counter.                            *)
LEMMA WindowOfTimes ==
  ASSUME NEW t \in Times
  PROVE  WindowOf(t) \in Windows
BY WindowOfMonotone, TimesAssumption DEF Times, Windows

(* An admitted request leaves room for itself in the current window: the   *)
(* weight of the previous window is never negative.                        *)
LEMMA AdmitsBelowLimit ==
  ASSUME NEW p \in Nat, NEW c \in Nat, NEW t \in Nat, Admits(p, c, t)
  PROVE  c < Limit
<1>1. Window \in Nat /\ Window > 0 /\ Limit \in Nat
  BY QuotaAssumption
<1>2. Elapsed(t) \in 0 .. Window - 1
  BY <1>1 DEF Elapsed
<1>3. p * (Window - Elapsed(t)) \in Nat
  BY <1>1, <1>2
<1>4. (c + 1) * Window <= Limit * Window
  BY <1>1, <1>2, <1>3 DEF Admits, Estimate
<1> QED
  BY <1>1, <1>4

(* ---- Types ------------------------------------------------------------ *)

(* The parts of an action that several actions share keep the types.       *)
LEMMA FinishType ==
  ASSUME TypeOK, NEW e \in Executions, Finish(e)
  PROVE  /\ pc' \in [Executions -> States]
         /\ start' \in [Executions -> Times]
         /\ seen' \in [Executions -> Nat]
         /\ countedAt' \in [Executions -> Times]
         /\ attempts' \in [Executions -> 0 .. MaxAttempts - 1]
         /\ landed' \in [Executions -> BOOLEAN]
BY TimesAssumption, BoundsAssumption
   DEF TypeOK, Finish, States, Reading, Counted, Times

LEMMA AddType ==
  ASSUME TypeOK, NEW e \in Executions, Add(CountedIn(e), countedAt[e])
  PROVE  /\ count' \in [Windows -> Nat]
         /\ expires' \in [Windows -> Nat]
<1>1. countedAt[e] \in Nat
  BY DEF TypeOK, Times
<1>2. countedAt[e] + 2 * Window + ExpirySlack \in Nat
  BY <1>1, QuotaAssumption, TimesAssumption
<1>3. CountedIn(e) \in Windows
  BY WindowOfTimes DEF TypeOK, CountedIn
<1> QED
  BY <1>2, <1>3 DEF TypeOK, Add

LEMMA ChargeType ==
  ASSUME TypeOK, NEW e \in Executions, Charge(e)
  PROVE  /\ charged' \in [Windows -> Nat]
         /\ lastCharge' \in Times
<1>1. StartedIn(e) \in Windows
  BY WindowOfTimes DEF TypeOK, StartedIn
<1> QED
  BY <1>1 DEF TypeOK, Charge

LEMMA AllowType ==
  ASSUME TypeOK, NEW e \in Executions, Allow(e)
  PROVE  /\ pc' \in [Executions -> States]
         /\ start' \in [Executions -> Times]
         /\ seen' \in [Executions -> Nat]
         /\ countedAt' \in [Executions -> Times]
         /\ attempts' \in [Executions -> 0 .. MaxAttempts - 1]
         /\ landed' \in [Executions -> BOOLEAN]
         /\ charged' \in [Windows -> Nat]
         /\ lastCharge' \in Times
<1>1. CASE Counting = "admissions"
  BY <1>1, ChargeType DEF TypeOK, Allow, States, Reading, Counted
<1>2. CASE Counting # "admissions"
  BY <1>2 DEF TypeOK, Allow, States, Reading, Counted
<1> QED
  BY <1>1, <1>2

(* What the store answers is a number.                                     *)
LEMMA StoredType ==
  ASSUME TypeOK, NEW w
  PROVE  Stored(w) \in Nat
BY DEF TypeOK, Stored

(* One step keeps the types: one step of the proof per action.             *)
LEMMA TypeOKStep ==
  ASSUME TypeOK, [Next]_vars
  PROVE  TypeOK'
<1>1. ASSUME NEW e \in Executions, Start(e) PROVE TypeOK'
  BY <1>1 DEF TypeOK, Start, States, Reading, store, ghost
<1>2. ASSUME NEW e \in Executions, ReadCurrent(e) PROVE TypeOK'
  BY <1>2, StoredType DEF TypeOK, ReadCurrent, States, Reading, store, ghost
<1>3. ASSUME NEW e \in Executions, Admit(e) PROVE TypeOK'
  BY <1>3, AllowType DEF TypeOK, Admit, store
<1>4. ASSUME NEW e \in Executions, Refuse(e) PROVE TypeOK'
  BY <1>4, FinishType DEF TypeOK, Refuse, store, ghost
<1>5. ASSUME NEW e \in Executions, FailOpen(e) PROVE TypeOK'
  BY <1>5, AllowType DEF TypeOK, FailOpen, store
<1>6. ASSUME NEW e \in Executions, AttemptSucceeds(e) PROVE TypeOK'
  BY <1>6, FinishType DEF TypeOK, AttemptSucceeds, store, ghost
<1>7. ASSUME NEW e \in Executions, AttemptFails(e) PROVE TypeOK'
  BY <1>7, ChargeType DEF TypeOK, AttemptFails, States, Counted, store
<1>8. ASSUME NEW e \in Executions, ReadClockAgain(e) PROVE TypeOK'
  BY <1>8 DEF TypeOK, ReadClockAgain, States, Counted, store, ghost
<1>9. ASSUME NEW e \in Executions, WriteAnswered(e) PROVE TypeOK'
  BY <1>9, FinishType, AddType DEF TypeOK, WriteAnswered, ghost
<1>10. ASSUME NEW e \in Executions, WriteUnanswered(e) PROVE TypeOK'
  <2>1. count' \in [Windows -> Nat] /\ expires' \in [Windows -> Nat]
    BY <1>10, AddType DEF WriteUnanswered, AttemptsLeft
  <2>2. CASE attempts[e] + 1 < MaxAttempts
    <3>1. attempts[e] + 1 \in 0 .. MaxAttempts - 1
      BY <2>2, BoundsAssumption DEF TypeOK
    <3> QED
      BY <1>10, <2>1, <2>2, <3>1 DEF TypeOK, WriteUnanswered, AttemptsLeft, ghost
  <2>3. CASE ~ (attempts[e] + 1 < MaxAttempts)
    BY <1>10, <2>1, <2>3, FinishType DEF TypeOK, WriteUnanswered, AttemptsLeft, ghost
  <2> QED
    BY <2>2, <2>3
<1>11. ASSUME NEW e \in Executions, WriteFails(e) PROVE TypeOK'
  <2>1. losses' \in Nat
    BY <1>11 DEF TypeOK, WriteFails, AttemptsLeft
  <2>2. CASE attempts[e] + 1 < MaxAttempts
    <3>1. attempts[e] + 1 \in 0 .. MaxAttempts - 1
      BY <2>2, BoundsAssumption DEF TypeOK
    <3> QED
      BY <1>11, <2>1, <2>2, <3>1 DEF TypeOK, WriteFails, AttemptsLeft, store
  <2>3. CASE ~ (attempts[e] + 1 < MaxAttempts)
    BY <1>11, <2>1, <2>3, FinishType DEF TypeOK, WriteFails, AttemptsLeft, store
  <2> QED
    BY <2>2, <2>3
<1>12. ASSUME NEW e \in Executions, Kill(e) PROVE TypeOK'
  <2>1. losses' \in Nat
    BY <1>12 DEF TypeOK, Kill
  <2>2. count' \in [Windows -> Nat] /\ expires' \in [Windows -> Nat]
    BY <1>12, AddType DEF TypeOK, Kill, store
  <2> QED
    BY <1>12, <2>1, <2>2, FinishType DEF TypeOK, Kill
<1>13. ASSUME NEW w \in Windows, DeleteExpired(w) PROVE TypeOK'
  BY <1>13 DEF TypeOK, DeleteExpired, local, ghost
<1>14. CASE Tick
  BY <1>14, TimesAssumption DEF TypeOK, Tick, Times, store, local, ghost
<1>15. CASE UNCHANGED vars
  BY <1>15 DEF TypeOK, vars, store, local, ghost
<1> QED
  BY <1>1, <1>2, <1>3, <1>4, <1>5, <1>6, <1>7, <1>8, <1>9, <1>10, <1>11,
     <1>12, <1>13, <1>14, <1>15 DEF Next, Step

LEMMA TypeOKInit == Init => TypeOK
BY TimesAssumption, BoundsAssumption
   DEF Init, TypeOK, Times, States

(* Every variable always has its type.                                     *)
THEOREM TypeCorrect == Spec => []TypeOK
BY TypeOKInit, TypeOKStep, PTL DEF Spec

(* ---- Tokens ----------------------------------------------------------- *)

Slots == Executions \X (1 .. MaxAttempts)

LEMMA ConcurrencyType == Concurrency \in Nat
BY FS_CardinalityType, ExecutionsAssumption DEF Concurrency

(* A set of tokens is finite, and no larger than one token per attempt of  *)
(* each execution.                                                         *)
LEMMA TokenCount ==
  ASSUME NEW T \in SUBSET Slots
  PROVE  /\ IsFiniteSet(T)
         /\ Cardinality(T) \in Nat
         /\ Concurrency \in Nat
         /\ Cardinality(T) <= Concurrency * MaxAttempts
<1>1. IsFiniteSet(1 .. MaxAttempts) /\ Cardinality(1 .. MaxAttempts) = MaxAttempts
  BY FS_Interval, BoundsAssumption
<1>2. IsFiniteSet(Slots) /\ Cardinality(Slots) = Concurrency * MaxAttempts
  BY <1>1, FS_Product, ExecutionsAssumption DEF Slots, Concurrency
<1> QED
  BY <1>2, ConcurrencyType, FS_Subset, FS_CardinalityType

LEMMA TokensAreSlots ==
  \A w : Tokens(w) \subseteq Slots /\ Tokens(w)' \subseteq Slots
BY DEF Tokens, Slots

(* The ceiling is a number above Limit - 1 by at least all possible tokens.*)
LEMMA CeilingType ==
  ASSUME TypeOK
  PROVE  /\ Ceiling \in Nat
         /\ Ceiling >= Limit - 1 + Concurrency * MaxAttempts
<1>1. Concurrency \in Nat /\ MaxAttempts \in Nat /\ openings \in Nat
      /\ Limit \in Nat /\ Limit > 0
  BY ConcurrencyType, BoundsAssumption, QuotaAssumption DEF TypeOK
<1>2. openings * MaxAttempts \in Nat /\ Concurrency * MaxAttempts \in Nat
  BY <1>1
<1>3. (Concurrency + openings) * MaxAttempts
        = Concurrency * MaxAttempts + openings * MaxAttempts
  BY <1>1
<1> QED
  BY <1>1, <1>2, <1>3 DEF Ceiling

(* Room when the counter is below the limit, whoever may still count.      *)
RoomIfBelowLimit ==
  \A w \in Windows :
    count[w] < Limit => count[w] + Cardinality(Tokens(w)) <= Ceiling

LEMMA RoomBelowLimit == TypeOK => RoomIfBelowLimit
<1> SUFFICES ASSUME TypeOK, NEW w \in Windows, count[w] < Limit
             PROVE  count[w] + Cardinality(Tokens(w)) <= Ceiling
  BY DEF RoomIfBelowLimit
<1>1. /\ Cardinality(Tokens(w)) \in Nat
      /\ Cardinality(Tokens(w)) <= Concurrency * MaxAttempts
      /\ Concurrency \in Nat
  BY TokenCount, TokensAreSlots
<1>2. Concurrency * MaxAttempts \in Nat
  BY <1>1, BoundsAssumption
<1> QED
  BY <1>1, <1>2, CeilingType, QuotaAssumption DEF TypeOK

(* Room when no token appears and the counter does not grow.               *)
LEMMA RoomWhenTokensShrink ==
  ASSUME TypeOK, TypeOK', RoomForTokens, NEW w \in Windows,
         count'[w] <= count[w], openings' = openings,
         Tokens(w)' \subseteq Tokens(w)
  PROVE  count'[w] + Cardinality(Tokens(w)') <= Ceiling'
<1>1. IsFiniteSet(Tokens(w)) /\ Cardinality(Tokens(w)) \in Nat
  BY TokenCount, TokensAreSlots
<1>2. /\ Cardinality(Tokens(w)') \in Nat
      /\ Cardinality(Tokens(w)') <= Cardinality(Tokens(w))
  BY <1>1, FS_Subset, FS_CardinalityType
<1>3. Ceiling' = Ceiling
  BY DEF Ceiling, Concurrency
<1> QED
  BY <1>1, <1>2, <1>3, CeilingType DEF RoomForTokens, TypeOK

(* Room when the counter grows by one and a token is spent for it.         *)
LEMMA RoomWhenTokenSpent ==
  ASSUME TypeOK, TypeOK', RoomForTokens, NEW w \in Windows,
         count'[w] = count[w] + 1, openings' = openings,
         NEW t \in Tokens(w), Tokens(w)' \subseteq Tokens(w) \ {t}
  PROVE  count'[w] + Cardinality(Tokens(w)') <= Ceiling'
<1>1. IsFiniteSet(Tokens(w)) /\ Cardinality(Tokens(w)) \in Nat
  BY TokenCount, TokensAreSlots
<1>2. /\ IsFiniteSet(Tokens(w) \ {t})
      /\ Cardinality(Tokens(w) \ {t}) = Cardinality(Tokens(w)) - 1
  BY <1>1, FS_RemoveElement
<1>3. /\ Cardinality(Tokens(w)') \in Nat
      /\ Cardinality(Tokens(w)') <= Cardinality(Tokens(w)) - 1
  BY <1>2, FS_Subset, FS_CardinalityType
<1>4. Ceiling' = Ceiling
  BY DEF Ceiling, Concurrency
<1> QED
  BY <1>1, <1>3, <1>4, CeilingType DEF RoomForTokens, TypeOK

(* Room when a decision fails open: the ceiling rises with the tokens.     *)
LEMMA RoomWhenOpened ==
  ASSUME TypeOK, TypeOK', RoomForTokens, NEW w \in Windows,
         count'[w] = count[w], openings' = openings + 1,
         NEW e \in Executions,
         Tokens(w)' \subseteq Tokens(w) \cup ({e} \X (1 .. MaxAttempts))
  PROVE  count'[w] + Cardinality(Tokens(w)') <= Ceiling'
<1> DEFINE E == {e} \X (1 .. MaxAttempts)
<1>1. IsFiniteSet(Tokens(w)) /\ Cardinality(Tokens(w)) \in Nat
  BY TokenCount, TokensAreSlots
<1>2. IsFiniteSet(E) /\ Cardinality(E) = MaxAttempts
  <2>1. IsFiniteSet(1 .. MaxAttempts) /\ Cardinality(1 .. MaxAttempts) = MaxAttempts
    BY FS_Interval, BoundsAssumption
  <2>2. IsFiniteSet({e}) /\ Cardinality({e}) = 1
    BY FS_Singleton
  <2>3. IsFiniteSet(E) /\ Cardinality(E) = 1 * MaxAttempts
    BY <2>1, <2>2, FS_Product
  <2> QED
    BY <2>3, BoundsAssumption
<1>3. /\ IsFiniteSet(Tokens(w) \cup E)
      /\ Cardinality(Tokens(w) \cup E) <= Cardinality(Tokens(w)) + MaxAttempts
  <2>1. IsFiniteSet(Tokens(w) \cap E) /\ Cardinality(Tokens(w) \cap E) \in Nat
    BY <1>1, FS_Intersection, FS_CardinalityType
  <2>2. Cardinality(Tokens(w) \cup E)
          = Cardinality(Tokens(w)) + MaxAttempts - Cardinality(Tokens(w) \cap E)
    BY <1>1, <1>2, FS_Union
  <2> HIDE DEF E
  <2> QED
    BY <1>1, <1>2, <2>1, <2>2, FS_Union, BoundsAssumption
<1>4. /\ Cardinality(Tokens(w)') \in Nat
      /\ Cardinality(Tokens(w)') <= Cardinality(Tokens(w)) + MaxAttempts
  <2>1. Cardinality(Tokens(w)') <= Cardinality(Tokens(w) \cup E)
    BY <1>3, FS_Subset
  <2>2. Cardinality(Tokens(w)') \in Nat /\ Cardinality(Tokens(w) \cup E) \in Nat
    BY <1>3, TokenCount, TokensAreSlots, FS_CardinalityType
  <2> QED
    BY <1>1, <1>3, <2>1, <2>2, BoundsAssumption
<1>5. Ceiling' = Ceiling + MaxAttempts
  <2>1. Concurrency \in Nat /\ MaxAttempts \in Nat /\ openings \in Nat /\ Limit \in Nat
    BY ConcurrencyType, BoundsAssumption, QuotaAssumption DEF TypeOK
  <2>2. (Concurrency + openings + 1) * MaxAttempts
          = (Concurrency + openings) * MaxAttempts + MaxAttempts
    BY <2>1
  <2>3. (Concurrency + openings) * MaxAttempts \in Nat
    BY <2>1
  <2> QED
    BY <2>1, <2>2, <2>3 DEF Ceiling, Concurrency
<1> QED
  BY <1>1, <1>4, <1>5, CeilingType, BoundsAssumption DEF RoomForTokens, TypeOK

(* Tokens only disappear if no execution gains a way to count and none     *)
(* takes back an attempt.                                                  *)
LEMMA TokensShrink ==
  ASSUME TypeOK, TypeOK', NEW w,
         \A e \in Executions :
           MayCount(e, w)' => MayCount(e, w) /\ attempts[e] <= attempts'[e]
  PROVE  Tokens(w)' \subseteq Tokens(w)
<1>1. \A e \in Executions : attempts[e] \in Int /\ attempts'[e] \in Int
  BY BoundsAssumption DEF TypeOK
<1>2. SUFFICES ASSUME NEW p \in Slots, p \in Tokens(w)'
               PROVE  p \in Tokens(w)
  BY TokensAreSlots
<1>3. p[1] \in Executions /\ p[2] \in Int
  BY DEF Slots
<1>4. MayCount(p[1], w)' /\ p[2] > attempts'[p[1]]
  BY <1>2 DEF Tokens
<1> QED
  BY <1>1, <1>2, <1>3, <1>4 DEF Tokens, Slots

(* An execution that has answered counts nothing any more; the others are  *)
(* as they were.                                                           *)
LEMMA FinishTokens ==
  ASSUME TypeOK, TypeOK', NEW e \in Executions, Finish(e), NEW w
  PROVE  Tokens(w)' \subseteq Tokens(w) \ ({e} \X (1 .. MaxAttempts))
<1>1. ~ MayCount(e, w)'
  BY DEF TypeOK, Finish, MayCount, States, Reading, Counted
<1>2. \A x \in Executions \ {e} :
        (MayCount(x, w)' <=> MayCount(x, w)) /\ attempts'[x] = attempts[x]
  BY DEF TypeOK, Finish, MayCount, CountedIn, StartedIn, WindowOf
<1>3. SUFFICES ASSUME NEW p \in Slots, p \in Tokens(w)'
               PROVE  p \in Tokens(w) /\ p[1] # e
  BY TokensAreSlots
<1>4. p[1] \in Executions \ {e} /\ MayCount(p[1], w)' /\ p[2] > attempts'[p[1]]
  BY <1>1, <1>3 DEF Tokens
<1> QED
  BY <1>2, <1>3, <1>4 DEF Tokens, Slots

(* Whoever is about to write a key has a token for its counter.            *)
LEMMA WriterHasToken ==
  ASSUME TypeOK, NEW e \in Executions, pc[e] = "write"
  PROVE  <<e, attempts[e] + 1>> \in Tokens(CountedIn(e))
<1>1. attempts[e] + 1 \in 1 .. MaxAttempts /\ attempts[e] + 1 > attempts[e]
  BY BoundsAssumption DEF TypeOK
<1> QED
  BY <1>1 DEF Tokens, MayCount

(* Adding to the counter of w and having answered spends a token.          *)
LEMMA RoomWhenAnswered ==
  ASSUME TypeOK, TypeOK', RoomForTokens, NEW w \in Windows,
         NEW e \in Executions, pc[e] = "write", Finish(e),
         Add(CountedIn(e), countedAt[e]), openings' = openings
  PROVE  count'[w] + Cardinality(Tokens(w)') <= Ceiling'
<1>1. Tokens(w)' \subseteq Tokens(w) \ ({e} \X (1 .. MaxAttempts))
  BY FinishTokens
<1>2. CASE w = CountedIn(e)
  <2>1. count'[w] = count[w] + 1
    BY <1>2 DEF Add, TypeOK
  <2>2. <<e, attempts[e] + 1>> \in Tokens(w)
    BY <1>2, WriterHasToken
  <2>3. <<e, attempts[e] + 1>> \in {e} \X (1 .. MaxAttempts)
    BY <2>2 DEF Tokens
  <2>4. Tokens(w)' \subseteq Tokens(w) \ {<<e, attempts[e] + 1>>}
    BY <1>1, <2>3
  <2> QED
    BY <2>1, <2>2, <2>4, RoomWhenTokenSpent
<1>3. CASE w # CountedIn(e)
  <2>1. count'[w] = count[w]
    BY <1>3 DEF Add, TypeOK
  <2> QED
    BY <1>1, <2>1, RoomWhenTokensShrink DEF TypeOK
<1> QED
  BY <1>2, <1>3

(* The execution that takes a step is the only one whose tokens change.    *)
LEMMA OthersKeepTokens ==
  ASSUME TypeOK, NEW e \in Executions, NEW w,
         \E q \in States : pc' = [pc EXCEPT ![e] = q],
         \/ start' = start \/ \E t : start' = [start EXCEPT ![e] = t],
         \/ seen' = seen \/ \E n : seen' = [seen EXCEPT ![e] = n],
         \/ countedAt' = countedAt \/ \E t : countedAt' = [countedAt EXCEPT ![e] = t],
         attempts' = attempts
  PROVE  \A x \in Executions \ {e} :
           MayCount(x, w)' => MayCount(x, w) /\ attempts[x] <= attempts'[x]
<1> SUFFICES ASSUME NEW x \in Executions \ {e}, MayCount(x, w)'
             PROVE  MayCount(x, w) /\ attempts[x] <= attempts'[x]
  OBVIOUS
<1>1. attempts[x] \in Int
  BY BoundsAssumption DEF TypeOK
<1>2. pc'[x] = pc[x] /\ start'[x] = start[x] /\ seen'[x] = seen[x]
      /\ countedAt'[x] = countedAt[x]
  BY DEF TypeOK
<1> QED
  BY <1>1, <1>2 DEF MayCount, StartedIn, CountedIn, WindowOf

(* A decision that allows the request gives it tokens only of its own.     *)
LEMMA AllowedOnlyOwnTokens ==
  ASSUME TypeOK, TypeOK', NEW e \in Executions, Allow(e), NEW w
  PROVE  /\ Tokens(w)' \subseteq Tokens(w) \cup ({e} \X (1 .. MaxAttempts))
         /\ (MayCount(e, w)' => MayCount(e, w)) => Tokens(w)' \subseteq Tokens(w)
<1>1. /\ \E q \in States : pc' = [pc EXCEPT ![e] = q]
      /\ seen' = [seen EXCEPT ![e] = 0]
      /\ start' = start /\ countedAt' = countedAt /\ attempts' = attempts
  BY DEF Allow, States, Counted
<1>2. \A x \in Executions \ {e} :
        MayCount(x, w)' => MayCount(x, w) /\ attempts[x] <= attempts'[x]
  BY <1>1, OthersKeepTokens
<1>3. attempts[e] <= attempts'[e]
  BY <1>1, BoundsAssumption DEF TypeOK
<1>4. Tokens(w)' \subseteq Tokens(w) \cup ({e} \X (1 .. MaxAttempts))
  BY <1>1, <1>2 DEF Tokens
<1>5. (MayCount(e, w)' => MayCount(e, w)) => Tokens(w)' \subseteq Tokens(w)
  BY <1>2, <1>3, TokensShrink
<1> QED
  BY <1>4, <1>5

(* ---- The inductive invariant ------------------------------------------ *)

LEMMA IInvInit == Init => IInv
<1> SUFFICES ASSUME Init PROVE IInv
  OBVIOUS
<1>1. TypeOK
  BY TypeOKInit
<1>2. ReadClocks
  BY DEF Init, ReadClocks
<1>3. FutureIsEmpty
  BY DEF Init, FutureIsEmpty
<1>4. RoomForTokens
  BY <1>1, RoomBelowLimit, QuotaAssumption
     DEF Init, RoomForTokens, RoomIfBelowLimit
<1> QED
  BY <1>1, <1>2, <1>3, <1>4 DEF IInv

(* Clocks that were read stay in the past.                                 *)
LEMMA ReadClocksStep ==
  ASSUME TypeOK, TypeOK', ReadClocks, [Next]_vars
  PROVE  ReadClocks'
<1>1. now \in Nat /\ now' \in Nat
  BY DEF TypeOK, Times
<1>2. /\ \A e \in Executions : start[e] \in Nat /\ countedAt[e] \in Nat
      /\ \A e \in Executions : start'[e] \in Nat /\ countedAt'[e] \in Nat
  BY DEF TypeOK, Times
<1>3. now <= now'
  BY <1>1 DEF Next, Step, Start, ReadCurrent, Admit, Refuse, FailOpen,
     AttemptSucceeds, AttemptFails, ReadClockAgain, WriteAnswered,
     WriteUnanswered, AttemptsLeft, WriteFails, Kill, DeleteExpired, Tick, vars
<1>4. \A e \in Executions : start'[e] \in {start[e], now, 0}
  BY DEF TypeOK, Next, Step, Start, ReadCurrent, Admit, Refuse, FailOpen,
     AttemptSucceeds, AttemptFails, ReadClockAgain, WriteAnswered,
     WriteUnanswered, AttemptsLeft, WriteFails, Kill, DeleteExpired, Tick, vars,
     Finish, Allow, local
<1>5. \A e \in Executions : countedAt'[e] \in {countedAt[e], now, 0}
  BY DEF TypeOK, Next, Step, Start, ReadCurrent, Admit, Refuse, FailOpen,
     AttemptSucceeds, AttemptFails, ReadClockAgain, WriteAnswered,
     WriteUnanswered, AttemptsLeft, WriteFails, Kill, DeleteExpired, Tick, vars,
     Finish, Allow, local
<1> QED
  BY <1>1, <1>2, <1>3, <1>4, <1>5 DEF ReadClocks

(* Only the counter of a window that has begun ever grows.                 *)
LEMMA FutureIsEmptyStep ==
  ASSUME TypeOK, TypeOK', ReadClocks, FutureIsEmpty, [Next]_vars
  PROVE  FutureIsEmpty'
<1>1. now \in Nat /\ now' \in Nat
  BY DEF TypeOK, Times
<1>2. now <= now'
  BY <1>1 DEF Next, Step, Start, ReadCurrent, Admit, Refuse, FailOpen,
     AttemptSucceeds, AttemptFails, ReadClockAgain, WriteAnswered,
     WriteUnanswered, AttemptsLeft, WriteFails, Kill, DeleteExpired, Tick, vars
<1>3. WindowOf(now) \in Nat /\ WindowOf(now') \in Nat
      /\ WindowOf(now) <= WindowOf(now')
  BY <1>1, <1>2, WindowOfMonotone
<1>4. \A w \in Windows : w \in Int
  BY WindowOfMonotone, TimesAssumption DEF Windows
<1>5. ASSUME NEW e \in Executions, Add(CountedIn(e), countedAt[e])
      PROVE  \A w \in Windows : w > WindowOf(now) => count'[w] = 0
  <2>1. CountedIn(e) \in Nat /\ CountedIn(e) <= WindowOf(now)
    BY <1>1, WindowOfMonotone DEF CountedIn, TypeOK, Times, ReadClocks
  <2> QED
    BY <1>3, <1>4, <1>5, <2>1 DEF Add, TypeOK, FutureIsEmpty
<1>6. CASE \E e \in Executions : Add(CountedIn(e), countedAt[e])
  BY <1>3, <1>4, <1>5, <1>6 DEF FutureIsEmpty
<1>7. CASE ~ \E e \in Executions : Add(CountedIn(e), countedAt[e])
  <2>1. \A w \in Windows : count'[w] \in {count[w], 0}
    BY <1>7 DEF TypeOK, Next, Step, Start, ReadCurrent, Admit, Refuse, FailOpen,
       AttemptSucceeds, AttemptFails, ReadClockAgain, WriteAnswered,
       WriteUnanswered, AttemptsLeft, WriteFails, Kill, DeleteExpired, Tick, vars, store
  <2> QED
    BY <1>3, <1>4, <2>1 DEF FutureIsEmpty
<1> QED
  BY <1>6, <1>7

(* Every step leaves room for the increments still possible.               *)
LEMMA RoomForTokensStep ==
  ASSUME IInv, [Next]_vars
  PROVE  RoomForTokens'
<1> USE DEF IInv
<1>1. TypeOK'
  BY TypeOKStep
<1>1a. RoomIfBelowLimit'
  BY <1>1, RoomBelowLimit, PTL
<1>2. /\ now \in Nat /\ WindowOf(now) \in Nat /\ Window \in Nat \ {0}
      /\ \A e \in Executions : start[e] \in Nat /\ StartedIn(e) \in Nat
      /\ \A e \in Executions : StartedIn(e) <= WindowOf(now)
      /\ \A x \in Windows : x \in Int
  <2>1. now \in Nat /\ \A e \in Executions : start[e] \in Nat /\ start[e] <= now
    BY DEF TypeOK, Times, ReadClocks
  <2>2. WindowOf(now) \in Nat
        /\ \A e \in Executions : StartedIn(e) \in Nat /\ StartedIn(e) <= WindowOf(now)
    BY <2>1, WindowOfMonotone DEF StartedIn
  <2>3. \A x \in Windows : x \in Int
    BY DEF Windows
  <2> QED
    BY <2>1, <2>2, <2>3, QuotaAssumption
<1>3. SUFFICES ASSUME NEW w \in Windows
               PROVE  count'[w] + Cardinality(Tokens(w)') <= Ceiling'
  BY DEF RoomForTokens
<1>4. ASSUME NEW e \in Executions, Start(e)
      PROVE  count'[w] + Cardinality(Tokens(w)') <= Ceiling'
  <2>1. CASE w > WindowOf(now)
    <3>1. count'[w] < Limit
      BY <1>4, <2>1, QuotaAssumption DEF Start, store, FutureIsEmpty
    <3> QED
      BY <1>1a, <3>1 DEF RoomIfBelowLimit
  <2>2. CASE ~ (w > WindowOf(now))
    <3>1. ~ MayCount(e, w)'
      BY <1>1, <1>2, <1>4, <2>2
         DEF Start, TypeOK, MayCount, StartedIn, WindowOf
    <3>2. \A x \in Executions \ {e} :
            MayCount(x, w)' => MayCount(x, w) /\ attempts[x] <= attempts'[x]
      BY <1>4, OthersKeepTokens DEF Start, States, Reading
    <3>3. Tokens(w)' \subseteq Tokens(w)
      BY <1>1, <3>1, <3>2, TokensShrink
    <3> QED
      BY <1>1, <1>4, <3>3, RoomWhenTokensShrink DEF Start, store, ghost, TypeOK
  <2> QED
    BY <2>1, <2>2
<1>5. ASSUME NEW e \in Executions, ReadCurrent(e)
      PROVE  count'[w] + Cardinality(Tokens(w)') <= Ceiling'
  <2>1. CASE count[w] < Limit
    <3>1. count'[w] < Limit
      BY <1>5, <2>1 DEF ReadCurrent, store
    <3> QED
      BY <1>1a, <3>1 DEF RoomIfBelowLimit
  <2>2. CASE ~ (count[w] < Limit)
    <3>1. MayCount(e, w)' => MayCount(e, w)
      BY <1>2, <1>5, <2>2
         DEF ReadCurrent, TypeOK, MayCount, StartedIn, Stored, States, Reading
    <3>2. \A x \in Executions \ {e} :
            MayCount(x, w)' => MayCount(x, w) /\ attempts[x] <= attempts'[x]
      BY <1>5, OthersKeepTokens DEF ReadCurrent, States, Reading
    <3>3. attempts[e] <= attempts'[e]
      BY <1>5, BoundsAssumption DEF ReadCurrent, TypeOK
    <3>4. Tokens(w)' \subseteq Tokens(w)
      BY <1>1, <3>1, <3>2, <3>3, TokensShrink
    <3> QED
      BY <1>1, <1>5, <3>4, RoomWhenTokensShrink
         DEF ReadCurrent, store, ghost, TypeOK
  <2> QED
    BY <2>1, <2>2
<1>6. ASSUME NEW e \in Executions, Admit(e)
      PROVE  count'[w] + Cardinality(Tokens(w)') <= Ceiling'
  <2>1. seen[e] < Limit
    BY <1>2, <1>6, AdmitsBelowLimit, StoredType DEF Admit, TypeOK
  <2>2. MayCount(e, w)' => MayCount(e, w)
    BY <1>6, <2>1
       DEF Admit, Allow, TypeOK, MayCount, StartedIn, States, Reading, Counted
  <2>3. Tokens(w)' \subseteq Tokens(w)
    BY <1>1, <1>6, <2>2, AllowedOnlyOwnTokens DEF Admit
  <2> QED
    BY <1>1, <1>6, <2>3, RoomWhenTokensShrink DEF Admit, store, TypeOK
<1>7. ASSUME NEW e \in Executions, Refuse(e)
      PROVE  count'[w] + Cardinality(Tokens(w)') <= Ceiling'
  BY <1>1, <1>7, FinishTokens, RoomWhenTokensShrink
     DEF Refuse, store, ghost, TypeOK
<1>8. ASSUME NEW e \in Executions, FailOpen(e)
      PROVE  count'[w] + Cardinality(Tokens(w)') <= Ceiling'
  BY <1>1, <1>8, AllowedOnlyOwnTokens, RoomWhenOpened DEF FailOpen, store
<1>9. ASSUME NEW e \in Executions, AttemptSucceeds(e)
      PROVE  count'[w] + Cardinality(Tokens(w)') <= Ceiling'
  BY <1>1, <1>9, FinishTokens, RoomWhenTokensShrink
     DEF AttemptSucceeds, store, ghost, TypeOK
<1>10. ASSUME NEW e \in Executions, AttemptFails(e)
       PROVE  count'[w] + Cardinality(Tokens(w)') <= Ceiling'
  <2>1. MayCount(e, w)' => MayCount(e, w)
    BY <1>10 DEF AttemptFails, TypeOK, MayCount, StartedIn, States, Counted
  <2>2. \A x \in Executions \ {e} :
          MayCount(x, w)' => MayCount(x, w) /\ attempts[x] <= attempts'[x]
    BY <1>10, OthersKeepTokens DEF AttemptFails, States, Counted
  <2>3. attempts[e] <= attempts'[e]
    BY <1>10, BoundsAssumption DEF AttemptFails, TypeOK
  <2>4. Tokens(w)' \subseteq Tokens(w)
    BY <1>1, <2>1, <2>2, <2>3, TokensShrink
  <2> QED
    BY <1>1, <1>10, <2>4, RoomWhenTokensShrink DEF AttemptFails, store, TypeOK
<1>11. ASSUME NEW e \in Executions, ReadClockAgain(e)
       PROVE  count'[w] + Cardinality(Tokens(w)') <= Ceiling'
  <2>1. MayCount(e, w)' => MayCount(e, w)
    BY <1>2, <1>11
       DEF ReadClockAgain, TypeOK, MayCount, StartedIn, CountedIn, States, Counted
  <2>2. \A x \in Executions \ {e} :
          MayCount(x, w)' => MayCount(x, w) /\ attempts[x] <= attempts'[x]
    BY <1>11, OthersKeepTokens DEF ReadClockAgain, States, Counted
  <2>3. attempts[e] <= attempts'[e]
    BY <1>11, BoundsAssumption DEF ReadClockAgain, TypeOK
  <2>4. Tokens(w)' \subseteq Tokens(w)
    BY <1>1, <2>1, <2>2, <2>3, TokensShrink
  <2> QED
    BY <1>1, <1>11, <2>4, RoomWhenTokensShrink
       DEF ReadClockAgain, store, ghost, TypeOK
<1>12. ASSUME NEW e \in Executions, WriteAnswered(e)
       PROVE  count'[w] + Cardinality(Tokens(w)') <= Ceiling'
  BY <1>1, <1>12, RoomWhenAnswered DEF WriteAnswered, ghost
<1>13. ASSUME NEW e \in Executions, WriteUnanswered(e)
       PROVE  count'[w] + Cardinality(Tokens(w)') <= Ceiling'
  <2>1. CASE ~ (attempts[e] + 1 < MaxAttempts)
    BY <1>1, <1>13, <2>1, RoomWhenAnswered DEF WriteUnanswered, AttemptsLeft, ghost
  <2>2. CASE attempts[e] + 1 < MaxAttempts
    <3>1. /\ attempts' = [attempts EXCEPT ![e] = @ + 1]
          /\ UNCHANGED <<pc, start, seen, countedAt, openings>>
          /\ Add(CountedIn(e), countedAt[e])
      BY <1>13, <2>2 DEF WriteUnanswered, AttemptsLeft, ghost
    <3>2. \A x \in Executions : attempts[x] \in Int
      BY BoundsAssumption DEF TypeOK
    <3>3. \A x \in Executions :
            (MayCount(x, w)' <=> MayCount(x, w)) /\ attempts[x] <= attempts'[x]
      BY <3>1, <3>2 DEF TypeOK, MayCount, StartedIn, CountedIn, WindowOf
    <3>4. Tokens(w)' \subseteq Tokens(w)
      BY <1>1, <3>3, TokensShrink
    <3>5. CASE w = CountedIn(e)
      <4>1. count'[w] = count[w] + 1
        BY <3>1, <3>5 DEF Add, TypeOK
      <4>2. <<e, attempts[e] + 1>> \in Tokens(w)
        BY <1>13, <3>5, WriterHasToken DEF WriteUnanswered, AttemptsLeft
      <4>3. <<e, attempts[e] + 1>> \notin Tokens(w)'
        BY <3>1, <3>2 DEF Tokens, TypeOK
      <4>4. Tokens(w)' \subseteq Tokens(w) \ {<<e, attempts[e] + 1>>}
        BY <3>4, <4>3
      <4> QED
        BY <1>1, <3>1, <4>1, <4>2, <4>4, RoomWhenTokenSpent
    <3>6. CASE w # CountedIn(e)
      <4>1. count'[w] = count[w]
        BY <3>1, <3>6 DEF Add, TypeOK
      <4> QED
        BY <1>1, <3>1, <3>4, <4>1, RoomWhenTokensShrink DEF TypeOK
    <3> QED
      BY <3>5, <3>6
  <2> QED
    BY <2>1, <2>2
<1>14. ASSUME NEW e \in Executions, WriteFails(e)
       PROVE  count'[w] + Cardinality(Tokens(w)') <= Ceiling'
  <2>1. count' = count /\ openings' = openings
    BY <1>14 DEF WriteFails, AttemptsLeft, store
  <2>2. CASE ~ (attempts[e] + 1 < MaxAttempts)
    BY <1>1, <1>14, <2>1, <2>2, FinishTokens, RoomWhenTokensShrink
       DEF WriteFails, AttemptsLeft, TypeOK
  <2>3. CASE attempts[e] + 1 < MaxAttempts
    <3>1. /\ attempts' = [attempts EXCEPT ![e] = @ + 1]
          /\ UNCHANGED <<pc, start, seen, countedAt>>
      BY <1>14, <2>3 DEF WriteFails, AttemptsLeft
    <3>2. \A x \in Executions : attempts[x] \in Int
      BY BoundsAssumption DEF TypeOK
    <3>3. \A x \in Executions :
            (MayCount(x, w)' <=> MayCount(x, w)) /\ attempts[x] <= attempts'[x]
      BY <3>1, <3>2 DEF TypeOK, MayCount, StartedIn, CountedIn, WindowOf
    <3>4. Tokens(w)' \subseteq Tokens(w)
      BY <1>1, <3>3, TokensShrink
    <3> QED
      BY <1>1, <2>1, <3>4, RoomWhenTokensShrink DEF TypeOK
  <2> QED
    BY <2>2, <2>3
<1>15. ASSUME NEW e \in Executions, Kill(e)
       PROVE  count'[w] + Cardinality(Tokens(w)') <= Ceiling'
  <2>1. Finish(e) /\ openings' = openings
    BY <1>15 DEF Kill
  <2>2. CASE pc[e] = "write" /\ Add(CountedIn(e), countedAt[e])
    BY <1>1, <2>1, <2>2, RoomWhenAnswered
  <2>3. CASE count' = count
    BY <1>1, <2>1, <2>3, FinishTokens, RoomWhenTokensShrink DEF TypeOK
  <2> QED
    BY <1>15, <2>2, <2>3 DEF Kill, store
<1>16. ASSUME NEW d \in Windows, DeleteExpired(d)
       PROVE  count'[w] + Cardinality(Tokens(w)') <= Ceiling'
  <2>1. UNCHANGED <<pc, start, seen, countedAt, attempts, openings>>
    BY <1>16 DEF DeleteExpired, local, ghost
  <2>2. Tokens(w)' = Tokens(w)
    BY <2>1 DEF Tokens, MayCount, StartedIn, CountedIn, WindowOf
  <2>3. count'[w] <= count[w]
    BY <1>16 DEF DeleteExpired, TypeOK
  <2> QED
    BY <1>1, <2>1, <2>2, <2>3, RoomWhenTokensShrink
<1>17. CASE Tick \/ UNCHANGED vars
  <2>1. UNCHANGED <<count, pc, start, seen, countedAt, attempts, openings>>
    BY <1>17 DEF Tick, vars, store, local, ghost
  <2>2. Tokens(w)' = Tokens(w)
    BY <2>1 DEF Tokens, MayCount, StartedIn, CountedIn, WindowOf
  <2> QED
    BY <1>1, <2>1, <2>2, RoomWhenTokensShrink DEF TypeOK
<1> QED
  BY <1>4, <1>5, <1>6, <1>7, <1>8, <1>9, <1>10, <1>11, <1>12, <1>13, <1>14,
     <1>15, <1>16, <1>17 DEF Next, Step

LEMMA IInvStep == IInv /\ [Next]_vars => IInv'
BY TypeOKStep, ReadClocksStep, FutureIsEmptyStep, RoomForTokensStep DEF IInv

(* The invariant that RoomForTokens strengthens really is one.             *)
THEOREM IInvInvariant == Spec => []IInv
BY IInvInit, IInvStep, PTL DEF Spec

(* However many executions race, and whichever of their reads, writes and  *)
(* answers are lost, no counter passes the ceiling.                        *)
THEOREM OvershootIsBounded == Spec => []OvershootBounded
<1>1. IInv => OvershootBounded
  <2> SUFFICES ASSUME IInv, NEW w \in Windows PROVE count[w] <= Ceiling
    BY DEF OvershootBounded
  <2>1. Cardinality(Tokens(w)) \in Nat
    BY TokenCount, TokensAreSlots
  <2> QED
    BY <2>1, CeilingType DEF IInv, RoomForTokens, TypeOK
<1> QED
  BY <1>1, IInvInvariant, PTL

=============================================================================
