---------------------------- MODULE PagingProofs -----------------------------
(***************************************************************************)
(* What TLAPS proves of Paging, for any quotes, ranks and page size.       *)
(*                                                                         *)
(* The argument: the quotes at or above the last place that was shown are  *)
(* what the client has reached.  Counted against the offset they say what  *)
(* the next page will show again (there are more of them than the offset)  *)
(* and what it will leave out (there are less).                            *)
(***************************************************************************)
EXTENDS Paging, FiniteSetTheorems, TLAPS

-----------------------------------------------------------------------------
(* The inductive invariant.                                                *)

(* The quotes there have been in this walk, and those that are in the      *)
(* order where the client has been: not below all it was shown.            *)
Walked == quiet \cup came \cup gone
Reached == {q \in Walked : \E s \in shown : q.rank >= s.rank}

RanksOf(some) == {q.rank : q \in some}
TiesIn(some) == Cardinality(some) - Cardinality(RanksOf(some))

Walking == pc \in {"count", "select"}

(* What the sets of the walk have to do with each other.                   *)
SetsInv ==
  /\ IsFiniteSet(Walked)
  /\ visible \subseteq quiet \cup came
  /\ visible \cap gone = {}
  /\ shown \subseteq Walked

(* The count is exceeded by those only that came after it.                 *)
CountInv ==
  pc = "select" => Cardinality(visible) <= total + Cardinality(late)

(* Repeated so far, and to be repeated by the pages to come.               *)
RepeatsInv ==
  LET cause == Cardinality(came) + TiesIn(Reached)
  IN  Walking =>
        /\ repeats <= cause
        /\ repeats + Cardinality(visible \cap Reached) - offset <= cause

(* Passed over so far, and to be passed over by the next page: what slips  *)
(* up past the offset, if that many are left.                              *)
Passed == (quiet \cap Reached) \ shown

MissesInv ==
  LET cause == Cardinality(gone) + TiesIn(Reached)
  IN  Walking =>
        /\ Cardinality(Passed) <= cause
        /\ \/ Cardinality(Passed) + offset - Cardinality(visible \cap Reached) <= cause
           \/ Cardinality(Passed) + Cardinality(quiet \ Reached) <= cause

IInv ==
  /\ TypeOK /\ SetsInv
  /\ CountInv /\ RepeatsInv /\ MissesInv
  /\ RepeatsBounded /\ MissesBounded

-----------------------------------------------------------------------------
(* Pages.                                                                  *)

LEMMA MinMeans ==
  ASSUME NEW a \in Int, NEW b \in Int
  PROVE  Min({a, b}) = IF a <= b THEN a ELSE b
<1> DEFINE m == IF a <= b THEN a ELSE b
<1>1. m \in {a, b} /\ \A y \in {a, b} : m =< y
  OBVIOUS
<1>2. \A x \in {a, b} : (\A y \in {a, b} : x =< y) => x = m
  OBVIOUS
<1> QED
  BY <1>1, <1>2 DEF Min

(* The size of what is first, and of what is left.                         *)
LEMMA FirstSize ==
  ASSUME NEW some, IsFiniteSet(some), NEW n \in Nat, NEW page,
         IsFirst(page, some, n)
  PROVE  /\ page \subseteq some /\ IsFiniteSet(page)
         /\ Cardinality(page) \in Nat /\ Cardinality(some) \in Nat
         /\ Cardinality(page) <= n
         /\ Cardinality(page) = n \/ page = some
         /\ IsFiniteSet(some \ page)
         /\ Cardinality(some \ page) = Cardinality(some) - Cardinality(page)
<1>1. page \subseteq some /\ Cardinality(page) = Min({n, Cardinality(some)})
  BY DEF IsFirst
<1>2. /\ IsFiniteSet(page)
      /\ Cardinality(page) \in Nat /\ Cardinality(some) \in Nat
      /\ Cardinality(page) = Cardinality(some) => page = some
  BY <1>1, FS_Subset, FS_CardinalityType
<1>3. Cardinality(page) = IF n <= Cardinality(some) THEN n ELSE Cardinality(some)
  BY <1>1, <1>2, MinMeans
<1>4. some \cap page = page
  BY <1>1
<1>5. /\ IsFiniteSet(some \ page)
      /\ Cardinality(some \ page) = Cardinality(some) - Cardinality(page)
  BY <1>4, FS_Difference
<1>6. Cardinality(page) <= n /\ (Cardinality(page) = n \/ page = some)
  BY <1>2, <1>3
<1> QED
  BY <1>1, <1>2, <1>5, <1>6

(* ---- Ties ------------------------------------------------------------- *)

(* There are no more ranks than quotes.                                    *)
LEMMA RanksOfSize ==
  ASSUME NEW some, IsFiniteSet(some)
  PROVE  /\ IsFiniteSet(RanksOf(some))
         /\ Cardinality(RanksOf(some)) \in Nat
         /\ Cardinality(some) \in Nat
         /\ Cardinality(RanksOf(some)) <= Cardinality(some)
<1> DEFINE f == [q \in some |-> q.rank]
<1>1. f \in Surjection(some, RanksOf(some))
  BY DEF Surjection, RanksOf
<1>2. /\ IsFiniteSet(RanksOf(some))
      /\ Cardinality(RanksOf(some)) <= Cardinality(some)
  BY <1>1, FS_Surjection
<1> QED
  BY <1>2, FS_CardinalityType

(* Quotes that share their ranks with others are ties.                     *)
LEMMA TiesGrow ==
  ASSUME NEW all, IsFiniteSet(all), NEW some \in SUBSET all,
         NEW tied \in SUBSET (all \ some),
         \A x \in tied : \E s \in all \ tied : s.rank = x.rank
  PROVE  /\ TiesIn(some) \in Nat /\ TiesIn(all) \in Nat
         /\ Cardinality(tied) \in Nat
         /\ TiesIn(some) + Cardinality(tied) <= TiesIn(all)
<1> DEFINE rest == (all \ some) \ tied
<1>1. IsFiniteSet(some) /\ IsFiniteSet(tied) /\ IsFiniteSet(all \ some) /\ IsFiniteSet(rest)
  BY FS_Subset
<1>2. /\ Cardinality(all \ some) = Cardinality(all) - Cardinality(some)
      /\ Cardinality(rest) = Cardinality(all \ some) - Cardinality(tied)
  <2>1. all \cap some = some /\ (all \ some) \cap tied = tied
    OBVIOUS
  <2> QED
    BY <1>1, <2>1, FS_Difference
<1>3. RanksOf(all) = RanksOf(some) \cup RanksOf(rest)
  BY DEF RanksOf
<1>4. Cardinality(RanksOf(all)) <= Cardinality(RanksOf(some)) + Cardinality(RanksOf(rest))
  <2>1. IsFiniteSet(RanksOf(some)) /\ IsFiniteSet(RanksOf(rest))
    BY <1>1, RanksOfSize
  <2>2. Cardinality(RanksOf(some) \cup RanksOf(rest))
          = Cardinality(RanksOf(some)) + Cardinality(RanksOf(rest))
              - Cardinality(RanksOf(some) \cap RanksOf(rest))
    BY <2>1, FS_Union
  <2>3. Cardinality(RanksOf(some) \cap RanksOf(rest)) \in Nat
    BY <2>1, FS_Intersection, FS_CardinalityType
  <2>4. Cardinality(RanksOf(some)) \in Nat /\ Cardinality(RanksOf(rest)) \in Nat
    BY <1>1, RanksOfSize
  <2> QED
    BY <1>3, <2>2, <2>3, <2>4
<1>5. /\ Cardinality(all) \in Nat /\ Cardinality(RanksOf(all)) \in Nat
      /\ Cardinality(RanksOf(all)) <= Cardinality(all)
  BY RanksOfSize
<1>6. /\ Cardinality(some) \in Nat /\ Cardinality(RanksOf(some)) \in Nat
      /\ Cardinality(RanksOf(some)) <= Cardinality(some)
  BY <1>1, RanksOfSize
<1>7. /\ Cardinality(rest) \in Nat /\ Cardinality(RanksOf(rest)) \in Nat
      /\ Cardinality(RanksOf(rest)) <= Cardinality(rest)
  BY <1>1, RanksOfSize
<1>8. Cardinality(tied) \in Nat
  BY <1>1, FS_CardinalityType
<1> HIDE DEF rest
<1> QED
  BY <1>2, <1>4, <1>5, <1>6, <1>7, <1>8 DEF TiesIn

(* Without ties: more quotes have no less of them.                         *)
LEMMA TiesMonotone ==
  ASSUME NEW all, IsFiniteSet(all), NEW some \in SUBSET all
  PROVE  /\ TiesIn(some) \in Nat /\ TiesIn(all) \in Nat
         /\ TiesIn(some) <= TiesIn(all)
<1>1. /\ TiesIn(some) \in Nat /\ TiesIn(all) \in Nat
      /\ TiesIn(some) + Cardinality({}) <= TiesIn(all)
  BY TiesGrow
<1> QED
  BY <1>1, FS_EmptySet

(* ---- Sizes ------------------------------------------------------------ *)

LEMMA Sizes ==
  ASSUME SetsInv, TypeOK
  PROVE  /\ IsFiniteSet(visible) /\ Cardinality(visible) \in Nat
         /\ IsFiniteSet(quiet) /\ Cardinality(quiet) \in Nat
         /\ IsFiniteSet(came) /\ Cardinality(came) \in Nat
         /\ IsFiniteSet(gone) /\ Cardinality(gone) \in Nat
         /\ IsFiniteSet(late) /\ Cardinality(late) \in Nat
         /\ IsFiniteSet(shown)
         /\ IsFiniteSet(Reached) /\ Reached \subseteq Walked
         /\ TiesIn(Reached) \in Nat /\ Ties \in Nat /\ TiesIn(Reached) <= Ties
         /\ Walked \subseteq Quotes
<1>1. /\ visible \subseteq Walked /\ quiet \subseteq Walked /\ came \subseteq Walked
      /\ gone \subseteq Walked /\ late \subseteq Walked /\ shown \subseteq Walked
      /\ Reached \subseteq Walked /\ Walked \subseteq Quotes
  BY DEF SetsInv, TypeOK, Walked, Reached
<1>2. IsFiniteSet(Walked)
  BY DEF SetsInv
<1>3. \A some \in SUBSET Walked : IsFiniteSet(some) /\ Cardinality(some) \in Nat
  BY <1>2, FS_Subset, FS_CardinalityType
<1>4. Ties = TiesIn(Walked)
  BY DEF Ties, TiesIn, RanksOf, Walked
<1> QED
  BY <1>1, <1>2, <1>3, <1>4, TiesMonotone

-----------------------------------------------------------------------------
(* Quotes that come and go.                                                *)

LEMMA IInvInit == Init => IInv
<1> SUFFICES ASSUME Init PROVE IInv
  OBVIOUS
<1>1. Walked = {} /\ Reached = {}
  BY DEF Init, Walked, Reached
<1>2. IsFiniteSet({}) /\ Cardinality({}) = 0
  BY FS_EmptySet
<1>3. TypeOK
  BY DEF Init, TypeOK
<1>4. SetsInv
  BY <1>1, <1>2 DEF Init, SetsInv
<1>5. CountInv /\ RepeatsInv /\ MissesInv /\ MissesBounded
  BY DEF Init, CountInv, RepeatsInv, MissesInv, MissesBounded, Walking
<1>6. RepeatsBounded
  <2>1. Ties \in Nat /\ Cardinality(came) \in Nat /\ repeats = 0
    BY <1>3, <1>4, Sizes DEF Init
  <2> QED
    BY <2>1 DEF RepeatsBounded
<1> QED
  BY <1>3, <1>4, <1>5, <1>6 DEF IInv

LEMMA CreateStep ==
  ASSUME IInv, NEW q \in Quotes, Create(q)
  PROVE  IInv'
<1>1. TypeOK /\ SetsInv
  BY DEF IInv
<1>2. q \notin visible /\ q \notin came /\ q \notin gone /\ q \notin quiet
  BY <1>1 DEF Create, TypeOK
<1>3. TypeOK'
  BY <1>1, <1>2 DEF Create, TypeOK, walk
<1>4. Walked' = Walked \cup {q}
  BY DEF Create, Walked
<1>5. SetsInv'
  <2>1. IsFiniteSet(Walked')
    BY <1>1, <1>4, FS_AddElement DEF SetsInv
  <2> QED
    BY <1>1, <1>2, <1>4, <2>1 DEF Create, SetsInv, walk
<1>6. /\ Cardinality(visible') = Cardinality(visible) + 1
      /\ Cardinality(came') = Cardinality(came) + 1
  BY <1>1, <1>2, Sizes, FS_AddElement DEF Create
<1> DEFINE above == \E s \in shown : q.rank >= s.rank
<1>7. Reached' = IF above THEN Reached \cup {q} ELSE Reached
  BY <1>4 DEF Create, Reached, walk
<1>8. visible' \cap Reached' =
        IF above THEN (visible \cap Reached) \cup {q} ELSE visible \cap Reached
  <2>1. q \notin Reached
    BY <1>2 DEF Reached, Walked
  <2> QED
    BY <1>7, <2>1 DEF Create
<1>9. /\ Cardinality(visible \cap Reached) \in Nat
      /\ Cardinality(visible' \cap Reached') =
           IF above THEN Cardinality(visible \cap Reached) + 1
                    ELSE Cardinality(visible \cap Reached)
  <2>1. IsFiniteSet(visible \cap Reached) /\ q \notin visible \cap Reached
    BY <1>1, <1>2, Sizes, FS_Intersection
  <2> QED
    BY <1>8, <2>1, FS_AddElement, FS_CardinalityType
<1>10. TiesIn(Reached') \in Nat /\ TiesIn(Reached) <= TiesIn(Reached')
  <2>1. IsFiniteSet(Reached')
    <3>1. Reached' \subseteq Walked' /\ IsFiniteSet(Walked')
      BY <1>5 DEF Reached, SetsInv
    <3> QED
      BY <3>1, FS_Subset
  <2>2. Reached \subseteq Reached'
    BY <1>7
  <2> QED
    BY <2>1, <2>2, TiesMonotone
<1>11. Ties' \in Nat /\ Ties <= Ties'
  <2>1. Ties = TiesIn(Walked) /\ Ties' = TiesIn(Walked')
    BY DEF Ties, TiesIn, RanksOf, Walked
  <2> QED
    BY <1>4, <1>5, <2>1, TiesMonotone DEF SetsInv
<1>12. /\ TiesIn(Reached) \in Nat /\ Ties \in Nat
       /\ Cardinality(visible) \in Nat /\ Cardinality(came) \in Nat
       /\ Cardinality(gone) \in Nat /\ Cardinality(late) \in Nat
       /\ Cardinality(quiet) \in Nat
  BY <1>1, Sizes
<1>13. offset \in Nat /\ repeats \in Nat /\ total \in Nat
  BY <1>1 DEF TypeOK
<1>14. pc' = pc /\ offset' = offset /\ total' = total /\ shown' = shown /\ repeats' = repeats
       /\ quiet' = quiet /\ gone' = gone
  BY DEF Create, walk
<1> HIDE DEF above
<1>15. CountInv'
  <2> SUFFICES ASSUME pc = "select"
               PROVE  Cardinality(visible') <= total' + Cardinality(late')
    BY <1>14 DEF CountInv
  <2>1. Cardinality(visible) <= total + Cardinality(late)
    BY DEF IInv, CountInv
  <2>2. late' = late \cup {q} /\ q \notin late
    BY <1>1, <1>2 DEF Create, TypeOK
  <2>3. Cardinality(late') = Cardinality(late) + 1
    BY <1>1, <2>2, Sizes, FS_AddElement
  <2> QED
    BY <1>6, <1>12, <1>13, <1>14, <2>1, <2>3
<1>16. RepeatsInv'
  <2> DEFINE cause == Cardinality(came) + TiesIn(Reached)
             ahead == Cardinality(visible \cap Reached)
  <2> SUFFICES ASSUME Walking
               PROVE  /\ repeats <= Cardinality(came') + TiesIn(Reached')
                      /\ repeats + Cardinality(visible' \cap Reached') - offset
                           <= Cardinality(came') + TiesIn(Reached')
    BY <1>14 DEF RepeatsInv, Walking
  <2>1. repeats <= cause /\ repeats + ahead - offset <= cause
    BY DEF IInv, RepeatsInv
  <2>2. Cardinality(visible' \cap Reached') <= ahead + 1
        /\ Cardinality(visible' \cap Reached') \in Nat /\ ahead \in Nat
    BY <1>9
  <2>3. cause \in Nat /\ Cardinality(came') + TiesIn(Reached') \in Nat
        /\ cause + 1 <= Cardinality(came') + TiesIn(Reached')
    BY <1>6, <1>10, <1>12
  <2> HIDE DEF cause, ahead
  <2> QED
    BY <1>13, <2>1, <2>2, <2>3
<1>17. MissesInv'
  <2> DEFINE cause == Cardinality(gone) + TiesIn(Reached)
             ahead == Cardinality(visible \cap Reached)
             passed == Cardinality(Passed)
             below == Cardinality(quiet \ Reached)
  <2> SUFFICES ASSUME Walking
               PROVE  LET c == Cardinality(gone') + TiesIn(Reached')
                      IN  /\ Cardinality(Passed') <= c
                          /\ \/ Cardinality(Passed') + offset
                                  - Cardinality(visible' \cap Reached') <= c
                             \/ Cardinality(Passed') + Cardinality(quiet \ Reached') <= c
    BY <1>14 DEF MissesInv, Walking
  <2>1. passed <= cause /\ (passed + offset - ahead <= cause \/ passed + below <= cause)
    BY DEF IInv, MissesInv
  <2>2. Passed' = Passed /\ quiet \ Reached' = quiet \ Reached
    BY <1>2, <1>7, <1>14 DEF Passed
  <2>3. Cardinality(visible' \cap Reached') >= ahead
        /\ Cardinality(visible' \cap Reached') \in Nat /\ ahead \in Nat
    BY <1>9
  <2>4. cause \in Nat /\ Cardinality(gone') + TiesIn(Reached') \in Nat
        /\ cause <= Cardinality(gone') + TiesIn(Reached')
    BY <1>10, <1>12, <1>14
  <2>5. passed \in Nat /\ below \in Nat
    <3>1. IsFiniteSet(Passed) /\ IsFiniteSet(quiet \ Reached)
      BY <1>1, Sizes, FS_Subset DEF Passed
    <3> QED
      BY <3>1, FS_CardinalityType
  <2>6. Cardinality(Passed') = passed /\ Cardinality(quiet \ Reached') = below
    BY <2>2
  <2> HIDE DEF cause, ahead, passed, below
  <2> QED
    BY <1>13, <2>1, <2>3, <2>4, <2>5, <2>6
<1>18. RepeatsBounded'
  <2>1. repeats <= Cardinality(came) + Ties
    BY DEF IInv, RepeatsBounded
  <2> QED
    BY <1>6, <1>11, <1>12, <1>13, <1>14, <2>1 DEF RepeatsBounded
<1>19. MissesBounded'
  <2> SUFFICES ASSUME pc = "end"
               PROVE  Cardinality(quiet \ shown)
                        <= Cardinality(gone) + Cardinality(late') + Ties'
    BY <1>14 DEF MissesBounded
  <2>1. Cardinality(quiet \ shown) <= Cardinality(gone) + Cardinality(late) + Ties
    BY DEF IInv, MissesBounded
  <2>2. late' = late
    BY DEF Create
  <2>3. Cardinality(quiet \ shown) \in Nat
    BY <1>1, Sizes, FS_Difference, FS_CardinalityType
  <2> QED
    BY <1>11, <1>12, <2>1, <2>2, <2>3
<1> QED
  BY <1>3, <1>5, <1>15, <1>16, <1>17, <1>18, <1>19 DEF IInv

LEMMA DeleteStep ==
  ASSUME IInv, NEW q \in Quotes, Delete(q)
  PROVE  IInv'
<1>1. TypeOK /\ SetsInv
  BY DEF IInv
<1>2. q \in visible /\ q \notin gone
  BY <1>1 DEF Delete, SetsInv
<1>3. TypeOK'
  BY <1>1 DEF Delete, TypeOK, walk
<1>4. Walked' = Walked
  BY <1>1 DEF Delete, Walked, SetsInv
<1>5. SetsInv'
  BY <1>1, <1>4 DEF Delete, SetsInv, walk
<1>6. Reached' = Reached /\ Ties' = Ties
  <2>1. Ties = TiesIn(Walked) /\ Ties' = TiesIn(Walked')
    BY DEF Ties, TiesIn, RanksOf, Walked
  <2> QED
    BY <1>4, <2>1 DEF Delete, Reached, walk
<1>7. /\ Cardinality(gone') = Cardinality(gone) + 1
      /\ Cardinality(visible') = Cardinality(visible) - 1
  BY <1>1, <1>2, Sizes, FS_AddElement, FS_RemoveElement DEF Delete
<1>8. /\ Cardinality(visible \cap Reached) \in Nat
      /\ Cardinality(visible' \cap Reached') \in Nat
      /\ Cardinality(visible' \cap Reached') <= Cardinality(visible \cap Reached)
      /\ Cardinality(visible' \cap Reached') >= Cardinality(visible \cap Reached) - 1
  <2>1. visible' \cap Reached' = (visible \cap Reached) \ {q}
    BY <1>6 DEF Delete
  <2>2. IsFiniteSet(visible \cap Reached)
    BY <1>1, Sizes, FS_Intersection
  <2> DEFINE ahead == visible \cap Reached
  <2>3. /\ Cardinality(ahead) \in Nat /\ Cardinality(ahead \ {q}) \in Nat
        /\ Cardinality(ahead \ {q}) =
             IF q \in ahead THEN Cardinality(ahead) - 1 ELSE Cardinality(ahead)
    <3> HIDE DEF ahead
    <3>1. IsFiniteSet(ahead)
      BY <2>2 DEF ahead
    <3> QED
      BY <3>1, FS_RemoveElement, FS_CardinalityType
  <2>4. visible' \cap Reached' = ahead \ {q}
    BY <2>1
  <2> HIDE DEF ahead
  <2>5. /\ Cardinality(ahead \ {q}) <= Cardinality(ahead)
        /\ Cardinality(ahead \ {q}) >= Cardinality(ahead) - 1
    BY <2>3
  <2> QED
    BY <2>3, <2>4, <2>5 DEF ahead
<1>9. /\ IsFiniteSet(Passed) /\ IsFiniteSet(quiet \ Reached) /\ IsFiniteSet(quiet \ shown)
      /\ Cardinality(Passed) \in Nat /\ Cardinality(quiet \ Reached) \in Nat
      /\ Cardinality(quiet \ shown) \in Nat
  <2>1. IsFiniteSet(Passed) /\ IsFiniteSet(quiet \ Reached) /\ IsFiniteSet(quiet \ shown)
    BY <1>1, Sizes, FS_Subset DEF Passed
  <2> QED
    BY <2>1, FS_CardinalityType
<1>10. /\ Cardinality(Passed') \in Nat /\ Cardinality(Passed') <= Cardinality(Passed)
       /\ Cardinality(quiet' \ Reached') \in Nat
       /\ Cardinality(quiet' \ Reached') <= Cardinality(quiet \ Reached)
       /\ Cardinality(quiet' \ shown') \in Nat
       /\ Cardinality(quiet' \ shown') <= Cardinality(quiet \ shown)
  <2>1. /\ Passed' \subseteq Passed /\ quiet' \ Reached' \subseteq quiet \ Reached
        /\ quiet' \ shown' \subseteq quiet \ shown
    BY <1>6 DEF Delete, Passed, walk
  <2> QED
    BY <1>9, <2>1, FS_Subset, FS_CardinalityType
<1>11. /\ TiesIn(Reached) \in Nat /\ Ties \in Nat
       /\ Cardinality(visible) \in Nat /\ Cardinality(came) \in Nat
       /\ Cardinality(gone) \in Nat /\ Cardinality(late) \in Nat
  BY <1>1, Sizes
<1>12. offset \in Nat /\ repeats \in Nat /\ total \in Nat
  BY <1>1 DEF TypeOK
<1>13. pc' = pc /\ offset' = offset /\ total' = total /\ repeats' = repeats
       /\ came' = came /\ late' = late /\ TiesIn(Reached') = TiesIn(Reached)
  BY <1>6 DEF Delete, walk
<1>14. CountInv'
  BY <1>7, <1>11, <1>12, <1>13 DEF IInv, CountInv
<1>15. RepeatsInv'
  <2> DEFINE cause == Cardinality(came) + TiesIn(Reached)
             ahead == Cardinality(visible \cap Reached)
             left == Cardinality(visible' \cap Reached')
  <2> SUFFICES ASSUME Walking
               PROVE  repeats <= cause /\ repeats + left - offset <= cause
    BY <1>13 DEF RepeatsInv, Walking
  <2>1. repeats <= cause /\ repeats + ahead - offset <= cause
    BY DEF IInv, RepeatsInv
  <2>2. cause \in Nat /\ ahead \in Nat /\ left \in Nat /\ left <= ahead
    BY <1>8, <1>11
  <2> HIDE DEF cause, ahead, left
  <2> QED
    BY <1>12, <2>1, <2>2
<1>16. MissesInv'
  <2> DEFINE cause == Cardinality(gone) + TiesIn(Reached)
             ahead == Cardinality(visible \cap Reached)
             left == Cardinality(visible' \cap Reached')
             passed == Cardinality(Passed)
             below == Cardinality(quiet \ Reached)
             passedThen == Cardinality(Passed')
             belowThen == Cardinality(quiet' \ Reached')
  <2> SUFFICES ASSUME Walking
               PROVE  /\ passedThen <= cause + 1
                      /\ \/ passedThen + offset - left <= cause + 1
                         \/ passedThen + belowThen <= cause + 1
    <3>1. Cardinality(gone') + TiesIn(Reached') = cause + 1
      BY <1>7, <1>11, <1>13
    <3> QED
      BY <1>13, <3>1 DEF MissesInv, Walking
  <2>1. passed <= cause /\ (passed + offset - ahead <= cause \/ passed + below <= cause)
    BY DEF IInv, MissesInv
  <2>2. /\ cause \in Nat /\ ahead \in Nat /\ left \in Nat /\ left >= ahead - 1
        /\ passed \in Nat /\ below \in Nat /\ passedThen \in Nat /\ belowThen \in Nat
        /\ passedThen <= passed /\ belowThen <= below
    BY <1>8, <1>9, <1>10, <1>11
  <2> HIDE DEF cause, ahead, left, passed, below, passedThen, belowThen
  <2> QED
    BY <1>12, <2>1, <2>2
<1>17. RepeatsBounded'
  BY <1>6, <1>13 DEF IInv, RepeatsBounded
<1>18. MissesBounded'
  <2> SUFFICES ASSUME pc = "end"
               PROVE  Cardinality(quiet' \ shown')
                        <= Cardinality(gone') + Cardinality(late) + Ties
    BY <1>6, <1>13 DEF MissesBounded
  <2>1. Cardinality(quiet \ shown) <= Cardinality(gone) + Cardinality(late) + Ties
    BY DEF IInv, MissesBounded
  <2> QED
    BY <1>7, <1>9, <1>10, <1>11, <2>1
<1> QED
  BY <1>3, <1>5, <1>14, <1>15, <1>16, <1>17, <1>18 DEF IInv

-----------------------------------------------------------------------------
(* The walk.                                                               *)

LEMMA StartWalkStep ==
  ASSUME IInv, StartWalk
  PROVE  IInv'
<1>1. TypeOK /\ SetsInv
  BY DEF IInv
<1>2. TypeOK'
  BY <1>1 DEF StartWalk, TypeOK
<1>3. Walked' = visible /\ Reached' = {} /\ Passed' = {}
  BY DEF StartWalk, Walked, Reached, Passed
<1>4. SetsInv'
  BY <1>1, <1>3, Sizes DEF StartWalk, SetsInv
<1>5. IsFiniteSet({}) /\ Cardinality({}) = 0
  BY FS_EmptySet
<1>6. TiesIn({}) \in Nat /\ Ties' \in Nat
  <2>1. Ties' = TiesIn(Walked')
    BY DEF Ties, TiesIn, RanksOf, Walked
  <2> QED
    BY <1>1, <1>3, <1>5, <2>1, Sizes, TiesMonotone
<1>7. CountInv' /\ MissesBounded'
  BY DEF StartWalk, CountInv, MissesBounded
<1>8. RepeatsInv' /\ RepeatsBounded'
  <2>1. visible' \cap Reached' = {}
    BY <1>3
  <2>2. repeats' = 0 /\ offset' = 0 /\ came' = {}
    BY DEF StartWalk
  <2> QED
    BY <1>3, <1>5, <1>6, <2>1, <2>2 DEF RepeatsInv, RepeatsBounded
<1>9. MissesInv'
  <2>1. visible' \cap Reached' = {}
    BY <1>3
  <2>2. offset' = 0 /\ gone' = {}
    BY DEF StartWalk
  <2> QED
    BY <1>3, <1>5, <1>6, <2>1, <2>2 DEF MissesInv
<1> QED
  BY <1>2, <1>4, <1>7, <1>8, <1>9 DEF IInv

LEMMA CountRowsStep ==
  ASSUME IInv, CountRows
  PROVE  IInv'
<1>1. TypeOK /\ SetsInv
  BY DEF IInv
<1>2. TypeOK'
  BY <1>1, Sizes DEF CountRows, TypeOK
<1>3. /\ Walked' = Walked /\ Reached' = Reached /\ Passed' = Passed /\ Ties' = Ties
      /\ visible' = visible /\ offset' = offset /\ repeats' = repeats
      /\ quiet' = quiet /\ came' = came /\ gone' = gone
  BY DEF CountRows, Walked, Reached, Passed, Ties
<1>4. SetsInv'
  BY <1>1, <1>3 DEF CountRows, SetsInv
<1>5. CountInv'
  BY <1>1, Sizes, FS_EmptySet DEF CountRows, CountInv
<1>6. RepeatsInv' /\ MissesInv'
  <2>1. Walking
    BY DEF CountRows, Walking
  <2> QED
    BY <1>3, <2>1 DEF IInv, RepeatsInv, MissesInv
<1>7. RepeatsBounded' /\ MissesBounded'
  BY <1>3 DEF IInv, CountRows, RepeatsBounded, MissesBounded
<1> QED
  BY <1>2, <1>4, <1>5, <1>6, <1>7 DEF IInv

LEMMA EndWalkStep ==
  ASSUME IInv, EndWalk
  PROVE  IInv'
<1>1. TypeOK /\ SetsInv
  BY DEF IInv
<1>2. TypeOK'
  BY <1>1 DEF EndWalk, TypeOK
<1>3. Walked' = Walked /\ Ties' = Ties
  BY DEF EndWalk, Walked, Ties
<1>4. SetsInv'
  BY <1>1, <1>3 DEF EndWalk, SetsInv
<1>5. CountInv' /\ RepeatsInv' /\ MissesInv' /\ MissesBounded'
  BY DEF EndWalk, CountInv, RepeatsInv, MissesInv, MissesBounded, Walking
<1>6. RepeatsBounded'
  BY <1>3 DEF IInv, EndWalk, RepeatsBounded
<1> QED
  BY <1>2, <1>4, <1>5, <1>6 DEF IInv

(* ---- A page ----------------------------------------------------------- *)

(* The sizes of what comes before a page, and of the page.                 *)
LEMMA PageSizes ==
  ASSUME IInv,
         NEW before, IsFirst(before, visible, offset),
         NEW page, IsFirst(page, visible \ before, Limit)
  PROVE  /\ before \subseteq visible /\ page \subseteq visible /\ page \cap before = {}
         /\ IsFiniteSet(before) /\ IsFiniteSet(page)
         /\ Cardinality(before) \in Nat /\ Cardinality(page) \in Nat
         /\ Cardinality(before) <= offset /\ Cardinality(page) <= Limit
         /\ page # {} => Cardinality(before) = offset
         /\ before # visible => Cardinality(before) = offset
         /\ Cardinality(page) = Limit \/ visible = before \cup page
         /\ Limit \in Nat /\ Limit > 0 /\ offset \in Nat
<1>1. IsFiniteSet(visible) /\ offset \in Nat
  BY Sizes DEF IInv, TypeOK
<1>2. Limit \in Nat /\ Limit > 0
  BY LimitAssumption
<1>3. /\ before \subseteq visible /\ IsFiniteSet(before) /\ Cardinality(before) \in Nat
      /\ Cardinality(before) <= offset
      /\ Cardinality(before) = offset \/ before = visible
      /\ IsFiniteSet(visible \ before)
  BY <1>1, FirstSize
<1>4. /\ page \subseteq visible \ before /\ IsFiniteSet(page) /\ Cardinality(page) \in Nat
      /\ Cardinality(page) <= Limit
      /\ Cardinality(page) = Limit \/ page = visible \ before
  BY <1>2, <1>3, FirstSize
<1> QED
  BY <1>1, <1>2, <1>3, <1>4

(* Either the page stays where the client has been, or it takes what is    *)
(* left there and goes on.  Then it reaches, beside what comes before it   *)
(* and itself, only quotes that tie with its last place.                   *)
StaysOrGoesOn(before, page, reached) ==
  LET here == visible \cap Reached
  IN  /\ before \subseteq here \/ here \subseteq before
      /\ \/ reached = Reached /\ page \subseteq here
         \/ /\ page # {} /\ here \subseteq before \cup page
            /\ \E tied \in SUBSET visible :
                 /\ visible \cap reached = (before \cup page) \cup tied
                 /\ tied \cap (before \cup page) = {}
                 /\ IsFiniteSet(tied) /\ Cardinality(tied) \in Nat
                 /\ TiesIn(reached) \in Nat
                 /\ TiesIn(Reached) + Cardinality(tied) <= TiesIn(reached)

LEMMA PageReaches ==
  ASSUME IInv,
         NEW before, IsFirst(before, visible, offset),
         NEW page, IsFirst(page, visible \ before, Limit),
         NEW reached,
         \A q : q \in reached <=>
                  q \in Walked /\ \E s \in shown \cup page : q.rank >= s.rank
  PROVE  StaysOrGoesOn(before, page, reached)
<1> DEFINE here == visible \cap Reached
<1>1. TypeOK /\ SetsInv
  BY DEF IInv
<1>2. before \subseteq visible /\ page \subseteq visible /\ page \cap before = {}
  BY PageSizes
<1>3. \A q \in Walked : q.rank \in Nat
  BY <1>1, Sizes, RanksAssumption DEF Quotes
<1>4. visible \subseteq Walked /\ shown \subseteq Walked
  BY <1>1 DEF SetsInv, Walked
<1>5. \A x \in visible, y \in Reached : x.rank >= y.rank => x \in Reached
  BY <1>3, <1>4 DEF Reached
<1>6. before \subseteq here \/ here \subseteq before
  <2>1. \A x \in before, y \in visible \ before : x.rank >= y.rank
    BY DEF IsFirst
  <2> QED
    BY <1>2, <1>5, <2>1
<1>7. page \subseteq here \/ here \ before \subseteq page
  <2>1. \A x \in page, y \in (visible \ before) \ page : x.rank >= y.rank
    BY DEF IsFirst
  <2> QED
    BY <1>2, <1>5, <2>1
<1>8. CASE page \subseteq here
  <2>1. \A q \in Walked : (\E s \in page : q.rank >= s.rank) => q \in Reached
    BY <1>2, <1>3, <1>4, <1>8 DEF Reached
  <2>2. reached = Reached
    BY <2>1 DEF Reached
  <2> QED
    BY <1>6, <1>8, <2>2 DEF StaysOrGoesOn
<1>9. CASE ~ (page \subseteq here)
  <2>1. page # {} /\ here \subseteq before \cup page
    BY <1>7, <1>9
  <2> DEFINE tied == (visible \cap reached) \ (before \cup page)
  <2>2. before \cup page \subseteq visible \cap reached
    <3>1. page \subseteq reached
      BY <1>2, <1>3, <1>4
    <3>2. before \subseteq reached
      <4>1. PICK p \in page : TRUE
        BY <2>1
      <4>2. \A x \in before : x.rank >= p.rank
        BY <1>2, <4>1 DEF IsFirst
      <4> QED
        BY <1>2, <1>4, <4>1, <4>2
    <3> QED
      BY <1>2, <3>1, <3>2
  <2>3. visible \cap reached = (before \cup page) \cup tied
    BY <2>2
  <2>4. tied \cap Reached = {}
    BY <2>1
  <2>5. ASSUME NEW x \in tied
        PROVE  \E s \in page : s \notin Reached /\ s.rank = x.rank
    <3>1. x \in Walked /\ x \notin Reached
      BY <1>4, <2>4
    <3>2. PICK s \in page : x.rank >= s.rank
      BY <3>1 DEF Reached
    <3>3. s.rank >= x.rank
      BY <3>2 DEF IsFirst
    <3>4. s \in Walked /\ s.rank = x.rank
      BY <1>2, <1>3, <1>4, <3>1, <3>2, <3>3
    <3>5. s \notin Reached
      BY <1>3, <1>4, <3>1, <3>4 DEF Reached
    <3> QED
      BY <3>4, <3>5
  <2>6. /\ IsFiniteSet(reached) /\ Reached \subseteq reached
        /\ tied \subseteq reached \ Reached /\ IsFiniteSet(tied)
    <3>1. reached \subseteq Walked /\ IsFiniteSet(Walked)
      BY <1>1 DEF SetsInv
    <3>2. Reached \subseteq reached
      BY DEF Reached
    <3>3. tied \subseteq reached \ Reached
      BY <2>4
    <3>4. IsFiniteSet(reached)
      BY <3>1, FS_Subset
    <3>5. IsFiniteSet(tied)
      BY <3>3, <3>4, FS_Subset
    <3> QED
      BY <3>2, <3>3, <3>4, <3>5
  <2>7. \A x \in tied : \E s \in reached \ tied : s.rank = x.rank
    BY <2>2, <2>5
  <2>8. tied \in SUBSET visible /\ tied \cap (before \cup page) = {}
    OBVIOUS
  <2> HIDE DEF tied
  <2>9. /\ TiesIn(reached) \in Nat /\ Cardinality(tied) \in Nat
        /\ TiesIn(Reached) + Cardinality(tied) <= TiesIn(reached)
    BY <2>6, <2>7, TiesGrow
  <2> QED
    BY <1>6, <2>1, <2>3, <2>6, <2>8, <2>9 DEF StaysOrGoesOn
<1> QED
  BY <1>8, <1>9

(* The quotes that are left in a finite set without some of them.          *)
LEMMA Left ==
  ASSUME NEW all, IsFiniteSet(all), NEW some \in SUBSET all
  PROVE  /\ IsFiniteSet(some) /\ IsFiniteSet(all \ some)
         /\ Cardinality(all) \in Nat /\ Cardinality(some) \in Nat
         /\ Cardinality(all \ some) \in Nat
         /\ Cardinality(all \ some) = Cardinality(all) - Cardinality(some)
         /\ Cardinality(some) <= Cardinality(all)
<1>1. IsFiniteSet(some) /\ IsFiniteSet(all \ some) /\ Cardinality(some) <= Cardinality(all)
  BY FS_Subset
<1>2. all \cap some = some
  OBVIOUS
<1>3. Cardinality(all \ some) = Cardinality(all) - Cardinality(some)
  BY <1>2, FS_Difference
<1> QED
  BY <1>1, <1>3, FS_CardinalityType

(* Two sets that have nothing in common.                                   *)
LEMMA Disjoint ==
  ASSUME NEW a, NEW b, IsFiniteSet(a), IsFiniteSet(b), a \cap b = {}
  PROVE  /\ IsFiniteSet(a \cup b)
         /\ Cardinality(a \cup b) = Cardinality(a) + Cardinality(b)
<1>1. /\ IsFiniteSet(a \cup b)
      /\ Cardinality(a \cup b) = Cardinality(a) + Cardinality(b) - Cardinality(a \cap b)
  BY FS_Union
<1>2. /\ Cardinality(a \cap b) = 0
      /\ Cardinality(a) \in Nat /\ Cardinality(b) \in Nat
  BY FS_EmptySet, FS_CardinalityType
<1> QED
  BY <1>1, <1>2

(* A set that three others cover.                                          *)
LEMMA ThreeParts ==
  ASSUME NEW a, NEW b, NEW c, IsFiniteSet(a), IsFiniteSet(b), IsFiniteSet(c),
         NEW all, all \subseteq (a \cup b) \cup c
  PROVE  /\ IsFiniteSet(all) /\ Cardinality(all) \in Nat
         /\ Cardinality(all) <= Cardinality(a) + Cardinality(b) + Cardinality(c)
<1>1. /\ IsFiniteSet(a \cup b) /\ Cardinality(a \cap b) \in Nat
      /\ Cardinality(a \cup b)
           = Cardinality(a) + Cardinality(b) - Cardinality(a \cap b)
  BY FS_Union, FS_Intersection, FS_CardinalityType
<1>2. /\ IsFiniteSet((a \cup b) \cup c) /\ Cardinality((a \cup b) \cap c) \in Nat
      /\ Cardinality((a \cup b) \cup c)
           = Cardinality(a \cup b) + Cardinality(c) - Cardinality((a \cup b) \cap c)
  BY <1>1, FS_Union, FS_Intersection, FS_CardinalityType
<1>3. /\ IsFiniteSet(all) /\ Cardinality(all) \in Nat
      /\ Cardinality(all) <= Cardinality((a \cup b) \cup c)
  BY <1>2, Left
<1>4. /\ Cardinality(a) \in Nat /\ Cardinality(b) \in Nat /\ Cardinality(c) \in Nat
      /\ Cardinality(a \cup b) \in Nat /\ Cardinality((a \cup b) \cup c) \in Nat
  BY <1>1, <1>2, FS_CardinalityType
<1> QED
  BY <1>1, <1>2, <1>3, <1>4

(* The sizes of what the client has reached and passed over.               *)
LEMMA WalkSizes ==
  ASSUME IInv
  PROVE  LET here == visible \cap Reached
         IN  /\ IsFiniteSet(here) /\ Cardinality(here) \in Nat
             /\ IsFiniteSet(Passed) /\ Cardinality(Passed) \in Nat
             /\ IsFiniteSet(quiet \ Reached) /\ Cardinality(quiet \ Reached) \in Nat
             /\ quiet \subseteq visible /\ shown \cap visible \subseteq here
<1>1. TypeOK /\ SetsInv
  BY DEF IInv
<1>2. /\ IsFiniteSet(visible \cap Reached) /\ IsFiniteSet(Passed)
      /\ IsFiniteSet(quiet \ Reached)
  BY <1>1, Sizes, FS_Subset DEF Passed
<1>3. shown \cap visible \subseteq visible \cap Reached
  <2>1. \A s \in shown : s \in Walked /\ s.rank >= s.rank
    <3>1. shown \subseteq Walked /\ Walked \subseteq Quotes
      BY <1>1, Sizes DEF SetsInv
    <3>2. \A s \in Quotes : s.rank \in Nat
      BY RanksAssumption DEF Quotes
    <3> QED
      BY <3>1, <3>2
  <2> QED
    BY <2>1 DEF Reached
<1> QED
  BY <1>1, <1>2, <1>3, FS_CardinalityType DEF TypeOK

(* A page repeats only what the offset has not left behind.                *)
LEMMA PageRepeats ==
  ASSUME IInv, pc = "select",
         NEW before, IsFirst(before, visible, offset),
         NEW page, IsFirst(page, visible \ before, Limit)
  PROVE  /\ Cardinality(page \cap shown) \in Nat
         /\ Cardinality(page \cap shown) <= Cardinality(page)
         /\ repeats + Cardinality(page \cap shown)
              <= Cardinality(came) + TiesIn(Reached)
<1> DEFINE here == visible \cap Reached
           again == page \cap shown
           cause == Cardinality(came) + TiesIn(Reached)
<1>1. /\ repeats <= cause /\ repeats + Cardinality(here) - offset <= cause
      /\ cause \in Nat /\ repeats \in Nat /\ offset \in Nat
  BY Sizes DEF IInv, RepeatsInv, Walking, TypeOK
<1>2. /\ Cardinality(again) \in Nat /\ Cardinality(again) <= Cardinality(page)
  <2>1. IsFiniteSet(page) /\ again \in SUBSET page
    BY PageSizes
  <2> HIDE DEF again
  <2> QED
    BY <2>1, Left
<1>3. again \subseteq here \ before
  BY WalkSizes, PageSizes
<1>4. CASE again = {}
  BY <1>1, <1>2, <1>4, FS_EmptySet
<1>5. CASE again # {}
  <2>1. /\ Cardinality(before) = offset /\ before \subseteq visible
        /\ \A x \in before, y \in visible \ before : x.rank >= y.rank
    <3>1. page # {}
      BY <1>5
    <3> QED
      BY <3>1, PageSizes DEF IsFirst
  <2>2. PICK y \in here \ before : TRUE
    BY <1>3, <1>5
  <2>3. before \subseteq here
    <3>1. \A q \in Walked : q.rank \in Nat
      BY Sizes, RanksAssumption DEF IInv, Quotes
    <3>2. visible \subseteq Walked /\ shown \subseteq Walked
      BY DEF IInv, SetsInv, Walked
    <3>3. \A x \in visible : x.rank >= y.rank => x \in Reached
      BY <2>2, <3>1, <3>2 DEF Reached
    <3> QED
      BY <2>1, <2>2, <3>3
  <2>4. /\ IsFiniteSet(here \ before)
        /\ Cardinality(here \ before) = Cardinality(here) - offset
    <3>1. IsFiniteSet(here)
      BY WalkSizes
    <3> HIDE DEF here
    <3> QED
      BY <2>1, <2>3, <3>1, Left
  <2>5. Cardinality(again) <= Cardinality(here) - offset
    BY <1>3, <2>4, FS_Subset
  <2>6. Cardinality(here) \in Nat
    BY WalkSizes
  <2> HIDE DEF here, again, cause
  <2>7. repeats + Cardinality(again) <= cause
    BY <1>1, <1>2, <2>5, <2>6
  <2> QED
    BY <1>2, <2>7 DEF again, cause
<1> QED
  BY <1>4, <1>5

(* What a page, and what comes before it, leave out for good.              *)
LEMMA PageSkips ==
  ASSUME IInv, pc = "select",
         NEW before, IsFirst(before, visible, offset),
         before \subseteq visible \cap Reached \/ visible \cap Reached \subseteq before
  PROVE  LET skipped == (quiet \cap before) \ Reached
         IN  /\ IsFiniteSet(skipped) /\ Cardinality(skipped) \in Nat
             /\ Cardinality(Passed) + Cardinality(skipped)
                  <= Cardinality(gone) + TiesIn(Reached)
<1> DEFINE here == visible \cap Reached
           skipped == (quiet \cap before) \ Reached
           cause == Cardinality(gone) + TiesIn(Reached)
<1>1. /\ Cardinality(Passed) <= cause
      /\ \/ Cardinality(Passed) + offset - Cardinality(here) <= cause
         \/ Cardinality(Passed) + Cardinality(quiet \ Reached) <= cause
      /\ cause \in Nat /\ offset \in Nat
  <2>1. Walking /\ MissesInv
    BY DEF IInv, Walking
  <2>2. cause \in Nat /\ offset \in Nat
    BY Sizes DEF IInv, TypeOK
  <2> QED
    BY <2>1, <2>2 DEF MissesInv
<1>2. /\ IsFiniteSet(here) /\ Cardinality(here) \in Nat /\ Cardinality(Passed) \in Nat
      /\ IsFiniteSet(quiet \ Reached) /\ Cardinality(quiet \ Reached) \in Nat
      /\ quiet \subseteq visible
  BY WalkSizes
<1>3. /\ IsFiniteSet(before) /\ Cardinality(before) \in Nat /\ Cardinality(before) <= offset
  BY Sizes, FirstSize DEF IInv, TypeOK
<1>4. /\ IsFiniteSet(skipped) /\ Cardinality(skipped) \in Nat
      /\ Cardinality(skipped) <= Cardinality(quiet \ Reached)
  <2>1. skipped \in SUBSET (quiet \ Reached)
    OBVIOUS
  <2> HIDE DEF skipped
  <2> QED
    BY <1>2, <2>1, Left
<1>5. CASE before \subseteq here
  <2>1. skipped = {}
    BY <1>5
  <2>2. Cardinality(skipped) = 0
    BY <2>1, FS_EmptySet
  <2> HIDE DEF skipped, cause
  <2>3. Cardinality(Passed) + Cardinality(skipped) <= cause
    BY <1>1, <1>2, <2>2
  <2> QED
    BY <1>4, <2>3 DEF skipped, cause
<1>6. CASE here \subseteq before
  <2>1. /\ IsFiniteSet(before \ here)
        /\ Cardinality(before \ here) = Cardinality(before) - Cardinality(here)
    BY <1>3, <1>6, Left
  <2>2. skipped \subseteq before \ here
    BY <1>2
  <2>3. Cardinality(skipped) <= offset - Cardinality(here)
    <3> HIDE DEF skipped, here
    <3>1. Cardinality(skipped) <= Cardinality(before \ here)
      BY <2>1, <2>2, Left
    <3> QED
      BY <1>1, <1>2, <1>3, <1>4, <2>1, <3>1
  <2> HIDE DEF skipped, cause, here
  <2>4. Cardinality(Passed) + Cardinality(skipped) <= cause
    BY <1>1, <1>2, <1>4, <2>3
  <2> QED
    BY <1>4, <2>4 DEF skipped, cause
<1> QED
  BY <1>5, <1>6

(* What the next page finds, in numbers: where the client has been, tied   *)
(* quotes, and what is left.                                               *)
LEMMA SelectPageStep ==
  ASSUME IInv, SelectPage
  PROVE  IInv'
<1>1. TypeOK /\ SetsInv /\ pc = "select" /\ Walking
  BY DEF IInv, SelectPage, Walking
<1>2. PICK page \in Pages :
        /\ repeats' = repeats + Cardinality(page \cap shown)
        /\ shown' = shown \cup page
  BY DEF SelectPage
<1>3. PICK before \in SUBSET visible :
        /\ IsFirst(before, visible, offset)
        /\ IsFirst(page, visible \ before, Limit)
  BY <1>2 DEF Pages
<1> DEFINE here == visible \cap Reached
           skipped == (quiet \cap before) \ Reached
<1>4. /\ visible' = visible /\ total' = total /\ quiet' = quiet
      /\ came' = came /\ gone' = gone /\ late' = late
      /\ Walked' = Walked /\ Ties' = Ties
  BY DEF SelectPage, Walked, Ties
<1>5. /\ page \subseteq visible /\ page \cap before = {}
      /\ IsFiniteSet(before) /\ IsFiniteSet(page)
      /\ Cardinality(before) \in Nat /\ Cardinality(page) \in Nat
      /\ Cardinality(before) <= offset /\ Cardinality(page) <= Limit
      /\ page # {} => Cardinality(before) = offset
      /\ before # visible => Cardinality(before) = offset
      /\ Cardinality(page) = Limit \/ visible = before \cup page
      /\ Limit \in Nat /\ Limit > 0 /\ offset \in Nat
  BY <1>3, PageSizes
<1>6. /\ Cardinality(page \cap shown) \in Nat
      /\ Cardinality(page \cap shown) <= Cardinality(page)
      /\ repeats' \in Nat
      /\ repeats' <= Cardinality(came) + TiesIn(Reached)
  <2>1. repeats \in Nat
    BY <1>1 DEF TypeOK
  <2>2. /\ Cardinality(page \cap shown) \in Nat
        /\ Cardinality(page \cap shown) <= Cardinality(page)
        /\ repeats + Cardinality(page \cap shown) <= Cardinality(came) + TiesIn(Reached)
    BY <1>1, <1>3, PageRepeats
  <2> QED
    BY <1>2, <2>1, <2>2
<1>7. /\ before \subseteq here \/ here \subseteq before
      /\ \/ Reached' = Reached /\ page \subseteq here
         \/ /\ page # {} /\ here \subseteq before \cup page
            /\ \E tied \in SUBSET visible :
                 /\ visible \cap Reached' = (before \cup page) \cup tied
                 /\ tied \cap (before \cup page) = {}
                 /\ IsFiniteSet(tied) /\ Cardinality(tied) \in Nat
                 /\ TiesIn(Reached') \in Nat
                 /\ TiesIn(Reached) + Cardinality(tied) <= TiesIn(Reached')
  <2>1. Reached' = {q \in Walked : \E s \in shown \cup page : q.rank >= s.rank}
    BY <1>2, <1>4 DEF Reached
  <2> DEFINE reached == Reached'
  <2>2. \A q : q \in reached <=>
                 q \in Walked /\ \E s \in shown \cup page : q.rank >= s.rank
    BY <2>1
  <2> HIDE DEF reached
  <2>3. StaysOrGoesOn(before, page, reached)
    BY <1>3, <2>2, PageReaches
  <2> QED
    BY <2>3 DEF reached, StaysOrGoesOn
<1>8. /\ IsFiniteSet(skipped) /\ Cardinality(skipped) \in Nat
      /\ Cardinality(Passed) + Cardinality(skipped)
           <= Cardinality(gone) + TiesIn(Reached)
  BY <1>1, <1>3, <1>7, PageSkips
<1>9. /\ IsFiniteSet(here) /\ Cardinality(here) \in Nat
      /\ IsFiniteSet(Passed) /\ Cardinality(Passed) \in Nat
      /\ IsFiniteSet(quiet \ Reached) /\ Cardinality(quiet \ Reached) \in Nat
      /\ quiet \subseteq visible /\ shown \cap visible \subseteq here
  BY WalkSizes
<1>10. /\ Cardinality(visible) \in Nat /\ Cardinality(came) \in Nat
       /\ Cardinality(gone) \in Nat /\ Cardinality(late) \in Nat
       /\ IsFiniteSet(visible) /\ IsFiniteSet(quiet)
       /\ TiesIn(Reached) \in Nat /\ Ties \in Nat /\ TiesIn(Reached) <= Ties
  BY <1>1, Sizes
<1>11. TypeOK'
  <2>1. offset' \in Nat
    BY <1>1, <1>5 DEF SelectPage, TypeOK
  <2>2. shown' \subseteq Quotes
    BY <1>1, <1>2, <1>5 DEF TypeOK
  <2>3. pc' \in {"count", "end"}
    BY DEF SelectPage
  <2> QED
    BY <1>1, <1>4, <1>6, <2>1, <2>2, <2>3 DEF TypeOK
<1>12. SetsInv'
  <2>1. visible \subseteq Walked
    BY <1>1 DEF SetsInv, Walked
  <2> QED
    BY <1>1, <1>2, <1>4, <1>5, <2>1 DEF SetsInv
<1>13. CountInv'
  BY DEF SelectPage, CountInv
<1>14. RepeatsBounded'
  BY <1>4, <1>6, <1>10 DEF RepeatsBounded
<1>15. IsFiniteSet(quiet' \ shown') /\ IsFiniteSet(Passed')
  BY <1>4, <1>10, FS_Subset DEF Passed
<1>16. CASE Last
  <2>1. pc' = "end" /\ offset' = offset
    BY <1>16 DEF SelectPage
  <2>2. RepeatsInv' /\ MissesInv'
    BY <2>1 DEF RepeatsInv, MissesInv, Walking
  <2> DEFINE beyond == (visible \ before) \ page
             missed == quiet \ (shown \cup page)
  <2>3. /\ IsFiniteSet(beyond) /\ Cardinality(beyond) \in Nat
        /\ Cardinality(beyond)
             = Cardinality(visible) - Cardinality(before) - Cardinality(page)
    <3>1. /\ IsFiniteSet(visible \ before) /\ Cardinality(visible \ before) \in Nat
          /\ Cardinality(visible \ before) = Cardinality(visible) - Cardinality(before)
      BY <1>3, <1>10, Left
    <3>2. page \in SUBSET (visible \ before)
      BY <1>5
    <3>3. /\ IsFiniteSet(beyond) /\ Cardinality(beyond) \in Nat
          /\ Cardinality(beyond) = Cardinality(visible \ before) - Cardinality(page)
      BY <3>1, <3>2, Left
    <3> QED
      BY <3>1, <3>3
  <2>4. Cardinality(beyond) <= Cardinality(late)
    <3>1. CASE beyond = {}
      <4>1. Cardinality(beyond) = 0
        BY <3>1, FS_EmptySet
      <4> QED
        BY <1>10, <4>1
    <3>2. CASE beyond # {}
      <4>1. Cardinality(page) = Limit /\ Cardinality(before) = offset
        BY <1>5, <3>2
      <4>2. offset + Limit >= total /\ Cardinality(visible) <= total + Cardinality(late)
            /\ total \in Nat
        BY <1>1, <1>16 DEF Last, IInv, CountInv, TypeOK
      <4> HIDE DEF beyond
      <4> QED
        BY <1>5, <1>10, <2>3, <4>1, <4>2
    <3> QED
      BY <3>1, <3>2
  <2>5. missed \subseteq (Passed \cup skipped) \cup beyond
    BY <1>9 DEF Passed
  <2>6. Cardinality(missed)
          <= Cardinality(Passed) + Cardinality(skipped) + Cardinality(beyond)
    BY <1>8, <1>9, <2>3, <2>5, ThreeParts
  <2>7. IsFiniteSet(missed) /\ Cardinality(missed) \in Nat
    BY <1>10, FS_Subset, FS_CardinalityType
  <2>8. Cardinality(missed) <= Cardinality(gone) + Cardinality(late) + Ties
    <3> HIDE DEF missed, beyond, skipped
    <3> QED
      BY <1>8, <1>9, <1>10, <2>3, <2>4, <2>6, <2>7
  <2>9. MissesBounded'
    BY <1>2, <1>4, <2>8 DEF MissesBounded
  <2> QED
    BY <1>11, <1>12, <1>13, <1>14, <2>2, <2>9 DEF IInv
<1>17. CASE ~ Last
  <2>1. pc' = "count" /\ offset' = offset + Limit /\ Walking'
    BY <1>17 DEF SelectPage, Walking
  <2>2. MissesBounded'
    BY <2>1 DEF MissesBounded
  <2>3. CASE Reached' = Reached /\ page \subseteq here
    <3> DEFINE causeR == Cardinality(came) + TiesIn(Reached)
               causeM == Cardinality(gone) + TiesIn(Reached)
               ahead == Cardinality(here)
               passed == Cardinality(Passed)
               passedThen == Cardinality(Passed')
               below == Cardinality(quiet \ Reached)
               more == Cardinality(page \cap shown)
    <3>1. /\ repeats <= causeR /\ repeats + ahead - offset <= causeR
          /\ passed <= causeM
          /\ passed + offset - ahead <= causeM \/ passed + below <= causeM
      BY <1>1 DEF IInv, RepeatsInv, MissesInv
    <3>2. /\ causeR \in Nat /\ causeM \in Nat /\ ahead \in Nat /\ repeats \in Nat
          /\ passed \in Nat /\ below \in Nat /\ passedThen \in Nat
          /\ more \in Nat /\ more <= Limit
          /\ passedThen <= passed
      <4>1. Passed' \in SUBSET Passed
        BY <1>2, <1>4, <2>3 DEF Passed
      <4>2. passedThen \in Nat /\ passedThen <= passed
        BY <1>9, <4>1, Left
      <4>3. more \in Nat /\ more <= Limit
        BY <1>5, <1>6
      <4> QED
        BY <1>1, <1>9, <1>10, <4>2, <4>3 DEF TypeOK
    <3>3. RepeatsInv'
      <4>1. repeats + more <= causeR
        BY <1>2, <1>6
      <4>2. repeats + more + ahead - (offset + Limit) <= causeR
        <5> HIDE DEF causeR, ahead, more
        <5> QED
          BY <1>5, <3>1, <3>2
      <4> HIDE DEF more
      <4> QED
        BY <1>2, <1>4, <2>1, <2>3, <4>1, <4>2 DEF RepeatsInv, more
    <3>4. \/ passedThen + (offset + Limit) - ahead <= causeM
          \/ passedThen + below <= causeM
      <4>1. CASE passed + below <= causeM
        <5> HIDE DEF causeM, passed, passedThen, below
        <5> QED
          BY <3>2, <4>1
      <4>2. CASE page # {} /\ Cardinality(page) = Limit
        <5>1. before \subseteq here /\ Cardinality(before) = offset
          BY <1>5, <1>7, <2>3, <4>2
        <5>2. ahead >= offset + Limit
          <6> HIDE DEF here
          <6>1. /\ IsFiniteSet(here \ before)
                /\ Cardinality(here \ before) = ahead - offset
            BY <1>9, <5>1, Left
          <6>2. page \in SUBSET (here \ before)
            BY <1>5, <2>3
          <6>3. Cardinality(page) <= Cardinality(here \ before)
            BY <6>1, <6>2, Left
          <6> HIDE DEF ahead
          <6> QED
            BY <1>5, <3>2, <4>2, <6>1, <6>3
        <5> HIDE DEF causeM, passed, passedThen, below, ahead
        <5> QED
          BY <1>5, <3>1, <3>2, <5>2
      <4>3. CASE /\ passed + offset - ahead <= causeM
                 /\ ~ (page # {} /\ Cardinality(page) = Limit)
        <5>1. visible = before \cup page
          BY <1>5, <4>3, FS_EmptySet
        <5>2. CASE before \subseteq here
          <6>1. quiet \ Reached = {}
            BY <1>9, <2>3, <5>1, <5>2
          <6>2. below = 0
            BY <6>1, FS_EmptySet
          <6> HIDE DEF causeM, passed, passedThen, below
          <6> QED
            BY <3>1, <3>2, <6>2
        <5>3. CASE here \subseteq before
          <6>1. visible = before
            BY <2>3, <5>1, <5>3
          <6>2. below <= Cardinality(visible) - ahead
            <7>1. quiet \ Reached \subseteq visible \ here
              BY <1>9
            <7> HIDE DEF here
            <7>2. here \in SUBSET visible
              BY DEF here
            <7> QED
              BY <1>10, <7>1, <7>2, Left
          <6> HIDE DEF causeM, passed, passedThen, below, ahead
          <6> QED
            BY <1>5, <1>10, <3>2, <4>3, <6>1, <6>2
        <5> QED
          BY <1>7, <5>2, <5>3
      <4> QED
        BY <3>1, <4>1, <4>2, <4>3
    <3>5. MissesInv'
      <4>1. passedThen <= causeM
        <5> HIDE DEF causeM, passed, passedThen
        <5> QED
          BY <3>1, <3>2
      <4>2. /\ gone' = gone /\ Reached' = Reached /\ quiet' = quiet
            /\ visible' = visible /\ offset' = offset + Limit
        BY <1>4, <2>1, <2>3
      <4> HIDE DEF passedThen
      <4> QED
        BY <3>4, <4>1, <4>2 DEF MissesInv, passedThen
    <3> QED
      BY <1>11, <1>12, <1>13, <1>14, <2>2, <3>3, <3>5 DEF IInv
  <2>4. CASE ~ (Reached' = Reached /\ page \subseteq here)
    <3>1. page # {} /\ here \subseteq before \cup page /\ Cardinality(before) = offset
      BY <1>5, <1>7, <2>4
    <3>2. PICK tied \in SUBSET visible :
            /\ visible \cap Reached' = (before \cup page) \cup tied
            /\ tied \cap (before \cup page) = {}
            /\ IsFiniteSet(tied) /\ Cardinality(tied) \in Nat
            /\ TiesIn(Reached') \in Nat
            /\ TiesIn(Reached) + Cardinality(tied) <= TiesIn(Reached')
      BY <1>7, <2>4
    <3> DEFINE then == visible \cap Reached'
               ties == Cardinality(tied)
    <3>3. Cardinality(then) = offset + Cardinality(page) + ties
      <4>1. Cardinality(before \cup page) = Cardinality(before) + Cardinality(page)
            /\ IsFiniteSet(before \cup page)
        BY <1>5, Disjoint
      <4>2. Cardinality((before \cup page) \cup tied)
              = Cardinality(before \cup page) + Cardinality(tied)
        BY <3>2, <4>1, Disjoint
      <4> QED
        BY <3>1, <3>2, <4>1, <4>2
    <3>4. RepeatsInv'
      <4> DEFINE cause == Cardinality(came) + TiesIn(Reached')
                 size == Cardinality(then)
      <4>1. repeats' <= cause /\ repeats' + ties <= cause /\ cause \in Nat
        BY <1>6, <1>10, <3>2
      <4>2. repeats' + size - (offset + Limit) <= cause
        <5> DEFINE again == repeats'
        <5>1. again \in Nat /\ again + ties <= cause
          BY <1>6, <4>1
        <5>2. size = offset + Cardinality(page) + ties /\ ties \in Nat
          BY <3>2, <3>3
        <5> HIDE DEF again, size, ties, cause
        <5>3. again + size - (offset + Limit) <= cause
          BY <1>5, <4>1, <5>1, <5>2
        <5> QED
          BY <5>3 DEF again
      <4> QED
        BY <1>4, <2>1, <4>1, <4>2 DEF RepeatsInv
    <3>5. MissesInv'
      <4> DEFINE cause == Cardinality(gone) + TiesIn(Reached')
                 size == Cardinality(then)
                 passedThen == Cardinality(Passed')
                 below == Cardinality(quiet \ Reached')
      <4>1. cause \in Nat /\ size \in Nat /\ passedThen \in Nat /\ below \in Nat
            /\ Cardinality(gone) + TiesIn(Reached) + ties <= cause /\ ties \in Nat
        <5>1. IsFiniteSet(Passed') /\ IsFiniteSet(quiet \ Reached')
          BY <1>10, <1>15, FS_Difference
        <5>2. passedThen \in Nat /\ below \in Nat
          BY <5>1, FS_CardinalityType
        <5>3. size \in Nat
          BY <1>5, <3>2, <3>3
        <5> QED
          BY <1>10, <3>2, <5>2, <5>3
      <4>2. passedThen <= cause
        <5>1. Passed' \subseteq (Passed \cup skipped) \cup tied
          BY <1>2, <1>4, <1>9, <3>1, <3>2 DEF Passed
        <5>2. passedThen <= Cardinality(Passed) + Cardinality(skipped) + ties
          BY <1>8, <1>9, <3>2, <5>1, ThreeParts
        <5> HIDE DEF skipped, ties, passedThen, cause
        <5> QED
          BY <1>8, <1>9, <1>10, <4>1, <5>2
      <4>3. \/ passedThen + (offset + Limit) - size <= cause
            \/ passedThen + below <= cause
        <5>1. CASE Cardinality(page) = Limit
          <6>1. size = offset + Limit + ties /\ ties \in Nat
            BY <3>2, <3>3, <5>1
          <6> HIDE DEF size, ties, passedThen, cause
          <6> QED
            BY <1>5, <4>1, <4>2, <6>1
        <5>2. CASE visible = before \cup page
          <6>1. quiet \ Reached' = {}
            BY <1>9, <3>2, <5>2
          <6>2. below = 0
            BY <6>1, FS_EmptySet
          <6> HIDE DEF below, passedThen, cause
          <6> QED
            BY <4>1, <4>2, <6>2
        <5> QED
          BY <1>5, <5>1, <5>2
      <4>4. /\ gone' = gone /\ quiet' = quiet
            /\ visible' = visible /\ offset' = offset + Limit
        BY <1>4, <2>1
      <4> HIDE DEF passedThen
      <4> QED
        BY <4>2, <4>3, <4>4 DEF MissesInv, passedThen
    <3> QED
      BY <1>11, <1>12, <1>13, <1>14, <2>2, <3>4, <3>5 DEF IInv
  <2> QED
    BY <2>3, <2>4
<1> QED
  BY <1>16, <1>17

-----------------------------------------------------------------------------
(* The theorems.                                                           *)

LEMMA IInvStep == IInv /\ [Next]_vars => IInv'
<1> SUFFICES ASSUME IInv, [Next]_vars PROVE IInv'
  OBVIOUS
<1>1. ASSUME NEW q \in Quotes, Create(q) PROVE IInv'
  BY <1>1, CreateStep
<1>2. ASSUME NEW q \in Quotes, Delete(q) PROVE IInv'
  BY <1>2, DeleteStep
<1>3. CASE StartWalk
  BY <1>3, StartWalkStep
<1>4. CASE CountRows
  BY <1>4, CountRowsStep
<1>5. CASE SelectPage
  BY <1>5, SelectPageStep
<1>6. CASE EndWalk
  BY <1>6, EndWalkStep
<1>7. CASE UNCHANGED vars
  BY <1>7 DEF vars, walk, IInv, TypeOK, SetsInv, CountInv, RepeatsInv, MissesInv,
              RepeatsBounded, MissesBounded, Ties, Walked, Reached, Passed, Walking
<1> QED
  BY <1>1, <1>2, <1>3, <1>4, <1>5, <1>6, <1>7 DEF Next

LEMMA IInvInvariant == Spec => []IInv
BY IInvInit, IInvStep, PTL DEF Spec

(* The quotes, the walk and what was counted of them keep their types,     *)
(* however many quotes come and go: list_quotes serves any offset.         *)
THEOREM TypeCorrect == Spec => []TypeOK
<1>1. IInv => TypeOK
  BY DEF IInv
<1> QED
  BY <1>1, IInvInvariant, PTL

(* The pages of list_quotes repeat a quote at most once for every quote    *)
(* created during the walk and for every tie of said_on and created_at.    *)
THEOREM RepeatsAreBounded == Spec => []RepeatsBounded
<1>1. IInv => RepeatsBounded
  BY DEF IInv
<1> QED
  BY <1>1, IInvInvariant, PTL

(* A walk over all pages of list_quotes misses a quote that was there all  *)
(* the time at most once for every quote deleted meanwhile, for every one  *)
(* that came between the last count and its rows, and for every tie.       *)
THEOREM MissesAreBounded == Spec => []MissesBounded
<1>1. IInv => MissesBounded
  BY DEF IInv
<1> QED
  BY <1>1, IInvInvariant, PTL

=============================================================================
