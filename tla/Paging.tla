------------------------------- MODULE Paging --------------------------------
(***************************************************************************)
(* A client that walks through the pages of GET /quotes (app/routers/      *)
(* quotes.py, list_quotes) while quotes come and go.                       *)
(*                                                                         *)
(* Every page is a request of its own, and within it the count and the     *)
(* rows are two statements, each of which sees what is committed when it   *)
(* runs.  The rows are ordered by (said_on, created_at), here `rank`, the  *)
(* highest first.  A new quote can have any rank: said_on is what the      *)
(* client says it is, and created_at is when the transaction began, not    *)
(* when it committed.  Two quotes can have the same rank.                  *)
(***************************************************************************)
EXTENDS Integers, FiniteSets, FiniteSetsExt

CONSTANTS
  Ids,    \* bound: the quotes there are in one walk; their ids
  Ranks,  \* the values of (said_on, created_at), as numbers
  Limit   \* page size

ASSUME RanksAssumption == Ranks \subseteq Nat
ASSUME LimitAssumption == Limit \in 1 .. 100

Quotes == [id : Ids, rank : Ranks]

VARIABLES
  visible,  \* the owner's quotes that are not soft-deleted
  pc,       \* the walk: "idle", or the statement its next page is at
  offset,   \* what the client asks for
  total,    \* SELECT count(*) of the page being served
  \* For the properties, all since the walk began:
  shown,    \* quotes that were on a page
  repeats,  \* how often a page held a quote that had been shown already
  quiet,    \* quotes that have been visible throughout
  came,     \* quotes that were created
  gone,     \* quotes that were deleted
  late      \* quotes created between the last count and its rows

walk == <<pc, offset, total, shown, repeats>>
vars == <<visible, walk, quiet, came, gone, late>>

-----------------------------------------------------------------------------
(* The first n of some quotes, in an order that puts a higher rank first;  *)
(* there are several such sets when ranks are equal.                       *)
IsFirst(page, some, n) ==
  /\ page \subseteq some
  /\ Cardinality(page) = Min({n, Cardinality(some)})
  /\ \A x \in page, y \in some \ page : x.rank >= y.rank

(* Mistakes the runs must notice: pages counted from 1, and no ORDER BY.    *)
GappedPages ==
  LET before == {s \in SUBSET visible : IsFirst(s, visible, offset + 1)}
  IN  {p \in SUBSET visible : \E s \in before : IsFirst(p, visible \ s, Limit)}

UnorderedPages ==
  {p \in SUBSET visible :
    Cardinality(p) = Max({0, Min({Limit, Cardinality(visible) - offset})})}

(* ORDER BY said_on DESC, created_at DESC LIMIT .. OFFSET ..               *)
Pages ==
  LET before == {s \in SUBSET visible : IsFirst(s, visible, offset)}
  IN  {p \in SUBSET visible : \E s \in before : IsFirst(p, visible \ s, Limit)}

Init ==
  /\ visible = {}
  /\ pc = "idle" /\ offset = 0 /\ total = 0
  /\ shown = {} /\ repeats = 0
  /\ quiet = {} /\ came = {} /\ gone = {} /\ late = {}

(* create_quote, by another client of the same owner.                      *)
Create(q) ==
  /\ \A x \in visible \cup came \cup gone : x.id # q.id
  /\ visible' = visible \cup {q}
  /\ came' = came \cup {q}
  /\ late' = IF pc = "select" THEN late \cup {q} ELSE late
  /\ UNCHANGED <<walk, quiet, gone>>

(* delete_quote.                                                           *)
Delete(q) ==
  /\ q \in visible
  /\ visible' = visible \ {q}
  /\ quiet' = quiet \ {q}
  /\ gone' = gone \cup {q}
  /\ UNCHANGED <<walk, came, late>>

(* The client asks for the first page.                                     *)
StartWalk ==
  /\ pc = "idle"
  /\ pc' = "count" /\ offset' = 0 /\ total' = 0
  /\ shown' = {} /\ repeats' = 0
  /\ quiet' = visible /\ came' = {} /\ gone' = {} /\ late' = {}
  /\ UNCHANGED visible

(* A mistake the runs must notice: counting what is left from the offset.  *)
CountRemaining ==
  /\ pc = "count"
  /\ total' = Cardinality(visible) - offset
  /\ pc' = "select"
  /\ late' = {}
  /\ UNCHANGED <<visible, offset, shown, repeats, quiet, came, gone>>

(* list_quotes counts ...                                                  *)
CountRows ==
  /\ pc = "count"
  /\ total' = Cardinality(visible)
  /\ pc' = "select"
  /\ late' = {}
  /\ UNCHANGED <<visible, offset, shown, repeats, quiet, came, gone>>

(* ... and selects the page.  The client, which is told total, limit and   *)
(* offset, goes on to the next page or has seen them all.                  *)
Last == offset + Limit >= total

SelectPage ==
  /\ pc = "select"
  /\ \E page \in Pages :
       /\ repeats' = repeats + Cardinality(page \cap shown)
       /\ shown' = shown \cup page
  /\ IF Last
       THEN pc' = "end" /\ UNCHANGED offset
       ELSE pc' = "count" /\ offset' = offset + Limit
  /\ UNCHANGED <<visible, total, quiet, came, gone, late>>

(* The client has what it wanted, or gives up, and may start again.        *)
EndWalk ==
  /\ pc # "idle"
  /\ pc' = "idle"
  /\ UNCHANGED <<visible, offset, total, shown, repeats, quiet, came, gone, late>>

Next ==
  \/ \E q \in Quotes : Create(q) \/ Delete(q)
  \/ StartWalk
  \/ CountRows
  \/ SelectPage
  \/ EndWalk

Spec == Init /\ [][Next]_vars

-----------------------------------------------------------------------------
(* Properties.                                                             *)

TypeOK ==
  /\ visible \subseteq Quotes
  /\ pc \in {"idle", "count", "select", "end"}
  /\ offset \in Nat /\ total \in Nat /\ repeats \in Nat
  /\ shown \subseteq Quotes
  /\ quiet \subseteq visible
  /\ came \subseteq Quotes /\ gone \subseteq Quotes
  /\ late \subseteq came

(* How many of the quotes of this walk had no place of their own in the    *)
(* order.                                                                  *)
Ties ==
  LET walked == quiet \cup came \cup gone
  IN  Cardinality(walked) - Cardinality({q.rank : q \in walked})

(* A page repeats a quote only because a new one has pushed it down, or    *)
(* because the order leaves its place open: not more often than that.      *)
RepeatsBounded == repeats <= Cardinality(came) + Ties

(* A walk to the end misses a quote that was there all the time only       *)
(* because a deleted one let it slip up past the offset, because one that  *)
(* came between the last count and its rows was not counted, or because of *)
(* a tie: no more quotes than that.                                        *)
MissesBounded ==
  pc = "end" =>
    Cardinality(quiet \ shown) <= Cardinality(gone) + Cardinality(late) + Ties

=============================================================================
