---------------------------- MODULE QuotesProofs -----------------------------
(***************************************************************************)
(* What TLAPS proves of Quotes, for every number of users, rows, requests  *)
(* and errors, and that its handlers implement Jar.                        *)
(***************************************************************************)
EXTENDS Quotes, FiniteSetTheorems, TLAPS

(* ---- The inductive invariant ------------------------------------------ *)

(* Whatever row has this id, it is the requester's: ids are never reused.  *)
OwnKid(r, k) ==
  k \in issued /\ \A c \in children : c.id = k => c.user = who[r]

OwnNote(r, n) ==
  n \in issued /\ \A q \in quotes : q.id = n => OwnKid(r, q.child)

(* What a request may rely on when it is about to write ...                *)
ReadyToWrite(r) ==
  /\ pc[r] # "idle" => who[r] \in Users /\ answer[r] = NoAnswer
  /\ pc[r] = "insertChild" => op[r] = "create_child"
  /\ pc[r] = "insertQuote" => op[r] = "create_quote" /\ OwnKid(r, target[r])
  /\ pc[r] = "updateQuote" => op[r] = "delete_quote" /\ OwnNote(r, target[r])

(* ... what the locks of its open transaction have kept true ...           *)
WritesChild(r) ==
  /\ op[r] = "create_child" /\ who[r] \in users
  /\ \E k \in Kids \ issued : write[r] = {[id |-> k, user |-> who[r]]}

WritesQuote(r) ==
  /\ op[r] = "create_quote" /\ OwnKid(r, target[r])
  /\ \E c \in children : c.id = target[r]
  /\ \E n \in Notes \ issued :
       write[r] = {[id |-> n, child |-> target[r], deleted |-> FALSE]}

WritesDeletion(r) ==
  /\ op[r] = "delete_quote"
  /\ \E q \in quotes :
       /\ q.id = target[r] /\ OwnKid(r, q.child)
       /\ write[r] = {[id |-> q.id, child |-> q.child, deleted |-> TRUE]}

Writing(r) ==
  pc[r] = "commit" => WritesChild(r) \/ WritesQuote(r) \/ WritesDeletion(r)

(* ... what it knows of the row that it has stored ...                     *)
OwnId(r, i) == (i \in Kids /\ OwnKid(r, i)) \/ (i \in Notes /\ OwnNote(r, i))

Reading(r) == pc[r] = "refresh" => \A row \in write[r] : OwnId(r, row.id)

(* ... and what its answer goes on saying truly.                           *)
OwnRow(r, row) ==
  \/ row \in ChildRows /\ row.user = who[r]
  \/ row \in QuoteRows /\ OwnKid(r, row.child)

IsStored(i) == \E row \in children \cup quotes : row.id = i

Answered(r) ==
  /\ \A row \in answer[r].rows : OwnRow(r, row)
  /\ answer[r].status = 201 => \A row \in answer[r].rows :
       OwnId(r, row.id) /\ (who[r] \in users => IsStored(row.id))
  /\ answer[r].status = 204 =>
       target[r] \in issued /\ \A q \in quotes : q.id = target[r] => q.deleted

(* The count and the rows that are there now differ by the drift at most.  *)
Close(m, n, d) == m - n <= d /\ n - m <= d

Skewed(r) ==
  /\ pc[r] = "selectRows" => Close(total[r], Cardinality(Listed(r)), drift[r])
  /\ op[r] = "list_quotes" /\ answer[r].status = 200 =>
       Close(total[r], Cardinality(answer[r].rows), drift[r])

RequestInv(r) ==
  ReadyToWrite(r) /\ Writing(r) /\ Reading(r) /\ Answered(r) /\ Skewed(r)

(* Keys are unique, and those that have been used are known.               *)
TablesInv ==
  /\ \A c \in children : c.id \in issued
  /\ \A q \in quotes : q.id \in issued
  /\ \A c, d \in children : c.id = d.id => c = d
  /\ \A p, q \in quotes : p.id = q.id => p = q
  /\ IsFiniteSet(quotes)

(* No two open transactions have written the same row.                     *)
LocksInv ==
  \A r, s \in Requests : r # s =>
    \A x \in Uncommitted(r), y \in Uncommitted(s) : x.id # y.id

IInv ==
  /\ TypeOK /\ TablesInv /\ NoOrphans /\ LocksInv
  /\ \A r \in Requests : RequestInv(r)

LEMMA IInvInit == Init => IInv
<1> SUFFICES ASSUME Init PROVE IInv
  OBVIOUS
<1>1. TypeOK
  BY ErrorsAssumption
     DEF Init, TypeOK, Endpoints, Statements, NoAnswer
<1>2. TablesInv /\ NoOrphans /\ LocksInv
  BY FS_EmptySet DEF Init, TablesInv, NoOrphans, LocksInv, Uncommitted
<1>3. ASSUME NEW r \in Requests PROVE RequestInv(r)
  BY DEF Init, RequestInv, ReadyToWrite, Writing, Reading, Answered, Skewed,
         NoAnswer
<1> QED
  BY <1>1, <1>2, <1>3 DEF IInv

(* ---- Requests that leave the tables alone ------------------------------*)

(* Everything that belongs to this request stays as it is.                 *)
Waits(s) ==
  /\ pc'[s] = pc[s] /\ op'[s] = op[s] /\ who'[s] = who[s]
  /\ target'[s] = target[s] /\ write'[s] = write[s]
  /\ total'[s] = total[s] /\ answer'[s] = answer[s]

LEMMA OthersWait ==
  ASSUME TypeOK, NEW s \in Requests, RequestInv(s), Waits(s),
         drift'[s] = drift[s], UNCHANGED <<users, children, quotes, issued>>
  PROVE  RequestInv(s)'
<1>1. ReadyToWrite(s)'
  BY DEF RequestInv, ReadyToWrite, Waits, OwnKid, OwnNote
<1>2. Writing(s)'
  BY DEF RequestInv, Writing, WritesChild, WritesQuote, WritesDeletion, Waits,
         OwnKid
<1>3. Reading(s)'
  BY DEF RequestInv, Reading, OwnId, OwnKid, OwnNote, Waits
<1>4. Answered(s)'
  BY DEF RequestInv, Answered, OwnRow, OwnId, OwnKid, OwnNote, IsStored, Waits
<1>5. Skewed(s)'
  BY DEF RequestInv, Skewed, Listed, Visible, ChildrenOf, Waits
<1> QED
  BY <1>1, <1>2, <1>3, <1>4, <1>5 DEF RequestInv

(* What remains to be shown of a step of one request.                      *)
LEMMA QuietStep ==
  ASSUME IInv, NEW r \in Requests, TypeOK', RequestInv(r)',
         UNCHANGED <<users, children, quotes, issued>>,
         \A s \in Requests \ {r} : Waits(s) /\ drift'[s] = drift[s],
         \A x \in Uncommitted(r)' : x \in Uncommitted(r) \/ ~ Locked(x.id)
  PROVE  IInv'
<1>1. TablesInv' /\ NoOrphans'
  BY DEF IInv, TablesInv, NoOrphans
<1>2. \A s \in Requests \ {r} : Uncommitted(s)' = Uncommitted(s)
  BY DEF Uncommitted, Waits
<1>3. LocksInv'
  <2> SUFFICES ASSUME NEW s \in Requests, NEW t \in Requests, s # t,
                      NEW x \in Uncommitted(s)', NEW y \in Uncommitted(t)'
               PROVE  x.id # y.id
    BY DEF LocksInv
  <2>1. CASE s # r /\ t # r
    BY <1>2, <2>1 DEF IInv, LocksInv
  <2>2. CASE s = r
    BY <1>2, <2>2 DEF IInv, LocksInv, Locked
  <2>3. CASE t = r
    BY <1>2, <2>3 DEF IInv, LocksInv, Locked
  <2> QED
    BY <2>1, <2>2, <2>3
<1>4. \A s \in Requests : RequestInv(s)'
  BY OthersWait DEF IInv
<1> QED
  BY <1>1, <1>3, <1>4 DEF IInv

(* An answer ends a request, whose transaction is over.                    *)
LEMMA AnswerEnds ==
  ASSUME TypeOK, NEW r \in Requests,
         NEW status \in {0, 200, 201, 204, 401, 404, 429, 500},
         NEW rows \in SUBSET (ChildRows \cup QuoteRows),
         Answer(r, status, rows), UNCHANGED input
  PROVE  /\ pc' \in [Requests -> Statements \cup {"idle"}]
         /\ write' \in [Requests -> SUBSET (ChildRows \cup QuoteRows)]
         /\ answer' \in [Requests ->
              [status : {0, 200, 201, 204, 401, 404, 429, 500},
               rows : SUBSET (ChildRows \cup QuoteRows)]]
         /\ answer'[r].status = status /\ answer'[r].rows = rows
         /\ ReadyToWrite(r)' /\ Writing(r)' /\ Reading(r)'
         /\ Uncommitted(r)' = {}
         /\ \A s \in Requests \ {r} : total'[s] = total[s] => Waits(s)
<1>1. /\ pc' \in [Requests -> Statements \cup {"idle"}]
      /\ write' \in [Requests -> SUBSET (ChildRows \cup QuoteRows)]
  BY DEF TypeOK, Answer
<1>2. [status |-> status, rows |-> rows] \in
        [status : {0, 200, 201, 204, 401, 404, 429, 500},
         rows : SUBSET (ChildRows \cup QuoteRows)]
  OBVIOUS
<1>3. /\ answer' \in [Requests ->
           [status : {0, 200, 201, 204, 401, 404, 429, 500},
            rows : SUBSET (ChildRows \cup QuoteRows)]]
      /\ answer'[r] = [status |-> status, rows |-> rows]
  BY <1>2 DEF TypeOK, Answer
<1>4. pc'[r] = "idle" /\ write'[r] = {}
  BY DEF TypeOK, Answer
<1>5. ReadyToWrite(r)' /\ Writing(r)' /\ Reading(r)' /\ Uncommitted(r)' = {}
  BY <1>4 DEF ReadyToWrite, Writing, Reading, Uncommitted
<1>6. \A s \in Requests \ {r} : total'[s] = total[s] => Waits(s)
  BY DEF TypeOK, Answer, Waits, input
<1> QED
  BY <1>1, <1>3, <1>5, <1>6

(* An answer without a change: all that matters is whether it is true.     *)
LEMMA AnswerStep ==
  ASSUME IInv, NEW r \in Requests,
         NEW status \in {0, 200, 201, 204, 401, 404, 429, 500},
         NEW rows \in SUBSET (ChildRows \cup QuoteRows),
         Answer(r, status, rows), UNCHANGED <<input, total, drift, tables>>,
         errors' \in 0 .. MaxErrors,
         Answered(r)',
         op[r] = "list_quotes" /\ status = 200 =>
           Close(total[r], Cardinality(rows), drift[r])
  PROVE  IInv'
<1>1. TypeOK
  BY DEF IInv
<1>2. TypeOK'
  BY <1>1, AnswerEnds DEF TypeOK, input, tables
<1>3. Skewed(r)'
  BY <1>1, AnswerEnds DEF Skewed, input, TypeOK, Answer
<1>4. RequestInv(r)'
  BY <1>1, <1>3, AnswerEnds DEF RequestInv
<1>5. \A s \in Requests \ {r} : Waits(s) /\ drift'[s] = drift[s]
  BY <1>1, AnswerEnds
<1>6. Uncommitted(r)' = {}
  BY <1>1, AnswerEnds
<1> QED
  BY <1>2, <1>4, <1>5, <1>6, QuietStep DEF tables

(* Nothing to be shown: no rows, and neither a 201 nor a 204.              *)
LEMMA EmptyAnswerStep ==
  ASSUME IInv, NEW r \in Requests, NEW status \in {401, 404, 429, 500},
         Answer(r, status, {}), UNCHANGED <<input, total, drift, tables>>,
         errors' \in 0 .. MaxErrors
  PROVE  IInv'
<1>1. Answered(r)'
  BY AnswerEnds DEF IInv, Answered
<1> QED
  BY <1>1, AnswerStep

(* ---- One lemma for each action that leaves the tables alone ----------- *)

LEMMA ArriveStep ==
  ASSUME IInv, NEW r \in Requests, NEW o \in Endpoints, NEW u \in Users,
         NEW x \in TargetsOf(o), Arrive(r, o, u, x)
  PROVE  IInv'
<1>1. x \in Kids \cup Notes \cup {None}
  BY DEF TargetsOf, Endpoints
<1>2. NoAnswer \in [status : {0, 200, 201, 204, 401, 404, 429, 500},
                    rows : SUBSET (ChildRows \cup QuoteRows)]
  BY DEF NoAnswer
<1>3. TypeOK'
  BY <1>1, <1>2 DEF IInv, TypeOK, Arrive, Goto, tables, Statements
<1>4. pc'[r] = "authenticate" /\ who'[r] = u /\ answer'[r] = NoAnswer
  BY DEF IInv, TypeOK, Arrive, Goto
<1>5. RequestInv(r)'
  BY <1>4 DEF RequestInv, ReadyToWrite, Writing, Reading, Answered, Skewed, NoAnswer
<1>6. \A s \in Requests \ {r} : Waits(s) /\ drift'[s] = drift[s]
  BY DEF IInv, TypeOK, Arrive, Goto, Waits
<1>7. Uncommitted(r)' = {}
  BY <1>4 DEF Uncommitted
<1> QED
  BY <1>3, <1>5, <1>6, <1>7, QuietStep DEF Arrive, tables

(* A request that moves on to its next statement, which it is ready for.   *)
LEMMA MoveStep ==
  ASSUME IInv, NEW r \in Requests, pc[r] # "idle",
         NEW statement \in Statements \ {"commit", "refresh", "selectRows"},
         Goto(r, statement), UNCHANGED <<tables, input, write, total, drift, answer, errors>>,
         statement = "insertChild" => op[r] = "create_child",
         statement = "insertQuote" => op[r] = "create_quote" /\ OwnKid(r, target[r]),
         statement = "updateQuote" => op[r] = "delete_quote" /\ OwnNote(r, target[r])
  PROVE  IInv'
<1>1. TypeOK'
  BY DEF IInv, TypeOK, Goto, tables, input
<1>2. pc'[r] = statement
  BY DEF IInv, TypeOK, Goto
<1>3. ReadyToWrite(r)'
  BY <1>2 DEF IInv, RequestInv, ReadyToWrite, OwnKid, OwnNote, tables, input,
              Statements
<1>4. Writing(r)' /\ Reading(r)' /\ Uncommitted(r)' = {}
  BY <1>2 DEF Writing, Reading, Uncommitted
<1>5. Answered(r)'
  BY DEF IInv, RequestInv, ReadyToWrite, Answered, NoAnswer
<1>6. Skewed(r)'
  BY <1>2 DEF IInv, RequestInv, ReadyToWrite, Skewed, NoAnswer
<1>7. \A s \in Requests \ {r} : Waits(s) /\ drift'[s] = drift[s]
  BY DEF IInv, TypeOK, Goto, Waits, input
<1> QED
  BY <1>1, <1>3, <1>4, <1>5, <1>6, <1>7, QuietStep DEF RequestInv, tables

LEMMA AuthenticateStep ==
  ASSUME IInv, NEW r \in Requests, Authenticate(r)
  PROVE  IInv'
<1>1. CASE who[r] \notin users
  BY <1>1, EmptyAnswerStep DEF Authenticate, IInv, TypeOK
<1>2. CASE who[r] \in users
  <2> DEFINE statement ==
        CASE op[r] \in {"create_quote", "get_child", "list_children"}
               -> "selectChild"
          [] op[r] \in {"get_quote", "delete_quote"} -> "selectQuote"
          [] op[r] = "list_quotes" -> "countQuotes"
          [] op[r] = "create_child" -> "insertChild"
  <2>1. /\ Goto(r, statement)
        /\ UNCHANGED <<tables, input, write, total, drift, answer, errors>>
    BY <1>2 DEF Authenticate
  <2>2. op[r] \in Endpoints
    BY DEF IInv, TypeOK
  <2>3. /\ statement \in {"selectChild", "selectQuote", "countQuotes", "insertChild"}
        /\ statement = "insertChild" => op[r] = "create_child"
    BY <2>2 DEF Endpoints
  <2> HIDE DEF statement
  <2> QED
    BY <2>1, <2>3, MoveStep DEF Authenticate, Statements
<1> QED
  BY <1>1, <1>2

LEMMA ThrottleStep ==
  ASSUME IInv, NEW r \in Requests, Throttle(r)
  PROVE  IInv'
BY EmptyAnswerStep DEF Throttle, IInv, TypeOK

(* A child that was selected through its owner is the requester's.         *)
LEMMA SelectChildStep ==
  ASSUME IInv, NEW r \in Requests, SelectChild(r)
  PROVE  IInv'
<1>1. /\ pc[r] = "selectChild"
      /\ UNCHANGED <<tables, input, total, drift, errors>>
  BY DEF SelectChild
<1>2. errors' \in 0 .. MaxErrors
  BY <1>1 DEF IInv, TypeOK
<1>3. CASE Answer(r, 404, {})
  BY <1>1, <1>2, <1>3, EmptyAnswerStep
<1>4. CASE Answer(r, 200, OwnChild(r)) /\ op[r] # "list_quotes"
  <2>1. OwnChild(r) \in SUBSET (ChildRows \cup QuoteRows)
    BY DEF IInv, TypeOK, OwnChild, ChildrenOf
  <2>2. \A row \in OwnChild(r) : OwnRow(r, row)
    BY DEF IInv, TypeOK, OwnChild, ChildrenOf, OwnRow
  <2>3. answer'[r].status = 200 /\ answer'[r].rows = OwnChild(r)
    BY <1>1, <1>4, <2>1, AnswerEnds DEF IInv
  <2>4. Answered(r)'
    BY <1>1, <2>2, <2>3 DEF Answered, OwnRow, OwnKid, tables, input
  <2> QED
    BY <1>1, <1>2, <1>4, <2>1, <2>4, AnswerStep
<1>5. CASE /\ op[r] = "create_quote" /\ OwnChild(r) # {}
           /\ Goto(r, "insertQuote") /\ UNCHANGED <<answer, write>>
  <2>1. PICK c \in children : c.user = who[r] /\ c.id = target[r]
    BY <1>5 DEF OwnChild, ChildrenOf
  <2>2. OwnKid(r, target[r])
    BY <2>1 DEF OwnKid, IInv, TablesInv
  <2> QED
    BY <1>1, <1>5, <2>2, MoveStep DEF Statements
<1> QED
  BY <1>3, <1>4, <1>5 DEF SelectChild

(* So is a quote that was selected through its child.                      *)
LEMMA VisibleIsOwn ==
  ASSUME IInv, NEW r \in Requests, NEW q \in Visible(who[r])
  PROVE  q \in quotes /\ q \in QuoteRows /\ OwnKid(r, q.child) /\ OwnNote(r, q.id)
<1>1. q \in quotes /\ q \in QuoteRows
  BY DEF Visible, IInv, TypeOK
<1>2. PICK c \in children : c.user = who[r] /\ c.id = q.child
  BY DEF Visible, ChildrenOf
<1>3. OwnKid(r, q.child)
  BY <1>2 DEF OwnKid, IInv, TablesInv
<1>4. OwnNote(r, q.id)
  BY <1>1, <1>3 DEF OwnNote, IInv, TablesInv
<1> QED
  BY <1>1, <1>3, <1>4

LEMMA OwnRowsAnswered ==
  ASSUME IInv, NEW r \in Requests, NEW rows \in SUBSET Visible(who[r]),
         Answer(r, 200, rows),
         UNCHANGED <<tables, input, total, drift, errors>>,
         op[r] = "list_quotes" =>
           Close(total[r], Cardinality(rows), drift[r])
  PROVE  IInv'
<1>1. rows \in SUBSET (ChildRows \cup QuoteRows)
  BY VisibleIsOwn
<1>2. \A row \in rows : OwnRow(r, row)
  BY VisibleIsOwn DEF OwnRow
<1>3. answer'[r].status = 200 /\ answer'[r].rows = rows
  BY <1>1, AnswerEnds DEF IInv
<1>4. Answered(r)'
  BY <1>2, <1>3 DEF Answered, OwnRow, OwnKid, tables, input
<1>5. errors' \in 0 .. MaxErrors
  BY DEF IInv, TypeOK
<1> QED
  BY <1>1, <1>4, <1>5, AnswerStep

LEMMA SelectQuoteStep ==
  ASSUME IInv, NEW r \in Requests, SelectQuote(r)
  PROVE  IInv'
<1> DEFINE found == {q \in Visible(who[r]) : q.id = target[r]}
<1>1. /\ pc[r] = "selectQuote"
      /\ UNCHANGED <<tables, input, total, drift, errors>>
  BY DEF SelectQuote
<1>2. errors' \in 0 .. MaxErrors
  BY <1>1 DEF IInv, TypeOK
<1>3. CASE Answer(r, 404, {})
  BY <1>1, <1>2, <1>3, EmptyAnswerStep
<1>4. CASE Answer(r, 200, found) /\ op[r] = "get_quote"
  BY <1>1, <1>4, OwnRowsAnswered
<1>5. CASE /\ op[r] = "delete_quote" /\ found # {}
           /\ Goto(r, "updateQuote") /\ UNCHANGED <<answer, write>>
  <2>1. OwnNote(r, target[r])
    BY <1>5, VisibleIsOwn
  <2> QED
    BY <1>1, <1>5, <2>1, MoveStep DEF Statements
<1> QED
  BY <1>3, <1>4, <1>5 DEF SelectQuote

LEMMA ListedIsFinite ==
  ASSUME IInv, NEW r \in Requests
  PROVE  IsFiniteSet(Listed(r)) /\ Cardinality(Listed(r)) \in Nat
<1>1. Listed(r) \in SUBSET quotes
  BY DEF Listed, Visible
<1> QED
  BY <1>1, FS_Subset, FS_CardinalityType DEF IInv, TablesInv

LEMMA CountQuotesStep ==
  ASSUME IInv, NEW r \in Requests, CountQuotes(r)
  PROVE  IInv'
<1>1. TypeOK'
  BY ListedIsFinite DEF IInv, TypeOK, CountQuotes, Goto, tables, input, Statements
<1>2. /\ pc'[r] = "selectRows" /\ total'[r] = Cardinality(Listed(r))
      /\ answer'[r] = NoAnswer
      /\ drift'[r] \in Nat /\ Cardinality(Listed(r)) \in Nat
  BY ListedIsFinite
     DEF IInv, TypeOK, RequestInv, ReadyToWrite, CountQuotes, Goto
<1>2a. Listed(r)' = Listed(r)
  BY DEF CountQuotes, tables, input, Listed, Visible, ChildrenOf
<1>3. Skewed(r)'
  <2> DEFINE n == Cardinality(Listed(r))
  <2>1. Cardinality(Listed(r))' = n /\ total'[r] = n
    BY <1>2, <1>2a
  <2>2. n - n <= drift'[r]
    BY <1>2
  <2> HIDE DEF n
  <2>3. Close(total'[r], Cardinality(Listed(r))', drift'[r])
    BY <2>1, <2>2 DEF Close
  <2> QED
    BY <1>2, <2>3 DEF Skewed, NoAnswer
<1>4. ReadyToWrite(r)' /\ Writing(r)' /\ Reading(r)' /\ Uncommitted(r)' = {}
  BY <1>2 DEF CountQuotes, IInv, RequestInv, ReadyToWrite, Writing, Reading,
              Uncommitted, input
<1>5. Answered(r)'
  BY <1>2 DEF Answered, NoAnswer
<1>6. \A s \in Requests \ {r} : Waits(s) /\ drift'[s] = drift[s]
  BY DEF IInv, TypeOK, CountQuotes, Goto, Waits, input
<1> QED
  BY <1>1, <1>3, <1>4, <1>5, <1>6, QuietStep DEF RequestInv, CountQuotes, tables

LEMMA SelectRowsStep ==
  ASSUME IInv, NEW r \in Requests, SelectRows(r)
  PROVE  IInv'
<1>1. Listed(r) \in SUBSET Visible(who[r])
  BY DEF Listed
<1>2. Close(total[r], Cardinality(Listed(r)), drift[r])
  BY DEF SelectRows, IInv, RequestInv, Skewed
<1> QED
  BY <1>1, <1>2, OwnRowsAnswered DEF SelectRows

(* A row that is inserted or updated is locked: nobody else has written it.*)
LEMMA WriteStep ==
  ASSUME IInv, NEW r \in Requests, pc[r] # "idle", Goto(r, "commit"),
         NEW row \in ChildRows \cup QuoteRows, ~ Locked(row.id),
         write' = [write EXCEPT ![r] = {row}],
         UNCHANGED <<tables, input, total, drift, answer, errors>>,
         (WritesChild(r) \/ WritesQuote(r) \/ WritesDeletion(r))'
  PROVE  IInv'
<1>1. pc'[r] = "commit" /\ write'[r] = {row} /\ answer'[r] = NoAnswer
  BY DEF IInv, RequestInv, ReadyToWrite, TypeOK, Goto
<1>2. TypeOK'
  BY DEF IInv, TypeOK, Goto, tables, input, Statements
<1>3. ReadyToWrite(r)' /\ Writing(r)' /\ Reading(r)'
  BY <1>1 DEF IInv, RequestInv, ReadyToWrite, Writing, Reading, input
<1>4. Answered(r)' /\ Skewed(r)'
  BY <1>1 DEF Answered, Skewed, NoAnswer
<1>5. \A s \in Requests \ {r} : Waits(s) /\ drift'[s] = drift[s]
  BY DEF IInv, TypeOK, Goto, Waits, input
<1>6. \A x \in Uncommitted(r)' : ~ Locked(x.id)
  BY <1>1 DEF Uncommitted
<1> QED
  BY <1>2, <1>3, <1>4, <1>5, <1>6, QuietStep DEF RequestInv, tables

LEMMA InsertChildStep ==
  ASSUME IInv, NEW r \in Requests, InsertChild(r)
  PROVE  IInv'
<1>1. CASE Answer(r, 500, {})
  BY <1>1, EmptyAnswerStep DEF InsertChild, IInv, TypeOK
<1>2. CASE who[r] \in users /\ Goto(r, "commit") /\ UNCHANGED answer
  <2>1. PICK k \in Kids \ issued :
          ~ Locked(k) /\ write' = [write EXCEPT ![r] = {[id |-> k, user |-> who[r]]}]
    BY <1>2 DEF InsertChild, Answer
  <2> DEFINE row == [id |-> k, user |-> who[r]]
  <2>2. row \in ChildRows /\ row.id = k
    BY <1>2 DEF ChildRows, IInv, TypeOK
  <2>3. op[r] = "create_child" /\ pc[r] = "insertChild"
    BY DEF InsertChild, IInv, RequestInv, ReadyToWrite
  <2>4. WritesChild(r)'
    BY <1>2, <2>1, <2>3 DEF WritesChild, InsertChild, IInv, TypeOK, tables, input
  <2> HIDE DEF row
  <2> QED
    BY <1>2, <2>1, <2>2, <2>3, <2>4, WriteStep DEF InsertChild, row
<1> QED
  BY <1>1, <1>2 DEF InsertChild

LEMMA InsertQuoteStep ==
  ASSUME IInv, NEW r \in Requests, InsertQuote(r)
  PROVE  IInv'
<1>1. CASE Answer(r, 500, {})
  BY <1>1, EmptyAnswerStep DEF InsertQuote, IInv, TypeOK
<1>2. CASE /\ \E c \in children : c.id = target[r]
           /\ \E n \in Notes \ issued :
                /\ ~ Locked(n)
                /\ write' = [write EXCEPT ![r] =
                     {[id |-> n, child |-> target[r], deleted |-> FALSE]}]
           /\ Goto(r, "commit") /\ UNCHANGED answer
  <2>1. PICK n \in Notes \ issued :
          /\ ~ Locked(n)
          /\ write' = [write EXCEPT ![r] =
               {[id |-> n, child |-> target[r], deleted |-> FALSE]}]
    BY <1>2
  <2> DEFINE row == [id |-> n, child |-> target[r], deleted |-> FALSE]
  <2>2. row \in QuoteRows /\ row.id = n
    BY <1>2 DEF ChildRows, QuoteRows, IInv, TypeOK
  <2>3. op[r] = "create_quote" /\ OwnKid(r, target[r]) /\ pc[r] = "insertQuote"
    BY DEF InsertQuote, IInv, RequestInv, ReadyToWrite
  <2>4. WritesQuote(r)'
    BY <1>2, <2>1, <2>3
       DEF WritesQuote, OwnKid, InsertQuote, IInv, TypeOK, tables, input
  <2> HIDE DEF row
  <2> QED
    BY <1>2, <2>1, <2>2, <2>3, <2>4, WriteStep DEF InsertQuote, row
<1> QED
  BY <1>1, <1>2 DEF InsertQuote

(* What UPDATE quotes SET deleted_at makes of a row.                       *)
LEMMA QuoteRowFields ==
  ASSUME NEW q \in QuoteRows
  PROVE  q = [id |-> q.id, child |-> q.child, deleted |-> q.deleted]
BY DEF QuoteRows

LEMMA DeletedRow ==
  ASSUME NEW q \in QuoteRows
  PROVE  /\ [q EXCEPT !.deleted = TRUE] \in QuoteRows
         /\ [q EXCEPT !.deleted = TRUE]
              = [id |-> q.id, child |-> q.child, deleted |-> TRUE]
<1> DEFINE p == [q EXCEPT !.deleted = TRUE]
<1>1. p \in QuoteRows
  BY DEF QuoteRows
<1>2. p.id = q.id /\ p.child = q.child /\ p.deleted = TRUE
  BY DEF QuoteRows
<1>3. p = [id |-> p.id, child |-> p.child, deleted |-> p.deleted]
  BY <1>1, QuoteRowFields
<1> QED
  BY <1>1, <1>2, <1>3

LEMMA UpdateQuoteStep ==
  ASSUME IInv, NEW r \in Requests, UpdateQuote(r)
  PROVE  IInv'
<1>1. CASE Answer(r, 500, {})
  BY <1>1, EmptyAnswerStep DEF UpdateQuote, IInv, TypeOK
<1>2. CASE /\ ~ Locked(target[r])
           /\ \E q \in quotes :
                /\ q.id = target[r]
                /\ write' = [write EXCEPT ![r] = {[q EXCEPT !.deleted = TRUE]}]
           /\ Goto(r, "commit") /\ UNCHANGED answer
  <2>1. PICK q \in quotes :
          /\ q.id = target[r]
          /\ write' = [write EXCEPT ![r] = {[q EXCEPT !.deleted = TRUE]}]
    BY <1>2
  <2> DEFINE row == [id |-> q.id, child |-> q.child, deleted |-> TRUE]
  <2>2. q \in QuoteRows
    BY DEF IInv, TypeOK
  <2>3. [q EXCEPT !.deleted = TRUE] = row /\ row \in QuoteRows /\ row.id = q.id
    BY <2>2, DeletedRow
  <2>4. op[r] = "delete_quote" /\ OwnNote(r, target[r]) /\ pc[r] = "updateQuote"
    BY DEF UpdateQuote, IInv, RequestInv, ReadyToWrite
  <2>5. write'[r] = {row} /\ OwnKid(r, q.child)
    BY <2>1, <2>3, <2>4 DEF OwnNote, IInv, TypeOK
  <2>6. WritesDeletion(r)'
    BY <1>2, <2>1, <2>4, <2>5
       DEF WritesDeletion, OwnKid, UpdateQuote, tables, input
  <2> HIDE DEF row
  <2> QED
    BY <1>2, <2>1, <2>3, <2>4, <2>6, WriteStep DEF UpdateQuote
<1> QED
  BY <1>1, <1>2 DEF UpdateQuote

(* db.refresh asks for the id alone, and yet finds no row of anybody else. *)
LEMMA RefreshStep ==
  ASSUME IInv, NEW r \in Requests, Refresh(r)
  PROVE  IInv'
<1> DEFINE now == {row \in children \cup quotes :
                     row.id \in {w.id : w \in write[r]}}
<1>1. /\ pc[r] = "refresh" /\ UNCHANGED <<tables, input, total, drift, errors>>
      /\ errors' \in 0 .. MaxErrors
  BY DEF Refresh, IInv, TypeOK
<1>2. CASE Answer(r, 500, {})
  BY <1>1, <1>2, EmptyAnswerStep
<1>3. CASE Answer(r, 201, now)
  <2>1. now \in SUBSET (ChildRows \cup QuoteRows)
    BY DEF IInv, TypeOK
  <2>2. \A row \in now : OwnId(r, row.id)
    BY <1>1 DEF IInv, RequestInv, Reading
  <2>3. \A c \in children : c \in ChildRows /\ c.id \in Kids
    BY DEF IInv, TypeOK, ChildRows
  <2>4. \A q \in quotes : q \in QuoteRows /\ q.id \in Notes
    BY DEF IInv, TypeOK, QuoteRows
  <2>5. \A row \in now : OwnRow(r, row)
    BY <2>2, <2>3, <2>4, IdsAssumption DEF OwnId, OwnKid, OwnNote, OwnRow
  <2>6. answer'[r].status = 201 /\ answer'[r].rows = now
    BY <1>1, <1>3, <2>1, AnswerEnds DEF IInv
  <2>7. \A row \in now : IsStored(row.id)
    BY DEF IsStored
  <2> HIDE DEF now
  <2>8. Answered(r)'
    BY <1>1, <2>2, <2>5, <2>6, <2>7
       DEF Answered, OwnRow, OwnId, OwnKid, OwnNote, IsStored, tables, input
  <2> QED
    BY <1>1, <1>3, <2>1, <2>8, AnswerStep
<1> QED
  BY <1>2, <1>3 DEF Refresh

(* ---- Steps that change the tables ------------------------------------- *)

(* What a COMMIT comes to: one of three changes, each by the requester.    *)
AddsChild(r) ==
  \E k \in Kids \ issued :
    /\ op[r] = "create_child" /\ who[r] \in users
    /\ write[r] = {[id |-> k, user |-> who[r]]}
    /\ children' = children \cup {[id |-> k, user |-> who[r]]}
    /\ issued' = issued \cup {k}
    /\ UNCHANGED quotes

AddsQuote(r) ==
  \E n \in Notes \ issued :
    /\ op[r] = "create_quote" /\ OwnKid(r, target[r])
    /\ \E c \in children : c.id = target[r]
    /\ write[r] = {[id |-> n, child |-> target[r], deleted |-> FALSE]}
    /\ quotes' = quotes \cup {[id |-> n, child |-> target[r], deleted |-> FALSE]}
    /\ issued' = issued \cup {n}
    /\ UNCHANGED children

Retires(r) ==
  \E q \in quotes :
    /\ op[r] = "delete_quote" /\ q.id = target[r] /\ OwnKid(r, q.child)
    /\ write[r] = {[id |-> q.id, child |-> q.child, deleted |-> TRUE]}
    /\ quotes' = (quotes \ {q}) \cup {[id |-> q.id, child |-> q.child, deleted |-> TRUE]}
    /\ UNCHANGED <<children, issued>>

LEMMA ApplyCases ==
  ASSUME IInv, NEW r \in Requests, pc[r] = "commit", Apply(r)
  PROVE  AddsChild(r) \/ AddsQuote(r) \/ Retires(r)
<1>1. CASE WritesChild(r)
  BY <1>1 DEF WritesChild, AddsChild, Apply
<1>2. CASE WritesQuote(r)
  <2>1. PICK n \in Notes \ issued :
          write[r] = {[id |-> n, child |-> target[r], deleted |-> FALSE]}
    BY <1>2 DEF WritesQuote
  <2>2. {q \in quotes : q.id \notin {row.id : row \in write[r]}} = quotes
    BY <2>1 DEF IInv, TablesInv
  <2>3. {row.id : row \in write[r]} = {n}
    BY <2>1
  <2> QED
    BY <1>2, <2>1, <2>2, <2>3 DEF WritesQuote, AddsQuote, Apply
<1>3. CASE WritesDeletion(r)
  <2>1. PICK q \in quotes :
          /\ q.id = target[r] /\ OwnKid(r, q.child)
          /\ write[r] = {[id |-> q.id, child |-> q.child, deleted |-> TRUE]}
    BY <1>3 DEF WritesDeletion
  <2>2. {row.id : row \in write[r]} = {q.id}
    BY <2>1
  <2>3. {p \in quotes : p.id \notin {q.id}} = quotes \ {q}
    BY DEF IInv, TablesInv
  <2>4. issued \cup {q.id} = issued
    BY DEF IInv, TablesInv
  <2> QED
    BY <1>3, <2>1, <2>2, <2>3, <2>4 DEF WritesDeletion, Retires, Apply
<1> QED
  BY <1>1, <1>2, <1>3 DEF IInv, RequestInv, Writing

(* How the tables may change: no id comes back, no row changes its owner,  *)
(* no deletion is undone, and a row goes only with the account it hangs on.*)
Evolves ==
  /\ users' \subseteq users /\ issued \subseteq issued'
  /\ \A c \in children' : c \in children \/ c.id \notin issued
  /\ \A q \in quotes' :
       \/ q.id \notin issued
       \/ \E p \in quotes : p.id = q.id /\ p.child = q.child /\ (p.deleted => q.deleted)
  /\ \A c \in children : c \in children' \/ c.user \notin users'
  /\ \A q \in quotes :
       \/ \E p \in quotes' : p.id = q.id
       \/ \E c \in children : c.id = q.child /\ c.user \notin users'

LEMMA ApplyEvolves ==
  ASSUME IInv, NEW r \in Requests, pc[r] = "commit", Apply(r)
  PROVE  Evolves
<1>1. users' = users
  BY DEF Apply
<1>2. CASE AddsChild(r)
  BY <1>1, <1>2 DEF AddsChild, Evolves
<1>3. CASE AddsQuote(r)
  BY <1>1, <1>3 DEF AddsQuote, Evolves
<1>4. CASE Retires(r)
  <2>1. PICK q \in quotes :
          /\ quotes' = (quotes \ {q})
               \cup {[id |-> q.id, child |-> q.child, deleted |-> TRUE]}
          /\ issued' = issued /\ children' = children
    BY <1>4 DEF Retires
  <2> DEFINE row == [id |-> q.id, child |-> q.child, deleted |-> TRUE]
  <2>2. row.id = q.id /\ row.child = q.child /\ row.deleted
    OBVIOUS
  <2>3. quotes' = (quotes \ {q}) \cup {row}
    BY <2>1
  <2> HIDE DEF row
  <2> QED
    BY <1>1, <2>1, <2>2, <2>3 DEF Evolves
<1> QED
  BY <1>2, <1>3, <1>4, ApplyCases

LEMMA ApplyTables ==
  ASSUME IInv, NEW r \in Requests, pc[r] = "commit", Apply(r)
  PROVE  /\ TablesInv' /\ NoOrphans'
         /\ users' \subseteq Users /\ children' \subseteq ChildRows
         /\ quotes' \subseteq QuoteRows /\ issued' \subseteq Kids \cup Notes
         /\ by' \in Users \cup {None}
<1>1. users' = users /\ by' = who[r] /\ who[r] \in Users
  BY DEF Apply, IInv, RequestInv, ReadyToWrite
<1>2. CASE AddsChild(r)
  <2>1. PICK k \in Kids \ issued :
          /\ who[r] \in users
          /\ children' = children \cup {[id |-> k, user |-> who[r]]}
          /\ issued' = issued \cup {k} /\ quotes' = quotes
    BY <1>2 DEF AddsChild
  <2>2. [id |-> k, user |-> who[r]] \in ChildRows
    BY <1>1 DEF ChildRows
  <2>3. TablesInv'
    BY <2>1 DEF IInv, TablesInv
  <2>4. NoOrphans'
    BY <1>1, <2>1 DEF IInv, NoOrphans
  <2> QED
    BY <1>1, <2>1, <2>2, <2>3, <2>4 DEF IInv, TypeOK
<1>3. CASE AddsQuote(r)
  <2>1. PICK n \in Notes \ issued :
          /\ \E c \in children : c.id = target[r]
          /\ quotes' = quotes \cup {[id |-> n, child |-> target[r], deleted |-> FALSE]}
          /\ issued' = issued \cup {n} /\ children' = children
    BY <1>3 DEF AddsQuote
  <2> DEFINE row == [id |-> n, child |-> target[r], deleted |-> FALSE]
  <2>2. row \in QuoteRows
    BY <2>1 DEF ChildRows, QuoteRows, IInv, TypeOK
  <2>3. row.id = n /\ row.child = target[r] /\ quotes' = quotes \cup {row}
    BY <2>1
  <2> HIDE DEF row
  <2>4. TablesInv'
    BY <2>1, <2>3, FS_AddElement DEF IInv, TablesInv
  <2>5. NoOrphans'
    BY <1>1, <2>1, <2>3 DEF IInv, NoOrphans
  <2>6. issued' \subseteq Kids \cup Notes
    BY <2>1 DEF IInv, TypeOK
  <2> QED
    BY <1>1, <2>1, <2>2, <2>3, <2>4, <2>5, <2>6 DEF IInv, TypeOK
<1>4. CASE Retires(r)
  <2>1. PICK q \in quotes :
          /\ quotes' = (quotes \ {q})
               \cup {[id |-> q.id, child |-> q.child, deleted |-> TRUE]}
          /\ issued' = issued /\ children' = children
    BY <1>4 DEF Retires
  <2> DEFINE row == [id |-> q.id, child |-> q.child, deleted |-> TRUE]
  <2>2. row \in QuoteRows
    BY DEF QuoteRows, IInv, TypeOK
  <2>3. row.id = q.id /\ row.child = q.child /\ quotes' = (quotes \ {q}) \cup {row}
    BY <2>1
  <2> HIDE DEF row
  <2>4. IsFiniteSet(quotes')
    BY <2>3, FS_AddElement, FS_RemoveElement DEF IInv, TablesInv
  <2>5. TablesInv'
    BY <2>1, <2>3, <2>4 DEF IInv, TablesInv
  <2>6. NoOrphans'
    BY <1>1, <2>1, <2>3 DEF IInv, NoOrphans
  <2> QED
    BY <1>1, <2>1, <2>2, <2>3, <2>5, <2>6 DEF IInv, TypeOK
<1> QED
  BY <1>2, <1>3, <1>4, ApplyCases

LEMMA OwnKidStays ==
  ASSUME Evolves, NEW s, NEW k, OwnKid(s, k), who'[s] = who[s]
  PROVE  OwnKid(s, k)'
BY DEF Evolves, OwnKid

LEMMA OwnNoteStays ==
  ASSUME Evolves, NEW s, NEW n, OwnNote(s, n), who'[s] = who[s]
  PROVE  OwnNote(s, n)'
<1>1. n \in issued'
  BY DEF Evolves, OwnNote
<1>2. ASSUME NEW q \in quotes', q.id = n PROVE OwnKid(s, q.child)'
  <2>1. PICK p \in quotes : p.id = q.id /\ p.child = q.child
    BY <1>2 DEF Evolves, OwnNote
  <2>2. OwnKid(s, q.child)
    BY <1>2, <2>1 DEF OwnNote
  <2> QED
    BY <2>2, OwnKidStays
<1> QED
  BY <1>1, <1>2 DEF OwnNote

(* The other requests remain right about the rows they know of.            *)
LEMMA OwnIdStays ==
  ASSUME Evolves, NEW s, NEW i, OwnId(s, i), who'[s] = who[s]
  PROVE  OwnId(s, i)'
BY OwnKidStays, OwnNoteStays DEF OwnId

LEMMA StoredStays ==
  ASSUME IInv, Evolves, NEW s \in Requests, NEW i, OwnId(s, i), IsStored(i),
         who[s] \in users'
  PROVE  IsStored(i)'
<1>1. PICK row \in children \cup quotes : row.id = i
  BY DEF IsStored
<1>2. CASE row \in children
  <2>1. OwnKid(s, i)
    BY <1>1, <1>2, IdsAssumption DEF OwnId, IInv, TypeOK, ChildRows
  <2>2. row \in children'
    BY <1>1, <1>2, <2>1 DEF OwnKid, Evolves
  <2> QED
    BY <1>1, <2>2 DEF IsStored
<1>3. CASE row \in quotes
  <2>1. OwnNote(s, i)
    BY <1>1, <1>3, IdsAssumption DEF OwnId, IInv, TypeOK, QuoteRows
  <2>2. \A c \in children : c.id = row.child => c.user \in users'
    BY <1>1, <1>3, <2>1 DEF OwnNote, OwnKid
  <2>3. \E p \in quotes' : p.id = i
    BY <1>1, <1>3, <2>2 DEF Evolves
  <2> QED
    BY <2>3 DEF IsStored
<1> QED
  BY <1>1, <1>2, <1>3

LEMMA OthersRelyStill ==
  ASSUME IInv, Evolves, NEW s \in Requests, Waits(s)
  PROVE  ReadyToWrite(s)' /\ Reading(s)' /\ Answered(s)'
<1> USE DEF Waits
<1>1. ReadyToWrite(s) /\ Reading(s) /\ Answered(s)
  BY DEF IInv, RequestInv
<1>2. ReadyToWrite(s)'
  BY <1>1, OwnKidStays, OwnNoteStays DEF ReadyToWrite
<1>3. Reading(s)'
  BY <1>1, OwnIdStays DEF Reading
<1>4. \A row \in answer[s].rows : OwnRow(s, row)'
  BY <1>1, OwnKidStays DEF Answered, OwnRow
<1>5. answer[s].status = 201 => \A row \in answer[s].rows :
        OwnId(s, row.id)' /\ (who[s] \in users' => IsStored(row.id)')
  BY <1>1, OwnIdStays, StoredStays DEF Answered, Evolves
<1>6. answer[s].status = 204 =>
        target[s] \in issued' /\ \A q \in quotes' : q.id = target[s] => q.deleted
  BY <1>1 DEF Answered, Evolves
<1> QED
  BY <1>2, <1>3, <1>4, <1>5, <1>6 DEF Answered

(* Two listings differ in size by no more than they differ.                *)
LEMMA CardinalityGap ==
  ASSUME NEW A, NEW B, IsFiniteSet(A), IsFiniteSet(B)
  PROVE  /\ Cardinality(A) \in Nat /\ Cardinality(B) \in Nat
         /\ Cardinality(A \ B) \in Nat
         /\ Cardinality(A) - Cardinality(B) <= Cardinality(A \ B)
<1>1. IsFiniteSet(A \ B) /\ IsFiniteSet(A \cap B)
  BY FS_Subset
<1>2. (A \ B) \cup (A \cap B) = A /\ (A \ B) \cap (A \cap B) = {}
  OBVIOUS
<1>3. Cardinality(A) = Cardinality(A \ B) + Cardinality(A \cap B) - Cardinality({})
  BY <1>1, <1>2, FS_Union
<1>4. Cardinality(A \cap B) <= Cardinality(B)
  BY FS_Subset
<1>5. /\ Cardinality(A) \in Nat /\ Cardinality(B) \in Nat
      /\ Cardinality(A \ B) \in Nat /\ Cardinality(A \cap B) \in Nat
      /\ Cardinality({}) = 0
  BY <1>1, FS_CardinalityType, FS_EmptySet
<1> QED
  BY <1>3, <1>4, <1>5

LEMMA DriftStep ==
  ASSUME IInv, IsFiniteSet(quotes'), Drift
  PROVE  /\ drift' \in [Requests -> Nat]
         /\ \A s \in Requests : Waits(s) => Skewed(s)'
<1> DEFINE gap(s) == Cardinality(Listed(s) \ ListedNext(s))
           back(s) == Cardinality(ListedNext(s) \ Listed(s))
<1>1. ASSUME NEW s \in Requests
      PROVE  /\ Cardinality(Listed(s)) \in Nat /\ Cardinality(ListedNext(s)) \in Nat
             /\ gap(s) \in Nat /\ back(s) \in Nat
             /\ Cardinality(Listed(s)) - Cardinality(ListedNext(s)) <= gap(s)
             /\ Cardinality(ListedNext(s)) - Cardinality(Listed(s)) <= back(s)
  <2>1. IsFiniteSet(Listed(s))
    BY ListedIsFinite
  <2>2. ListedNext(s) \in SUBSET quotes'
    BY DEF ListedNext, VisibleNext
  <2>3. IsFiniteSet(ListedNext(s))
    BY <2>2, FS_Subset
  <2> QED
    BY <2>1, <2>3, CardinalityGap
<1>2. drift' = [s \in Requests |->
        IF pc[s] = "selectRows" THEN drift[s] + gap(s) + back(s) ELSE drift[s]]
  BY DEF Drift
<1> HIDE DEF gap, back
<1>3. \A s \in Requests : drift[s] \in Nat /\ total[s] \in Nat
  BY DEF IInv, TypeOK
<1>4. drift' \in [Requests -> Nat]
  BY <1>1, <1>2, <1>3
<1>5. ASSUME NEW s \in Requests, Waits(s) PROVE Skewed(s)'
  <2>1. pc[s] # "selectRows" => drift'[s] = drift[s]
    BY <1>2
  <2>2. ASSUME op[s] = "list_quotes", answer[s].status = 200
        PROVE  Close(total[s], Cardinality(answer[s].rows), drift'[s])
    BY <2>1, <2>2 DEF IInv, RequestInv, Skewed, ReadyToWrite, NoAnswer
  <2>3. ASSUME pc[s] = "selectRows"
        PROVE  Close(total[s], Cardinality(ListedNext(s)), drift'[s])
    <3>1. drift'[s] = drift[s] + gap(s) + back(s)
      BY <1>2, <2>3
    <3>2. Close(total[s], Cardinality(Listed(s)), drift[s])
      BY <2>3 DEF IInv, RequestInv, Skewed
    <3> QED
      BY <1>1, <1>3, <3>1, <3>2 DEF Close
  <2>4. Listed(s)' = ListedNext(s)
    BY <1>5 DEF Waits, Listed, ListedNext, Visible, VisibleNext, ChildrenOf
  <2>5. Cardinality(Listed(s))' = Cardinality(ListedNext(s))
    BY <2>4
  <2> QED
    BY <1>5, <2>2, <2>3, <2>5 DEF Waits, Skewed
<1> QED
  BY <1>4, <1>5

(* What an open transaction relies on is out of reach of another's COMMIT. *)
LEMMA OthersLocksHold ==
  ASSUME IInv, NEW r \in Requests, pc[r] = "commit", Apply(r),
         NEW s \in Requests \ {r}, Waits(s)
  PROVE  Writing(s)'
<1> SUFFICES ASSUME pc[s] = "commit"
             PROVE  (WritesChild(s) \/ WritesQuote(s) \/ WritesDeletion(s))'
  BY DEF Writing, Waits
<1>1. Evolves
  BY ApplyEvolves
<1>2. \A x \in write[r], y \in write[s] : x.id # y.id
  BY DEF IInv, LocksInv, Uncommitted
<1>3. issued' = issued \cup {x.id : x \in write[r]} /\ users' = users
  BY DEF Apply
<1>4. CASE WritesChild(s)
  <2>1. PICK k \in Kids \ issued : write[s] = {[id |-> k, user |-> who[s]]}
    BY <1>4 DEF WritesChild
  <2>2. k \notin issued'
    BY <1>2, <1>3, <2>1
  <2>3. WritesChild(s)'
    BY <1>3, <1>4, <2>1, <2>2 DEF WritesChild, Waits
  <2> QED
    BY <2>3
<1>5. CASE WritesQuote(s)
  <2>1. PICK n \in Notes \ issued :
          write[s] = {[id |-> n, child |-> target[s], deleted |-> FALSE]}
    BY <1>5 DEF WritesQuote
  <2>2. n \notin issued'
    BY <1>2, <1>3, <2>1
  <2>3. OwnKid(s, target[s])'
    BY <1>1, <1>5, OwnKidStays DEF WritesQuote, Waits
  <2>4. children \subseteq children'
    BY DEF Apply
  <2>5. WritesQuote(s)'
    BY <1>5, <2>1, <2>2, <2>3, <2>4 DEF WritesQuote, Waits, OwnKid
  <2> QED
    BY <2>5
<1>6. CASE WritesDeletion(s)
  <2>1. PICK q \in quotes :
          /\ q.id = target[s] /\ OwnKid(s, q.child)
          /\ write[s] = {[id |-> q.id, child |-> q.child, deleted |-> TRUE]}
    BY <1>6 DEF WritesDeletion
  <2>2. q.id \notin {x.id : x \in write[r]}
    BY <1>2, <2>1
  <2>3. q \in quotes'
    BY <2>2 DEF Apply
  <2>4. OwnKid(s, q.child)'
    BY <1>1, <2>1, OwnKidStays DEF Waits
  <2>5. WritesDeletion(s)'
    BY <1>6, <2>1, <2>3, <2>4 DEF WritesDeletion, Waits, OwnKid
  <2> QED
    BY <2>5
<1> QED
  BY <1>4, <1>5, <1>6 DEF IInv, RequestInv, Writing

(* What remains to be shown of a COMMIT: whoever sends it knows the row it *)
(* has stored, or answers truly.                                           *)
LEMMA ApplyStep ==
  ASSUME IInv, NEW r \in Requests, pc[r] = "commit", Apply(r),
         UNCHANGED <<input, total>>,
         pc' \in [Requests -> Statements \cup {"idle"}],
         write' \in [Requests -> SUBSET (ChildRows \cup QuoteRows)],
         answer' \in [Requests ->
           [status : {0, 200, 201, 204, 401, 404, 429, 500},
            rows : SUBSET (ChildRows \cup QuoteRows)]],
         errors' \in 0 .. MaxErrors,
         pc'[r] # "commit", RequestInv(r)',
         \A s \in Requests \ {r} : Waits(s)
  PROVE  IInv'
<1>1. TablesInv' /\ NoOrphans'
  BY ApplyTables
<1>2. Drift /\ IsFiniteSet(quotes')
  BY <1>1 DEF Apply, TablesInv
<1>3. TypeOK'
  BY <1>2, ApplyTables, DriftStep DEF IInv, TypeOK, input
<1>4. \A s \in Requests \ {r} : RequestInv(s)'
  BY <1>2, ApplyEvolves, OthersRelyStill, DriftStep, OthersLocksHold DEF RequestInv
<1>5. /\ Uncommitted(r)' = {}
      /\ \A s \in Requests \ {r} : Uncommitted(s)' = Uncommitted(s)
  BY DEF Uncommitted, Waits
<1>6. LocksInv'
  BY <1>5 DEF IInv, LocksInv
<1> QED
  BY <1>1, <1>3, <1>4, <1>6 DEF IInv

LEMMA CommitStep ==
  ASSUME IInv, NEW r \in Requests, Commit(r)
  PROVE  IInv'
<1>1. /\ pc[r] = "commit" /\ Apply(r) /\ UNCHANGED <<input, total, errors>>
      /\ errors' \in 0 .. MaxErrors /\ Evolves
  BY ApplyEvolves DEF Commit, IInv, TypeOK
<1>2. CASE op[r] = "delete_quote" /\ Answer(r, 204, {})
  <2>1. PICK q \in quotes :
          /\ q.id = target[r]
          /\ quotes' = (quotes \ {q})
               \cup {[id |-> q.id, child |-> q.child, deleted |-> TRUE]}
    BY <1>1, <1>2, ApplyCases DEF AddsChild, AddsQuote, Retires
  <2>2. \A p \in quotes' : p.id = target[r] => p.deleted
    BY <2>1 DEF IInv, TablesInv
  <2>3. target[r] \in issued'
    BY <1>1, <2>1 DEF IInv, TablesInv, Evolves
  <2>4. target'[r] = target[r] /\ op'[r] = op[r]
    BY <1>1 DEF input
  <2>5. answer'[r].status = 204 /\ answer'[r].rows = {}
    BY <1>1, <1>2, AnswerEnds DEF IInv
  <2>6. Answered(r)'
    BY <2>2, <2>3, <2>4, <2>5 DEF Answered
  <2>7. Skewed(r)'
    BY <1>2, <2>4, <2>5 DEF Skewed, Answer, IInv, TypeOK
  <2> QED
    <3>1. pc'[r] = "idle" /\ TypeOK
      BY <1>2 DEF Answer, IInv, TypeOK
    <3>2. RequestInv(r)'
      BY <1>1, <1>2, <2>6, <2>7, <3>1, AnswerEnds DEF RequestInv
    <3> QED
      BY <1>1, <1>2, <3>1, <3>2, AnswerEnds, ApplyStep
<1>3. CASE op[r] # "delete_quote" /\ Goto(r, "refresh") /\ UNCHANGED <<answer, write>>
  <2>1. pc'[r] = "refresh" /\ who'[r] = who[r]
    BY <1>1, <1>3 DEF IInv, TypeOK, Goto, input
  <2>2. ReadyToWrite(r)'
    BY <1>1, <1>3, <2>1 DEF ReadyToWrite, IInv, RequestInv
  <2>3. Answered(r)' /\ Skewed(r)'
    BY <1>1, <1>3, <2>1 DEF ReadyToWrite, IInv, RequestInv, Answered, Skewed, NoAnswer
  <2>4. \A row \in write[r] : OwnId(r, row.id)'
    <3>1. CASE AddsChild(r)
      <4>1. PICK k \in Kids \ issued :
              /\ write[r] = {[id |-> k, user |-> who[r]]}
              /\ children' = children \cup {[id |-> k, user |-> who[r]]}
              /\ issued' = issued \cup {k}
        BY <3>1 DEF AddsChild
      <4>2. OwnKid(r, k)'
        BY <2>1, <4>1 DEF OwnKid, IInv, TablesInv
      <4> QED
        BY <4>1, <4>2 DEF OwnId
    <3>2. CASE AddsQuote(r)
      <4>1. PICK n \in Notes \ issued :
              /\ OwnKid(r, target[r])
              /\ write[r] = {[id |-> n, child |-> target[r], deleted |-> FALSE]}
              /\ quotes' = quotes
                   \cup {[id |-> n, child |-> target[r], deleted |-> FALSE]}
              /\ issued' = issued \cup {n}
        BY <3>2 DEF AddsQuote
      <4>2. OwnKid(r, target[r])'
        BY <1>1, <2>1, <4>1, OwnKidStays DEF OwnKid, input
      <4>3. \A q \in quotes' : q.id = n => q.child = target[r]
        BY <4>1 DEF IInv, TablesInv
      <4>4. OwnNote(r, n)'
        BY <1>1, <4>1, <4>2, <4>3 DEF OwnNote, OwnKid, input
      <4> QED
        BY <4>1, <4>4 DEF OwnId
    <3> QED
      BY <1>1, <1>3, <3>1, <3>2, ApplyCases DEF Retires
  <2>5. Reading(r)'
    BY <1>3, <2>4 DEF Reading
  <2>6. RequestInv(r)'
    BY <2>1, <2>2, <2>3, <2>5 DEF RequestInv, Writing
  <2>7. /\ pc' \in [Requests -> Statements \cup {"idle"}]
        /\ \A s \in Requests \ {r} : Waits(s)
    BY <1>1, <1>3 DEF IInv, TypeOK, Goto, Statements, Waits, input
  <2>8. /\ write' \in [Requests -> SUBSET (ChildRows \cup QuoteRows)]
        /\ answer' \in [Requests ->
             [status : {0, 200, 201, 204, 401, 404, 429, 500},
              rows : SUBSET (ChildRows \cup QuoteRows)]]
    BY <1>3 DEF IInv, TypeOK
  <2> QED
    BY <1>1, <2>1, <2>6, <2>7, <2>8, ApplyStep
<1> QED
  BY <1>2, <1>3 DEF Commit

LEMMA FailStep ==
  ASSUME IInv, NEW r \in Requests, Fail(r)
  PROVE  IInv'
<1>1. Answer(r, 500, {}) /\ UNCHANGED <<input, total>> /\ errors' \in 0 .. MaxErrors
  BY ErrorsAssumption DEF Fail, IInv, TypeOK
<1>2. CASE UNCHANGED <<tables, drift>>
  BY <1>1, <1>2, EmptyAnswerStep
<1>3. CASE pc[r] = "commit" /\ Apply(r)
  <2>1. answer'[r].status = 500 /\ answer'[r].rows = {} /\ pc'[r] = "idle"
    BY <1>1, AnswerEnds DEF IInv, TypeOK, Answer
  <2>2. Answered(r)' /\ Skewed(r)'
    BY <2>1 DEF Answered, Skewed
  <2>3. RequestInv(r)'
    BY <1>1, <2>2, AnswerEnds DEF RequestInv, IInv
  <2> QED
    BY <1>1, <1>3, <2>1, <2>3, AnswerEnds, ApplyStep DEF IInv
<1> QED
  BY <1>2, <1>3 DEF Fail

(* An account takes its rows with it, once no transaction holds any.       *)
LEMMA DeleteUserStep ==
  ASSUME IInv, NEW u \in Users, DeleteUser(u)
  PROVE  IInv'
<1>1. Evolves
  BY DEF DeleteUser, Evolves, ChildrenOf
<1>2. \A s \in Requests : Waits(s)
  BY DEF DeleteUser, Waits, input
<1>3. quotes' \in SUBSET quotes
  BY DEF DeleteUser
<1>4. IsFiniteSet(quotes')
  BY <1>3, FS_Subset DEF IInv, TablesInv
<1>5. TablesInv'
  BY <1>4 DEF IInv, TablesInv, DeleteUser
<1>6. NoOrphans'
  BY DEF IInv, NoOrphans, DeleteUser, ChildrenOf
<1>7. TypeOK'
  BY <1>4, DriftStep DEF IInv, TypeOK, DeleteUser, input
<1>8. LocksInv'
  BY DEF IInv, LocksInv, Uncommitted, DeleteUser
<1>9. ASSUME NEW s \in Requests PROVE Writing(s)'
  <2> SUFFICES ASSUME pc[s] = "commit"
               PROVE  (WritesChild(s) \/ WritesQuote(s) \/ WritesDeletion(s))'
    BY <1>2 DEF Writing, Waits
  <2>1. ~ Holds(s, u) /\ Uncommitted(s) = write[s]
    BY DEF DeleteUser, Uncommitted
  <2>2. /\ users' = users \ {u} /\ children' = children \ ChildrenOf(u)
        /\ issued' = issued
    BY DEF DeleteUser
  <2>3. CASE WritesChild(s)
    <3>1. PICK k \in Kids \ issued : write[s] = {[id |-> k, user |-> who[s]]}
      BY <2>3 DEF WritesChild
    <3>2. who[s] # u
      BY <2>1, <2>3, <3>1 DEF Holds, WritesChild
    <3> QED
      BY <1>2, <2>2, <2>3, <3>1, <3>2 DEF WritesChild, Waits
  <2>4. CASE WritesQuote(s)
    <3>1. PICK n \in Notes \ issued :
            write[s] = {[id |-> n, child |-> target[s], deleted |-> FALSE]}
      BY <2>4 DEF WritesQuote
    <3>2. PICK c \in children : c.id = target[s]
      BY <2>4 DEF WritesQuote
    <3>3. c \notin ChildrenOf(u)
      BY <2>1, <2>4, <3>1, <3>2 DEF Holds, WritesQuote
    <3>4. OwnKid(s, target[s])'
      BY <1>1, <1>2, <2>4, OwnKidStays DEF WritesQuote, Waits
    <3> QED
      BY <1>2, <2>2, <2>4, <3>1, <3>2, <3>3, <3>4 DEF WritesQuote, Waits, OwnKid
  <2>5. CASE WritesDeletion(s)
    <3>1. PICK q \in quotes :
            /\ q.id = target[s] /\ OwnKid(s, q.child)
            /\ write[s] = {[id |-> q.id, child |-> q.child, deleted |-> TRUE]}
      BY <2>5 DEF WritesDeletion
    <3>2. \A c \in ChildrenOf(u) : c.id # q.child
      <4> DEFINE row == [id |-> q.id, child |-> q.child, deleted |-> TRUE]
      <4>1. row \in Uncommitted(s) /\ row.child = q.child
        BY <2>1, <3>1
      <4>2. op[s] # "create_child"
        BY <2>5 DEF WritesDeletion
      <4> HIDE DEF row
      <4> QED
        BY <2>1, <4>1, <4>2 DEF Holds
    <3>3. q \in quotes'
      BY <3>2 DEF DeleteUser
    <3>4. OwnKid(s, q.child)'
      BY <1>1, <1>2, <3>1, OwnKidStays DEF Waits
    <3> QED
      BY <1>2, <2>5, <3>1, <3>3, <3>4 DEF WritesDeletion, Waits, OwnKid
  <2> QED
    BY <2>3, <2>4, <2>5 DEF IInv, RequestInv, Writing
<1>10. \A s \in Requests : RequestInv(s)'
  BY <1>1, <1>2, <1>4, <1>9, OthersRelyStill, DriftStep DEF RequestInv, DeleteUser
<1> QED
  BY <1>5, <1>6, <1>7, <1>8, <1>10 DEF IInv

LEMMA IInvStep == IInv /\ [Next]_vars => IInv'
<1> SUFFICES ASSUME IInv, [Next]_vars PROVE IInv'
  OBVIOUS
<1>1. CASE UNCHANGED vars
  <2>1. \A s \in Requests : Waits(s) /\ drift'[s] = drift[s]
    BY <1>1 DEF vars, input, Waits
  <2>2. \A s \in Requests : RequestInv(s)'
    BY <1>1, <2>1, OthersWait DEF IInv, vars, tables
  <2> QED
    BY <1>1, <2>2
       DEF vars, tables, input, IInv, TypeOK, TablesInv, NoOrphans, LocksInv,
           Uncommitted
<1>2. ASSUME NEW r \in Requests, Step(r) PROVE IInv'
  BY <1>2, AuthenticateStep, ThrottleStep, SelectChildStep, SelectQuoteStep,
     CountQuotesStep, SelectRowsStep, InsertChildStep, InsertQuoteStep,
     UpdateQuoteStep, CommitStep, RefreshStep DEF Step
<1> QED
  BY <1>1, <1>2, ArriveStep, FailStep, DeleteUserStep DEF Next

(* ---- What holds in every state ---------------------------------------- *)

LEMMA IInvInvariant == Spec => []IInv
BY IInvInit, IInvStep, PTL DEF Spec

THEOREM TypeCorrect == Spec => []TypeOK
<1>1. IInv => TypeOK
  BY DEF IInv
<1> QED
  BY <1>1, IInvInvariant, PTL

(* Through every race of an insert with the removal of its account, quotes *)
(* keep their child and children their user.                               *)
THEOREM NothingIsOrphaned == Spec => []NoOrphans
<1>1. IInv => NoOrphans
  BY DEF IInv
<1> QED
  BY <1>1, IInvInvariant, PTL

(* What a 201 returned stays stored as long as the account does.           *)
THEOREM CreationsAreDurable == Spec => []CreatedIsStored
<1>1. IInv => CreatedIsStored
  BY DEF IInv, RequestInv, Answered, CreatedIsStored, IsStored
<1> QED
  BY <1>1, IInvInvariant, PTL

(* What a 204 confirmed is never seen again.                               *)
THEOREM DeletionsAreFinal == Spec => []DeletedIsGone
<1>1. IInv => DeletedIsGone
  BY DEF IInv, RequestInv, Answered, DeletedIsGone, Visible
<1> QED
  BY <1>1, IInvInvariant, PTL

(* No answer shows a row of another account, nor is one stored there.      *)
THEOREM AnswersShowOwnRows == Spec => []OwnRowsOnly
<1>1. ASSUME IInv, NEW r \in Requests, NEW row \in answer[r].rows
      PROVE  IF row \in ChildRows
               THEN row.user = who[r]
               ELSE \A c \in children : c.id = row.child => c.user = who[r]
  <2>1. OwnRow(r, row)
    BY <1>1 DEF IInv, RequestInv, Answered
  <2>2. row \in QuoteRows => row \notin ChildRows
    BY IdsAssumption DEF ChildRows, QuoteRows
  <2> QED
    BY <2>1, <2>2 DEF OwnRow, OwnKid
<1>2. IInv => OwnRowsOnly
  BY <1>1 DEF OwnRowsOnly
<1> QED
  BY <1>2, IInvInvariant, PTL

(* `total` is off by no more than came or went before the rows were read.  *)
THEOREM ListsAreNearlyRight == Spec => []ListSkewBounded
<1>1. IInv => ListSkewBounded
  BY DEF IInv, RequestInv, Skewed, Close, ListSkewBounded
<1> QED
  BY <1>1, IInvInvariant, PTL

(* ---- The handlers implement Jar --------------------------------------- *)

(* Jar's quotes: what can be seen of this module's.                        *)
Shown ==
  {[id |-> q.id, child |-> q.child] : q \in {x \in quotes : ~ x.deleted}}

LEMMA InitRefines == Init => J!Init
BY DEF Init, J!Init

LEMMA AddsChildRefines ==
  ASSUME IInv, NEW r \in Requests, NEW u \in Users, u = who[r],
         AddsChild(r), users' = users, by' = u
  PROVE  J!AddChild(u)
<1>1. PICK k \in Kids \ issued :
        /\ who[r] \in users
        /\ children' = children \cup {[id |-> k, user |-> who[r]]}
        /\ issued' = issued \cup {k} /\ quotes' = quotes
  BY DEF AddsChild
<1>2. Shown' = Shown
  BY <1>1 DEF Shown
<1> QED
  BY <1>1, <1>2 DEF J!AddChild, Shown

LEMMA AddsQuoteRefines ==
  ASSUME IInv, NEW r \in Requests, NEW u \in Users, u = who[r],
         AddsQuote(r), users' = users, by' = u
  PROVE  J!AddQuote(u)
<1>1. PICK n \in Notes \ issued :
        /\ quotes' = quotes \cup {[id |-> n, child |-> target[r], deleted |-> FALSE]}
        /\ issued' = issued \cup {n} /\ children' = children
  BY DEF AddsQuote
<1>2. PICK c \in children : c.id = target[r] /\ c.user = who[r]
  BY DEF AddsQuote, OwnKid
<1> DEFINE row == [id |-> n, child |-> target[r], deleted |-> FALSE]
<1>3. row.id = n /\ row.child = target[r] /\ ~ row.deleted
      /\ quotes' = quotes \cup {row}
  BY <1>1
<1> HIDE DEF row
<1>4. Shown' = Shown \cup {[id |-> n, child |-> c.id]}
  BY <1>2, <1>3 DEF Shown
<1>5. c \in J!ChildrenOf(u)
  BY <1>2 DEF J!ChildrenOf
<1> QED
  BY <1>1, <1>4, <1>5 DEF J!AddQuote, Shown

LEMMA RetiresRefines ==
  ASSUME IInv, NEW r \in Requests, NEW u \in Users, u = who[r],
         Retires(r), users' = users, by' = u
  PROVE  J!RetireQuote(u) \/ J!RetireAgain(u)
<1>1. PICK q \in quotes :
        /\ OwnKid(r, q.child)
        /\ quotes' = (quotes \ {q})
             \cup {[id |-> q.id, child |-> q.child, deleted |-> TRUE]}
        /\ UNCHANGED <<children, issued>>
  BY DEF Retires
<1> DEFINE row == [id |-> q.id, child |-> q.child, deleted |-> TRUE]
<1>2. row.deleted /\ quotes' = (quotes \ {q}) \cup {row}
  BY <1>1
<1> HIDE DEF row
<1>3. PICK c \in children : c.id = q.child /\ c.user = who[r] /\ c.user \in users
  BY <1>1 DEF IInv, NoOrphans, OwnKid
<1>4. CASE q.deleted
  <2>1. Shown' = Shown
    BY <1>2, <1>4 DEF Shown
  <2> QED
    BY <1>1, <1>3, <2>1 DEF J!RetireAgain, Shown
<1>5. CASE ~ q.deleted
  <2> DEFINE seen == [id |-> q.id, child |-> q.child]
  <2>1. seen \in Shown /\ seen.id = q.id /\ seen.child = q.child
    BY <1>5 DEF Shown
  <2>2. \A p \in quotes : p # q => [id |-> p.id, child |-> p.child] # seen
    BY DEF IInv, TablesInv
  <2>3. Shown' = Shown \ {seen}
    BY <1>2, <2>2 DEF Shown
  <2> HIDE DEF seen
  <2>4. seen \in J!QuotesOf(u)
    BY <1>3, <2>1 DEF J!QuotesOf, J!ChildrenOf, Shown
  <2> QED
    BY <1>1, <2>3, <2>4 DEF J!RetireQuote, Shown
<1> QED
  BY <1>4, <1>5

LEMMA ApplyRefines ==
  ASSUME IInv, NEW r \in Requests, pc[r] = "commit", Apply(r)
  PROVE  J!Next
<1>1. users' = users /\ by' = who[r] /\ who[r] \in Users
  BY DEF Apply, IInv, RequestInv, ReadyToWrite
<1>2. PICK u \in Users : u = who[r]
  BY <1>1
<1>3. users' = users /\ by' = u
  BY <1>1, <1>2
<1>4. ASSUME AddsChild(r) PROVE J!AddChild(u)
  BY <1>2, <1>3, <1>4, AddsChildRefines
<1>5. ASSUME AddsQuote(r) PROVE J!AddQuote(u)
  BY <1>2, <1>3, <1>5, AddsQuoteRefines
<1>6. ASSUME Retires(r) PROVE J!RetireQuote(u) \/ J!RetireAgain(u)
  BY <1>2, <1>3, <1>6, RetiresRefines
<1>7. J!AddChild(u) \/ J!AddQuote(u) \/ J!RetireQuote(u) \/ J!RetireAgain(u)
  BY <1>4, <1>5, <1>6, ApplyCases
<1> QED
  BY <1>7 DEF J!Next

LEMMA DeleteUserRefines ==
  ASSUME IInv, NEW u \in Users, DeleteUser(u)
  PROVE  J!RemoveUser(u)
<1> DEFINE lost(k) == \E c \in ChildrenOf(u) : c.id = k
<1>1. quotes' = {q \in quotes : ~ lost(q.child)}
  BY DEF DeleteUser
<1>2. J!QuotesOf(u) = {q \in Shown : lost(q.child)}
  BY DEF J!QuotesOf, J!ChildrenOf, ChildrenOf, Shown
<1> HIDE DEF lost
<1>3. Shown' = Shown \ J!QuotesOf(u)
  BY <1>1, <1>2 DEF Shown
<1> QED
  BY <1>3 DEF J!RemoveUser, DeleteUser, J!ChildrenOf, ChildrenOf, Shown

(* Every step is one of Jar's or changes nothing that Jar knows of.        *)
LEMMA StepRefines == IInv /\ [Next]_vars => [J!Next]_J!vars
<1> SUFFICES ASSUME IInv, [Next]_vars PROVE J!Next \/ UNCHANGED J!vars
  OBVIOUS
<1>1. UNCHANGED tables => UNCHANGED J!vars
  BY DEF tables, J!vars
<1>2. ASSUME NEW r \in Requests, Step(r) PROVE J!Next \/ UNCHANGED tables
  <2>1. CASE Commit(r)
    BY <2>1, ApplyRefines DEF Commit
  <2> QED
    BY <1>2, <2>1 DEF Step, Authenticate, Throttle, SelectChild, SelectQuote,
       CountQuotes, SelectRows, InsertChild, InsertQuote, UpdateQuote, Refresh
<1>3. ASSUME NEW r \in Requests, Fail(r) PROVE J!Next \/ UNCHANGED tables
  BY <1>3, ApplyRefines DEF Fail
<1>4. ASSUME NEW r \in Requests, NEW o \in Endpoints, NEW u \in Users,
             NEW x \in TargetsOf(o), Arrive(r, o, u, x)
      PROVE  UNCHANGED tables
  BY <1>4 DEF Arrive
<1>5. ASSUME NEW u \in Users, DeleteUser(u) PROVE J!Next
  BY <1>5, DeleteUserRefines DEF J!Next
<1>6. CASE UNCHANGED vars
  BY <1>1, <1>6 DEF vars, tables
<1> QED
  BY <1>1, <1>2, <1>3, <1>4, <1>5, <1>6 DEF Next

(* The statements of the handlers, interleaved, interrupted and failing as *)
(* they may be, do nothing that the endpoints of Jar would not do at once. *)
THEOREM HandlersImplementJar == Spec => ImplementsJar
BY InitRefines, StepRefines, IInvInvariant, PTL DEF Spec, ImplementsJar, J!Spec

=============================================================================
