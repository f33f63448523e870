------------------------------- MODULE Quotes --------------------------------
(***************************************************************************)
(* The children and quotes endpoints (app/routers/children.py, quotes.py)  *)
(* as concurrent requests over one PostgreSQL database at READ COMMITTED.  *)
(*                                                                         *)
(* A request is a sequence of statements.  Each statement sees what is     *)
(* committed when it runs; what an uncommitted transaction has written is  *)
(* in `write` and visible to nobody else, but holds the row locks of       *)
(* PostgreSQL (a foreign key locks the row it names, an UPDATE its row).   *)
(* Accounts disappear by hand: no endpoint deletes one, and the schema     *)
(* cascades (ON DELETE CASCADE).                                           *)
(***************************************************************************)
EXTENDS Integers, FiniteSets

CONSTANTS
  Users,     \* accounts, each with a valid token
  Kids,      \* ids of children
  Notes,     \* ids of quotes
  Requests,  \* requests being served at once
  None,      \* no user, no id
  MaxErrors  \* bound: database errors and kills

ASSUME IdsAssumption ==
  Kids \cap Notes = {} /\ None \notin Users \cup Kids \cup Notes
ASSUME ErrorsAssumption == MaxErrors \in Nat

VARIABLES
  users, children, quotes,  \* the committed tables
  issued,  \* ids that gen_random_uuid() has produced in committed rows
  by,      \* on whose behalf the tables last changed (for Jar)
  pc,      \* the next statement of each request
  op,      \* the endpoint it called
  who,     \* the user its token names
  target,  \* the id in its path, body or query string
  write,   \* the row its open transaction has written, if any
  total,   \* what SELECT count(*) returned
  drift,   \* rows that entered or left the listing since then
  answer,  \* the response
  errors   \* errors so far

tables == <<users, children, quotes, issued, by>>
input == <<op, who, target>>
vars == <<tables, pc, input, write, total, drift, answer, errors>>

Endpoints ==
  {"create_quote", "list_quotes", "get_quote", "delete_quote",
   "create_child", "list_children", "get_child"}
Statements ==
  {"authenticate", "selectChild", "selectQuote", "countQuotes", "selectRows",
   "insertChild", "insertQuote", "updateQuote", "commit", "refresh"}
NoAnswer == [status |-> 0, rows |-> {}]

(* The ids a request can carry: any, whoever they belong to.               *)
TargetsOf(o) ==
  CASE o \in {"create_quote", "get_child"} -> Kids
    [] o \in {"get_quote", "delete_quote"} -> Notes
    [] o = "list_quotes" -> Kids \cup {None}
    [] OTHER -> {None}

ChildRows == [id : Kids, user : Users]
QuoteRows == [id : Notes, child : Kids, deleted : BOOLEAN]

-----------------------------------------------------------------------------
(* Queries.                                                                *)

ChildrenOf(u) == {c \in children : c.user = u}

(* A mistake the runs must notice: a query without the owner predicate.    *)
AnyChild(r) ==
  {c \in children : op[r] = "list_children" \/ c.id = target[r]}

(* The children a request selects, always through their owner.             *)
OwnChild(r) ==
  {c \in ChildrenOf(who[r]) : op[r] = "list_children" \/ c.id = target[r]}

(* _visible_quotes: joined through children, not soft-deleted.             *)
Visible(u) ==
  {q \in quotes : ~ q.deleted /\ \E c \in ChildrenOf(u) : c.id = q.child}

(* What list_quotes lists: the child_id filter narrows, it never widens.    *)
Listed(r) ==
  {q \in Visible(who[r]) : target[r] \in {None, q.child}}

(* The two with the tables of the next state.                              *)
VisibleNext(u) ==
  {q \in quotes' : ~ q.deleted
     /\ \E c \in children' : c.user = u /\ c.id = q.child}

ListedNext(r) ==
  {q \in VisibleNext(who[r]) : target[r] \in {None, q.child}}

(* Answer a request; its transaction, if any, is over.                     *)
Answer(r, status, rows) ==
  /\ pc' = [pc EXCEPT ![r] = "idle"]
  /\ answer' = [answer EXCEPT ![r] = [status |-> status, rows |-> rows]]
  /\ write' = [write EXCEPT ![r] = {}]

(* What the open transaction of a request has written and so holds locked. *)
Uncommitted(r) == IF pc[r] = "commit" THEN write[r] ELSE {}

Locked(id) == \E r \in Requests : \E row \in Uncommitted(r) : row.id = id

Goto(r, statement) == pc' = [pc EXCEPT ![r] = statement]

(* Every request that has counted and not yet selected sees the difference.*)
Drift ==
  drift' = [r \in Requests |->
    IF pc[r] = "selectRows"
      THEN drift[r]
           + Cardinality(Listed(r) \ ListedNext(r))
           + Cardinality(ListedNext(r) \ Listed(r))
      ELSE drift[r]]

-----------------------------------------------------------------------------
Init ==
  /\ users = Users
  /\ children = {}
  /\ quotes = {}
  /\ issued = {}
  /\ by = None
  /\ pc = [r \in Requests |-> "idle"]
  /\ op = [r \in Requests |-> "list_quotes"]
  /\ who = [r \in Requests |-> None]
  /\ target = [r \in Requests |-> None]
  /\ write = [r \in Requests |-> {}]
  /\ total = [r \in Requests |-> 0]
  /\ drift = [r \in Requests |-> 0]
  /\ answer = [r \in Requests |-> NoAnswer]
  /\ errors = 0

(* Bound: an id is left for every create that has not committed yet.       *)
IdsLeft(o) ==
  LET ids == CASE o = "create_child" -> Kids
               [] o = "create_quote" -> Notes
      creating == {r \in Requests : op[r] = o /\ pc[r] \notin {"idle", "refresh"}}
  IN  Cardinality(creating) < Cardinality(ids \ issued)

(* A request arrives with a token that decodes and ids of its own choice.  *)
Arrive(r, o, u, x) ==
  /\ pc[r] = "idle"
  /\ o \in {"create_child", "create_quote"} => IdsLeft(o)
  /\ Goto(r, "authenticate")
  /\ op' = [op EXCEPT ![r] = o]
  /\ who' = [who EXCEPT ![r] = u]
  /\ target' = [target EXCEPT ![r] = x]
  /\ total' = [total EXCEPT ![r] = 0]
  /\ drift' = [drift EXCEPT ![r] = 0]
  /\ answer' = [answer EXCEPT ![r] = NoAnswer]
  /\ UNCHANGED <<tables, write, errors>>

(* get_current_user: the account is looked up on every request.            *)
Authenticate(r) ==
  /\ pc[r] = "authenticate"
  /\ IF who[r] \notin users
       THEN Answer(r, 401, {})
       ELSE /\ Goto(r, CASE op[r] \in {"create_quote", "get_child", "list_children"}
                              -> "selectChild"
                         [] op[r] \in {"get_quote", "delete_quote"} -> "selectQuote"
                         [] op[r] = "list_quotes" -> "countQuotes"
                         [] op[r] = "create_child" -> "insertChild")
            /\ UNCHANGED <<answer, write>>
  /\ UNCHANGED <<tables, input, total, drift, errors>>

(* enforce_user_limit: the account exists but is over its quota.  Which    *)
(* requests those are is RateLimiter's subject.                            *)
Throttle(r) ==
  /\ pc[r] = "authenticate"
  /\ who[r] \in users
  /\ Answer(r, 429, {})
  /\ UNCHANGED <<tables, input, total, drift, errors>>

(* create_quote, get_child and list_children read the caller's children.   *)
SelectChild(r) ==
  LET found == OwnChild(r) IN
  /\ pc[r] = "selectChild"
  /\ \/ op[r] = "list_children" /\ Answer(r, 200, found)
     \/ op[r] # "list_children" /\ found = {} /\ Answer(r, 404, {})
     \/ op[r] = "get_child" /\ found # {} /\ Answer(r, 200, found)
     \/ /\ op[r] = "create_quote" /\ found # {}
        /\ Goto(r, "insertQuote")
        /\ UNCHANGED <<answer, write>>
  /\ UNCHANGED <<tables, input, total, drift, errors>>

(* get_quote and delete_quote read one visible quote.                      *)
SelectQuote(r) ==
  LET found == {q \in Visible(who[r]) : q.id = target[r]}
  IN
  /\ pc[r] = "selectQuote"
  /\ \/ found = {} /\ Answer(r, 404, {})
     \/ found # {} /\ op[r] = "get_quote" /\ Answer(r, 200, found)
     \/ /\ found # {} /\ op[r] = "delete_quote"
        /\ Goto(r, "updateQuote")
        /\ UNCHANGED <<answer, write>>
  /\ UNCHANGED <<tables, input, total, drift, errors>>

(* A mistake the runs must notice: a count without the filter of the rows. *)
CountUnfiltered(r) ==
  /\ pc[r] = "countQuotes"
  /\ total' = [total EXCEPT ![r] = Cardinality(Visible(who[r]))]
  /\ Goto(r, "selectRows")
  /\ UNCHANGED <<tables, input, write, drift, answer, errors>>

(* list_quotes counts in one statement ...                                 *)
CountQuotes(r) ==
  /\ pc[r] = "countQuotes"
  /\ total' = [total EXCEPT ![r] = Cardinality(Listed(r))]
  /\ Goto(r, "selectRows")
  /\ UNCHANGED <<tables, input, write, drift, answer, errors>>

(* ... and selects the rows in the next (the pages are Paging's subject).  *)
SelectRows(r) ==
  /\ pc[r] = "selectRows"
  /\ Answer(r, 200, Listed(r))
  /\ UNCHANGED <<tables, input, total, drift, errors>>

(* A mistake the runs must notice: user_id taken from the request.         *)
InsertChildForTarget(r) ==
  /\ pc[r] = "insertChild"
  /\ \E k \in Kids \ issued :
       ~ Locked(k) /\ write' = [write EXCEPT ![r] = {[id |-> k, user |-> target[r]]}]
  /\ Goto(r, "commit")
  /\ UNCHANGED <<tables, input, total, drift, answer, errors>>

(* INSERT INTO children: the foreign key wants the user to exist, and      *)
(* locks it.                                                               *)
InsertChild(r) ==
  /\ pc[r] = "insertChild"
  /\ \/ who[r] \notin users /\ Answer(r, 500, {})
     \/ /\ who[r] \in users
        /\ \E k \in Kids \ issued :
             ~ Locked(k) /\ write' = [write EXCEPT ![r] = {[id |-> k, user |-> who[r]]}]
        /\ Goto(r, "commit")
        /\ UNCHANGED answer
  /\ UNCHANGED <<tables, input, total, drift, errors>>

(* INSERT INTO quotes: the foreign key wants the child to exist still, and *)
(* locks it.  The IntegrityError of a child that has gone is not caught.   *)
InsertQuote(r) ==
  /\ pc[r] = "insertQuote"
  /\ \/ (\A c \in children : c.id # target[r]) /\ Answer(r, 500, {})
     \/ /\ \E c \in children : c.id = target[r]
        /\ \E n \in Notes \ issued :
             /\ ~ Locked(n)
             /\ write' = [write EXCEPT ![r] =
                  {[id |-> n, child |-> target[r], deleted |-> FALSE]}]
        /\ Goto(r, "commit")
        /\ UNCHANGED answer
  /\ UNCHANGED <<tables, input, total, drift, errors>>

(* Mistakes the runs must notice: answering a delete without a commit, and *)
(* waiting for a row that has gone.                                        *)
UpdateQuoteUncommitted(r) ==
  /\ pc[r] = "updateQuote"
  /\ Answer(r, 204, {})
  /\ UNCHANGED <<tables, input, total, drift, errors>>

UpdateQuoteOrWait(r) ==
  /\ pc[r] = "updateQuote"
  /\ ~ Locked(target[r])
  /\ \E q \in quotes :
       /\ q.id = target[r]
       /\ write' = [write EXCEPT ![r] = {[q EXCEPT !.deleted = TRUE]}]
  /\ Goto(r, "commit")
  /\ UNCHANGED <<tables, input, total, drift, answer, errors>>

(* UPDATE quotes SET deleted_at WHERE id: waits for whoever holds the row, *)
(* and fails (StaleDataError) if the row has gone.                         *)
UpdateQuote(r) ==
  /\ pc[r] = "updateQuote"
  /\ \/ (\A q \in quotes : q.id # target[r]) /\ Answer(r, 500, {})
     \/ /\ ~ Locked(target[r])
        /\ \E q \in quotes :
             /\ q.id = target[r]
             /\ write' = [write EXCEPT ![r] = {[q EXCEPT !.deleted = TRUE]}]
        /\ Goto(r, "commit")
        /\ UNCHANGED answer
  /\ UNCHANGED <<tables, input, total, drift, errors>>

(* What COMMIT does to the tables: each row replaces the one with its id.  *)
Apply(r) ==
  LET ids == {row.id : row \in write[r]}
  IN
  /\ IF op[r] = "create_child"
       THEN /\ children' = children \cup write[r]
            /\ UNCHANGED quotes
       ELSE /\ quotes' = {q \in quotes : q.id \notin ids} \cup write[r]
            /\ UNCHANGED children
  /\ issued' = issued \cup ids
  /\ by' = who[r]
  /\ Drift
  /\ UNCHANGED users

(* A mistake the runs must notice: answering without a commit, so that     *)
(* closing the session rolls the write back.                               *)
CommitForgotten(r) ==
  /\ pc[r] = "commit"
  /\ IF op[r] = "delete_quote" THEN Answer(r, 204, {}) ELSE Answer(r, 201, write[r])
  /\ UNCHANGED <<tables, input, total, drift, errors>>

(* COMMIT.  A delete is answered at once, a create reads its row back.     *)
Commit(r) ==
  /\ pc[r] = "commit"
  /\ Apply(r)
  /\ \/ op[r] = "delete_quote" /\ Answer(r, 204, {})
     \/ /\ op[r] # "delete_quote"
        /\ Goto(r, "refresh")
        /\ UNCHANGED <<answer, write>>
  /\ UNCHANGED <<input, total, errors>>

(* db.refresh: SELECT by id, which raises if the row has gone already.     *)
Refresh(r) ==
  /\ pc[r] = "refresh"
  /\ LET ids == {row.id : row \in write[r]}
         now == {row \in children \cup quotes : row.id \in ids}
     IN  IF now # {} THEN Answer(r, 201, now) ELSE Answer(r, 500, {})
  /\ UNCHANGED <<tables, input, total, drift, errors>>

(* The database drops the connection or Lambda kills the request: rolled   *)
(* back, unless the COMMIT had got through (the second disjunct).          *)
Fail(r) ==
  /\ pc[r] # "idle"
  /\ errors < MaxErrors
  /\ errors' = errors + 1
  /\ Answer(r, 500, {})
  /\ \/ UNCHANGED <<tables, drift>>
     \/ pc[r] = "commit" /\ Apply(r)
  /\ UNCHANGED <<input, total>>

(* A mistake the runs must notice: foreign keys that lock nothing.         *)
HoldsNothing(r, u) == FALSE

(* The open transaction of a request has locked a row of this account.     *)
Holds(r, u) ==
  \E row \in Uncommitted(r) :
    IF op[r] = "create_child"
      THEN row.user = u
      ELSE \E c \in ChildrenOf(u) : c.id = row.child

(* DELETE FROM users, cascading to children and quotes.  It waits for the  *)
(* transactions that hold a row it would delete.                           *)
DeleteUser(u) ==
  LET gone == {q \in quotes : \E c \in ChildrenOf(u) : c.id = q.child}
  IN
  /\ u \in users
  /\ \A r \in Requests : ~ Holds(r, u)
  /\ users' = users \ {u}
  /\ children' = children \ ChildrenOf(u)
  /\ quotes' = quotes \ gone
  /\ by' = u
  /\ Drift
  /\ UNCHANGED <<issued, pc, input, write, total, answer, errors>>

Step(r) ==
  \/ Authenticate(r)
  \/ Throttle(r)
  \/ SelectChild(r)
  \/ SelectQuote(r)
  \/ CountQuotes(r)
  \/ SelectRows(r)
  \/ InsertChild(r)
  \/ InsertQuote(r)
  \/ UpdateQuote(r)
  \/ Commit(r)
  \/ Refresh(r)

Next ==
  \/ \E r \in Requests :
       \/ \E o \in Endpoints, u \in Users : \E x \in TargetsOf(o) :
            Arrive(r, o, u, x)
       \/ Step(r)
       \/ Fail(r)
  \/ \E u \in Users : DeleteUser(u)

Spec == Init /\ [][Next]_vars

(* A request that is being served keeps running; clients need not call, the*)
(* database need not fail and nobody has to remove an account.             *)
FairSpec == Spec /\ \A r \in Requests : WF_vars(Step(r))

-----------------------------------------------------------------------------
(* Properties.                                                             *)

TypeOK ==
  /\ users \subseteq Users
  /\ children \subseteq ChildRows
  /\ quotes \subseteq QuoteRows
  /\ issued \subseteq Kids \cup Notes
  /\ by \in Users \cup {None}
  /\ pc \in [Requests -> Statements \cup {"idle"}]
  /\ op \in [Requests -> Endpoints]
  /\ who \in [Requests -> Users \cup {None}]
  /\ target \in [Requests -> Kids \cup Notes \cup {None}]
  /\ write \in [Requests -> SUBSET (ChildRows \cup QuoteRows)]
  /\ total \in [Requests -> Nat]
  /\ drift \in [Requests -> Nat]
  /\ answer \in [Requests ->
       [status : {0, 200, 201, 204, 401, 404, 429, 500},
        rows : SUBSET (ChildRows \cup QuoteRows)]]
  /\ errors \in 0 .. MaxErrors

(* Referential integrity through every race between an insert and the      *)
(* removal of the account it hangs from: a quote has its child and a child *)
(* its user, though the handler looked at the child one statement earlier. *)
NoOrphans ==
  /\ \A q \in quotes : \E c \in children : c.id = q.child
  /\ \A c \in children : c.user \in users

(* A 201 is durable: what it returned is still stored, soft-deleted at     *)
(* most, unless the account itself has gone.                               *)
CreatedIsStored ==
  \A r \in Requests : answer[r].status = 201 =>
    \/ who[r] \notin users
    \/ \A row \in answer[r].rows :
         \E stored \in children \cup quotes : stored.id = row.id

(* A 204 is final: no other request, not even one that read the quote      *)
(* before it was deleted, brings it back.                                  *)
DeletedIsGone ==
  \A r \in Requests : answer[r].status = 204 =>
    \A u \in Users : \A q \in Visible(u) : q.id # target[r]

(* Nobody is ever shown a row that belongs to another account, nor gets a  *)
(* quote stored under another account's child: not through the ids they    *)
(* send, and not through db.refresh, whose SELECT has no owner predicate.  *)
OwnRowsOnly ==
  \A r \in Requests : \A row \in answer[r].rows :
    IF row \in ChildRows
      THEN row.user = who[r]
      ELSE \A c \in children : c.id = row.child => c.user = who[r]

(* `total` and the rows come from two statements and can disagree, but by  *)
(* no more rows than appeared or disappeared in between.                   *)
ListSkewBounded ==
  \A r \in Requests : op[r] = "list_quotes" /\ answer[r].status = 200 =>
    /\ total[r] - Cardinality(answer[r].rows) <= drift[r]
    /\ Cardinality(answer[r].rows) - total[r] <= drift[r]

(* Every request is answered: no wait for a row lock lasts, whoever holds  *)
(* the row and whatever becomes of it meanwhile.                           *)
AllAnswered == \A r \in Requests : pc[r] # "idle" ~> pc[r] = "idle"

(* Jar's quotes are the rows that can be seen, without the soft-delete.    *)
J == INSTANCE Jar WITH
  quotes <- {[id |-> q.id, child |-> q.child] : q \in {x \in quotes : ~ x.deleted}}

(* The handlers implement Jar: every change of the tables is one of its    *)
(* operations, on behalf of a user entitled to it at that very moment, and *)
(* nothing that was retired is ever seen again.                            *)
ImplementsJar == J!Spec

=============================================================================
