------------------------------ MODULE Migration ------------------------------
(***************************************************************************)
(* alembic upgrade and downgrade, run by hand against a database that is   *)
(* serving (alembic/env.py and the two revisions in alembic/versions).     *)
(*                                                                         *)
(* A run of alembic is ONE transaction: it reads the revision, applies     *)
(* every revision that is missing, stamps the new one and commits.  Alembic*)
(* itself locks nothing.  What keeps two operators, and the requests that  *)
(* are being served, apart are PostgreSQL's locks on the table users: an   *)
(* ALTER TABLE waits for every transaction that has touched the table, lets*)
(* nobody in after it while it waits, and keeps the table to itself until  *)
(* it commits.  An UPDATE or an INSERT shares the table.                   *)
(*                                                                         *)
(* Users are inserted by registration and, before there were passwords,    *)
(* by the seed script of that time (external).                             *)
(***************************************************************************)
EXTENDS Integers, FiniteSets

CONSTANTS
  Operators,  \* those who run alembic
  Requests,   \* requests being served at once
  Ids,        \* bound: ids of the accounts there will ever be
  Passwords,  \* the passwords people choose
  Junk,       \* hashes of random bytes nobody knows
  NULL,       \* no value; no password
  MaxAborts   \* bound: runs of alembic that are interrupted

ASSUME ValuesAssumption == {Junk, NULL} \cap Passwords = {} /\ Junk # NULL
ASSUME AbortsAssumption == MaxAborts \in Nat

VARIABLES
  db,      \* the committed database: revision, columns of users, rows
  alembic, \* the run of each operator
  req,     \* the request each connection is serving
  aborts   \* interruptions so far

vars == <<db, alembic, req, aborts>>

(* A hash stands for the password it was made from.  `set`, for the        *)
(* properties: the password the owner of the account chose, if any.        *)
Rows == [id : Ids, hash : Passwords \cup {Junk, NULL}, named : BOOLEAN,
         set : Passwords \cup {NULL}]

(* rev: what alembic_version says.  hash, name: the columns password_hash  *)
(* and display_name.                                                       *)
Revisions == {"none", "0bad12f9d217", "a9327a283123"}
Databases ==
  [rev : Revisions,
   hash : {"absent", "nullable", "required"},
   name : {"absent", "nullable", "required"},
   rows : SUBSET Rows]

Empty == [rev |-> "none", hash |-> "absent", name |-> "absent", rows |-> {}]

Idle == [pc |-> "idle", to |-> "head", from |-> "none", draft |-> Empty,
         filled |-> {}, outcome |-> "none", rival |-> FALSE, late |-> FALSE]
NoRequest == [pc |-> "idle", row |-> {}]

Statements ==
  {"read", "create", "alter", "wait", "backfill", "tighten", "fill",
   "filling", "drop", "commit"}

Outcomes == {"none", "done", "refused", "failed", "deadlock", "aborted"}

Runs ==
  [pc : Statements \cup {"idle"}, to : {"head", "-1"}, from : Revisions,
   draft : Databases, filled : SUBSET Ids, outcome : Outcomes,
   rival : BOOLEAN, late : BOOLEAN]
Served == [pc : {"idle", "open"}, row : SUBSET Rows]

-----------------------------------------------------------------------------
(* Locks on users.                                                         *)

Goto(o, statement) == alembic' = [alembic EXCEPT ![o].pc = statement]

(* It has altered the table and has it to itself.                          *)
Exclusive(o) == alembic[o].pc \in {"backfill", "tighten", "drop", "commit"}

(* Its UPDATE shares the table: a downgrade from the last revision, up to  *)
(* its ALTER TABLE.                                                        *)
Sharing(o) ==
  /\ alembic[o].to = "-1" /\ alembic[o].from = "a9327a283123"
  /\ alembic[o].pc \in {"filling", "alter", "wait"}

(* What others send queues behind an ALTER or DROP TABLE that has the      *)
(* table, or waits for it.                                                 *)
Blocking(o) == Exclusive(o) \/ alembic[o].pc = "wait"

(* Nobody else has touched the table in a transaction still open.          *)
Granted(o) ==
  /\ \A r \in Requests : req[r].pc = "idle"
  /\ \A p \in Operators \ {o} : ~ Exclusive(p) /\ ~ Sharing(p)

(* The run ends: its transaction is over and had no effect.                *)
Ended(o, outcome) ==
  alembic' = [alembic EXCEPT ![o].pc = "idle", ![o].outcome = outcome,
                             ![o].draft = Empty, ![o].filled = {}]

-----------------------------------------------------------------------------
Init ==
  /\ db = Empty
  /\ alembic = [o \in Operators |-> Idle]
  /\ req = [r \in Requests |-> NoRequest]
  /\ aborts = 0

(* alembic upgrade head, or alembic downgrade -1.                          *)
StartAlembic(o, to) ==
  /\ alembic[o].pc = "idle"
  /\ alembic' = [alembic EXCEPT ![o] = [Idle EXCEPT !.pc = "read", !.to = to]]
  /\ UNCHANGED <<db, req, aborts>>

(* run_migrations reads the revision and plans from it.                    *)
ReadRevision(o) ==
  LET plan(statement) ==
        alembic' = [alembic EXCEPT ![o].pc = statement, ![o].from = db.rev]
  IN
  /\ alembic[o].pc = "read"
  /\ \/ alembic[o].to = "head" /\ db.rev = "none" /\ plan("create")
     \/ alembic[o].to = "head" /\ db.rev = "0bad12f9d217" /\ plan("alter")
     \/ alembic[o].to = "head" /\ db.rev = "a9327a283123" /\ Ended(o, "done")
     \/ alembic[o].to = "-1" /\ db.rev = "a9327a283123" /\ plan("fill")
     \/ alembic[o].to = "-1" /\ db.rev = "0bad12f9d217" /\ plan("alter")
     \/ alembic[o].to = "-1" /\ db.rev = "none" /\ Ended(o, "refused")
  /\ UNCHANGED <<db, req, aborts>>

(* 0bad12f9d217: CREATE TABLE users and the rest, together with            *)
(* a9327a283123's ADD COLUMN, which has nobody to wait for.  A rival that  *)
(* is creating them is waited for, and one that has created them is fatal. *)
CreateTables(o) ==
  /\ alembic[o].pc = "create"
  /\ \A p \in Operators \ {o} :
       ~ (alembic[p].from = "none" /\ alembic[p].pc \in {"backfill", "tighten", "commit"})
  /\ IF db.rev # "none"
       THEN Ended(o, "failed")
       ELSE alembic' = [alembic EXCEPT
              ![o].pc = "backfill",
              ![o].draft = [db EXCEPT !.name = "required", !.hash = "nullable"]]
  /\ UNCHANGED <<db, req, aborts>>

(* The ALTER or DROP TABLE is sent, and queues for the table.              *)
QueueForTable(o) ==
  /\ alembic[o].pc = "alter"
  /\ Goto(o, "wait")
  /\ UNCHANGED <<db, req, aborts>>

(* A mistake the runs must notice: DDL outside the transaction.            *)
AddColumnAtOnce(o) ==
  /\ alembic[o].pc = "wait" /\ alembic[o].to = "head"
  /\ Granted(o)
  /\ db.hash = "absent"
  /\ db' = [db EXCEPT !.hash = "nullable"]
  /\ alembic' = [alembic EXCEPT ![o].pc = "backfill", ![o].draft = db']
  /\ UNCHANGED <<req, aborts>>

(* a9327a283123, upgrade, step 1: ADD COLUMN password_hash, permissively.  *)
AddColumn(o) ==
  /\ alembic[o].pc = "wait" /\ alembic[o].to = "head"
  /\ Granted(o)
  /\ IF db.rev = "none" \/ db.hash # "absent"
       THEN Ended(o, "failed")
       ELSE alembic' = [alembic EXCEPT
              ![o].pc = "backfill",
              ![o].draft = [db EXCEPT !.hash = "nullable",
                              !.rows = {[q EXCEPT !.hash = NULL] : q \in db.rows}]]
  /\ UNCHANGED <<db, req, aborts>>

(* Mistakes the runs must notice: no backfill at all, "changeme" for every *)
(* row, and an empty string, which is no hash.                             *)
BackfillWith(o, hashes) ==
  /\ alembic[o].pc = "backfill"
  /\ \E h \in hashes :
       alembic' = [alembic EXCEPT ![o].pc = "tighten",
                     ![o].draft.rows = {[q EXCEPT !.hash = h] : q \in @}]
  /\ UNCHANGED <<db, req, aborts>>

BackfillNothing(o) == BackfillWith(o, {NULL})
BackfillPlaceholder(o) == BackfillWith(o, Passwords)
BackfillEmpty(o) == BackfillWith(o, {""})

(* Step 2: a hash of fresh random bytes for every row that has none.       *)
Backfill(o) ==
  /\ alembic[o].pc = "backfill"
  /\ alembic' = [alembic EXCEPT
       ![o].pc = "tighten",
       ![o].draft.rows =
         {IF q.hash = NULL THEN [q EXCEPT !.hash = Junk] ELSE q : q \in @}]
  /\ UNCHANGED <<db, req, aborts>>

(* Step 3: SET NOT NULL, which fails if a row has none after all, and      *)
(* display_name, which may be NULL from now on.                            *)
Tighten(o) ==
  /\ alembic[o].pc = "tighten"
  /\ IF \E q \in alembic[o].draft.rows : q.hash = NULL
       THEN Ended(o, "failed")
       ELSE alembic' = [alembic EXCEPT
              ![o].pc = "commit",
              ![o].draft = [@ EXCEPT !.hash = "required", !.name = "nullable",
                                     !.rev = "a9327a283123"]]
  /\ UNCHANGED <<db, req, aborts>>

(* Downgrade: UPDATE users SET display_name WHERE it IS NULL, on the rows  *)
(* that are there when it begins.                                          *)
FillNames(o) ==
  /\ alembic[o].pc = "fill"
  /\ \A p \in Operators \ {o} : ~ Blocking(p)
  /\ IF db.rev = "none"
       THEN Ended(o, "failed")
       ELSE alembic' = [alembic EXCEPT
              ![o].pc = "filling",
              ![o].filled = {q.id : q \in {x \in db.rows : ~ x.named}}]
  /\ UNCHANGED <<db, req, aborts>>

(* Its UPDATE has yet to wait for rows that the other has updated.         *)
WaitsForRowsOf(o, p) ==
  /\ alembic[o].pc = "filling"
  /\ alembic[p].pc \in {"alter", "wait", "drop", "commit"}
  /\ alembic[o].filled \cap alembic[p].filled # {}

FinishFill(o) ==
  /\ alembic[o].pc = "filling"
  /\ \A p \in Operators \ {o} : ~ WaitsForRowsOf(o, p)
  /\ Goto(o, "alter")
  /\ UNCHANGED <<db, req, aborts>>

(* display_name SET NOT NULL.  A registration that committed after the     *)
(* UPDATE began has left a NULL.                                           *)
NarrowName(o) ==
  LET rows == {[q EXCEPT !.named = @ \/ q.id \in alembic[o].filled] : q \in db.rows}
  IN
  /\ alembic[o].pc = "wait" /\ Sharing(o)
  /\ Granted(o)
  /\ IF db.rev = "none" \/ \E q \in rows : ~ q.named
       THEN Ended(o, "failed")
       ELSE alembic' = [alembic EXCEPT
              ![o].pc = "drop",
              ![o].draft = [db EXCEPT !.name = "required", !.rows = rows]]
  /\ UNCHANGED <<db, req, aborts>>

(* DROP COLUMN password_hash, and with it every credential.                *)
DropColumn(o) ==
  /\ alembic[o].pc = "drop"
  /\ IF alembic[o].draft.hash = "absent"
       THEN Ended(o, "failed")
       ELSE alembic' = [alembic EXCEPT
              ![o].pc = "commit",
              ![o].draft = [@ EXCEPT
                !.hash = "absent", !.rev = "0bad12f9d217",
                !.rows = {[q EXCEPT !.hash = NULL] : q \in alembic[o].draft.rows}]]
  /\ UNCHANGED <<db, req, aborts>>

(* 0bad12f9d217, downgrade: DROP TABLE quotes, children and users.  It has *)
(* the first two when it queues for users.                                 *)
Dropping(o) ==
  /\ alembic[o].pc = "wait"
  /\ alembic[o].to = "-1" /\ alembic[o].from = "0bad12f9d217"

DropTables(o) ==
  /\ Dropping(o)
  /\ Granted(o)
  /\ IF db.rev = "none"
       THEN Ended(o, "failed")
       ELSE alembic' = [alembic EXCEPT ![o].pc = "commit", ![o].draft = Empty]
  /\ UNCHANGED <<db, req, aborts>>

(* UPDATE alembic_version must find the revision that was read, or the run *)
(* fails.  Then COMMIT.  The runs still under way have had a rival.        *)
CommitMigration(o) ==
  /\ alembic[o].pc = "commit"
  /\ IF db.rev # alembic[o].from
       THEN Ended(o, "failed") /\ UNCHANGED db
       ELSE /\ db' = alembic[o].draft
            /\ alembic' = [p \in Operators |->
                 IF p = o
                   THEN [Idle EXCEPT !.to = alembic[o].to, !.outcome = "done"]
                   ELSE [alembic[p] EXCEPT !.rival = @ \/ alembic[p].pc # "idle"]]
  /\ UNCHANGED <<req, aborts>>

(* PostgreSQL breaks a deadlock.  Two downgrades share the table: one wants*)
(* it to itself, the other wants that too, or rows of the first.           *)
Deadlocked(o, p) ==
  /\ Sharing(o) /\ Sharing(p)
  /\ alembic[p].pc = "wait"
  /\ alembic[o].pc = "wait" \/ WaitsForRowsOf(o, p)

(* Or a request that has touched users wants a table that is being dropped.*)
(* (If the request is the victim, it is closed.)                           *)
DeadlockVictim(o) ==
  /\ \/ \E p \in Operators \ {o} : Deadlocked(o, p) \/ Deadlocked(p, o)
     \/ Dropping(o) /\ \E r \in Requests : req[r].pc = "open"
  /\ Ended(o, "deadlock")
  /\ UNCHANGED <<db, req, aborts>>

(* The operator interrupts alembic, or its connection breaks.              *)
Abort(o) ==
  /\ alembic[o].pc # "idle"
  /\ aborts < MaxAborts
  /\ aborts' = aborts + 1
  /\ Ended(o, "aborted")
  /\ UNCHANGED <<db, req>>

-----------------------------------------------------------------------------
(* Requests.                                                               *)

(* The first statement that touches users.  It fails, and then leaves      *)
(* nothing behind, unless the table is there, has the columns that it names*)
(* and requires no other.                                                  *)
Begin(r, rows) ==
  /\ req[r].pc = "idle"
  /\ db.rev # "none"
  /\ \A o \in Operators : ~ Blocking(o)
  /\ req' = [req EXCEPT ![r] = [pc |-> "open", row |-> rows]]
  /\ UNCHANGED <<db, alembic, aborts>>

NewId(i) ==
  /\ \A q \in db.rows : q.id # i
  /\ \A r \in Requests : \A q \in req[r].row : q.id # i

(* Any endpoint: SELECT from users, whose transaction stays open until the *)
(* session is closed.                                                      *)
SelectUser(r) == db.hash # "absent" /\ Begin(r, {})

(* register: INSERT with a hash and without a name.                        *)
Register(r, i, p) ==
  /\ NewId(i)
  /\ db.hash # "absent" /\ db.name = "nullable"
  /\ Begin(r, {[id |-> i, hash |-> p, named |-> FALSE, set |-> p]})

(* The seed script of 0bad12f9d217: INSERT with a name and without a hash, *)
(* unless its account is there already.                                    *)
Predates(q) == q.set = NULL

SeedWithoutHash(r, i) ==
  /\ NewId(i)
  /\ db.hash = "absent"
  /\ ~ \E q \in db.rows \cup UNION {req[s].row : s \in Requests} : Predates(q)
  /\ Begin(r, {[id |-> i, hash |-> NULL, named |-> TRUE, set |-> NULL]})

(* COMMIT.  The downgrades that have begun their UPDATE will not see it.   *)
CommitRequest(r) ==
  /\ req[r].pc = "open" /\ req[r].row # {}
  /\ db' = [db EXCEPT !.rows = @ \cup req[r].row]
  /\ req' = [req EXCEPT ![r] = NoRequest]
  /\ alembic' = [o \in Operators |->
       [alembic[o] EXCEPT !.late = @ \/ Sharing(o)]]
  /\ UNCHANGED aborts

(* A mistake the runs must notice: get_db without its close.               *)
NeverClose(r) ==
  /\ req[r].pc = "open" /\ req[r].row # {}
  /\ req' = [req EXCEPT ![r] = NoRequest]
  /\ UNCHANGED <<db, alembic, aborts>>

(* db.close(): a transaction that has not committed is rolled back.        *)
Close(r) ==
  /\ req[r].pc = "open"
  /\ req' = [req EXCEPT ![r] = NoRequest]
  /\ UNCHANGED <<db, alembic, aborts>>

Run(o) ==
  \/ ReadRevision(o)
  \/ CreateTables(o)
  \/ QueueForTable(o)
  \/ AddColumn(o)
  \/ Backfill(o)
  \/ Tighten(o)
  \/ FillNames(o)
  \/ FinishFill(o)
  \/ NarrowName(o)
  \/ DropColumn(o)
  \/ DropTables(o)
  \/ CommitMigration(o)
  \/ DeadlockVictim(o)

Next ==
  \/ \E o \in Operators :
       \/ StartAlembic(o, "head")
       \/ StartAlembic(o, "-1")
       \/ Run(o)
       \/ Abort(o)
  \/ \E r \in Requests :
       \/ SelectUser(r)
       \/ \E i \in Ids : SeedWithoutHash(r, i)
       \/ \E i \in Ids, p \in Passwords : Register(r, i, p)
       \/ CommitRequest(r)
       \/ Close(r)

Spec == Init /\ [][Next]_vars

(* An alembic that was started runs: whenever it waits for a lock, the lock*)
(* is handed out in the order of asking, so whoever is free to take it     *)
(* again and again is given it.  A request that is being served ends.      *)
FairSpec ==
  /\ Spec
  /\ \A o \in Operators : SF_vars(Run(o))
  /\ \A r \in Requests : WF_vars(CommitRequest(r) \/ Close(r))

-----------------------------------------------------------------------------
(* Properties.                                                             *)

TypeOK ==
  /\ db \in Databases
  /\ alembic \in [Operators -> Runs]
  /\ req \in [Requests -> Served]
  /\ aborts \in 0 .. MaxAborts

(* Whatever is interrupted, fails or meets whom: alembic_version never says*)
(* other than what the columns are, and no row breaks their constraints.   *)
(* A revision half applied would be one that neither upgrade nor downgrade *)
(* can leave.                                                              *)
RevisionMatchesSchema ==
  /\ db.rev = "none" => db = Empty
  /\ db.rev = "0bad12f9d217" =>
       /\ db.hash = "absent" /\ db.name = "required"
       /\ \A q \in db.rows : q.named
  /\ db.rev = "a9327a283123" =>
       /\ db.hash = "required" /\ db.name = "nullable"
       /\ \A q \in db.rows : q.hash # NULL

(* The upgrade succeeds on a table with rows, and a downgrade on rows      *)
(* without a name.  It takes another operator to make alembic fail, or, for*)
(* the downgrade, a registration that slipped in behind its UPDATE.        *)
FailuresExplained ==
  \A o \in Operators : alembic[o].outcome = "failed" =>
    alembic[o].rival \/ (alembic[o].to = "-1" /\ alembic[o].late)

(* Nobody can log in with a password that the owner of the account did not *)
(* choose: not into the accounts that predate passwords, and not into those*)
(* that a downgrade and another upgrade have taken theirs from.            *)
PasswordsAreOwners ==
  \A q \in db.rows : q.hash \in Passwords => q.hash = q.set

(* Every run of alembic ends, although its ALTER or DROP TABLE waits for   *)
(* all that is being served, and for another's.                            *)
AlembicEnds == \A o \in Operators : alembic[o].pc # "idle" ~> alembic[o].pc = "idle"

=============================================================================
