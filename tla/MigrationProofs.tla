--------------------------- MODULE MigrationProofs ---------------------------
(***************************************************************************)
(* Proofs about Migration: for every number of operators and requests, and *)
(* every order of their statements, alembic_version says what the columns  *)
(* are, alembic fails only when a rival or a late registration explains it,*)
(* and no account opens to a password that its owner did not choose.       *)
(*                                                                         *)
(* The argument: whoever has altered the table has it to itself, so no     *)
(* request is under way whose row was meant for the columns that are about *)
(* to go; and what a run read at its beginning is still so when it needs   *)
(* it, or another run has committed meanwhile.                             *)
(***************************************************************************)
EXTENDS Migration, TLAPS

-----------------------------------------------------------------------------
(* The inductive invariant.                                                *)

(* The columns and the rows of a database are those of its revision.       *)
Matches(d) ==
  /\ d.rev = "none" => d = Empty
  /\ d.rev = "0bad12f9d217" =>
       /\ d.hash = "absent" /\ d.name = "required"
       /\ \A q \in d.rows : q.named
  /\ d.rev = "a9327a283123" =>
       /\ d.hash = "required" /\ d.name = "nullable"
       /\ \A q \in d.rows : q.hash # NULL

(* No row has a password that its owner did not choose.                    *)
Owned(rows) == \A q \in rows : q.hash \in Passwords => q.hash = q.set

(* Which direction a statement belongs to, and what it was planned from.   *)
Planned(a) ==
  /\ a.pc = "create" => a.to = "head" /\ a.from = "none"
  /\ a.pc \in {"backfill", "tighten"} => a.to = "head"
  /\ a.pc \in {"fill", "filling", "drop"} => a.to = "-1" /\ a.from = "a9327a283123"
  /\ a.pc \in {"alter", "wait"} /\ a.to = "head" => a.from = "0bad12f9d217"
  /\ a.pc \notin {"idle", "read"} /\ a.to = "-1" =>
       a.from \in {"a9327a283123", "0bad12f9d217"}

(* The draft of a run as its statements go on.                             *)
Drafted(a) ==
  /\ Owned(a.draft.rows)
  /\ a.pc = "tighten" => \A q \in a.draft.rows : q.hash # NULL
  /\ a.pc = "drop" =>
       /\ a.draft.name = "required"
       /\ \A q \in a.draft.rows : q.named
       /\ a.rival \/ a.draft.hash = "required"
  /\ a.pc = "commit" => Matches(a.draft)

(* A downgrade from the last revision, from the beginning of its UPDATE to *)
(* its ALTER TABLE.                                                        *)
Shares(a) ==
  /\ a.to = "-1" /\ a.from = "a9327a283123"
  /\ a.pc \in {"filling", "alter", "wait"}

(* What a run read is still so of the database, or a rival has committed   *)
(* meanwhile; the tables that it alters stay.  The rows without a name are *)
(* those that the UPDATE of a downgrade has seen, unless a registration    *)
(* was late.  A failure was one of these.                                  *)
StillHolds(a, d) ==
  /\ a.pc \notin {"idle", "read"} => a.rival \/ d.rev = a.from
  /\ a.pc \in {"backfill", "tighten", "drop", "commit"} /\ a.from # "none" =>
       d.rev # "none"
  /\ Shares(a) =>
       a.rival \/ a.late \/ \A q \in d.rows : q.named \/ q.id \in a.filled
  /\ a.outcome = "failed" => a.rival \/ (a.to = "-1" /\ a.late)

RunInv(a, d) == Planned(a) /\ Drafted(a) /\ StillHolds(a, d)

(* A request found tables, and its row fits the columns that are there.    *)
RequestFits(s, d) ==
  /\ Owned(s.row)
  /\ s.pc = "open" =>
       /\ d.rev # "none"
       /\ d.rev = "0bad12f9d217" => \A q \in s.row : q.named
       /\ d.rev = "a9327a283123" => \A q \in s.row : q.hash # NULL

(* Who has altered the table is alone with it.                             *)
ExclusionInv ==
  /\ \A o, p \in Operators : Exclusive(o) /\ Exclusive(p) => o = p
  /\ \A o \in Operators, r \in Requests : Exclusive(o) => req[r].pc = "idle"

IInv ==
  /\ TypeOK
  /\ Matches(db) /\ Owned(db.rows)
  /\ \A o \in Operators : RunInv(alembic[o], db)
  /\ \A r \in Requests : RequestFits(req[r], db)
  /\ ExclusionInv

-----------------------------------------------------------------------------
(* Rows and databases.                                                     *)

(* A row that is given another hash keeps everything else.                 *)
LEMMA Rehashed ==
  ASSUME NEW q \in Rows, NEW h \in Passwords \cup {Junk, NULL}
  PROVE  /\ [q EXCEPT !.hash = h] \in Rows
         /\ [q EXCEPT !.hash = h].hash = h
         /\ [q EXCEPT !.hash = h].set = q.set
         /\ [q EXCEPT !.hash = h].named = q.named
BY DEF Rows

(* The rows that have a name once those with an id of ids were given one.  *)
LEMMA Renamed ==
  ASSUME NEW q \in Rows, NEW ids
  PROVE  /\ [q EXCEPT !.named = @ \/ q.id \in ids] \in Rows
         /\ [q EXCEPT !.named = @ \/ q.id \in ids].named = (q.named \/ q.id \in ids)
         /\ [q EXCEPT !.named = @ \/ q.id \in ids].hash = q.hash
         /\ [q EXCEPT !.named = @ \/ q.id \in ids].set = q.set
BY DEF Rows

LEMMA EmptyIsFine == Empty \in Databases /\ Matches(Empty) /\ Owned(Empty.rows)
BY DEF Empty, Databases, Revisions, Matches, Owned

(* What makes up a database.                                               *)
LEMMA DatabaseParts ==
  ASSUME NEW d \in Databases
  PROVE  /\ d.rev \in Revisions
         /\ d.hash \in {"absent", "nullable", "required"}
         /\ d.name \in {"absent", "nullable", "required"}
         /\ d.rows \in SUBSET Rows
BY DEF Databases

LEMMA InitIInv == Init => IInv
<1> SUFFICES ASSUME Init PROVE IInv
  OBVIOUS
<1>1. Idle \in Runs /\ NoRequest \in Served
  BY EmptyIsFine DEF Idle, Runs, NoRequest, Served, Revisions, Outcomes
<1>2. TypeOK
  BY <1>1, EmptyIsFine, AbortsAssumption DEF TypeOK, Init
<1>3. RunInv(Idle, Empty) /\ RequestFits(NoRequest, Empty)
  BY EmptyIsFine DEF RunInv, Planned, Drafted, StillHolds, Shares, Idle,
     RequestFits, NoRequest, Owned
<1>4. ExclusionInv
  BY DEF Init, ExclusionInv, Exclusive, Idle
<1> QED
  BY <1>2, <1>3, <1>4, EmptyIsFine DEF IInv, Init

-----------------------------------------------------------------------------
(* The steps of one run that leave the database alone.                     *)

RunStep(o) ==
  /\ UNCHANGED <<db, req>>
  /\ aborts' \in 0 .. MaxAborts
  /\ alembic' \in [Operators -> Runs]
  /\ \A p \in Operators \ {o} : alembic'[p] = alembic[p]

(* Such a step preserves the invariant if the run it leaves is one and if  *)
(* the table was free when it was altered.                                 *)
LEMMA RunStepIInv ==
  ASSUME IInv, NEW o \in Operators, RunStep(o),
         RunInv(alembic'[o], db),
         Exclusive(o)' => \/ Exclusive(o)
                          \/ /\ \A r \in Requests : req[r].pc = "idle"
                             /\ \A p \in Operators \ {o} : ~ Exclusive(p)
  PROVE  IInv'
<1>1. TypeOK'
  BY DEF IInv, TypeOK, RunStep
<1>2. (Matches(db) /\ Owned(db.rows))'
  BY DEF IInv, RunStep
<1>3. \A p \in Operators : RunInv(alembic'[p], db')
  BY DEF IInv, RunStep
<1>4. \A r \in Requests : RequestFits(req'[r], db')
  BY DEF IInv, RunStep
<1>5. ExclusionInv'
  BY DEF IInv, RunStep, ExclusionInv, Exclusive
<1> QED
  BY <1>1, <1>2, <1>3, <1>4, <1>5 DEF IInv

(* The end of a run, for whatever reason but an unexplained failure.       *)
LEMMA EndedIInv ==
  ASSUME IInv, NEW o \in Operators, NEW outcome \in Outcomes,
         Ended(o, outcome), UNCHANGED <<db, req>>, aborts' \in 0 .. MaxAborts,
         outcome = "failed" =>
           alembic[o].rival \/ (alembic[o].to = "-1" /\ alembic[o].late)
  PROVE  IInv'
<1> DEFINE a == alembic[o]
           b == alembic'[o]
<1>1. a \in Runs /\ alembic \in [Operators -> Runs]
  BY DEF IInv, TypeOK
<1>2. /\ b = [a EXCEPT !.pc = "idle", !.outcome = outcome,
                       !.draft = Empty, !.filled = {}]
      /\ \A p \in Operators \ {o} : alembic'[p] = alembic[p]
  BY <1>1 DEF Ended
<1>3. /\ b \in Runs /\ b.pc = "idle" /\ b.outcome = outcome /\ b.draft = Empty
      /\ b.rival = a.rival /\ b.late = a.late /\ b.to = a.to
  BY <1>1, <1>2, EmptyIsFine DEF Runs
<1>4. RunStep(o)
  BY <1>1, <1>2, <1>3 DEF RunStep, Ended
<1>5. RunInv(b, db)
  BY <1>3, EmptyIsFine DEF RunInv, Planned, Drafted, StillHolds, Shares
<1> QED
  BY <1>3, <1>4, <1>5, RunStepIInv DEF Exclusive

-----------------------------------------------------------------------------
(* Each statement of a run.                                                *)

(* A statement that only moves a run on, and writes down what it read.     *)
LEMMA MovesOn ==
  ASSUME NEW a \in Runs, NEW s \in Statements, NEW v \in Revisions,
         NEW ids \in SUBSET Ids
  PROVE  /\ [a EXCEPT !.pc = s] \in Runs
         /\ [a EXCEPT !.pc = s, !.from = v] \in Runs
         /\ [a EXCEPT !.pc = s, !.filled = ids] \in Runs
BY DEF Runs, Statements

(* A statement that moves a run on and gives its draft another value.      *)
LEMMA Drafts ==
  ASSUME NEW a \in Runs, NEW s \in Statements, NEW d \in Databases
  PROVE  [a EXCEPT !.pc = s, !.draft = d] \in Runs
BY DEF Runs, Statements

LEMMA StartIInv ==
  ASSUME IInv, NEW o \in Operators, NEW to \in {"head", "-1"}, StartAlembic(o, to)
  PROVE  IInv'
<1> DEFINE b == alembic'[o]
<1>1. alembic \in [Operators -> Runs] /\ Idle \in Runs
  BY EmptyIsFine DEF IInv, TypeOK, Idle, Runs, Revisions, Outcomes
<1>2. /\ b = [Idle EXCEPT !.pc = "read", !.to = to]
      /\ b \in Runs
  BY <1>1 DEF StartAlembic, Runs, Statements
<1>3. RunStep(o)
  BY <1>1, <1>2 DEF RunStep, StartAlembic, IInv, TypeOK
<1>4. b.pc = "read" /\ b.draft = Empty /\ b.outcome = "none"
  BY <1>2 DEF Idle
<1>5. RunInv(b, db)
  BY <1>4, EmptyIsFine DEF RunInv, Planned, Drafted, StillHolds, Shares
<1> QED
  BY <1>3, <1>4, <1>5, RunStepIInv DEF Exclusive

(* Reading the revision: the plan is made from what is committed.          *)
LEMMA ReadRevisionIInv ==
  ASSUME IInv, NEW o \in Operators, ReadRevision(o)
  PROVE  IInv'
<1> DEFINE a == alembic[o]
           b == alembic'[o]
<1>1. /\ alembic \in [Operators -> Runs] /\ a \in Runs /\ db.rev \in Revisions
      /\ aborts' \in 0 .. MaxAborts /\ UNCHANGED <<db, req>>
  BY DatabaseParts DEF IInv, TypeOK, ReadRevision
<1>2. ASSUME NEW outcome \in {"done", "refused"}, Ended(o, outcome) PROVE IInv'
  BY <1>1, <1>2, EndedIInv DEF Outcomes
<1>3. ASSUME NEW s \in {"create", "alter", "fill"},
             alembic' = [alembic EXCEPT ![o].pc = s, ![o].from = db.rev],
             s = "create" => a.to = "head" /\ db.rev = "none",
             s = "alter" => db.rev = "0bad12f9d217",
             s = "fill" => a.to = "-1" /\ db.rev = "a9327a283123"
      PROVE  IInv'
  <2>1. b = [a EXCEPT !.pc = s, !.from = db.rev] /\ b \in Runs
    BY <1>1, <1>3, MovesOn DEF Statements
  <2>2. /\ b.pc = s /\ b.from = db.rev /\ b.to = a.to /\ b.draft = a.draft
        /\ b.outcome = a.outcome /\ b.rival = a.rival /\ b.late = a.late
    BY <1>1, <2>1 DEF Runs
  <2>3. RunStep(o)
    BY <1>1, <1>3, <2>1 DEF RunStep
  <2>4. RunInv(a, db)
    BY DEF IInv
  <2>5. RunInv(b, db)
    BY <1>3, <2>2, <2>4 DEF RunInv, Planned, Drafted, StillHolds, Shares
  <2> QED
    BY <1>3, <2>2, <2>3, <2>5, RunStepIInv DEF Exclusive
<1> QED
  BY <1>2, <1>3 DEF ReadRevision

LEMMA CreateTablesIInv ==
  ASSUME IInv, NEW o \in Operators, CreateTables(o)
  PROVE  IInv'
<1> DEFINE a == alembic[o]
           b == alembic'[o]
<1>1. /\ alembic \in [Operators -> Runs] /\ a \in Runs /\ db \in Databases
      /\ aborts' \in 0 .. MaxAborts /\ UNCHANGED <<db, req>>
  BY DEF IInv, TypeOK, CreateTables
<1>2. RunInv(a, db) /\ a.pc = "create" /\ a.to = "head" /\ a.from = "none"
  BY DEF IInv, RunInv, Planned, CreateTables
<1>3. CASE db.rev # "none"
  <2>1. Ended(o, "failed")
    BY <1>3 DEF CreateTables
  <2>2. a.rival
    BY <1>2, <1>3 DEF RunInv, StillHolds
  <2> QED
    BY <1>1, <2>1, <2>2, EndedIInv DEF Outcomes
<1>4. CASE db.rev = "none"
  <2> DEFINE d == [db EXCEPT !.name = "required", !.hash = "nullable"]
  <2>1. d \in Databases /\ d.rows = db.rows
    BY <1>1 DEF Databases
  <2>2. alembic' = [alembic EXCEPT ![o].pc = "backfill", ![o].draft = d]
    BY <1>4 DEF CreateTables
  <2> HIDE DEF d
  <2>3. b = [a EXCEPT !.pc = "backfill", !.draft = d] /\ b \in Runs
    BY <1>1, <2>1, <2>2, Drafts DEF Statements
  <2>4. /\ b.pc = "backfill" /\ b.from = a.from /\ b.to = a.to /\ b.draft = d
        /\ b.outcome = a.outcome /\ b.rival = a.rival /\ b.late = a.late
    BY <1>1, <2>3 DEF Runs
  <2>5. RunStep(o)
    BY <1>1, <2>2, <2>3 DEF RunStep
  <2>6. Owned(d.rows)
    BY <2>1 DEF IInv
  <2>7. RunInv(b, db)
    BY <1>2, <2>4, <2>6 DEF RunInv, Planned, Drafted, StillHolds, Shares
  <2>8. \A r \in Requests : req[r].pc = "idle"
    <3>1. \A r \in Requests : req[r].pc # "open" /\ req[r].pc \in {"idle", "open"}
      BY <1>4 DEF IInv, RequestFits, TypeOK, Served
    <3> QED
      BY <3>1
  <2>9. \A p \in Operators \ {o} : ~ Exclusive(p)
    <3>1. \A p \in Operators \ {o} : RunInv(alembic[p], db) /\ alembic[p] \in Runs
      BY <1>1 DEF IInv
    <3>2. \A p \in Operators \ {o} : ~ (alembic[p].from = "none"
            /\ alembic[p].pc \in {"backfill", "tighten", "commit"})
      BY DEF CreateTables
    <3>3. \A p \in Operators \ {o} : alembic[p].to \in {"head", "-1"}
      BY <3>1 DEF Runs
    <3> QED
      BY <1>4, <3>1, <3>2, <3>3 DEF Exclusive, RunInv, StillHolds, Planned
  <2> QED
    BY <2>5, <2>7, <2>8, <2>9, RunStepIInv
<1> QED
  BY <1>3, <1>4

(* A statement that only moves a run on.                                   *)
LEMMA GotoIInv ==
  ASSUME IInv, NEW o \in Operators, NEW s \in {"alter", "wait"}, Goto(o, s),
         alembic[o].pc = IF s = "wait" THEN "alter" ELSE "filling",
         UNCHANGED <<db, req, aborts>>
  PROVE  IInv'
<1> DEFINE a == alembic[o]
           b == alembic'[o]
<1>1. /\ alembic \in [Operators -> Runs] /\ a \in Runs
      /\ aborts' \in 0 .. MaxAborts /\ UNCHANGED <<db, req>>
  BY DEF IInv, TypeOK
<1>2. b = [a EXCEPT !.pc = s] /\ b \in Runs
  BY <1>1, MovesOn DEF Revisions, Goto, Statements
<1>3. /\ b.pc = s /\ b.from = a.from /\ b.to = a.to /\ b.draft = a.draft
      /\ b.outcome = a.outcome /\ b.rival = a.rival /\ b.late = a.late
      /\ b.filled = a.filled
  BY <1>1, <1>2 DEF Runs
<1>4. RunStep(o)
  BY <1>1, <1>2 DEF RunStep, Goto
<1>5. RunInv(a, db)
  BY DEF IInv
<1>6. RunInv(b, db)
  BY <1>3, <1>5 DEF RunInv, Planned, Drafted, StillHolds, Shares
<1> QED
  BY <1>3, <1>4, <1>6, RunStepIInv DEF Exclusive

(* ADD COLUMN: with the table to itself, and the draft made of it.         *)
LEMMA AddColumnIInv ==
  ASSUME IInv, NEW o \in Operators, AddColumn(o)
  PROVE  IInv'
<1> DEFINE a == alembic[o]
           b == alembic'[o]
<1>1. /\ alembic \in [Operators -> Runs] /\ a \in Runs /\ db \in Databases
      /\ aborts' \in 0 .. MaxAborts /\ UNCHANGED <<db, req>>
  BY DEF IInv, TypeOK, AddColumn
<1>2. /\ RunInv(a, db) /\ a.pc = "wait" /\ a.to = "head"
      /\ a.from = "0bad12f9d217"
  BY DEF IInv, RunInv, Planned, AddColumn
<1>3. CASE db.rev = "none" \/ db.hash # "absent"
  <2>1. Ended(o, "failed")
    BY <1>3 DEF AddColumn
  <2>2. a.rival
    BY <1>2, <1>3 DEF RunInv, StillHolds, IInv, Matches
  <2> QED
    BY <1>1, <2>1, <2>2, EndedIInv DEF Outcomes
<1>4. CASE db.rev # "none" /\ db.hash = "absent"
  <2> DEFINE bare(q) == [q EXCEPT !.hash = NULL]
             rows == {bare(q) : q \in db.rows}
             d == [db EXCEPT !.hash = "nullable", !.rows = rows]
  <2>1. rows \in SUBSET Rows /\ Owned(rows)
    <3>1. \A q \in db.rows : bare(q) \in Rows /\ bare(q).hash = NULL
      BY <1>1, DatabaseParts, Rehashed
    <3> HIDE DEF bare
    <3> QED
      BY <3>1, ValuesAssumption DEF Owned
  <2>2. alembic' = [alembic EXCEPT ![o].pc = "backfill", ![o].draft = d]
    BY <1>4 DEF AddColumn
  <2> HIDE DEF rows
  <2>3. d \in Databases /\ d.rows = rows
    BY <1>1, <2>1 DEF Databases
  <2> HIDE DEF d
  <2>4. b = [a EXCEPT !.pc = "backfill", !.draft = d] /\ b \in Runs
    BY <1>1, <2>2, <2>3, Drafts DEF Statements
  <2>5. /\ b.pc = "backfill" /\ b.from = a.from /\ b.to = a.to /\ b.draft = d
        /\ b.outcome = a.outcome /\ b.rival = a.rival /\ b.late = a.late
    BY <1>1, <2>4 DEF Runs
  <2>6. RunStep(o)
    BY <1>1, <2>2, <2>4 DEF RunStep
  <2>7. RunInv(b, db)
    BY <1>2, <1>4, <2>1, <2>3, <2>5 DEF RunInv, Planned, Drafted, StillHolds, Shares
  <2> QED
    BY <2>6, <2>7, RunStepIInv DEF AddColumn, Granted
<1> QED
  BY <1>3, <1>4

(* Backfill: no row is left without a hash, and nobody knows the new ones. *)
LEMMA BackfillIInv ==
  ASSUME IInv, NEW o \in Operators, Backfill(o)
  PROVE  IInv'
<1> DEFINE a == alembic[o]
           b == alembic'[o]
           filled(q) == IF q.hash = NULL THEN [q EXCEPT !.hash = Junk] ELSE q
           rows == {filled(q) : q \in a.draft.rows}
           d == [a.draft EXCEPT !.rows = rows]
<1>1. /\ alembic \in [Operators -> Runs] /\ a \in Runs /\ a.draft \in Databases
      /\ aborts' \in 0 .. MaxAborts /\ UNCHANGED <<db, req>>
  BY DEF IInv, TypeOK, Backfill, Runs
<1>2. RunInv(a, db) /\ a.pc = "backfill" /\ a.to = "head"
  BY DEF IInv, RunInv, Planned, Backfill
<1>3. Owned(a.draft.rows) /\ a.draft.rows \in SUBSET Rows
  BY <1>1, <1>2, DatabaseParts DEF RunInv, Drafted
<1>4. \A q \in a.draft.rows :
        /\ filled(q) \in Rows /\ filled(q).hash # NULL
        /\ filled(q).hash \in Passwords => filled(q).hash = filled(q).set
  BY <1>3, Rehashed, ValuesAssumption DEF Owned
<1>5. b = [a EXCEPT !.pc = "tighten", !.draft = d]
  BY <1>1 DEF Backfill, Runs
<1> HIDE DEF filled
<1>6. rows \in SUBSET Rows /\ Owned(rows) /\ \A q \in rows : q.hash # NULL
  BY <1>4 DEF Owned
<1> HIDE DEF rows
<1>7. d \in Databases /\ d.rows = rows
  BY <1>1, <1>6 DEF Databases
<1> HIDE DEF d
<1>8. b \in Runs
  BY <1>1, <1>5, <1>7, Drafts DEF Statements
<1>9. /\ b.pc = "tighten" /\ b.from = a.from /\ b.to = a.to /\ b.draft = d
      /\ b.outcome = a.outcome /\ b.rival = a.rival /\ b.late = a.late
  BY <1>1, <1>5 DEF Runs
<1>10. RunStep(o)
  BY <1>1, <1>8 DEF RunStep, Backfill
<1>11. RunInv(b, db)
  BY <1>2, <1>6, <1>7, <1>9 DEF RunInv, Planned, Drafted, StillHolds, Shares
<1>12. Exclusive(o)
  BY <1>2 DEF Exclusive
<1> QED
  BY <1>10, <1>11, <1>12, RunStepIInv

(* SET NOT NULL finds no row without a hash, and completes the revision.   *)
LEMMA TightenIInv ==
  ASSUME IInv, NEW o \in Operators, Tighten(o)
  PROVE  IInv'
<1> DEFINE a == alembic[o]
           b == alembic'[o]
           d == [a.draft EXCEPT !.hash = "required", !.name = "nullable",
                                !.rev = "a9327a283123"]
<1>1. /\ alembic \in [Operators -> Runs] /\ a \in Runs /\ a.draft \in Databases
      /\ aborts' \in 0 .. MaxAborts /\ UNCHANGED <<db, req>>
  BY DEF IInv, TypeOK, Tighten, Runs
<1>2. RunInv(a, db) /\ a.pc = "tighten" /\ a.to = "head"
  BY DEF IInv, RunInv, Planned, Tighten
<1>3. Owned(a.draft.rows) /\ \A q \in a.draft.rows : q.hash # NULL
  BY <1>2 DEF RunInv, Drafted
<1>4. b = [a EXCEPT !.pc = "commit", !.draft = d]
  BY <1>1, <1>3 DEF Tighten, Runs
<1>5. d \in Databases /\ d.rows = a.draft.rows
      /\ d.rev = "a9327a283123" /\ d.hash = "required" /\ d.name = "nullable"
  BY <1>1 DEF Databases, Revisions
<1> HIDE DEF d
<1>6. Matches(d) /\ Owned(d.rows)
  BY <1>3, <1>5 DEF Matches
<1>7. b \in Runs
  BY <1>1, <1>4, <1>5, Drafts DEF Statements
<1>8. /\ b.pc = "commit" /\ b.from = a.from /\ b.to = a.to /\ b.draft = d
      /\ b.outcome = a.outcome /\ b.rival = a.rival /\ b.late = a.late
  BY <1>1, <1>4 DEF Runs
<1>9. RunStep(o)
  BY <1>1, <1>3, <1>7 DEF RunStep, Tighten
<1>10. RunInv(b, db)
  BY <1>2, <1>6, <1>8 DEF RunInv, Planned, Drafted, StillHolds, Shares
<1>11. Exclusive(o)
  BY <1>2 DEF Exclusive
<1> QED
  BY <1>9, <1>10, <1>11, RunStepIInv

(* The UPDATE of a downgrade sees every row without a name.                *)
LEMMA FillNamesIInv ==
  ASSUME IInv, NEW o \in Operators, FillNames(o)
  PROVE  IInv'
<1> DEFINE a == alembic[o]
           b == alembic'[o]
           ids == {q.id : q \in {x \in db.rows : ~ x.named}}
<1>1. /\ alembic \in [Operators -> Runs] /\ a \in Runs /\ db \in Databases
      /\ aborts' \in 0 .. MaxAborts /\ UNCHANGED <<db, req>>
  BY DEF IInv, TypeOK, FillNames
<1>2. RunInv(a, db) /\ a.pc = "fill" /\ a.to = "-1"
  BY DEF IInv, RunInv, Planned, FillNames
<1>3. CASE db.rev = "none"
  <2>1. Ended(o, "failed") /\ a.rival
    BY <1>2, <1>3 DEF FillNames, RunInv, Planned, StillHolds
  <2> QED
    BY <1>1, <2>1, EndedIInv DEF Outcomes
<1>4. CASE db.rev # "none"
  <2>1. ids \in SUBSET Ids
    BY <1>1, DatabaseParts DEF Rows
  <2>2. \A q \in db.rows : q.named \/ q.id \in ids
    OBVIOUS
  <2>3. alembic' = [alembic EXCEPT ![o].pc = "filling", ![o].filled = ids]
    BY <1>4 DEF FillNames
  <2> HIDE DEF ids
  <2>4. b = [a EXCEPT !.pc = "filling", !.filled = ids] /\ b \in Runs
    BY <1>1, <2>1, <2>3, MovesOn DEF Statements, Revisions
  <2>5. /\ b.pc = "filling" /\ b.from = a.from /\ b.to = a.to /\ b.filled = ids
        /\ b.outcome = a.outcome /\ b.rival = a.rival /\ b.late = a.late
        /\ b.draft = a.draft
    BY <1>1, <2>4 DEF Runs
  <2>6. RunStep(o)
    BY <1>1, <2>3, <2>4 DEF RunStep
  <2>7. RunInv(b, db)
    BY <1>2, <2>2, <2>5 DEF RunInv, Planned, Drafted, StillHolds, Shares
  <2> QED
    BY <2>5, <2>6, <2>7, RunStepIInv DEF Exclusive
<1> QED
  BY <1>3, <1>4

(* NarrowName: without a rival and without a late registration, the UPDATE *)
(* has given every row a name.                                             *)
LEMMA NarrowNameIInv ==
  ASSUME IInv, NEW o \in Operators, NarrowName(o)
  PROVE  IInv'
<1> DEFINE a == alembic[o]
           b == alembic'[o]
           given(q) == [q EXCEPT !.named = @ \/ q.id \in alembic[o].filled]
           rows == {given(q) : q \in db.rows}
           d == [db EXCEPT !.name = "required", !.rows = rows]
<1>1. /\ alembic \in [Operators -> Runs] /\ a \in Runs /\ db \in Databases
      /\ aborts' \in 0 .. MaxAborts /\ UNCHANGED <<db, req>>
  BY DEF IInv, TypeOK, NarrowName
<1>2. /\ RunInv(a, db) /\ a.pc = "wait" /\ a.to = "-1"
      /\ a.from = "a9327a283123"
  BY DEF IInv, RunInv, NarrowName, Sharing
<1>3. \A q \in db.rows :
        /\ given(q) \in Rows
        /\ given(q).named = (q.named \/ q.id \in a.filled)
        /\ given(q).hash = q.hash /\ given(q).set = q.set
  BY <1>1, DatabaseParts, Renamed
<1>4. CASE db.rev = "none"
  <2>1. Ended(o, "failed") /\ a.rival
    BY <1>2, <1>4 DEF NarrowName, RunInv, StillHolds
  <2> QED
    BY <1>1, <2>1, EndedIInv DEF Outcomes
<1>5. CASE \E q \in rows : ~ q.named
  <2>1. Ended(o, "failed")
    BY <1>5 DEF NarrowName
  <2>2. PICK q \in db.rows : ~ given(q).named
    BY <1>5
  <2>3. ~ (q.named \/ q.id \in a.filled)
    BY <1>3, <2>2
  <2>4. a.rival \/ a.late
    BY <1>2, <2>3 DEF RunInv, StillHolds, Shares
  <2> QED
    BY <1>1, <1>2, <2>1, <2>4, EndedIInv DEF Outcomes
<1>6. CASE db.rev # "none" /\ \A q \in rows : q.named
  <2>1. alembic' = [alembic EXCEPT ![o].pc = "drop", ![o].draft = d]
    BY <1>6 DEF NarrowName
  <2> HIDE DEF given
  <2>2. rows \in SUBSET Rows /\ Owned(rows)
    BY <1>3 DEF IInv, Owned
  <2> HIDE DEF rows
  <2>3. d \in Databases /\ d.rows = rows /\ d.name = "required" /\ d.hash = db.hash
    BY <1>1, <2>2 DEF Databases
  <2> HIDE DEF d
  <2>4. b = [a EXCEPT !.pc = "drop", !.draft = d] /\ b \in Runs
    BY <1>1, <2>1, <2>3, Drafts DEF Statements
  <2>5. /\ b.pc = "drop" /\ b.from = a.from /\ b.to = a.to /\ b.draft = d
        /\ b.outcome = a.outcome /\ b.rival = a.rival /\ b.late = a.late
    BY <1>1, <2>4 DEF Runs
  <2>6. RunStep(o)
    BY <1>1, <2>1, <2>4 DEF RunStep
  <2>7. a.rival \/ db.hash = "required"
    BY <1>2 DEF RunInv, StillHolds, IInv, Matches
  <2>8. RunInv(b, db)
    BY <1>2, <1>6, <2>2, <2>3, <2>5, <2>7
       DEF RunInv, Planned, Drafted, StillHolds, Shares
  <2> QED
    BY <2>6, <2>8, RunStepIInv DEF NarrowName, Granted
<1> QED
  BY <1>4, <1>5, <1>6

(* DROP COLUMN: the column is there unless a rival has dropped it.         *)
LEMMA DropColumnIInv ==
  ASSUME IInv, NEW o \in Operators, DropColumn(o)
  PROVE  IInv'
<1> DEFINE a == alembic[o]
           b == alembic'[o]
           bare(q) == [q EXCEPT !.hash = NULL]
           rows == {bare(q) : q \in a.draft.rows}
           d == [a.draft EXCEPT !.hash = "absent", !.rev = "0bad12f9d217",
                                !.rows = rows]
<1>1. /\ alembic \in [Operators -> Runs] /\ a \in Runs /\ a.draft \in Databases
      /\ aborts' \in 0 .. MaxAborts /\ UNCHANGED <<db, req>>
  BY DEF IInv, TypeOK, DropColumn, Runs
<1>2. RunInv(a, db) /\ a.pc = "drop" /\ a.to = "-1"
  BY DEF IInv, RunInv, Planned, DropColumn
<1>3. CASE a.draft.hash = "absent"
  <2>1. Ended(o, "failed") /\ a.rival
    BY <1>2, <1>3 DEF DropColumn, RunInv, Drafted
  <2> QED
    BY <1>1, <2>1, EndedIInv DEF Outcomes
<1>4. CASE a.draft.hash # "absent"
  <2>1. b = [a EXCEPT !.pc = "commit", !.draft = d]
    BY <1>1, <1>4 DEF DropColumn, Runs
  <2>2. \A q \in a.draft.rows :
          bare(q) \in Rows /\ bare(q).hash = NULL /\ bare(q).named
    BY <1>1, <1>2, DatabaseParts, Rehashed DEF RunInv, Drafted
  <2> HIDE DEF bare
  <2>3. rows \in SUBSET Rows /\ Owned(rows) /\ \A q \in rows : q.named
    BY <2>2, ValuesAssumption DEF Owned
  <2> HIDE DEF rows
  <2>4. /\ d \in Databases /\ d.rows = rows /\ d.rev = "0bad12f9d217"
        /\ d.hash = "absent" /\ d.name = "required"
    BY <1>1, <1>2, <2>3 DEF Databases, Revisions, RunInv, Drafted
  <2> HIDE DEF d
  <2>5. Matches(d) /\ Owned(d.rows)
    BY <2>3, <2>4 DEF Matches
  <2>6. b \in Runs
    BY <1>1, <2>1, <2>4, Drafts DEF Statements
  <2>7. /\ b.pc = "commit" /\ b.from = a.from /\ b.to = a.to /\ b.draft = d
        /\ b.outcome = a.outcome /\ b.rival = a.rival /\ b.late = a.late
    BY <1>1, <2>1 DEF Runs
  <2>8. RunStep(o)
    BY <1>1, <1>4, <2>6 DEF RunStep, DropColumn
  <2>9. RunInv(b, db)
    BY <1>2, <2>5, <2>7 DEF RunInv, Planned, Drafted, StillHolds, Shares
  <2>10. Exclusive(o)
    BY <1>2 DEF Exclusive
  <2> QED
    BY <2>8, <2>9, <2>10, RunStepIInv
<1> QED
  BY <1>3, <1>4

(* DROP TABLE: with the tables to itself, unless a rival has dropped them. *)
LEMMA DropTablesIInv ==
  ASSUME IInv, NEW o \in Operators, DropTables(o)
  PROVE  IInv'
<1> DEFINE a == alembic[o]
           b == alembic'[o]
<1>1. /\ alembic \in [Operators -> Runs] /\ a \in Runs
      /\ aborts' \in 0 .. MaxAborts /\ UNCHANGED <<db, req>>
  BY DEF IInv, TypeOK, DropTables
<1>2. /\ RunInv(a, db) /\ a.pc = "wait" /\ a.to = "-1"
      /\ a.from = "0bad12f9d217"
  BY DEF IInv, DropTables, Dropping
<1>3. CASE db.rev = "none"
  <2>1. Ended(o, "failed") /\ a.rival
    BY <1>2, <1>3 DEF DropTables, RunInv, StillHolds
  <2> QED
    BY <1>1, <2>1, EndedIInv DEF Outcomes
<1>4. CASE db.rev # "none"
  <2>1. alembic' = [alembic EXCEPT ![o].pc = "commit", ![o].draft = Empty]
    BY <1>4 DEF DropTables
  <2>2. b = [a EXCEPT !.pc = "commit", !.draft = Empty] /\ b \in Runs
    BY <1>1, <2>1, EmptyIsFine, Drafts DEF Statements
  <2>3. /\ b.pc = "commit" /\ b.from = a.from /\ b.to = a.to /\ b.draft = Empty
        /\ b.outcome = a.outcome /\ b.rival = a.rival /\ b.late = a.late
    BY <1>1, <2>2 DEF Runs
  <2>4. RunStep(o)
    BY <1>1, <2>1, <2>2 DEF RunStep
  <2>5. RunInv(b, db)
    BY <1>2, <1>4, <2>3, EmptyIsFine
       DEF RunInv, Planned, Drafted, StillHolds, Shares
  <2> QED
    BY <2>4, <2>5, RunStepIInv DEF DropTables, Granted
<1> QED
  BY <1>3, <1>4

(* A run that PostgreSQL or somebody else stops.                           *)
LEMMA StoppedIInv ==
  ASSUME IInv, NEW o \in Operators, DeadlockVictim(o) \/ Abort(o)
  PROVE  IInv'
<1>1. CASE DeadlockVictim(o)
  BY <1>1, EndedIInv DEF DeadlockVictim, Outcomes, IInv, TypeOK
<1>2. CASE Abort(o)
  <2>1. aborts' \in 0 .. MaxAborts
    BY <1>2, AbortsAssumption DEF Abort, IInv, TypeOK
  <2> QED
    BY <1>2, <2>1, EndedIInv DEF Abort, Outcomes
<1> QED
  BY <1>1, <1>2

(* COMMIT: the draft becomes the database, and nobody else was at the table*)
(* that is changed.  A revision that is no longer the one that was read is *)
(* a rival's doing.                                                        *)
LEMMA CommitMigrationIInv ==
  ASSUME IInv, NEW o \in Operators, CommitMigration(o)
  PROVE  IInv'
<1> DEFINE a == alembic[o]
<1>1. /\ alembic \in [Operators -> Runs] /\ a \in Runs /\ db \in Databases
      /\ a.pc = "commit" /\ UNCHANGED <<req, aborts>>
  BY DEF IInv, TypeOK, CommitMigration
<1>2. RunInv(a, db) /\ Exclusive(o)
  BY <1>1 DEF IInv, Exclusive
<1>3. CASE db.rev # a.from
  <2>1. Ended(o, "failed") /\ UNCHANGED db /\ a.rival
    BY <1>1, <1>2, <1>3 DEF CommitMigration, RunInv, StillHolds
  <2> QED
    BY <1>1, <2>1, EndedIInv DEF Outcomes, IInv, TypeOK
<1>4. CASE db.rev = a.from
  <2> DEFINE end == [Idle EXCEPT !.to = alembic[o].to, !.outcome = "done"]
             seen(p) == [alembic[p] EXCEPT !.rival = @ \/ alembic[p].pc # "idle"]
  <2>1. /\ db' = a.draft
        /\ alembic' = [p \in Operators |-> IF p = o THEN end ELSE seen(p)]
    BY <1>4 DEF CommitMigration
  <2>2. end \in Runs /\ end.pc = "idle" /\ end.draft = Empty /\ end.outcome = "done"
    BY <1>1, EmptyIsFine DEF Runs, Idle, Revisions, Outcomes
  <2>3. ASSUME NEW p \in Operators
        PROVE  /\ seen(p) \in Runs
               /\ seen(p).pc = alembic[p].pc /\ seen(p).to = alembic[p].to
               /\ seen(p).from = alembic[p].from
               /\ seen(p).draft = alembic[p].draft
               /\ seen(p).filled = alembic[p].filled
               /\ seen(p).outcome = alembic[p].outcome
               /\ seen(p).late = alembic[p].late
               /\ seen(p).rival = (alembic[p].rival \/ alembic[p].pc # "idle")
    BY <1>1 DEF Runs
  <2> HIDE DEF end, seen
  <2>4. db' \in Databases /\ Matches(db') /\ Owned(db'.rows)
    BY <1>1, <1>2, <2>1 DEF RunInv, Drafted, Runs
  <2>5. TypeOK'
    BY <1>1, <2>1, <2>2, <2>3, <2>4 DEF TypeOK, IInv
  <2>6. ASSUME NEW p \in Operators PROVE RunInv(alembic'[p], db')
    <3>1. CASE p = o
      BY <2>1, <2>2, <3>1, EmptyIsFine
         DEF RunInv, Planned, Drafted, StillHolds, Shares
    <3>2. CASE p # o
      <4>1. RunInv(alembic[p], db)
        BY DEF IInv
      <4>2. alembic'[p] = seen(p)
        BY <2>1, <3>2
      <4>3. /\ alembic[p].rival => seen(p).rival
            /\ alembic[p].pc # "idle" => seen(p).rival
            /\ alembic[p].late => seen(p).late
        BY <1>1, <2>3 DEF Runs
      <4>4. Planned(seen(p)) /\ Drafted(seen(p))
        BY <2>3, <4>1, <4>3 DEF RunInv, Planned, Drafted
      <4>5. seen(p).pc \notin {"backfill", "tighten", "drop", "commit"}
        BY <1>2, <2>3, <3>2 DEF IInv, ExclusionInv, Exclusive
      <4>6. StillHolds(seen(p), db')
        BY <2>3, <4>1, <4>3, <4>5 DEF RunInv, StillHolds, Shares
      <4> QED
        BY <4>2, <4>4, <4>6 DEF RunInv
    <3> QED
      BY <3>1, <3>2
  <2>7. \A r \in Requests : RequestFits(req'[r], db')
    BY <1>1, <1>2 DEF IInv, ExclusionInv, RequestFits
  <2>8. ExclusionInv'
    BY <1>1, <2>1, <2>2, <2>3 DEF IInv, ExclusionInv, Exclusive
  <2> QED
    BY <2>4, <2>5, <2>6, <2>7, <2>8 DEF IInv
<1> QED
  BY <1>3, <1>4

-----------------------------------------------------------------------------
(* Requests.                                                               *)

(* The first statement of a request: the row it inserts is one that the    *)
(* columns will still hold when it commits.                                *)
LEMMA BeginIInv ==
  ASSUME IInv, NEW r \in Requests, NEW rows \in SUBSET Rows,
         Begin(r, rows), Owned(rows),
         db.rev = "0bad12f9d217" => \A q \in rows : q.named,
         db.rev = "a9327a283123" => \A q \in rows : q.hash # NULL
  PROVE  IInv'
<1> DEFINE s == [pc |-> "open", row |-> rows]
<1>1. /\ req \in [Requests -> Served] /\ UNCHANGED <<db, alembic, aborts>>
      /\ db.rev # "none" /\ \A o \in Operators : ~ Exclusive(o)
      /\ req' = [req EXCEPT ![r] = s]
  BY DEF IInv, TypeOK, Begin, Blocking
<1>2. s \in Served /\ RequestFits(s, db)
  BY <1>1 DEF Served, RequestFits
<1> HIDE DEF s
<1>3. TypeOK'
  BY <1>1, <1>2 DEF IInv, TypeOK
<1>4. \A x \in Requests : RequestFits(req'[x], db')
  BY <1>1, <1>2 DEF IInv
<1>5. ExclusionInv'
  BY <1>1 DEF ExclusionInv, Exclusive
<1> QED
  BY <1>1, <1>3, <1>4, <1>5 DEF IInv

LEMMA RequestIInv ==
  ASSUME IInv, NEW r \in Requests,
         \/ SelectUser(r)
         \/ \E i \in Ids : SeedWithoutHash(r, i)
         \/ \E i \in Ids, p \in Passwords : Register(r, i, p)
  PROVE  IInv'
<1>1. CASE SelectUser(r)
  <2>1. Begin(r, {}) /\ Owned({}) /\ {} \in SUBSET Rows
    BY <1>1 DEF SelectUser, Owned
  <2> QED
    BY <2>1, BeginIInv
<1>2. ASSUME NEW i \in Ids, SeedWithoutHash(r, i) PROVE IInv'
  <2> DEFINE row == [id |-> i, hash |-> NULL, named |-> TRUE, set |-> NULL]
  <2>1. row \in Rows /\ row.named /\ row.hash = NULL
    BY DEF Rows
  <2>2. Begin(r, {row}) /\ db.hash = "absent"
    BY <1>2 DEF SeedWithoutHash
  <2> HIDE DEF row
  <2>3. Owned({row}) /\ {row} \in SUBSET Rows
    BY <2>1, ValuesAssumption DEF Owned
  <2>4. db.rev # "a9327a283123"
    BY <2>2 DEF IInv, Matches
  <2> QED
    BY <2>1, <2>2, <2>3, <2>4, BeginIInv
<1>3. ASSUME NEW i \in Ids, NEW p \in Passwords, Register(r, i, p) PROVE IInv'
  <2> DEFINE row == [id |-> i, hash |-> p, named |-> FALSE, set |-> p]
  <2>1. row \in Rows /\ row.hash = p /\ row.set = p
    BY DEF Rows
  <2>2. Begin(r, {row}) /\ db.hash # "absent"
    BY <1>3 DEF Register
  <2> HIDE DEF row
  <2>3. Owned({row}) /\ {row} \in SUBSET Rows /\ \A q \in {row} : q.hash # NULL
    BY <2>1, ValuesAssumption DEF Owned
  <2>4. db.rev # "0bad12f9d217"
    BY <2>2 DEF IInv, Matches
  <2> QED
    BY <2>2, <2>3, <2>4, BeginIInv
<1> QED
  BY <1>1, <1>2, <1>3

(* A request ends: with its row committed, or rolled back.                 *)
LEMMA CommitRequestIInv ==
  ASSUME IInv, NEW r \in Requests, CommitRequest(r)
  PROVE  IInv'
<1> DEFINE seen(o) == [alembic[o] EXCEPT !.late = @ \/ Sharing(o)]
<1>1. /\ alembic \in [Operators -> Runs] /\ req \in [Requests -> Served]
      /\ db \in Databases /\ req[r] \in Served /\ UNCHANGED aborts
      /\ req[r].pc = "open" /\ \A o \in Operators : ~ Exclusive(o)
  BY DEF IInv, TypeOK, CommitRequest, ExclusionInv
<1>2. /\ alembic' = [o \in Operators |-> seen(o)]
      /\ db' = [db EXCEPT !.rows = db.rows \cup req[r].row]
      /\ req' = [req EXCEPT ![r] = NoRequest]
  BY <1>1 DEF CommitRequest, Databases
<1>3. /\ db' \in Databases /\ db'.rows = db.rows \cup req[r].row
      /\ db'.rev = db.rev /\ db'.hash = db.hash /\ db'.name = db.name
  BY <1>1, <1>2 DEF Databases, Served
<1>4. RequestFits(req[r], db) /\ Matches(db) /\ Owned(db.rows)
  BY DEF IInv
<1>5. Matches(db') /\ Owned(db'.rows)
  BY <1>1, <1>3, <1>4 DEF RequestFits, Matches, Owned
<1>6. ASSUME NEW o \in Operators
      PROVE  /\ seen(o) \in Runs
             /\ seen(o).pc = alembic[o].pc /\ seen(o).to = alembic[o].to
             /\ seen(o).from = alembic[o].from
             /\ seen(o).draft = alembic[o].draft
             /\ seen(o).filled = alembic[o].filled
             /\ seen(o).outcome = alembic[o].outcome
             /\ seen(o).rival = alembic[o].rival
             /\ alembic[o].late => seen(o).late
             /\ Shares(alembic[o]) => seen(o).late
  <2>1. alembic[o] \in Runs /\ Sharing(o) \in BOOLEAN
    BY <1>1 DEF Sharing
  <2> QED
    BY <2>1 DEF Runs, Sharing, Shares
<1> HIDE DEF seen
<1>7. NoRequest \in Served /\ RequestFits(NoRequest, db') /\ NoRequest.pc = "idle"
  BY DEF NoRequest, Served, RequestFits, Owned
<1>8. TypeOK'
  BY <1>1, <1>2, <1>3, <1>6, <1>7 DEF IInv, TypeOK
<1>9. ASSUME NEW o \in Operators PROVE RunInv(alembic'[o], db')
  <2>1. RunInv(alembic[o], db) /\ alembic'[o] = seen(o)
    BY <1>2 DEF IInv
  <2>2. Planned(seen(o)) /\ Drafted(seen(o))
    BY <1>6, <2>1 DEF RunInv, Planned, Drafted
  <2>3. StillHolds(seen(o), db')
    BY <1>3, <1>6, <2>1 DEF RunInv, StillHolds, Shares
  <2> QED
    BY <2>1, <2>2, <2>3 DEF RunInv
<1>10. \A x \in Requests : RequestFits(req'[x], db')
  BY <1>1, <1>2, <1>3, <1>7 DEF IInv, RequestFits
<1>11. ExclusionInv'
  BY <1>1, <1>2, <1>6 DEF ExclusionInv, Exclusive
<1> QED
  BY <1>5, <1>8, <1>9, <1>10, <1>11 DEF IInv

LEMMA CloseIInv ==
  ASSUME IInv, NEW r \in Requests, Close(r)
  PROVE  IInv'
<1>1. /\ req \in [Requests -> Served] /\ UNCHANGED <<db, alembic, aborts>>
      /\ req' = [req EXCEPT ![r] = NoRequest]
  BY DEF IInv, TypeOK, Close
<1>2. NoRequest \in Served /\ RequestFits(NoRequest, db) /\ NoRequest.pc = "idle"
  BY DEF NoRequest, Served, RequestFits, Owned
<1>3. TypeOK'
  BY <1>1, <1>2 DEF IInv, TypeOK
<1>4. \A x \in Requests : RequestFits(req'[x], db')
  BY <1>1, <1>2 DEF IInv
<1>5. ExclusionInv'
  BY <1>1, <1>2 DEF IInv, ExclusionInv, Exclusive
<1> QED
  BY <1>1, <1>3, <1>4, <1>5 DEF IInv

-----------------------------------------------------------------------------
(* Together.                                                               *)

LEMMA NextIInv == IInv /\ [Next]_vars => IInv'
<1> SUFFICES ASSUME IInv, [Next]_vars PROVE IInv'
  OBVIOUS
<1>1. ASSUME NEW o \in Operators, NEW to \in {"head", "-1"}, StartAlembic(o, to)
      PROVE  IInv'
  BY <1>1, StartIInv
<1>2. ASSUME NEW o \in Operators, Run(o) PROVE IInv'
  <2>1. CASE QueueForTable(o)
    BY <2>1, GotoIInv DEF QueueForTable
  <2>2. CASE FinishFill(o)
    BY <2>2, GotoIInv DEF FinishFill
  <2> QED
    BY <1>2, <2>1, <2>2, ReadRevisionIInv, CreateTablesIInv, AddColumnIInv,
       BackfillIInv, TightenIInv, FillNamesIInv, NarrowNameIInv, DropColumnIInv,
       DropTablesIInv, CommitMigrationIInv, StoppedIInv DEF Run
<1>3. ASSUME NEW o \in Operators, Abort(o) PROVE IInv'
  BY <1>3, StoppedIInv
<1>4. ASSUME NEW r \in Requests,
             \/ SelectUser(r)
             \/ \E i \in Ids : SeedWithoutHash(r, i)
             \/ \E i \in Ids, p \in Passwords : Register(r, i, p)
             \/ CommitRequest(r)
             \/ Close(r)
      PROVE  IInv'
  BY <1>4, RequestIInv, CommitRequestIInv, CloseIInv
<1>5. CASE UNCHANGED vars
  BY <1>5 DEF vars, IInv, TypeOK, ExclusionInv, Exclusive
<1> QED
  BY <1>1, <1>2, <1>3, <1>4, <1>5 DEF Next

LEMMA IInvInvariant == Spec => []IInv
BY InitIInv, NextIInv, PTL DEF Spec

(* Types are kept, on every path of every statement.                       *)
THEOREM TypeCorrect == Spec => []TypeOK
BY IInvInvariant, PTL DEF IInv

(* alembic_version always says what the columns are, and no row breaks     *)
(* their constraints: no interruption, rival or request leaves a revision  *)
(* half applied.                                                           *)
THEOREM SchemaIsItsRevision == Spec => []RevisionMatchesSchema
<1>1. IInv => RevisionMatchesSchema
  BY DEF IInv, Matches, RevisionMatchesSchema
<1> QED
  BY <1>1, IInvInvariant, PTL

(* The upgrade never fails on the rows it finds, nor a downgrade on rows   *)
(* without a name: only a rival's commit, or a registration that slipped in*)
(* behind a downgrade's UPDATE, makes alembic fail.                        *)
THEOREM AlembicFailsForAReason == Spec => []FailuresExplained
<1>1. IInv => FailuresExplained
  BY DEF IInv, RunInv, StillHolds, FailuresExplained
<1> QED
  BY <1>1, IInvInvariant, PTL

(* No row ever holds the hash of a password that the owner of the account  *)
(* did not choose, whatever upgrades and downgrades it has been through.   *)
THEOREM NobodyIsGivenAPassword == Spec => []PasswordsAreOwners
<1>1. IInv => PasswordsAreOwners
  BY DEF IInv, Owned, PasswordsAreOwners
<1> QED
  BY <1>1, IInvInvariant, PTL

=============================================================================
