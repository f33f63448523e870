------------------------------ MODULE Instances ------------------------------
(***************************************************************************)
(* The Lambda instances that serve the API, and the one resource they keep *)
(* from one request to the next: the connection pool (app/db.py,           *)
(* app/config.py, app/routers/health.py, app/lambda_handler.py).           *)
(*                                                                         *)
(* An instance reads its secrets once, when it starts.  It serves one event*)
(* at a time; in between it is frozen, and while it is its connection can  *)
(* die without anybody noticing.  It is discarded without notice, too.     *)
(* Meanwhile the database goes away and comes back, and its password is    *)
(* changed, which takes two steps, in the database and in Secrets Manager, *)
(* and spares the connections already open.                                *)
(***************************************************************************)
EXTENDS Integers, FiniteSets

CONSTANTS
  Slots,         \* bound: instances that exist at once, warm or busy
  Concurrency,   \* reserved concurrency: events being served at once
  MaxOutages,    \* bound: outages of the database
  MaxRotations   \* bound: changes of its password

ASSUME BoundsAssumption ==
  Concurrency \in Nat /\ MaxOutages \in Nat /\ MaxRotations \in Nat

VARIABLES
  inst,      \* the instances
  up,        \* does the database accept connections?
  password,  \* its password, as a version
  secret,    \* what Secrets Manager says that is
  outages    \* so far

environment == <<up, password, secret, outages>>

(* key: the password it read at its start.  idle: the connection in its    *)
(* pool.  conn: the one its request has checked out.  used: connections    *)
(* checked out and not returned.  answer: what it is told.  excuse, for the*)
(* property: has there been a reason to fail since the request came?  Only *)
(* what happens to the database or a connection sets it, and what the      *)
(* request finds when it comes.                                            *)
None == [pc |-> "none", key |-> 0, idle |-> "none", conn |-> "none",
         used |-> 0, answer |-> "none", excuse |-> FALSE]

Connections == {"none", "alive", "dead"}
PoolSize == 1
MaxOverflow == 1

Busy(i) == inst[i].pc \notin {"none", "warm"}

-----------------------------------------------------------------------------
InstancesInit ==
  /\ inst = [i \in Slots |-> None]
  /\ up = TRUE
  /\ password = 0
  /\ secret = 0
  /\ outages = 0

(* Import of app.config and app.db: _resolve reads the secret, the engine  *)
(* is created and connects to nothing yet.                                 *)
ColdStart(i) ==
  /\ inst[i].pc = "none"
  /\ inst' = [inst EXCEPT ![i] = [None EXCEPT !.pc = "warm", !.key = secret]]
  /\ UNCHANGED environment

(* An event reaches an instance: GET /health/ready, or any request that    *)
(* needs the database.                                                     *)
Invoke(i) ==
  /\ inst[i].pc = "warm"
  /\ Cardinality({j \in Slots : Busy(j)}) < Concurrency
  /\ inst' = [inst EXCEPT ![i].pc = "checkout",
                          ![i].excuse = ~ up \/ inst[i].key # password]
  /\ UNCHANGED environment

(* The connection that the request uses from now on.                       *)
Use(i, conn, idle) ==
  inst' = [inst EXCEPT ![i].pc = "execute", ![i].conn = conn,
                       ![i].idle = idle, ![i].used = @ + 1]

(* Mistakes the runs must notice: pool_pre_ping=False, and a get_db that   *)
(* does not close its session.                                             *)
ReuseUnchecked(i) ==
  inst[i].idle # "none" /\ Use(i, inst[i].idle, "none")

CloseForgotten(i) ==
  /\ inst[i].pc = "close"
  /\ inst' = [inst EXCEPT ![i].pc = "warm", ![i].conn = "none",
                          ![i].answer = "none", ![i].excuse = FALSE]
  /\ UNCHANGED environment

(* pool_pre_ping: a pooled connection is used if it answers.               *)
Reuse(i) == inst[i].idle = "alive" /\ Use(i, "alive", "none")

(* There was none, it was dead, or older than pool_recycle: a new one, for *)
(* which the database must be up and like the password.                    *)
Connect(i) ==
  IF up /\ inst[i].key = password
    THEN Use(i, "alive", "none")
    ELSE inst' = [inst EXCEPT ![i].pc = "close", ![i].idle = "none",
                              ![i].answer = "failed"]

(* The first statement takes a connection from the pool.  It would wait if *)
(* all were out.                                                           *)
Checkout(i) ==
  /\ inst[i].pc = "checkout"
  /\ inst[i].used < PoolSize + MaxOverflow
  /\ Reuse(i) \/ Connect(i)
  /\ UNCHANGED environment

(* SELECT 1, or what else the handler asks.  A SQLAlchemyError is a 503    *)
(* from the probe, a 500 from the others.                                  *)
Execute(i) ==
  /\ inst[i].pc = "execute"
  /\ inst' = [inst EXCEPT ![i].pc = "close",
       ![i].answer = IF inst[i].conn = "alive" THEN "served" ELSE "failed"]
  /\ UNCHANGED environment

(* get_db closes its session: the connection goes back, unless it is dead  *)
(* or there is one in the pool already.  The event is over.                *)
Close(i) ==
  /\ inst[i].pc = "close"
  /\ inst' = [inst EXCEPT ![i].pc = "warm", ![i].conn = "none",
       ![i].answer = "none", ![i].excuse = FALSE,
       ![i].idle = IF @ = "none" /\ inst[i].conn = "alive" THEN "alive" ELSE @,
       ![i].used = IF inst[i].conn = "none" THEN @ ELSE @ - 1]
  /\ UNCHANGED environment

(* The instance is discarded without notice, or killed at its timeout.     *)
Discard(i) ==
  /\ inst[i].pc # "none"
  /\ inst' = [inst EXCEPT ![i] = None]
  /\ UNCHANGED environment

-----------------------------------------------------------------------------
(* What happens to the database and to its connections.                    *)

Dead(conn) == IF conn = "alive" THEN "dead" ELSE conn

(* A NAT or an idle timeout drops a connection.  For a request that is     *)
(* about to use it that is a reason to fail.                               *)
BreakConnection(i) ==
  /\ "alive" \in {inst[i].idle, inst[i].conn}
  /\ inst' = [inst EXCEPT ![i].idle = Dead(@), ![i].conn = Dead(@),
                          ![i].excuse = @ \/ inst[i].pc = "execute"]
  /\ UNCHANGED environment

(* The database goes down and takes all connections with it.               *)
Outage ==
  /\ up /\ outages < MaxOutages
  /\ up' = FALSE
  /\ outages' = outages + 1
  /\ inst' = [i \in Slots |->
       [inst[i] EXCEPT !.idle = Dead(@), !.conn = Dead(@), !.excuse = @ \/ Busy(i)]]
  /\ UNCHANGED <<password, secret>>

Recovery ==
  /\ ~ up
  /\ up' = TRUE
  /\ UNCHANGED <<inst, password, secret, outages>>

(* The operator changes the password, in either order.                     *)
ChangePassword ==
  /\ password < MaxRotations /\ password <= secret
  /\ password' = password + 1
  /\ inst' = [i \in Slots |-> [inst[i] EXCEPT
       !.excuse = @ \/ (Busy(i) /\ inst[i].key # password + 1)]]
  /\ UNCHANGED <<up, secret, outages>>

PutSecret ==
  /\ secret < MaxRotations /\ secret <= password
  /\ secret' = secret + 1
  /\ UNCHANGED <<inst, up, password, outages>>

Serve(i) == Checkout(i) \/ Execute(i) \/ Close(i)

Weather ==
  \/ \E i \in Slots : BreakConnection(i)
  \/ Outage
  \/ Recovery
  \/ ChangePassword
  \/ PutSecret

-----------------------------------------------------------------------------
(* Properties.                                                             *)

InstancesTypeOK ==
  /\ inst \in [Slots ->
       [pc : {"none", "warm", "checkout", "execute", "close"},
        key : 0 .. MaxRotations, idle : Connections, conn : Connections,
        used : 0 .. PoolSize + MaxOverflow,
        answer : {"none", "served", "failed"}, excuse : BOOLEAN]]
  /\ up \in BOOLEAN
  /\ {password, secret} \subseteq 0 .. MaxRotations
  /\ outages \in 0 .. MaxOutages

(* health.py: readiness has no false negatives.  A 503 means that, since   *)
(* the probe came, the database was down, its password was not the one the *)
(* instance has, or the connection broke while a statement was about to use*)
(* it.  It is never the work of a connection that died while the instance  *)
(* was frozen, nor of an earlier request on the same instance.             *)
FailureWasReal ==
  \A i \in Slots : inst[i].answer = "failed" => inst[i].excuse

(* db.py: "it needs exactly one connection at a time".  An instance never  *)
(* holds a second one, in the pool or out of it, so the instances together *)
(* stay far below what the database can take and no request waits for the  *)
(* pool.                                                                   *)
OneConnectionEach ==
  \A i \in Slots :
    inst[i].used <= IF inst[i].idle = "none" THEN 1 ELSE 0

=============================================================================
