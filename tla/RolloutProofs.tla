---------------------------- MODULE RolloutProofs ----------------------------
(***************************************************************************)
(* What TLAPS proves of Rollout and of the Instances under it, for every   *)
(* number of instances, merges, attempts, outages and password changes.    *)
(***************************************************************************)
EXTENDS Rollout, TLAPS

(* ---- One instance ----------------------------------------------------- *)

(* A connection is in use exactly while a request has one, and then none   *)
(* is pooled; a dead one in use, like a failure, has its reason, and so has*)
(* a request that would be refused a connection now.                       *)
OneInstance(i) ==
  /\ inst[i].used = IF inst[i].conn = "none" THEN 0 ELSE 1
  /\ inst[i].conn # "none" => inst[i].idle = "none"
  /\ inst[i].pc \in {"none", "warm", "checkout"} => inst[i].conn = "none"
  /\ inst[i].pc = "execute" => inst[i].conn # "none"
  /\ inst[i].pc # "close" => inst[i].answer = "none"
  /\ inst[i].pc = "execute" /\ inst[i].conn = "dead" => inst[i].excuse
  /\ inst[i].pc = "checkout" /\ (~ up \/ inst[i].key # password) => inst[i].excuse
  /\ inst[i].answer = "failed" => inst[i].excuse

InstancesInv == InstancesTypeOK /\ \A i \in Slots : OneInstance(i)

(* The record of an instance, and what its steps assign to it.             *)
Instance ==
  [pc : {"none", "warm", "checkout", "execute", "close"},
   key : 0 .. MaxRotations, idle : Connections, conn : Connections,
   used : 0 .. PoolSize + MaxOverflow,
   answer : {"none", "served", "failed"}, excuse : BOOLEAN]

LEMMA DeadType ==
  ASSUME NEW conn \in Connections
  PROVE  /\ Dead(conn) \in Connections
         /\ Dead(conn) = "none" <=> conn = "none"
BY DEF Connections, Dead

LEMMA InstancesInvInit == InstancesInit => InstancesInv
BY BoundsAssumption
   DEF InstancesInit, InstancesInv, InstancesTypeOK, OneInstance, None,
       Connections, PoolSize, MaxOverflow

(* Steps of one instance.                                                  *)
LEMMA ColdStartKeeps ==
  ASSUME InstancesInv, NEW i \in Slots, ColdStart(i)
  PROVE  InstancesInv'
BY BoundsAssumption
   DEF InstancesInv, InstancesTypeOK, OneInstance, ColdStart, None,
       Connections, PoolSize, MaxOverflow, environment

LEMMA InvokeKeeps ==
  ASSUME InstancesInv, NEW i \in Slots, Invoke(i)
  PROVE  InstancesInv'
<1> DEFINE e == ~ up \/ inst[i].key # password
<1>1. e \in BOOLEAN
  OBVIOUS
<1>2. /\ inst[i].pc = "warm"
      /\ inst' = [inst EXCEPT ![i].pc = "checkout", ![i].excuse = e]
      /\ UNCHANGED environment
  BY DEF Invoke
<1>5. ~ up \/ inst[i].key # password => e
  OBVIOUS
<1> HIDE DEF e
<1>3. InstancesTypeOK'
  BY <1>1, <1>2 DEF InstancesInv, InstancesTypeOK, environment
<1>4. ASSUME NEW j \in Slots PROVE OneInstance(j)'
  BY <1>1, <1>2, <1>5 DEF InstancesInv, InstancesTypeOK, OneInstance, environment
<1> QED
  BY <1>3, <1>4 DEF InstancesInv

LEMMA CheckoutKeeps ==
  ASSUME InstancesInv, NEW i \in Slots, Checkout(i)
  PROVE  InstancesInv'
<1>1. CASE Use(i, "alive", "none")
  BY <1>1 DEF InstancesInv, InstancesTypeOK, OneInstance, Checkout, Use,
              Connections, PoolSize, MaxOverflow, environment
<1>2. CASE ~ Use(i, "alive", "none")
  <2>1. /\ inst[i].pc = "checkout" /\ inst[i].excuse
        /\ inst' = [inst EXCEPT ![i].pc = "close", ![i].idle = "none",
                               ![i].answer = "failed"]
        /\ UNCHANGED environment
    BY <1>2 DEF InstancesInv, OneInstance, Checkout, Reuse, Connect
  <2>2. InstancesTypeOK'
    <3>1. inst \in [Slots -> Instance] /\ "none" \in Connections
      BY DEF InstancesInv, InstancesTypeOK, Instance, Connections
    <3>2. inst' \in [Slots -> Instance]
      <4> DEFINE rec == [inst[i] EXCEPT !.pc = "close", !.idle = "none",
                                        !.answer = "failed"]
      <4>1. inst' = [inst EXCEPT ![i] = rec]
        BY <2>1, <3>1
      <4>2. rec \in Instance
        BY <3>1 DEF Instance
      <4> HIDE DEF rec
      <4> QED
        BY <3>1, <4>1, <4>2
    <3>3. UNCHANGED <<up, password, secret, outages>>
      BY <2>1 DEF environment
    <3> QED
      BY <3>2, <3>3 DEF InstancesInv, InstancesTypeOK, Instance
  <2>3. ASSUME NEW j \in Slots PROVE OneInstance(j)'
    BY <2>1 DEF InstancesInv, InstancesTypeOK, OneInstance, environment
  <2> QED
    BY <2>2, <2>3 DEF InstancesInv
<1> QED
  BY <1>1, <1>2

LEMMA ExecuteKeeps ==
  ASSUME InstancesInv, NEW i \in Slots, Execute(i)
  PROVE  InstancesInv'
BY DEF InstancesInv, InstancesTypeOK, OneInstance, Execute,
       Connections, PoolSize, MaxOverflow, environment

LEMMA CloseKeeps ==
  ASSUME InstancesInv, NEW i \in Slots, Close(i)
  PROVE  InstancesInv'
<1> DEFINE idle == IF inst[i].idle = "none" /\ inst[i].conn = "alive"
                     THEN "alive" ELSE inst[i].idle
           used == IF inst[i].conn = "none" THEN inst[i].used
                     ELSE inst[i].used - 1
<1>1. idle \in Connections /\ used = 0
  BY DEF InstancesInv, InstancesTypeOK, OneInstance, Connections
<1>2. inst' = [inst EXCEPT ![i].pc = "warm", ![i].conn = "none",
                 ![i].answer = "none", ![i].excuse = FALSE,
                 ![i].idle = idle, ![i].used = used]
  BY DEF Close, InstancesInv, InstancesTypeOK
<1> HIDE DEF idle, used
<1>3. InstancesTypeOK'
  <2>1. used \in 0 .. PoolSize + MaxOverflow /\ "none" \in Connections
    BY <1>1 DEF PoolSize, MaxOverflow, Connections
  <2>2. inst' \in [Slots -> Instance]
    <3> DEFINE rec == [inst[i] EXCEPT !.pc = "warm", !.conn = "none",
                         !.answer = "none", !.excuse = FALSE,
                         !.idle = idle, !.used = used]
    <3>1. inst \in [Slots -> Instance]
      BY DEF InstancesInv, InstancesTypeOK, Instance
    <3>2. inst' = [inst EXCEPT ![i] = rec]
      BY <1>2, <3>1
    <3>3. rec \in Instance
      BY <1>1, <2>1, <3>1 DEF Instance
    <3> HIDE DEF rec
    <3> QED
      BY <3>1, <3>2, <3>3
  <2> QED
    BY <2>2 DEF Close, InstancesInv, InstancesTypeOK, Instance, environment
<1>4. ASSUME NEW j \in Slots PROVE OneInstance(j)'
  BY <1>1, <1>2 DEF Close, InstancesInv, InstancesTypeOK, OneInstance, environment
<1> QED
  BY <1>3, <1>4 DEF InstancesInv

LEMMA DiscardKeeps ==
  ASSUME InstancesInv, NEW i \in Slots, Discard(i)
  PROVE  InstancesInv'
BY BoundsAssumption
   DEF InstancesInv, InstancesTypeOK, OneInstance, Discard, None,
       Connections, PoolSize, MaxOverflow, environment

(* What happens to the database and to the connections.                    *)
LEMMA WeatherKeeps ==
  ASSUME InstancesInv, Weather
  PROVE  InstancesInv'
<1>1. ASSUME NEW i \in Slots, BreakConnection(i) PROVE InstancesInv'
  <2> DEFINE e == inst[i].excuse \/ inst[i].pc = "execute"
  <2>1. e \in BOOLEAN
    OBVIOUS
  <2>2. inst' = [inst EXCEPT ![i].idle = Dead(inst[i].idle),
                             ![i].conn = Dead(inst[i].conn), ![i].excuse = e]
    BY <1>1 DEF BreakConnection, InstancesInv, InstancesTypeOK
  <2>3. (e <=> inst[i].excuse \/ inst[i].pc = "execute")
    OBVIOUS
  <2> HIDE DEF e
  <2>4. InstancesTypeOK'
    <3>1. inst[i].idle \in Connections /\ inst[i].conn \in Connections
      BY DEF InstancesInv, InstancesTypeOK
    <3>2. inst' \in [Slots -> Instance]
      <4> DEFINE rec == [inst[i] EXCEPT !.idle = Dead(inst[i].idle),
                           !.conn = Dead(inst[i].conn), !.excuse = e]
      <4>1. inst \in [Slots -> Instance]
        BY DEF InstancesInv, InstancesTypeOK, Instance
      <4>2. inst' = [inst EXCEPT ![i] = rec]
        BY <2>2, <4>1
      <4>3. rec \in Instance
        BY <2>1, <3>1, <4>1, DeadType DEF Instance
      <4> HIDE DEF rec
      <4> QED
        BY <4>1, <4>2, <4>3
    <3> QED
      BY <1>1, <3>2
         DEF BreakConnection, InstancesInv, InstancesTypeOK, Instance, environment
  <2>5. ASSUME NEW j \in Slots PROVE OneInstance(j)'
    <3>1. UNCHANGED environment
      BY <1>1 DEF BreakConnection
    <3> QED
      BY <2>1, <2>2, <2>3, <3>1
         DEF InstancesInv, InstancesTypeOK, OneInstance, Connections, Dead,
             environment
  <2> QED
    BY <2>4, <2>5 DEF InstancesInv
<1>2. CASE Outage
  <2> DEFINE e(j) == inst[j].excuse \/ Busy(j)
  <2>1. \A j \in Slots : e(j) \in BOOLEAN
    OBVIOUS
  <2>2. inst' = [j \in Slots |->
          [inst[j] EXCEPT !.idle = Dead(inst[j].idle),
                          !.conn = Dead(inst[j].conn), !.excuse = e(j)]]
    BY <1>2 DEF Outage, InstancesInv, InstancesTypeOK
  <2>3. \A j \in Slots : e(j) <=> inst[j].excuse \/ inst[j].pc \notin {"none", "warm"}
    BY DEF Busy
  <2> HIDE DEF e
  <2>4. InstancesTypeOK'
    <3>1. inst \in [Slots -> Instance]
      BY DEF InstancesInv, InstancesTypeOK, Instance
    <3>2. ASSUME NEW j \in Slots
          PROVE  [inst[j] EXCEPT !.idle = Dead(inst[j].idle),
                    !.conn = Dead(inst[j].conn), !.excuse = e(j)] \in Instance
      BY <2>1, <3>1, DeadType DEF Instance, PoolSize, MaxOverflow
    <3>3. inst' \in [Slots -> Instance]
      BY <2>2, <3>2
    <3> QED
      <4>1. /\ up' = FALSE /\ password' = password /\ secret' = secret
            /\ outages' = outages + 1 /\ outages < MaxOutages
        BY <1>2 DEF Outage
      <4>2. outages' \in 0 .. MaxOutages
        BY <4>1, BoundsAssumption DEF InstancesInv, InstancesTypeOK
      <4>3. {password, secret}' \subseteq 0 .. MaxRotations
        BY <4>1 DEF InstancesInv, InstancesTypeOK
      <4> QED
        BY <3>3, <4>1, <4>2, <4>3 DEF InstancesTypeOK, Instance
  <2>5. ASSUME NEW j \in Slots PROVE OneInstance(j)'
    <3>1. /\ inst \in [Slots -> Instance]
          /\ inst[j].idle \in Connections /\ inst[j].conn \in Connections
      BY DEF InstancesInv, InstancesTypeOK, Instance
    <3>2. inst'[j] = [inst[j] EXCEPT !.idle = Dead(inst[j].idle),
                        !.conn = Dead(inst[j].conn), !.excuse = e(j)]
      BY <2>2
    <3>3. /\ inst'[j].idle = Dead(inst[j].idle)
          /\ inst'[j].conn = Dead(inst[j].conn)
          /\ inst'[j].excuse = e(j)
          /\ inst'[j].pc = inst[j].pc /\ inst'[j].used = inst[j].used
          /\ inst'[j].answer = inst[j].answer
      BY <3>1, <3>2 DEF Instance
    <3> QED
      BY <2>3, <3>1, <3>3, DeadType DEF InstancesInv, OneInstance
  <2> QED
    BY <2>4, <2>5 DEF InstancesInv
<1>3. CASE Recovery
  BY <1>3 DEF InstancesInv, InstancesTypeOK, OneInstance, Recovery
<1>4. CASE ChangePassword
  <2> DEFINE e(j) == inst[j].excuse \/ (Busy(j) /\ inst[j].key # password + 1)
  <2>1. \A j \in Slots : e(j) \in BOOLEAN
    OBVIOUS
  <2>2. /\ inst' = [j \in Slots |-> [inst[j] EXCEPT !.excuse = e(j)]]
        /\ password' = password + 1 /\ password < MaxRotations
        /\ UNCHANGED <<up, secret, outages>>
    BY <1>4 DEF ChangePassword, InstancesInv, InstancesTypeOK
  <2>3. \A j \in Slots : e(j) <=>
          \/ inst[j].excuse
          \/ inst[j].pc \notin {"none", "warm"} /\ inst[j].key # password'
    BY <2>2 DEF Busy
  <2> HIDE DEF e
  <2>4. InstancesTypeOK'
    <3>1. inst \in [Slots -> Instance]
      BY DEF InstancesInv, InstancesTypeOK, Instance
    <3>2. inst' \in [Slots -> Instance]
      BY <2>1, <2>2, <3>1 DEF Instance
    <3>3. {password, secret}' \subseteq 0 .. MaxRotations
      BY <2>2, BoundsAssumption DEF InstancesInv, InstancesTypeOK
    <3> QED
      BY <2>2, <3>2, <3>3 DEF InstancesInv, InstancesTypeOK, Instance
  <2>5. ASSUME NEW j \in Slots PROVE OneInstance(j)'
    <3>1. inst \in [Slots -> Instance]
      BY DEF InstancesInv, InstancesTypeOK, Instance
    <3>2. /\ inst'[j].pc = inst[j].pc /\ inst'[j].used = inst[j].used
          /\ inst'[j].idle = inst[j].idle /\ inst'[j].conn = inst[j].conn
          /\ inst'[j].answer = inst[j].answer /\ inst'[j].key = inst[j].key
          /\ inst'[j].excuse = e(j) /\ up' = up
      BY <2>2, <3>1 DEF Instance
    <3> QED
      BY <2>3, <3>2 DEF InstancesInv, OneInstance
  <2> QED
    BY <2>4, <2>5 DEF InstancesInv
<1>5. CASE PutSecret
  BY <1>5, BoundsAssumption
     DEF InstancesInv, InstancesTypeOK, OneInstance, PutSecret
<1> QED
  BY <1>1, <1>2, <1>3, <1>4, <1>5 DEF Weather

LEMMA InstancesUnchanged ==
  ASSUME InstancesInv, UNCHANGED <<inst, environment>>
  PROVE  InstancesInv'
BY DEF InstancesInv, InstancesTypeOK, OneInstance, environment


(* ---- The workflow ----------------------------------------------------- *)

WorkflowTypeOK ==
  /\ head \in 0 .. MaxCommits
  /\ run \in [Commits -> {"none", "pending"} \cup Running \cup Finished]
  /\ attempt \in 0 .. Attempts
  /\ tested \in Slots \cup {NoSlot}
  /\ configured \in 0 .. head /\ updating \in 0 .. head
  /\ updated \in BOOLEAN

(* The concurrency group: one run at a time, and one that waits, which is  *)
(* the newest.                                                             *)
Grouped ==
  /\ \A c \in Commits : c > head => run[c] = "none"
  /\ \A c \in Commits : run[c] = "pending" => c = head
  /\ \A c, d \in Commits : run[c] \in Running /\ run[d] \in Running => c = d

(* What the function is set to, or being updated to, is no newer than any  *)
(* run that is still to come.                                              *)
Ordered ==
  /\ \A c \in Commits : run[c] \in Running \cup {"pending"} =>
       configured <= c /\ updating <= c
  /\ updating # 0 => configured <= updating

(* A run that waits has its update under way or finished, and one that     *)
(* tests has it in place.                                                  *)
UpdateIsOwn ==
  \A c \in Commits :
    /\ run[c] = "wait" =>
         updating = c \/ (updating = 0 /\ (updated => configured = c))
    /\ run[c] = "smoke" =>
         configured = c /\ updating = 0 /\ attempt < Attempts

WorkflowInv == WorkflowTypeOK /\ Grouped /\ Ordered /\ UpdateIsOwn

LEMMA WorkflowInvInit == Init => WorkflowInv
BY RolloutAssumption
   DEF Init, WorkflowInv, WorkflowTypeOK, Grouped, Ordered, UpdateIsOwn,
       Commits, Running, Finished

LEMMA WorkflowUnchanged ==
  ASSUME WorkflowInv, UNCHANGED <<workflow, function>>
  PROVE  WorkflowInv'
BY DEF workflow, function, WorkflowInv, WorkflowTypeOK, Grouped, Ordered,
       UpdateIsOwn

LEMMA PushKeeps ==
  ASSUME WorkflowInv, Push
  PROVE  WorkflowInv'
BY RolloutAssumption
   DEF Push, function, WorkflowInv, WorkflowTypeOK, Grouped, Ordered,
       UpdateIsOwn, Commits, Running, Finished

LEMMA DispatchKeeps ==
  ASSUME WorkflowInv, Dispatch
  PROVE  WorkflowInv'
BY RolloutAssumption
   DEF Dispatch, RunGoto, function, WorkflowInv, WorkflowTypeOK, Grouped,
       Ordered, UpdateIsOwn, Commits, Running, Finished

LEMMA BeginKeeps ==
  ASSUME WorkflowInv, NEW c \in Commits, Begin(c)
  PROVE  WorkflowInv'
BY RolloutAssumption
   DEF Begin, RunGoto, function, WorkflowInv, WorkflowTypeOK, Grouped,
       Ordered, UpdateIsOwn, Commits, Running, Finished

LEMMA BuildKeeps ==
  ASSUME WorkflowInv, NEW c \in Commits, Build(c)
  PROVE  WorkflowInv'
BY RolloutAssumption
   DEF Build, RunGoto, function, WorkflowInv, WorkflowTypeOK, Grouped,
       Ordered, UpdateIsOwn, Commits, Running, Finished

LEMMA UpdateCodeKeeps ==
  ASSUME WorkflowInv, NEW c \in Commits, UpdateCode(c)
  PROVE  WorkflowInv'
BY RolloutAssumption
   DEF UpdateCode, RunGoto, WorkflowInv, WorkflowTypeOK, Grouped,
       Ordered, UpdateIsOwn, Commits, Running, Finished

LEMMA WaitKeeps ==
  ASSUME WorkflowInv, NEW c \in Commits, Wait(c)
  PROVE  WorkflowInv'
BY RolloutAssumption
   DEF Wait, RunGoto, function, WorkflowInv, WorkflowTypeOK, Grouped,
       Ordered, UpdateIsOwn, Commits, Running, Finished

(* The two ways in which a smoke test ends: the run goes on, or is over.   *)
LEMMA RetryKeeps ==
  ASSUME WorkflowInv, NEW c \in Commits, run[c] = "smoke", Retry(c),
         UNCHANGED <<head, function>>
  PROVE  WorkflowInv'
BY RolloutAssumption
   DEF Retry, RunGoto, function, WorkflowInv, WorkflowTypeOK, Grouped,
       Ordered, UpdateIsOwn, Commits, Running, Finished

LEMMA VerifiedKeeps ==
  ASSUME WorkflowInv, NEW c \in Commits, run[c] = "smoke",
         RunGoto(c, "verified"), tested' = NoSlot, UNCHANGED <<attempt, head, function>>
  PROVE  WorkflowInv'
BY RolloutAssumption
   DEF RunGoto, function, WorkflowInv, WorkflowTypeOK, Grouped,
       Ordered, UpdateIsOwn, Commits, Running, Finished

LEMMA SmokeTestKeeps ==
  ASSUME WorkflowInv, NEW c \in Commits, SmokeTest(c)
  PROVE  WorkflowInv'
<1>1. tested' \in Slots /\ UNCHANGED <<head, run, attempt, function>>
  BY DEF SmokeTest
<1> QED
  BY <1>1 DEF function, WorkflowInv, WorkflowTypeOK, Grouped, Ordered, UpdateIsOwn

LEMMA FinishUpdateKeeps ==
  ASSUME WorkflowInv, FinishUpdate
  PROVE  WorkflowInv'
<1>1. updating \in 1 .. head /\ updating' = 0 /\ UNCHANGED <<head, run, attempt, tested>>
  BY DEF FinishUpdate, workflow, WorkflowInv, WorkflowTypeOK
<1>2. \/ configured' = updating /\ updated' = TRUE
      \/ configured' = configured /\ updated' = FALSE
  BY DEF FinishUpdate
<1>3. \A c \in Commits : c \in Nat
  BY DEF Commits
<1>4. WorkflowTypeOK'
  <2>1. updated' \in BOOLEAN
    BY <1>2
  <2>2. updating' \in 0 .. head'
    BY <1>1 DEF WorkflowInv, WorkflowTypeOK
  <2>3. configured' \in 0 .. head'
    BY <1>1, <1>2 DEF WorkflowInv, WorkflowTypeOK
  <2> QED
    BY <1>1, <2>1, <2>2, <2>3 DEF WorkflowInv, WorkflowTypeOK
<1>5. Grouped'
  BY <1>1 DEF WorkflowInv, Grouped
<1>6. Ordered'
  BY <1>1, <1>2, <1>3 DEF WorkflowInv, WorkflowTypeOK, Ordered
<1>7. UpdateIsOwn'
  BY <1>1, <1>2 DEF WorkflowInv, UpdateIsOwn
<1> QED
  BY <1>4, <1>5, <1>6, <1>7 DEF WorkflowInv

(* ---- Both together ---------------------------------------------------- *)

IInv == InstancesInv /\ WorkflowInv

LEMMA IInvInit == Init => IInv
BY InstancesInvInit, WorkflowInvInit DEF Init, IInv

LEMMA JobStep ==
  ASSUME IInv, NEW c \in Commits, Job(c)
  PROVE  IInv'
<1> USE DEF IInv
<1>1. CASE Begin(c) \/ Build(c) \/ UpdateCode(c) \/ Wait(c)
  <2>1. UNCHANGED <<inst, environment>>
    BY <1>1 DEF Begin, Build, UpdateCode, Wait
  <2> QED
    BY <1>1, <2>1, InstancesUnchanged, BeginKeeps, BuildKeeps,
       UpdateCodeKeeps, WaitKeeps
<1>2. CASE SmokeTest(c)
  BY <1>2, SmokeTestKeeps, InvokeKeeps DEF SmokeTest
<1>3. CASE SmokeTestMisses(c)
  BY <1>3, RetryKeeps, InstancesUnchanged DEF SmokeTestMisses
<1>4. ASSUME NEW i \in Slots, SmokeTestAnswered(c, i) PROVE IInv'
  <2>1. InstancesInv'
    BY <1>4, CloseKeeps DEF SmokeTestAnswered
  <2>2. CASE inst[i].answer = "served"
    BY <1>4, <2>1, <2>2, VerifiedKeeps DEF SmokeTestAnswered
  <2>3. CASE inst[i].answer # "served"
    BY <1>4, <2>1, <2>3, RetryKeeps DEF SmokeTestAnswered
  <2> QED
    BY <2>2, <2>3
<1> QED
  BY <1>1, <1>2, <1>3, <1>4 DEF Job

LEMMA IInvStep == IInv /\ [Next]_vars => IInv'
<1> SUFFICES ASSUME IInv, [Next]_vars PROVE IInv'
  OBVIOUS
<1> USE DEF IInv
<1>1. CASE Push
  BY <1>1, PushKeeps, InstancesUnchanged DEF Push
<1>2. CASE Dispatch
  BY <1>2, DispatchKeeps, InstancesUnchanged DEF Dispatch
<1>3. ASSUME NEW c \in Commits, Job(c) PROVE IInv'
  BY <1>3, JobStep
<1>4. CASE FinishUpdate
  BY <1>4, FinishUpdateKeeps, InstancesUnchanged DEF FinishUpdate
<1>5. ASSUME NEW i \in Slots, StartInstance(i) PROVE IInv'
  BY <1>5, ColdStartKeeps, WorkflowUnchanged DEF StartInstance
<1>6. ASSUME NEW i \in Slots, UNCHANGED <<workflow, function>>,
             Invoke(i) \/ Checkout(i) \/ Execute(i) \/ Close(i) \/ Discard(i)
      PROVE  IInv'
  BY <1>6, InvokeKeeps, CheckoutKeeps, ExecuteKeeps, CloseKeeps, DiscardKeeps,
     WorkflowUnchanged
<1>7. CASE Weather /\ UNCHANGED <<workflow, function>>
  BY <1>7, WeatherKeeps, WorkflowUnchanged
<1>8. CASE UNCHANGED vars
  BY <1>8, InstancesUnchanged, WorkflowUnchanged DEF vars
<1> QED
  BY <1>1, <1>2, <1>3, <1>4, <1>5, <1>6, <1>7, <1>8 DEF Next

LEMMA IInvInvariant == Spec => []IInv
BY IInvInit, IInvStep, PTL DEF Spec

(* The variables of Rollout and Instances keep their types.                *)
THEOREM TypeCorrect == Spec => []TypeOK
<1>1. IInv => TypeOK
  BY DEF IInv, InstancesInv, WorkflowInv, WorkflowTypeOK, TypeOK
<1> QED
  BY <1>1, IInvInvariant, PTL

(* However long instances are frozen, whatever happens to the database, to *)
(* its password and to their connections: a request fails only if, since it*)
(* came, the database was down, its instance did not have the database's   *)
(* password, or the connection broke while a statement was about to use it.*)
THEOREM FailuresAreReal == Spec => []FailureWasReal
<1>1. IInv => FailureWasReal
  BY DEF IInv, InstancesInv, OneInstance, FailureWasReal
<1> QED
  BY <1>1, IInvInvariant, PTL

(* However many instances there are, each holds one connection at most.    *)
THEOREM OneConnectionPerInstance == Spec => []OneConnectionEach
<1>1. IInv => OneConnectionEach
  BY DEF IInv, InstancesInv, InstancesTypeOK, OneInstance, OneConnectionEach,
         PoolSize, MaxOverflow
<1> QED
  BY <1>1, IInvInvariant, PTL

(* However many commits are merged, and whenever Lambda finishes or fails  *)
(* to finish an update: while a run tests, the function is set to the image*)
(* of that run and is not being updated.                                   *)
THEOREM SmokeTestsFollowUpdates == Spec => []SmokeTestAfterUpdate
<1>1. IInv => SmokeTestAfterUpdate
  BY DEF IInv, WorkflowInv, UpdateIsOwn, SmokeTestAfterUpdate
<1> QED
  BY <1>1, IInvInvariant, PTL

(* And the function never goes back to an older one.                       *)
THEOREM NewestAlwaysWins == Spec => NewestWins
<1>1. IInv /\ [Next]_vars => (configured' >= configured)
  <2> SUFFICES ASSUME IInv, [Next]_vars PROVE configured' >= configured
    OBVIOUS
  <2>1. configured \in Nat /\ updating \in Nat /\ (updating # 0 => configured <= updating)
    BY DEF IInv, WorkflowInv, WorkflowTypeOK, Ordered
  <2>2. CASE FinishUpdate
    BY <2>1, <2>2 DEF FinishUpdate
  <2>3. CASE UNCHANGED configured
    BY <2>1, <2>3
  <2> QED
    BY <2>2, <2>3
       DEF Next, Push, Dispatch, Job, Begin, Build, UpdateCode, Wait, SmokeTest,
           SmokeTestMisses, SmokeTestAnswered, StartInstance, function, vars
<1>2. IInv /\ [Next]_vars => [configured' >= configured]_vars
  BY <1>1
<1> QED
  BY <1>2, IInvInvariant, PTL DEF Spec, NewestWins

=============================================================================
