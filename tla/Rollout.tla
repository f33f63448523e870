------------------------------- MODULE Rollout -------------------------------
(***************************************************************************)
(* Continuous delivery (.github/workflows/cd.yml) of the image that the    *)
(* instances run.  Every merge to main asks for a run of the workflow, and *)
(* GitHub's concurrency group lets one of them run and one wait.  A run    *)
(* pushes the image of its commit, has Lambda update the function, which   *)
(* takes its time, waits for that, and tries GET /health/ready until it    *)
(* answers.  Commits are numbered in the order of their merges.            *)
(*                                                                         *)
(* The instances keep serving all the while: those that are warm with the  *)
(* image they have, new ones with the one that the function is set to.  The*)
(* smoke test cannot tell which of them answers.                           *)
(***************************************************************************)
EXTENDS Instances

CONSTANTS
  MaxCommits,  \* bound: merges to main
  Attempts,    \* how often the smoke test tries
  NoSlot       \* no instance

ASSUME RolloutAssumption ==
  MaxCommits \in Nat /\ Attempts \in Nat \ {0} /\ NoSlot \notin Slots

VARIABLES
  head,        \* the last commit on main
  run,         \* the workflow run of each commit
  attempt,     \* smoke tests the running one has made
  tested,      \* the instance that serves its smoke test
  configured,  \* the image the function is set to
  updating,    \* the image it is being updated to, or 0
  updated      \* did the last update succeed?

function == <<configured, updating, updated>>
workflow == <<head, run, attempt, tested>>
vars == <<inst, environment, workflow, function>>

Commits == 1 .. MaxCommits
Running == {"build", "update", "wait", "smoke"}
Finished == {"verified", "failed", "cancelled"}

-----------------------------------------------------------------------------
Init ==
  /\ InstancesInit
  /\ head = 0
  /\ run = [c \in Commits |-> "none"]
  /\ attempt = 0
  /\ tested = NoSlot
  /\ configured = 0 /\ updating = 0 /\ updated = TRUE

RunGoto(c, step) == run' = [run EXCEPT ![c] = step]

(* A merge to main.  In the concurrency group it replaces a run that still *)
(* waits.                                                                  *)
Push ==
  /\ head < MaxCommits
  /\ head' = head + 1
  /\ run' = [c \in Commits |->
       IF c = head + 1 THEN "pending"
       ELSE IF run[c] = "pending" THEN "cancelled" ELSE run[c]]
  /\ UNCHANGED <<inst, environment, attempt, tested, function>>

(* workflow_dispatch: the last commit once more.                           *)
Dispatch ==
  /\ head > 0
  /\ run[head] \in Finished
  /\ RunGoto(head, "pending")
  /\ UNCHANGED <<inst, environment, head, attempt, tested, function>>

(* A mistake the runs must notice: no concurrency group.                   *)
BeginAtOnce(c) ==
  /\ run[c] = "pending"
  /\ RunGoto(c, "build")
  /\ UNCHANGED <<inst, environment, head, attempt, tested, function>>

(* "Never two deploys at once."                                            *)
Begin(c) ==
  /\ run[c] = "pending"
  /\ \A d \in Commits : run[d] \notin Running
  /\ RunGoto(c, "build")
  /\ UNCHANGED <<inst, environment, head, attempt, tested, function>>

(* Credentials, build, push, and the check of the manifest.                *)
Build(c) ==
  /\ run[c] = "build"
  /\ RunGoto(c, "update") \/ RunGoto(c, "failed")
  /\ UNCHANGED <<inst, environment, head, attempt, tested, function>>

(* update-function-code is accepted, unless an update is in progress.      *)
UpdateCode(c) ==
  /\ run[c] = "update"
  /\ IF updating = 0
       THEN RunGoto(c, "wait") /\ updating' = c
       ELSE RunGoto(c, "failed") /\ UNCHANGED updating
  /\ UNCHANGED <<inst, environment, head, attempt, tested,
                 configured, updated>>

(* A mistake the runs must notice: no wait.                                *)
WaitForNothing(c) ==
  /\ run[c] = "wait"
  /\ RunGoto(c, "smoke") /\ attempt' = 0
  /\ UNCHANGED <<inst, environment, head, tested, function>>

(* aws lambda wait function-updated-v2: it may also give up.               *)
Wait(c) ==
  /\ run[c] = "wait"
  /\ \/ updating = 0 /\ updated /\ RunGoto(c, "smoke") /\ attempt' = 0
     \/ (updating = 0 => ~ updated) /\ RunGoto(c, "failed") /\ UNCHANGED attempt
  /\ UNCHANGED <<inst, environment, head, tested, function>>

(* curl reaches an instance that is warm, whatever its image.              *)
SmokeTest(c) ==
  /\ run[c] = "smoke" /\ tested = NoSlot
  /\ \E i \in Slots : Invoke(i) /\ tested' = i
  /\ UNCHANGED <<head, run, attempt, function>>

(* A mistake the runs must notice: "retrying until it passes with no       *)
(* bound".                                                                 *)
RetryForever(c) ==
  /\ tested' = NoSlot
  /\ UNCHANGED <<run, attempt>>

(* Another attempt, or none is left.                                       *)
Retry(c) ==
  /\ tested' = NoSlot
  /\ attempt' = attempt + 1
  /\ IF attempt + 1 < Attempts THEN UNCHANGED run ELSE RunGoto(c, "failed")

(* It gets no answer in time: throttled, a slow cold start, or one that    *)
(* crashes.                                                                *)
SmokeTestMisses(c) ==
  /\ run[c] = "smoke"
  /\ Retry(c)
  /\ UNCHANGED <<inst, environment, head, function>>

(* It gets the answer of the probe.                                        *)
SmokeTestAnswered(c, i) ==
  /\ run[c] = "smoke" /\ tested = i
  /\ Close(i)
  /\ IF inst[i].answer = "served"
       THEN RunGoto(c, "verified") /\ tested' = NoSlot /\ UNCHANGED attempt
       ELSE Retry(c)
  /\ UNCHANGED <<head, function>>

(* Lambda finishes the update, or fails to.                                *)
FinishUpdate ==
  /\ updating # 0
  /\ updating' = 0
  /\ \/ configured' = updating /\ updated' = TRUE
     \/ updated' = FALSE /\ UNCHANGED configured
  /\ UNCHANGED <<inst, environment, workflow>>

(* A request that finds no warm instance starts one, if its image and its  *)
(* secrets let it start.                                                   *)
StartInstance(i) ==
  /\ configured # 0
  /\ ColdStart(i)
  /\ UNCHANGED <<workflow, function>>

Job(c) ==
  \/ Begin(c)
  \/ Build(c)
  \/ UpdateCode(c)
  \/ Wait(c)
  \/ SmokeTest(c)
  \/ SmokeTestMisses(c)
  \/ \E i \in Slots : SmokeTestAnswered(c, i)

Next ==
  \/ Push
  \/ Dispatch
  \/ \E c \in Commits : Job(c)
  \/ FinishUpdate
  \/ \E i \in Slots : StartInstance(i)
  \/ /\ \/ \E i \in Slots :
             \/ Invoke(i)
             \/ Checkout(i)
             \/ Execute(i)
             \/ i # tested /\ Close(i)
             \/ Discard(i)
        \/ Weather
     /\ UNCHANGED <<workflow, function>>

Spec == Init /\ [][Next]_vars

(* GitHub runs what it has started, and every step of it has a timeout.    *)
FairSpec == Spec /\ \A c \in Commits : WF_vars(Job(c)) /\ WF_vars(FinishUpdate)

-----------------------------------------------------------------------------
(* Properties.                                                             *)

TypeOK ==
  /\ InstancesTypeOK
  /\ head \in 0 .. MaxCommits
  /\ run \in [Commits -> {"none", "pending"} \cup Running \cup Finished]
  /\ attempt \in 0 .. Attempts
  /\ tested \in Slots \cup {NoSlot}
  /\ {configured, updating} \subseteq 0 .. head
  /\ updated \in BOOLEAN

(* cd.yml:17: two quick merges never leave the function with the earlier   *)
(* image, nor does an update that a run gave up waiting for.               *)
NewestWins == [][configured' >= configured]_vars

(* cd.yml:134: while the smoke test of a run is trying, so when the run is *)
(* verified too, the function is set to the image of that run and no update*)
(* is under way.  Which instance answers is not said: it may be a warm one *)
(* of the image before.                                                    *)
SmokeTestAfterUpdate ==
  \A c \in Commits : run[c] = "smoke" => configured = c /\ updating = 0

(* Every run that is asked for ends: not with a database that is down for  *)
(* good, nor with an image that never starts, does it wait for ever.       *)
RunsEnd == \A c \in Commits : run[c] = "pending" ~> run[c] \in Finished

=============================================================================
