---------------------------- MODULE Provisioner ----------------------------
(***************************************************************************)
(* How the SDK runs provisioning tasks (vendored baton-sdk): the runner's  *)
(* semaphore admits up to Slots tasks, each in a goroutine of its own      *)
(* (connectorrunner/runner.go); a task calls the connector until the call  *)
(* succeeds or the retryer gives up (connectorbuilder,                     *)
(* resource_provisioner.go; retry/retry.go).  The steps of a call are the  *)
(* extending module's.                                                     *)
(***************************************************************************)
EXTENDS FiniteSets, Naturals

CONSTANTS
  Tasks,        \* provisioning tasks
  Slots,        \* TaskConcurrency: tasks the runner works on at a time
  MaxAttempts   \* retries the SDK makes of a call that failed

\* The retryer takes 0 for no limit; the provisioning loops pass 3.
ASSUME ProvisionerAssumption == Slots \in Nat \ {0} /\ MaxAttempts \in Nat \ {0}

VARIABLES
  pc,        \* per task, where it is
  attempts,  \* per task, the retryer's count of failed calls
  result     \* per task, the answer it gave

running(t) == pc[t] \notin {"queued", "done"}

\* A free slot claims the task.
claim(t) ==
  /\ pc[t] = "queued"
  /\ Cardinality({u \in Tasks : running(u)}) < Slots
  /\ pc' = [pc EXCEPT ![t] = "call"]

answer(t, a) ==
  /\ pc' = [pc EXCEPT ![t] = "done"]
  /\ result' = [result EXCEPT ![t] = a]

\* Seeded fault: the count of failed calls is not kept.
returnErrorUncounted(t, retryable) ==
  IF retryable
  THEN pc' = [pc EXCEPT ![t] = "wait"] /\ UNCHANGED <<attempts, result>>
  ELSE answer(t, "failed") /\ UNCHANGED attempts

\* Seeded fault: the limit is compared before the failure is counted.
returnErrorOneMore(t, retryable) ==
  /\ attempts' = [attempts EXCEPT ![t] = IF retryable THEN @ + 1 ELSE @]
  /\ IF retryable /\ attempts[t] <= MaxAttempts
     THEN pc' = [pc EXCEPT ![t] = "wait"] /\ UNCHANGED result
     ELSE answer(t, "failed")

\* The call returned an error.  ShouldWaitAndRetry counts those coded
\* Unavailable or DeadlineExceeded and gives up after MaxAttempts retries.
returnError(t, retryable) ==
  /\ attempts' = [attempts EXCEPT ![t] = IF retryable THEN @ + 1 ELSE @]
  /\ IF retryable /\ attempts[t] < MaxAttempts
     THEN pc' = [pc EXCEPT ![t] = "wait"] /\ UNCHANGED result
     ELSE answer(t, "failed")

\* The retryer's delay is over.
callAgain(t) == pc[t] = "wait" /\ pc' = [pc EXCEPT ![t] = "call"]

\* The context ends during the delay: the last error is returned.
stopWaiting(t) == pc[t] = "wait" /\ answer(t, "failed")

=============================================================================
