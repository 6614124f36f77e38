---------------------------- MODULE RateLimiting ----------------------------
(***************************************************************************)
(* Provisioning tasks under Cloudflare's rate limits: every call takes a   *)
(* permit of the client's limiter, Cloudflare refuses it when the quota of *)
(* some policy is spent, and the task's retryer waits for as long as the   *)
(* headers of the refusal say before it starts the operation again.        *)
(***************************************************************************)
EXTENDS Throttle, RateLimitHeaders

CONSTANTS
  Policies,      \* Cloudflare's rate-limit policies, as [quota, window], a sequence
  HeaderStyles,  \* which headers an answer may have: [items, times, junk, retry]
  Calls,         \* calls an operation makes
  MaxAttempts,   \* retries of an operation, 0 for as many as it takes
  InitialDelay, MaxDelay,  \* delays of the retryer
  MaxOthers,     \* bound: calls by other programs of the same user
  MaxOutages     \* bound: calls that fail with a 503

ASSUME RateLimitingAssumption ==
  /\ Policies \in Seq([quota : Nat \ {0}, window : Nat \ {0}])
  /\ HeaderStyles \subseteq [items : BOOLEAN, times : BOOLEAN, junk : BOOLEAN, retry : BOOLEAN]
  /\ Calls \in Nat \ {0}
  /\ {MaxAttempts, InitialDelay, MaxDelay, MaxOthers, MaxOutages} \subseteq Nat

VARIABLES
  used,      \* per policy, the calls counted in its window
  others,    \* calls other programs have made
  outages,   \* calls that have failed with a 503
  task,      \* per task, where it is in its operation
  answer,    \* per task, the answer under way to it
  told       \* history: the reset the last refusal told a task of, and when

cloudflare == <<used, others, outages>>
vars == <<throttleVars, cloudflare, task, answer, told>>

\* The headers of a success are only reported to C1.
bare(status) == [status |-> status, items |-> <<>>, retryAfter |-> Absent]

NoAnswer == bare(0)

NotTold == [reset |-> Never, sent |-> 0]

\* A task calls, waits for an answer or for a retry, or is over.
Places == {"call", "answer", "backoff", "done", "failed"}

Init ==
  /\ ThrottleInit
  /\ used = [p \in DOMAIN Policies |-> 0]
  /\ others = 0 /\ outages = 0
  /\ task = [t \in Callers |-> [at |-> "call", calls |-> 0, attempts |-> 0, wake |-> 0]]
  /\ answer = [t \in Callers |-> NoAnswer]
  /\ told = [t \in Callers |-> NotTold]

TypeOK ==
  /\ ThrottleTypeOK
  /\ \A p \in DOMAIN Policies : used[p] \in 0..Policies[p].quota
  /\ others \in 0..MaxOthers /\ outages \in 0..MaxOutages
  /\ task \in [Callers -> [at : Places, calls : 0..Calls, attempts : Nat, wake : Nat]]
  /\ MaxAttempts # 0 => \A t \in Callers : task[t].attempts <= MaxAttempts + 1
  /\ DOMAIN answer = Callers
  /\ \A t \in Callers : answer[t].status \in {0, 200, 429, 503}
  /\ told \in [Callers -> [reset : Nat, sent : Nat]]

(***************************************************************************)
(* Cloudflare (as the client and its tests use it)                         *)
(***************************************************************************)

spent(p) == used[p] = Policies[p].quota

blocked == \E p \in DOMAIN Policies : spent(p)

untilReset(p) == Policies[p].window - (now % Policies[p].window)

Latest(times) == CHOOSE x \in times : \A y \in times : y <= x

\* What a request is answered with; a junk item cannot be read.
headers(status, style) ==
  [status     |-> status,
   items      |-> (IF style.items /\ style.junk THEN <<[r |-> 0, t |-> Unreadable]>> ELSE <<>>)
                  \o (IF style.items
                      THEN [p \in DOMAIN Policies |->
                              [r |-> Policies[p].quota - used[p],
                               t |-> IF style.times THEN untilReset(p) ELSE Absent]]
                      ELSE <<>>),
   retryAfter |-> IF style.retry /\ blocked
                  THEN Latest({untilReset(p) : p \in {q \in DOMAIN Policies : spent(q)}})
                  ELSE Absent]

\* The reset a refusal tells of: that of the last of the spent policies.
resetTold(style) ==
  IF style.retry \/ (style.items /\ style.times)
  THEN now + Latest({untilReset(p) : p \in {q \in DOMAIN Policies : spent(q)}})
  ELSE Never

count == used' = [p \in DOMAIN Policies |-> used[p] + 1]

\* The permit is used, and the call is answered.
Send(t, response) ==
  /\ task[t].at = "call"
  /\ Return(t)
  /\ task' = [task EXCEPT ![t].at = "answer"]
  /\ answer' = [answer EXCEPT ![t] = response]

Serve(t) ==
  /\ ~blocked
  /\ Send(t, bare(200))
  /\ count
  /\ UNCHANGED <<others, outages, told>>

Refuse(t) ==
  /\ blocked
  /\ \E style \in HeaderStyles :
       /\ Send(t, headers(429, style))
       /\ told' = [told EXCEPT ![t] = [reset |-> resetTold(style), sent |-> now]]
  /\ UNCHANGED cloudflare

Outage(t) ==
  /\ outages < MaxOutages
  /\ \E style \in HeaderStyles : Send(t, headers(503, style))
  /\ outages' = outages + 1
  /\ UNCHANGED <<used, others, told>>

\* A GET the HTTP cache answers takes a permit all the same.
CacheHit(t) ==
  /\ Send(t, bare(200))
  /\ UNCHANGED <<cloudflare, told>>

OtherCall ==
  /\ ~blocked
  /\ others < MaxOthers
  /\ others' = others + 1
  /\ count
  /\ UNCHANGED <<throttleVars, outages, task, answer, told>>

(***************************************************************************)
(* Tasks                                                                   *)
(***************************************************************************)

TakePermit(t) ==
  /\ task[t].at = "call"
  /\ Take(t)
  /\ UNCHANGED <<cloudflare, task, answer, told>>

Succeed(t) ==
  /\ answer[t].status = 200
  /\ answer' = [answer EXCEPT ![t] = NoAnswer]
  /\ task' = [task EXCEPT ![t].calls = @ + 1,
                          ![t].at = IF task[t].calls + 1 = Calls THEN "done" ELSE "call"]
  /\ told' = [told EXCEPT ![t] = NotTold]
  /\ UNCHANGED <<throttleVars, cloudflare>>

least(a, b) == IF a < b THEN a ELSE b

\* Seeded fault: the first call is not counted.
mayRetryOneMore(attempts) == MaxAttempts = 0 \/ attempts <= MaxAttempts + 1

mayRetry(attempts) == MaxAttempts = 0 \/ attempts <= MaxAttempts

\* ShouldWaitAndRetry: until the reset, or longer with every attempt.
delay(desc, attempts) ==
  least(MaxDelay,
        IF desc.resetAt > now THEN desc.resetAt - now ELSE attempts * InitialDelay)

ShouldWaitAndRetry(t) ==
  /\ answer[t].status \in {429, 503}
  /\ answer' = [answer EXCEPT ![t] = NoAnswer]
  /\ LET attempts == task[t].attempts + 1
         desc     == errorDetail(answer[t].status, answer[t], now)
     IN  IF mayRetry(attempts)
         THEN task' = [task EXCEPT ![t].at = "backoff", ![t].attempts = attempts,
                                   ![t].calls = 0, ![t].wake = now + delay(desc, attempts)]
         ELSE task' = [task EXCEPT ![t].at = "failed", ![t].attempts = attempts]
  /\ UNCHANGED <<throttleVars, cloudflare, told>>

\* The operation starts over.
Wake(t) ==
  /\ task[t].at = "backoff"
  /\ now >= task[t].wake
  /\ task' = [task EXCEPT ![t].at = "call", ![t].wake = 0]
  /\ UNCHANGED <<throttleVars, cloudflare, answer, told>>

\* Time passes; a window that is over begins anew.
Pass ==
  /\ Tick
  /\ used' = [p \in DOMAIN Policies |-> IF now' % Policies[p].window = 0 THEN 0 ELSE used[p]]
  /\ UNCHANGED <<others, outages, task, answer, told>>

Next ==
  \/ Pass
  \/ OtherCall
  \/ \E t \in Callers :
       \/ TakePermit(t)
       \/ Serve(t) \/ Refuse(t) \/ Outage(t) \/ CacheHit(t)
       \/ Succeed(t) \/ ShouldWaitAndRetry(t) \/ Wake(t)

Spec == Init /\ [][Next]_vars

(***************************************************************************)
(* Properties                                                              *)
(***************************************************************************)

\* "So the retryer never comes back before the server will accept requests"
\* (helpers.go): a task that was refused calls again no sooner than every
\* policy that was spent has been reset, whichever header told it so.
RetryAfterReset ==
  \A t \in Callers : task[t].at = "call" => now >= told[t].reset

\* Nor does it wait for a policy that does not throttle: it is late by no
\* more than the time the refusal was under way.
RetryIsPrompt ==
  [][\A t \in Callers :
       answer[t].status = 429 /\ answer'[t] = NoAnswer /\ told[t].reset # Never
         => task'[t].wake <= told[t].reset + (now - told[t].sent)]_vars

\* "Throttled to 4 per second: Cloudflare allows 1200 requests per 5 minutes"
\* (client.go): on its own the client is never refused.
NeverOverQuota ==
  others = 0 => \A t \in Callers : answer[t].status # 429

=============================================================================
