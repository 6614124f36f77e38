------------------------- MODULE RateLimitingProofs -------------------------
(***************************************************************************)
(* The limiter keeps its permits apart for every number of callers, every  *)
(* rate and every slack, and the tasks of RateLimiting use it as it is     *)
(* meant to be used.                                                       *)
(***************************************************************************)
EXTENDS RateLimiting, FiniteSetTheorems, TLAPS

\* The word is the slot of the last permit; slots are Per apart, and a permit
\* is used at its slot or at most the slack later.
SlotsInv ==
  /\ state = 0 => permits = <<>>
  /\ permits # <<>> => state = permits[Len(permits)].slot
  /\ \A i \in DOMAIN permits :
       /\ permits[i].slot <= state
       /\ state - permits[i].slot >= (Len(permits) - i) * Per
       /\ permits[i].slot <= permits[i].at
       /\ permits[i].at <= permits[i].slot + maxSlack
  /\ \A i, j \in DOMAIN permits :
       i < j => permits[j].slot - permits[i].slot >= (j - i) * Per

\* Who is in Take has read a clock that had started.
ClockInv == \A c \in Callers : taking[c].step \in {"read", "loaded"} => taking[c].clock > 0

ThrottleInv == ThrottleTypeOK /\ ClockInv /\ SlotsInv

(***************************************************************************)
(* Lemmas                                                                  *)
(***************************************************************************)

\* The slack is a length of time, none if no slot may be made up for.
LEMMA MaxSlackNat == maxSlack \in Nat /\ (Slack = 0 => maxSlack = 0)
BY ThrottleAssumption DEF maxSlack

\* One slot more is Per more.
LEMMA OneMore == ASSUME NEW k \in Int PROVE (k + 1) * Per = k * Per + Per /\ 0 * Per = 0
BY ThrottleAssumption

\* A sequence with an element more.
LEMMA OneLonger ==
  ASSUME NEW S, NEW s \in Seq(S), NEW e \in S
  PROVE  LET l == Append(s, e)
         IN  /\ l \in Seq(S) /\ l # <<>>
             /\ Len(l) = Len(s) + 1 /\ Len(s) \in Nat
             /\ DOMAIN l = 1..(Len(s) + 1) /\ DOMAIN s = 1..Len(s)
             /\ l[Len(s) + 1] = e
             /\ \A i \in 1..Len(s) : l[i] = s[i] /\ s[i] \in S
OBVIOUS

\* The slot of the next permit: Per after the last one, and not further
\* behind the clock than the slack.
LEMMA NextSlot ==
  ASSUME NEW clock \in Nat \ {0}, NEW last \in Nat
  PROVE  LET slot == nextSlot(clock, last)
         IN  /\ slot \in Nat \ {0}
             /\ last # 0 => slot >= last + Per
             /\ permitAt(clock, slot) \in Nat
             /\ slot <= permitAt(clock, slot)
             /\ permitAt(clock, slot) <= slot + maxSlack
<1> DEFINE slot == nextSlot(clock, last)
<1>0. maxSlack \in Nat /\ (Slack = 0 => maxSlack = 0) /\ Per \in Nat \ {0} /\ Slack \in Nat
  BY MaxSlackNat, ThrottleAssumption
<1>1. CASE last = 0 \/ (Slack = 0 /\ clock - last > Per)
  <2>1. slot = clock
    BY <1>1 DEF nextSlot
  <2> QED
    BY <1>0, <1>1, <2>1 DEF permitAt
<1>2. CASE last # 0 /\ Slack > 0 /\ clock - last > maxSlack + Per
  <2>1. slot = clock - maxSlack
    BY <1>2 DEF nextSlot
  <2> QED
    BY <1>0, <1>2, <2>1 DEF permitAt
<1>3. CASE /\ ~(last = 0 \/ (Slack = 0 /\ clock - last > Per))
           /\ ~(last # 0 /\ Slack > 0 /\ clock - last > maxSlack + Per)
  <2>1. slot = last + Per
    BY <1>3 DEF nextSlot
  <2>2. clock <= slot + maxSlack
    BY <1>0, <1>3, <2>1
  <2> QED
    BY <1>0, <2>1, <2>2 DEF permitAt
<1> QED
  BY <1>1, <1>2, <1>3

(***************************************************************************)
(* The limiter                                                             *)
(***************************************************************************)

\* Before the first permit there is nothing to space.
LEMMA ThrottleInitHolds == ThrottleInit => ThrottleInv
BY DEF ThrottleInit, ThrottleInv, ThrottleTypeOK, ClockInv, SlotsInv, Outside, Steps

\* A permit that is issued is Per after the one before.
LEMMA IssueKeepsSlots ==
  ASSUME ThrottleInv, NEW c \in Callers, CompareAndSwap(c)
  PROVE  ThrottleInv'
<1> DEFINE slot == nextSlot(taking[c].clock, state)
           at   == permitAt(taking[c].clock, slot)
           n    == Len(permits)
<1>1. /\ taking[c].clock \in Nat \ {0} /\ state \in Nat /\ n \in Nat
      /\ Per \in Nat \ {0} /\ maxSlack \in Nat
  BY ThrottleAssumption, MaxSlackNat DEF ThrottleInv, ThrottleTypeOK, ClockInv, CompareAndSwap
<1>2. /\ slot \in Nat \ {0} /\ at \in Nat /\ slot <= at /\ at <= slot + maxSlack
      /\ state # 0 => slot >= state + Per
  BY <1>1, NextSlot
<1>3. /\ state' = slot
      /\ permits' = Append(permits, [slot |-> slot, at |-> at])
      /\ taking' = [taking EXCEPT ![c].step = "issued", ![c].slot = slot]
      /\ now' = now
  BY DEF CompareAndSwap
<1>4. permits \in Seq([slot : Nat, at : Nat])
  BY DEF ThrottleInv, ThrottleTypeOK
<1> HIDE DEF slot, at
<1>5. [slot |-> slot, at |-> at] \in [slot : Nat, at : Nat]
  BY <1>2
<1> DEFINE permit == [slot |-> slot, at |-> at]
<1>6. /\ Len(permits') = n + 1
      /\ DOMAIN permits' = 1..(n + 1) /\ DOMAIN permits = 1..n
      /\ permits'[n + 1] = permit
      /\ \A i \in 1..n : permits'[i] = permits[i] /\ permits[i] \in [slot : Nat, at : Nat]
      /\ permits' \in Seq([slot : Nat, at : Nat]) /\ permits' # <<>>
  <2> DEFINE Permit == [slot : Nat, at : Nat]
  <2>1. permits \in Seq(Permit) /\ permit \in Permit /\ permits' = Append(permits, permit)
    BY <1>3, <1>4, <1>5
  <2> HIDE DEF permit, Permit
  <2>2. \A i \in 1..n : permits[i] \in Permit
    BY <2>1, OneLonger
  <2>3. /\ Len(permits') = n + 1
        /\ DOMAIN permits' = 1..(n + 1) /\ DOMAIN permits = 1..n
        /\ permits'[n + 1] = permit
        /\ \A i \in 1..n : permits'[i] = permits[i]
        /\ permits' \in Seq(Permit) /\ permits' # <<>>
    BY <2>1, OneLonger
  <2> QED
    BY <2>2, <2>3 DEF Permit
<1> HIDE DEF permit
<1>8. ThrottleTypeOK' /\ ClockInv'
  <2>1. taking' \in [Callers -> [step : Steps, clock : Nat, slot : Nat]]
    BY <1>2, <1>3 DEF ThrottleInv, ThrottleTypeOK, Steps
  <2>2. \A d \in Callers : taking'[d].step \in {"read", "loaded"} => taking'[d] = taking[d]
    BY <1>3 DEF ThrottleInv, ThrottleTypeOK
  <2> QED
    BY <1>2, <1>3, <1>6, <2>1, <2>2 DEF ThrottleInv, ThrottleTypeOK, ClockInv
<1>7. SlotsInv'
  <2>1. \A i \in 1..n : state # 0 /\ permits[i].slot \in Nat
    BY <1>4, <1>6 DEF ThrottleInv, SlotsInv
  <2>2. \A i \in 1..n : slot - permits[i].slot >= (n + 1 - i) * Per
    <3> SUFFICES ASSUME NEW i \in 1..n PROVE slot - permits[i].slot >= (n + 1 - i) * Per
      OBVIOUS
    <3>1. state - permits[i].slot >= (n - i) * Per
      BY <1>6 DEF ThrottleInv, SlotsInv
    <3>2. ((n - i) + 1) * Per = (n - i) * Per + Per /\ (n - i) * Per \in Int
      BY <1>1, OneMore
    <3>3. (n + 1 - i) * Per = (n - i) * Per + Per
      BY <1>1, <3>2
    <3> DEFINE before == (n - i) * Per
               after  == (n + 1 - i) * Per
    <3>4. after = before + Per /\ before \in Int /\ state - permits[i].slot >= before
      BY <3>1, <3>2, <3>3
    <3>5. slot >= state + Per /\ permits[i].slot \in Nat /\ slot \in Nat /\ state \in Nat
      BY <1>1, <1>2, <2>1
    <3> HIDE DEF before, after
    <3>6. slot - permits[i].slot >= after
      BY <1>1, <3>4, <3>5
    <3> QED
      BY <3>6 DEF after
  <2>3. ((n + 1) - (n + 1)) * Per = 0
    BY <1>1, OneMore
  <2>4. permits' # <<>> /\ state' = permits'[Len(permits')].slot /\ state' # 0
    BY <1>1, <1>2, <1>3, <1>6 DEF permit
  <2>5. ASSUME NEW i \in DOMAIN permits'
        PROVE  /\ permits'[i].slot <= state'
               /\ state' - permits'[i].slot >= (Len(permits') - i) * Per
               /\ permits'[i].slot <= permits'[i].at
               /\ permits'[i].at <= permits'[i].slot + maxSlack
    <3>1. CASE i = n + 1
      <4>1. permits'[i].slot = slot /\ permits'[i].at = at
        BY <1>6, <3>1 DEF permit
      <4>2. (Len(permits') - i) * Per = 0
        BY <1>6, <2>3, <3>1
      <4> QED
        BY <1>1, <1>2, <1>3, <4>1, <4>2
    <3>2. CASE i \in 1..n
      <4>1. /\ permits[i].slot <= state
            /\ permits[i].slot <= permits[i].at
            /\ permits[i].at <= permits[i].slot + maxSlack
        BY <1>6, <3>2 DEF ThrottleInv, SlotsInv
      <4>2. permits'[i] = permits[i] /\ permits[i].slot \in Nat /\ permits[i].at \in Nat /\ state # 0
        BY <1>6, <2>1, <3>2
      <4>3. state' - permits'[i].slot >= (Len(permits') - i) * Per
        BY <1>3, <1>6, <2>2, <3>2, <4>2
      <4>4. state' >= state /\ maxSlack \in Nat
        BY <1>1, <1>2, <1>3, <4>2
      <4>5. permits[i].slot <= state'
        BY <1>1, <1>2, <1>3, <4>1, <4>2, <4>4
      <4> QED
        BY <4>1, <4>2, <4>3, <4>5
    <3> QED
      BY <1>1, <1>6, <3>1, <3>2
  <2>6. ASSUME NEW i \in DOMAIN permits', NEW j \in DOMAIN permits', i < j
        PROVE  permits'[j].slot - permits'[i].slot >= (j - i) * Per
    <3>1. i \in 1..n
      BY <1>1, <1>6, <2>6
    <3>2. CASE j = n + 1
      BY <1>6, <2>2, <3>1, <3>2 DEF permit
    <3>3. CASE j \in 1..n
      BY <1>6, <2>6, <3>1, <3>3 DEF ThrottleInv, SlotsInv
    <3> QED
      BY <1>1, <1>6, <3>2, <3>3
  <2>7. maxSlack' = maxSlack
    BY DEF maxSlack
  <2> QED
    BY <2>4, <2>5, <2>6, <2>7 DEF SlotsInv
<1> QED
  BY <1>7, <1>8 DEF ThrottleInv

\* Only a permit that is issued changes what the invariant says of slots.
LEMMA ThrottleStep == ThrottleInv /\ [ThrottleNext]_throttleVars => ThrottleInv'
<1> SUFFICES ASSUME ThrottleInv, [ThrottleNext]_throttleVars PROVE ThrottleInv'
  OBVIOUS
<1>1. ASSUME UNCHANGED <<state, permits>>, ThrottleTypeOK', ClockInv' PROVE ThrottleInv'
  BY <1>1 DEF ThrottleInv, SlotsInv, maxSlack
<1>2. CASE Tick
  BY <1>1, <1>2 DEF Tick, ThrottleInv, ThrottleTypeOK, ClockInv
<1>3. ASSUME NEW c \in Callers, ReadClock(c) PROVE ThrottleInv'
  BY <1>1, <1>3 DEF ReadClock, ThrottleInv, ThrottleTypeOK, ClockInv, Steps
<1>4. ASSUME NEW c \in Callers, Load(c) PROVE ThrottleInv'
  BY <1>1, <1>4 DEF Load, ThrottleInv, ThrottleTypeOK, ClockInv, Steps
<1>5. ASSUME NEW c \in Callers, CompareAndSwap(c) PROVE ThrottleInv'
  BY <1>5, IssueKeepsSlots
<1>6. ASSUME NEW c \in Callers, LoseRace(c) \/ Return(c) PROVE ThrottleInv'
  <2>1. UNCHANGED <<now, state, permits>> /\ taking' = [taking EXCEPT ![c] = Outside]
    BY <1>6 DEF LoseRace, Return
  <2>2. Outside \in [step : Steps, clock : Nat, slot : Nat] /\ Outside.step = "out"
    BY DEF Outside, Steps
  <2>3. taking' \in [Callers -> [step : Steps, clock : Nat, slot : Nat]]
    BY <2>1, <2>2 DEF ThrottleInv, ThrottleTypeOK
  <2>4. ClockInv'
    BY <2>1, <2>2 DEF ThrottleInv, ThrottleTypeOK, ClockInv
  <2> QED
    BY <1>1, <2>1, <2>3, <2>4 DEF ThrottleInv, ThrottleTypeOK
<1>7. CASE UNCHANGED throttleVars
  BY <1>1, <1>7 DEF throttleVars, ThrottleInv, ThrottleTypeOK, ClockInv
<1>8. ASSUME NEW c \in Callers, Take(c) \/ Return(c) PROVE ThrottleInv'
  BY <1>3, <1>4, <1>5, <1>6, <1>8 DEF Take
<1> QED
  BY <1>2, <1>7, <1>8 DEF ThrottleNext

\* A permit is used up to the slack after its slot, and never before it.
LEMMA SlotsAreSpaced == ThrottleInv => PermitsAreSpaced
<1> SUFFICES ASSUME ThrottleInv, NEW i \in DOMAIN permits, NEW j \in DOMAIN permits, i < j
             PROVE  permits[j].at - permits[i].at >= (j - i) * Per - maxSlack
  BY DEF PermitsAreSpaced
<1>0. permits \in Seq([slot : Nat, at : Nat])
  BY DEF ThrottleInv, ThrottleTypeOK
<1>1. /\ permits[i] \in [slot : Nat, at : Nat] /\ permits[j] \in [slot : Nat, at : Nat]
      /\ i \in Int /\ j \in Int
  <2> DEFINE Permit == [slot : Nat, at : Nat]
  <2>1. permits \in Seq(Permit) /\ DOMAIN permits = 1..Len(permits) /\ Len(permits) \in Nat
    BY <1>0
  <2> HIDE DEF Permit
  <2>2. permits[i] \in Permit /\ permits[j] \in Permit /\ i \in Int /\ j \in Int
    BY <2>1
  <2> QED
    BY <2>2 DEF Permit
<1>2. /\ permits[j].slot - permits[i].slot >= (j - i) * Per
      /\ permits[i].at <= permits[i].slot + maxSlack
      /\ permits[j].slot <= permits[j].at
  BY DEF ThrottleInv, SlotsInv
<1> DEFINE slots == (j - i) * Per
<1>3. slots \in Int /\ maxSlack \in Nat /\ permits[j].slot - permits[i].slot >= slots
  BY <1>1, <1>2, MaxSlackNat, ThrottleAssumption
<1> HIDE DEF slots
<1>4. permits[j].at - permits[i].at >= slots - maxSlack
  BY <1>1, <1>2, <1>3
<1> QED
  BY <1>4 DEF slots

\* Whoever calls it and whenever, the limiter spaces its permits.
THEOREM LimiterSpacesPermits == ThrottleSpec => []PermitsAreSpaced
<1>1. ThrottleInv /\ [ThrottleNext]_throttleVars => ThrottleInv'
  BY ThrottleStep
<1> QED
  BY <1>1, ThrottleInitHolds, SlotsAreSpaced, PTL DEF ThrottleSpec

(***************************************************************************)
(* The tasks                                                               *)
(***************************************************************************)

\* Every step of the tasks, Cloudflare and time is a step of the limiter or
\* leaves it alone.
LEMMA TasksTakePermits == [Next]_vars => [ThrottleNext]_throttleVars
<1> SUFFICES ASSUME [Next]_vars PROVE [ThrottleNext]_throttleVars
  OBVIOUS
<1>1. CASE Pass
  BY <1>1 DEF Pass, ThrottleNext
<1>2. CASE OtherCall
  BY <1>2 DEF OtherCall
<1>3. ASSUME NEW t \in Callers, TakePermit(t) PROVE ThrottleNext
  BY <1>3 DEF TakePermit, ThrottleNext
<1>4. ASSUME NEW t \in Callers, Serve(t) \/ Refuse(t) \/ Outage(t) \/ CacheHit(t)
      PROVE  ThrottleNext
  BY <1>4 DEF Serve, Refuse, Outage, CacheHit, Send, ThrottleNext
<1>5. ASSUME NEW t \in Callers, Succeed(t) \/ ShouldWaitAndRetry(t) \/ Wake(t)
      PROVE  UNCHANGED throttleVars
  BY <1>5 DEF Succeed, ShouldWaitAndRetry, Wake
<1>6. CASE UNCHANGED vars
  BY <1>6 DEF vars
<1> QED
  BY <1>1, <1>2, <1>3, <1>4, <1>5, <1>6 DEF Next

\* The tasks use the limiter as it is meant to be used, so that what holds of
\* the limiter whoever calls it holds of it here.
THEOREM TasksUseTheLimiter == Spec => ThrottleSpec
<1>1. Init => ThrottleInit
  BY DEF Init
<1> QED
  BY <1>1, TasksTakePermits, PTL DEF Spec, ThrottleSpec

\* So the calls of the tasks, retries and cached ones included, are spaced.
THEOREM CallsAreSpaced == Spec => []PermitsAreSpaced
BY TasksUseTheLimiter, LimiterSpacesPermits, PTL

(***************************************************************************)
(* When a task that was refused calls again: definitions                   *)
(***************************************************************************)

\* Policies that refuse every call, and the time until the last is reset.
spentPolicies == {p \in DOMAIN Policies : spent(p)}
wait == Latest({untilReset(p) : p \in spentPolicies})

\* A wait that some policy can ask for.
Waits(T) == T \in Nat \ {0} /\ \E p \in DOMAIN Policies : T <= Policies[p].window

\* What a task was told of is the reset of a policy it had to wait for, and
\* was told in the past.
ToldOk(t) ==
  /\ told[t].sent <= now
  /\ told[t].reset # Never => Waits(told[t].reset - told[t].sent)

\* Until a failure is handled its headers tell of a time, and those of a refusal
\* say how long to wait, whenever they are read.
RefusalOk(t) ==
  /\ answer[t].status \in {429, 503} =>
       \A n \in Nat : errorDetail(answer[t].status, answer[t], n).resetAt \in Nat
  /\ answer[t].status = 429 /\ told[t].reset # Never =>
       \A n \in Nat :
         errorDetail(429, answer[t], n).resetAt = n + (told[t].reset - told[t].sent)

\* The reset a task was told of, or the longest delay after it was told.
notBefore(t) ==
  IF told[t].reset = Never THEN 0 ELSE least(told[t].reset, told[t].sent + MaxDelay)

\* Whoever is not waiting has waited, and whoever waits waits long enough.
WaitOk(t) ==
  /\ task[t].at = "call" => now >= notBefore(t)
  /\ task[t].at = "answer" /\ answer[t].status # 429 => now >= notBefore(t)
  /\ task[t].at = "backoff" => task[t].wake >= notBefore(t)

\* Where a task is: an answer is under way to one that waits for it, only one
\* that backs off has a time to wake, one that still calls has calls to make,
\* and one that calls may.
PlaceOk(t) ==
  /\ answer[t].status # 0 <=> task[t].at = "answer"
  /\ task[t].at # "backoff" => task[t].wake = 0
  /\ task[t].at \in {"call", "answer", "backoff"} =>
       task[t].calls < Calls /\ mayRetry(task[t].attempts)

TaskOk(t) == PlaceOk(t) /\ ToldOk(t) /\ RefusalOk(t) /\ WaitOk(t)

RateInv == ThrottleInv /\ TypeOK /\ \A t \in Callers : TaskOk(t)

\* However far away the reset, a task that was refused calls again no sooner
\* than it, or than the longest delay after the refusal: the wait is never
\* cut to the backoff of an error without headers (ShouldWaitAndRetry).
NotEarly == \A t \in Callers : task[t].at = "call" => now >= notBefore(t)

\* No policy's window outlasts the longest delay of the retryer.
WindowsFit == \A p \in DOMAIN Policies : Policies[p].window <= MaxDelay

(***************************************************************************)
(* Choices from finite sets                                                *)
(***************************************************************************)

\* A function takes its largest value on a finite set: a smallest set on which
\* it does not has an element more than one on which it does.
LEMMA AttainedMaximum ==
  ASSUME NEW S, IsFiniteSet(S), S # {}, NEW f \in [S -> Int]
  PROVE  \E p \in S : \A q \in S : f[q] <= f[p]
<1> DEFINE Without == {T \in FiniteSubsetsOf(S) :
                         T # {} /\ ~ \E p \in T : \A q \in T : f[q] <= f[p]}
<1>1. SUFFICES Without = {}
  <2>1. S \in FiniteSubsetsOf(S)
    BY DEF FiniteSubsetsOf
  <2> QED
    BY <1>1, <2>1
<1>2. SUFFICES ASSUME Without # {} PROVE FALSE
  OBVIOUS
<1>3. PICK T \in Without : \A U \in Without : <<U, T>> \notin StrictSubsetOrdering(S)
  <2>1. IsWellFoundedOn(StrictSubsetOrdering(S), FiniteSubsetsOf(S))
    BY FS_StrictSubsetOrderingWellFounded
  <2>2. Without \subseteq FiniteSubsetsOf(S)
    OBVIOUS
  <2> HIDE DEF Without
  <2> QED
    BY <1>2, <2>1, <2>2, WFMin
<1>4. T \subseteq S /\ IsFiniteSet(T) /\ T # {} /\ ~ \E p \in T : \A q \in T : f[q] <= f[p]
  BY DEF FiniteSubsetsOf
<1>5. PICK e \in T : TRUE
  BY <1>4
<1>6. T \ {e} \in FiniteSubsetsOf(S)
  <2>1. IsFiniteSet(T \ {e})
    BY <1>4, FS_RemoveElement
  <2> QED
    BY <1>4, <2>1 DEF FiniteSubsetsOf
<1>7. <<T \ {e}, T>> \in StrictSubsetOrdering(S)
  BY <1>4, <1>5 DEF StrictSubsetOrdering
<1>8. T \ {e} = {} \/ \E p \in T \ {e} : \A q \in T \ {e} : f[q] <= f[p]
  BY <1>3, <1>6, <1>7
<1>9. CASE T \ {e} = {}
  <2>1. T = {e} /\ f[e] <= f[e]
    BY <1>4, <1>5, <1>9
  <2> QED
    BY <1>4, <2>1
<1>10. CASE \E p \in T \ {e} : \A q \in T \ {e} : f[q] <= f[p]
  <2>1. PICK p \in T \ {e} : \A q \in T \ {e} : f[q] <= f[p]
    BY <1>10
  <2>2. \A q \in T : f[q] \in Int
    BY <1>4
  <2>3. CASE f[e] <= f[p]
    BY <1>4, <2>1, <2>2, <2>3
  <2>4. CASE f[p] <= f[e]
    BY <1>4, <1>5, <2>1, <2>2, <2>4
  <2>5. f[e] \in Int /\ f[p] \in Int
    BY <1>5, <2>1, <2>2
  <2> QED
    BY <2>3, <2>4, <2>5
<1> QED
  BY <1>8, <1>9, <1>10

(***************************************************************************)
(* Policies and headers                                                    *)
(***************************************************************************)

\* A window is over within its length.
LEMMA UntilReset ==
  ASSUME now \in Nat, NEW p \in DOMAIN Policies
  PROVE  /\ Policies[p].quota \in Nat \ {0} /\ Policies[p].window \in Nat \ {0}
         /\ untilReset(p) \in Nat \ {0} /\ untilReset(p) <= Policies[p].window
<1>1. Policies[p] \in [quota : Nat \ {0}, window : Nat \ {0}]
  <2> DEFINE Policy == [quota : Nat \ {0}, window : Nat \ {0}]
  <2>1. Policies \in Seq(Policy)
    BY RateLimitingAssumption
  <2> HIDE DEF Policy
  <2>2. Policies[p] \in Policy
    BY <2>1
  <2> QED
    BY <2>2 DEF Policy
<1> DEFINE w == Policies[p].window
<1>2. w \in Nat \ {0}
  BY <1>1
<1> HIDE DEF w
<1>3. now % w \in 0..(w - 1)
  BY <1>2
<1> QED
  BY <1>1, <1>2, <1>3 DEF untilReset, w

\* The wait a refusal asks for is that of a spent policy, and no spent policy
\* asks for more.
LEMMA LastReset ==
  ASSUME TypeOK, blocked
  PROVE  /\ Waits(wait)
         /\ \E p \in spentPolicies : untilReset(p) = wait
         /\ \A p \in spentPolicies : untilReset(p) <= wait
<1> DEFINE times == {untilReset(p) : p \in spentPolicies}
           f     == [p \in spentPolicies |-> untilReset(p)]
<1>1. now \in Nat
  BY DEF TypeOK, ThrottleTypeOK
<1>2. spentPolicies \subseteq DOMAIN Policies /\ spentPolicies # {}
  BY DEF blocked, spentPolicies
<1>3. \A p \in spentPolicies :
        untilReset(p) \in Nat \ {0} /\ untilReset(p) <= Policies[p].window
  BY <1>1, <1>2, UntilReset
<1>4. IsFiniteSet(spentPolicies)
  <2>1. DOMAIN Policies = 1..Len(Policies) /\ Len(Policies) \in Nat
    BY RateLimitingAssumption
  <2>2. IsFiniteSet(DOMAIN Policies)
    BY <2>1, FS_Interval
  <2> QED
    BY <1>2, <2>2, FS_Subset
<1>5. PICK p \in spentPolicies : \A q \in spentPolicies : untilReset(q) <= untilReset(p)
  <2>1. f \in [spentPolicies -> Int]
    BY <1>3
  <2>2. \E p \in spentPolicies : \A q \in spentPolicies : f[q] <= f[p]
    <3> HIDE DEF f
    <3> QED
      BY <1>2, <1>4, <2>1, AttainedMaximum
  <2> QED
    BY <2>2
<1>6. wait \in times /\ \A y \in times : y <= wait
  <2>1. untilReset(p) \in times /\ \A y \in times : y <= untilReset(p)
    BY <1>5
  <2>2. \E x \in times : \A y \in times : y <= x
    BY <2>1
  <2> HIDE DEF times
  <2>3. Latest(times) \in times /\ \A y \in times : y <= Latest(times)
    BY <2>2 DEF Latest
  <2> QED
    BY <2>3 DEF wait, times
<1>7. PICK r \in spentPolicies : wait = untilReset(r)
  BY <1>6
<1>8. \A q \in spentPolicies : untilReset(q) <= wait
  BY <1>6
<1> QED
  BY <1>2, <1>3, <1>7, <1>8 DEF Waits

\* Two lists, one after the other.
LEMMA OneAfterTheOther ==
  ASSUME NEW S, NEW s \in Seq(S), NEW t \in Seq(S)
  PROVE  /\ s \o t \in Seq(S)
         /\ DOMAIN (s \o t) = 1..(Len(s) + Len(t))
         /\ Len(s) \in Nat /\ Len(t) \in Nat
         /\ \A i \in 1..Len(s) : (s \o t)[i] = s[i]
         /\ \A i \in 1..Len(t) : (s \o t)[Len(s) + i] = t[i]
OBVIOUS

\* The item that stands for a policy.
itemOf(style, p) == [r |-> Policies[p].quota - used[p],
                     t |-> IF style.times THEN untilReset(p) ELSE Absent]

\* The list has an item for every policy, after a junk item if there is one.
LEMMA ItemsOfAnswer ==
  ASSUME TypeOK, NEW style \in HeaderStyles, style.items
  PROVE  LET items == headers(429, style).items
             junk  == IF style.junk THEN 1 ELSE 0
         IN  /\ DOMAIN items = 1..(junk + Len(Policies)) /\ Len(Policies) \in Nat
             /\ DOMAIN Policies = 1..Len(Policies)
             /\ \A p \in DOMAIN Policies : items[junk + p] = itemOf(style, p)
             /\ junk = 1 => items[1] = [r |-> 0, t |-> Unreadable]
<1> DEFINE Item   == [r : Int, t : Int]
           unread == [r |-> 0, t |-> Unreadable]
           before == IF style.junk THEN <<unread>> ELSE <<>>
           listed == [p \in DOMAIN Policies |-> itemOf(style, p)]
           n      == Len(Policies)
<1>1. DOMAIN Policies = 1..n /\ n \in Nat
  BY RateLimitingAssumption
<1>2. headers(429, style).items = before \o listed
  BY DEF headers, itemOf
<1>3. \A p \in 1..n : itemOf(style, p) \in Item
  <2> SUFFICES ASSUME NEW p \in 1..n PROVE itemOf(style, p) \in Item
    OBVIOUS
  <2>0. p \in DOMAIN Policies /\ TypeOK
    BY <1>1
  <2>1. now \in Nat /\ used[p] \in 0..Policies[p].quota
    BY <2>0 DEF TypeOK, ThrottleTypeOK
  <2>2. Policies[p].quota \in Nat /\ untilReset(p) \in Nat
    BY <2>0, <2>1, UntilReset
  <2>3. Policies[p].quota - used[p] \in Int
    BY <2>1, <2>2
  <2> QED
    BY <2>2, <2>3 DEF itemOf, Absent
<1>4. listed \in Seq(Item) /\ Len(listed) = n /\ \A p \in 1..n : listed[p] = itemOf(style, p)
  <2> HIDE DEF Item
  <2> QED
    BY <1>1, <1>3
<1>5. /\ before \in Seq(Item) /\ Len(before) = (IF style.junk THEN 1 ELSE 0)
      /\ style.junk => before[1] = unread
  <2>1. unread \in Item
    BY DEF Unreadable
  <2> HIDE DEF Item, unread
  <2> QED
    BY <2>1
<1> DEFINE junk  == IF style.junk THEN 1 ELSE 0
           items == headers(429, style).items
<1>6. junk \in {0, 1} /\ (junk = 1 => style.junk)
  OBVIOUS
<1> HIDE DEF Item, before, listed, junk, items
<1>7. /\ DOMAIN items = 1..(junk + n)
      /\ \A i \in 1..junk : items[i] = before[i]
      /\ \A i \in 1..n : items[junk + i] = listed[i]
  BY SMTT(30), <1>2, <1>4, <1>5, OneAfterTheOther DEF junk, items
<1>8. \A p \in DOMAIN Policies : items[junk + p] = itemOf(style, p)
  BY <1>1, <1>4, <1>7
<1>9. junk = 1 => items[1] = unread
  BY <1>5, <1>6, <1>7
<1> QED
  BY <1>1, <1>7, <1>8, <1>9 DEF junk, items

\* The items of the list that can be read, and the one that is chosen.
readable(items) == {i \in DOMAIN items : usable(items[i])}
chosenOf(items) == CHOOSE i \in readable(items) :
                     \A j \in readable(items) : throttlesFirst(items, i, j)

\* Of a refusal's items one of a spent policy is chosen, the last to be reset.
LEMMA ChosenItem ==
  ASSUME TypeOK, blocked, NEW style \in HeaderStyles, style.items
  PROVE  LET items == headers(429, style).items
         IN  /\ chosenOf(items) \in readable(items)
             /\ items[chosenOf(items)].r = 0
             /\ items[chosenOf(items)].t = (IF style.times THEN wait ELSE Absent)
<1> DEFINE items  == headers(429, style).items
           junk   == IF style.junk THEN 1 ELSE 0
           n      == Len(Policies)
           longest == IF style.times THEN wait ELSE 0
           R      == readable(items)
           First  == {i \in R : items[i].r = 0 /\ until(items[i]) = longest}
<1>1. /\ DOMAIN items = 1..(junk + n) /\ n \in Nat /\ DOMAIN Policies = 1..n
      /\ \A p \in 1..n : items[junk + p] = itemOf(style, p)
      /\ junk = 1 => items[1] = [r |-> 0, t |-> Unreadable]
  BY ItemsOfAnswer
<1>2. junk \in {0, 1}
  OBVIOUS
<1>3. /\ wait \in Nat \ {0}
      /\ \E p \in spentPolicies : untilReset(p) = wait
      /\ \A p \in spentPolicies : untilReset(p) <= wait
  BY LastReset DEF Waits
<1>4. ASSUME NEW p \in 1..n
      PROVE  /\ itemOf(style, p).r \in Nat
             /\ itemOf(style, p).r = 0 <=> p \in spentPolicies
             /\ untilReset(p) \in Nat \ {0}
             /\ itemOf(style, p).t = (IF style.times THEN untilReset(p) ELSE Absent)
             /\ until(itemOf(style, p)) = (IF style.times THEN untilReset(p) ELSE 0)
             /\ usable(itemOf(style, p))
  <2>0. p \in DOMAIN Policies /\ TypeOK
    BY <1>1
  <2>1. now \in Nat /\ used[p] \in 0..Policies[p].quota
    BY <2>0 DEF TypeOK, ThrottleTypeOK
  <2>2. Policies[p].quota \in Nat /\ untilReset(p) \in Nat \ {0}
    BY <2>0, <2>1, UntilReset
  <2> QED
    BY <2>0, <2>1, <2>2 DEF itemOf, until, usable, Absent, spentPolicies, spent
<1> HIDE DEF items, junk, n
<1>5. ASSUME NEW i \in R
      PROVE  \E p \in 1..n : i = junk + p /\ items[i] = itemOf(style, p)
  <2>1. i \in 1..(junk + n) /\ usable(items[i])
    BY <1>1 DEF readable
  <2>2. ~(junk = 1 /\ i = 1)
    BY <1>1, <2>1 DEF usable, Unreadable, Absent
  <2>3. i - junk \in 1..n /\ i = junk + (i - junk)
    BY <1>1, <1>2, <2>1, <2>2
  <2> QED
    BY <1>1, <2>3
<1>6. \A i \in R : /\ i \in Nat /\ items[i].r \in Nat
                   /\ until(items[i]) \in Nat
                   /\ items[i].r = 0 => until(items[i]) <= longest
                   /\ items[i].t = (IF style.times THEN until(items[i]) ELSE Absent)
  <2> SUFFICES ASSUME NEW i \in R
               PROVE  /\ i \in Nat /\ items[i].r \in Nat
                      /\ until(items[i]) \in Nat
                      /\ items[i].r = 0 => until(items[i]) <= longest
                      /\ items[i].t = (IF style.times THEN until(items[i]) ELSE Absent)
    OBVIOUS
  <2>1. PICK p \in 1..n : i = junk + p /\ items[i] = itemOf(style, p)
    BY <1>5
  <2> QED
    BY <1>1, <1>2, <1>3, <1>4, <2>1
<1>7. First # {}
  <2>1. PICK p \in spentPolicies : untilReset(p) = wait
    BY <1>3
  <2>2. p \in 1..n
    BY <1>1, <2>1 DEF spentPolicies
  <2>3. junk + p \in DOMAIN items /\ items[junk + p] = itemOf(style, p)
    BY <1>1, <1>2, <2>2
  <2> QED
    BY <1>4, <2>1, <2>2, <2>3 DEF readable
<1>8. PICK i \in First : \A j \in First : i <= j
  <2> DEFINE f == [j \in First |-> -j]
  <2>1. IsFiniteSet(First)
    <3>1. IsFiniteSet(DOMAIN items)
      BY <1>1, <1>2, FS_Interval
    <3>2. First \subseteq DOMAIN items
      BY DEF readable
    <3> HIDE DEF First
    <3> QED
      BY <3>1, <3>2, FS_Subset
  <2>2. f \in [First -> Int] /\ \A j \in First : j \in Nat
    BY <1>6
  <2>3. \E i \in First : \A j \in First : f[j] <= f[i]
    <3> HIDE DEF First, f
    <3> QED
      BY <1>7, <2>1, <2>2, AttainedMaximum
  <2>4. PICK i \in First : \A j \in First : -j <= -i
    BY <2>3
  <2>5. i \in First /\ \A j \in First : i <= j
    <3> HIDE DEF First
    <3> QED
      BY <2>2, <2>4
  <2> QED
    BY <2>5
<1>9. \A j \in R : throttlesFirst(items, i, j)
  <2> SUFFICES ASSUME NEW j \in R PROVE throttlesFirst(items, i, j)
    OBVIOUS
  <2>1. i \in R /\ items[i].r = 0 /\ until(items[i]) = longest
    OBVIOUS
  <2>2. CASE j \in First
    BY <1>8, <2>1, <2>2 DEF throttlesFirst
  <2>3. CASE j \notin First
    BY <1>6, <2>1, <2>3 DEF throttlesFirst
  <2> QED
    BY <2>2, <2>3
<1> DEFINE c == chosenOf(items)
<1>10. c \in R /\ \A j \in R : throttlesFirst(items, c, j)
  <2>1. i \in R
    OBVIOUS
  <2> HIDE DEF First
  <2> QED
    BY <1>9, <2>1 DEF chosenOf
<1>11. items[c].r = 0 /\ until(items[c]) = longest
  <2>1. i \in R /\ items[i].r = 0 /\ until(items[i]) = longest /\ throttlesFirst(items, c, i)
    BY <1>10
  <2> HIDE DEF c, R, First
  <2>2. longest \in Nat
    BY <1>3
  <2> QED
    BY <1>6, <1>10, <2>1, <2>2 DEF throttlesFirst
<1>12. items[c].t = (IF style.times THEN wait ELSE Absent)
  BY <1>6, <1>10, <1>11
<1> QED
  BY <1>10, <1>11, <1>12 DEF items

\* Whichever header tells of the wait, structured, Retry-After or both, the
\* description the error carries has it, from the time it is read.
LEMMA RefusalTells ==
  ASSUME TypeOK, blocked, NEW style \in HeaderStyles, resetTold(style) # Never
  PROVE  /\ resetTold(style) = now + wait
         /\ \A n \in Nat : errorDetail(429, headers(429, style), n).resetAt = n + wait
<1> DEFINE answered == headers(429, style)
<1>1. style.retry \/ (style.items /\ style.times)
  BY DEF resetTold
<1>2. resetTold(style) = now + wait
  BY <1>1 DEF resetTold, wait, spentPolicies
<1>3. wait \in Nat \ {0}
  BY LastReset DEF Waits
<1>4. answered.retryAfter = (IF style.retry THEN wait ELSE Absent)
  BY DEF headers, wait, spentPolicies
<1>5. ~style.items => answered.items = <<>>
  BY DEF headers
<1> HIDE DEF answered
<1>6. ASSUME NEW n \in Nat
      PROVE  errorDetail(429, answered, n).resetAt = n + wait
  <2> DEFINE desc == parseStructuredRateLimit(429, answered, n)
             sdk  == ExtractRateLimitData(429, answered, n)
  <2>1. style.retry => sdk.resetAt = n + wait
    BY <1>3, <1>4 DEF ExtractRateLimitData
  <2>2. CASE ~style.items
    <3>1. desc = NoDesc
      BY <1>5, <2>2 DEF parseStructuredRateLimit
    <3> QED
      BY <1>1, <2>1, <2>2, <3>1 DEF errorDetail, extractRateLimit
  <2>3. CASE style.items
    <3> DEFINE items == answered.items
               c     == chosenOf(items)
    <3>1. /\ c \in readable(items) /\ items[c].r = 0
          /\ items[c].t = (IF style.times THEN wait ELSE Absent)
      BY <2>3, ChosenItem DEF answered
    <3>2. desc = [remaining |-> 0,
                  resetAt   |-> IF items[c].t = Absent THEN Never ELSE n + items[c].t]
      BY <3>1 DEF parseStructuredRateLimit, readable, chosenOf
    <3>3. desc.remaining = 0 /\ desc.resetAt = (IF style.times THEN n + wait ELSE Never)
      BY <1>3, <3>1, <3>2 DEF Absent
    <3>4. desc # NoDesc
      BY <3>3 DEF NoDesc, Absent
    <3> HIDE DEF desc, sdk
    <3>5. extractRateLimit(429, answered, n) =
            IF answered.retryAfter # Absent /\ sdk.resetAt > desc.resetAt
            THEN [desc EXCEPT !.resetAt = sdk.resetAt] ELSE desc
      BY <3>4 DEF extractRateLimit, desc, sdk
    <3>6. DOMAIN desc = {"remaining", "resetAt"}
      BY <3>2 DEF desc
    <3>7. CASE style.retry
      BY <1>3, <1>4, <2>1, <3>3, <3>5, <3>6, <3>7 DEF errorDetail, Absent, Never
    <3>8. CASE ~style.retry
      BY <1>1, <1>4, <3>3, <3>5, <3>8 DEF errorDetail
    <3> QED
      BY <3>7, <3>8
  <2> QED
    BY <2>2, <2>3
<1> QED
  BY <1>2, <1>6 DEF answered

\* The headers of a failure can be read at any time.
LEMMA HeadersReadable ==
  ASSUME TypeOK, NEW style \in HeaderStyles, NEW status \in {429, 503},
         status = 429 => blocked, NEW n \in Nat
  PROVE  errorDetail(status, headers(status, style), n).resetAt \in Nat
<1> DEFINE response == headers(status, style)
<1>1. blocked => wait \in Nat \ {0}
  BY LastReset DEF Waits
<1>2. response.retryAfter = (IF style.retry /\ blocked THEN wait ELSE Absent)
  BY DEF headers, wait, spentPolicies
<1>3. CASE status = 503
  BY <1>1, <1>2, <1>3 DEF errorDetail, ExtractRateLimitData, Absent, Never
<1>4. CASE status = 429 /\ resetTold(style) # Never
  BY <1>1, <1>4, RefusalTells
<1>5. CASE status = 429 /\ resetTold(style) = Never
  <2>1. blocked /\ now \in Nat
    BY <1>5 DEF TypeOK, ThrottleTypeOK
  <2>2. ~style.retry /\ ~(style.items /\ style.times)
    BY <1>1, <1>5, <2>1 DEF resetTold, wait, spentPolicies, Never
  <2>3. response.retryAfter = Absent
    BY <1>2, <2>2
  <2>4. CASE ~style.items
    <3>1. response.items = <<>>
      BY <2>4 DEF headers
    <3> HIDE DEF response
    <3>2. parseStructuredRateLimit(429, response, n) = NoDesc
      BY <3>1 DEF parseStructuredRateLimit
    <3> QED
      BY <1>5, <2>3, <3>2, DefaultWaitAssumption
      DEF errorDetail, extractRateLimit, ExtractRateLimitData, Absent, response
  <2>5. CASE style.items
    <3> DEFINE items == response.items
               c     == chosenOf(items)
    <3>1. c \in readable(items) /\ items[c].t = Absent
      BY <1>5, <2>1, <2>2, <2>5, ChosenItem
    <3> HIDE DEF response
    <3>2. parseStructuredRateLimit(429, response, n) =
            [remaining |-> 0,
             resetAt   |-> IF items[c].t = Absent THEN Never ELSE n + items[c].t]
      BY ZenonT(40), <3>1 DEF parseStructuredRateLimit, readable, chosenOf
    <3>3. parseStructuredRateLimit(429, response, n).resetAt = Never
      BY <3>1, <3>2
    <3> QED
      BY <1>5, <2>3, <3>2, <3>3, DefaultWaitAssumption
      DEF errorDetail, extractRateLimit, ExtractRateLimitData, Absent, Never, response
  <2> QED
    BY <2>4, <2>5
<1> QED
  BY <1>3, <1>4, <1>5

(***************************************************************************)
(* Types                                                                   *)
(***************************************************************************)

\* A task that has not begun was not refused.
LEMMA RateInit == Init => RateInv
<1> SUFFICES ASSUME Init PROVE RateInv
  OBVIOUS
<1> USE DEF Init
<1>1. ThrottleInv
  BY ThrottleInitHolds
<1>2. /\ Calls \in Nat \ {0} /\ MaxAttempts \in Nat /\ MaxOthers \in Nat /\ MaxOutages \in Nat
      /\ \A p \in DOMAIN Policies : Policies[p].quota \in Nat
  <2>1. now \in Nat
    BY DEF ThrottleInit
  <2> QED
    BY <2>1, RateLimitingAssumption, UntilReset
<1>3. TypeOK
  BY <1>1, <1>2 DEF TypeOK, ThrottleInv, Places, NoAnswer, bare, NotTold, Never
<1>4. ASSUME NEW t \in Callers PROVE TaskOk(t)
  <2>1. /\ task[t] = [at |-> "call", calls |-> 0, attempts |-> 0, wake |-> 0]
        /\ answer[t] = NoAnswer /\ told[t] = [reset |-> 0, sent |-> 0]
        /\ now = 1
    BY DEF ThrottleInit, NotTold, Never
  <2>2. PlaceOk(t)
    BY <1>2, <2>1 DEF PlaceOk, NoAnswer, bare, mayRetry
  <2>3. ToldOk(t)
    BY <2>1 DEF ToldOk, Never
  <2>4. RefusalOk(t)
    <3>1. answer[t].status = 0
      BY <2>1 DEF NoAnswer, bare
    <3> QED
      BY <3>1 DEF RefusalOk
  <2>5. WaitOk(t)
    BY <2>1 DEF WaitOk, notBefore, Never
  <2> QED
    BY <2>2, <2>3, <2>4, <2>5 DEF TaskOk
<1> QED
  BY <1>1, <1>3, <1>4 DEF RateInv

\* What a policy counts stays within its quota: only a call that no policy
\* blocks is counted.
LEMMA CountWithinQuota ==
  ASSUME TypeOK, ~blocked, count
  PROVE  \A p \in DOMAIN Policies : used'[p] \in 0..Policies[p].quota
<1> SUFFICES ASSUME NEW p \in DOMAIN Policies PROVE used'[p] \in 0..Policies[p].quota
  OBVIOUS
<1>1. used[p] \in 0..Policies[p].quota /\ used[p] # Policies[p].quota
  BY DEF TypeOK, blocked, spent
<1>2. Policies[p].quota \in Nat
  <2>1. now \in Nat
    BY DEF TypeOK, ThrottleTypeOK
  <2> QED
    BY <2>1, UntilReset
<1> QED
  BY <1>1, <1>2 DEF count

\* A task that no step touches stays as it was while time passes.
LEMMA Untouched ==
  ASSUME RateInv, NEW t \in Callers, now' \in Nat, now' >= now,
         task'[t] = task[t], answer'[t] = answer[t], told'[t] = told[t]
  PROVE  TaskOk(t)'
<1>1. TaskOk(t) /\ now \in Nat /\ told[t].sent \in Nat /\ told[t].reset \in Nat
  BY DEF RateInv, TypeOK, ThrottleTypeOK
<1>2. notBefore(t)' = notBefore(t) /\ notBefore(t) \in Nat
  BY <1>1, RateLimitingAssumption DEF notBefore, least
<1>3. PlaceOk(t)'
  BY <1>1 DEF TaskOk, PlaceOk, mayRetry
<1>4. ToldOk(t)'
  BY <1>1 DEF TaskOk, ToldOk, Waits
<1>5. RefusalOk(t)'
  BY <1>1 DEF TaskOk, RefusalOk
<1>6. WaitOk(t)'
  BY <1>1, <1>2 DEF TaskOk, WaitOk
<1> QED
  BY <1>3, <1>4, <1>5, <1>6 DEF TaskOk

\* What TypeOK says of the tasks.
TasksTyped ==
  /\ task \in [Callers -> [at : Places, calls : 0..Calls, attempts : Nat, wake : Nat]]
  /\ MaxAttempts # 0 => \A t \in Callers : task[t].attempts <= MaxAttempts + 1
  /\ DOMAIN answer = Callers
  /\ \A t \in Callers : answer[t].status \in {0, 200, 429, 503}
  /\ told \in [Callers -> [reset : Nat, sent : Nat]]

TasksOk == TasksTyped /\ \A t \in Callers : TaskOk(t)

\* A call that is sent moves its task to the answer, and touches no other.
LEMMA SendMoves ==
  ASSUME RateInv, NEW t \in Callers, NEW response, Send(t, response),
         response.status \in {200, 429, 503},
         told' \in [Callers -> [reset : Nat, sent : Nat]]
  PROVE  /\ now' = now /\ now \in Nat
         /\ task[t].at = "call" /\ task'[t].at = "answer" /\ answer'[t] = response
         /\ TasksTyped' /\ PlaceOk(t)'
         /\ \A u \in Callers : u # t /\ told'[u] = told[u] => TaskOk(u)'
<1>1. /\ task \in [Callers -> [at : Places, calls : 0..Calls, attempts : Nat, wake : Nat]]
      /\ task' = [task EXCEPT ![t].at = "answer"] /\ "answer" \in Places
      /\ DOMAIN answer = Callers /\ answer' = [answer EXCEPT ![t] = response]
      /\ task[t].at = "call" /\ now' = now /\ now \in Nat
  BY DEF RateInv, TypeOK, ThrottleTypeOK, Send, Return, Places
<1>2. \A u \in Callers :
        /\ task'[u].attempts = task[u].attempts /\ task'[u].calls = task[u].calls
        /\ task'[u].wake = task[u].wake
        /\ u # t => task'[u] = task[u] /\ answer'[u] = answer[u]
  BY <1>1
<1>3. task'[t].at = "answer" /\ answer'[t] = response
  BY <1>1
<1>4. PlaceOk(t)'
  <2>1. PlaceOk(t)
    BY DEF RateInv, TaskOk
  <2> QED
    BY <1>1, <1>2, <1>3, <2>1 DEF PlaceOk, mayRetry
<1>5. TasksTyped'
  <2>1. task' \in [Callers -> [at : Places, calls : 0..Calls, attempts : Nat, wake : Nat]]
    BY <1>1
  <2>2. MaxAttempts # 0 => \A u \in Callers : task'[u].attempts <= MaxAttempts + 1
    BY <1>2 DEF RateInv, TypeOK
  <2>3. DOMAIN answer' = Callers /\ \A u \in Callers : answer'[u].status \in {0, 200, 429, 503}
    BY <1>1, <1>2, <1>3 DEF RateInv, TypeOK
  <2> QED
    BY <2>1, <2>2, <2>3 DEF TasksTyped
<1>6. ASSUME NEW u \in Callers, u # t, told'[u] = told[u] PROVE TaskOk(u)'
  BY <1>1, <1>2, <1>6, Untouched
<1> QED
  BY <1>1, <1>3, <1>4, <1>5, <1>6

\* An answer that is no refusal leaves what its task was told before, which is
\* in the past.
LEMMA AnsweredOk ==
  ASSUME RateInv, NEW t \in Callers, NEW response, Send(t, response),
         response.status \in {200, 503}, told' = told,
         response.status = 503 =>
           \A n \in Nat : errorDetail(503, response, n).resetAt \in Nat
  PROVE  TasksOk'
<1>1. told' \in [Callers -> [reset : Nat, sent : Nat]]
  BY DEF RateInv, TypeOK
<1>2. /\ now' = now /\ now \in Nat
      /\ task[t].at = "call" /\ task'[t].at = "answer" /\ answer'[t].status # 429
      /\ TasksTyped' /\ PlaceOk(t)'
      /\ \A u \in Callers : u # t => TaskOk(u)'
  BY <1>1, SendMoves
<1>3. TaskOk(t)
  BY DEF RateInv
<1>4. ToldOk(t)'
  BY <1>2, <1>3 DEF TaskOk, ToldOk, Waits
<1>5. WaitOk(t)'
  BY <1>2, <1>3 DEF TaskOk, WaitOk, notBefore
<1>6. RefusalOk(t)'
  <2>1. answer'[t] = response
    BY <1>1, SendMoves
  <2> QED
    BY <2>1 DEF RefusalOk
<1> QED
  BY <1>2, <1>4, <1>5, <1>6 DEF TasksOk, TaskOk

\* A refusal tells of the wait, if it tells of any.
LEMMA RefusedOk ==
  ASSUME RateInv, NEW t \in Callers, Refuse(t)
  PROVE  TasksOk'
<1>1. PICK style \in HeaderStyles :
        /\ Send(t, headers(429, style))
        /\ told' = [told EXCEPT ![t] = [reset |-> resetTold(style), sent |-> now]]
  BY DEF Refuse
<1> DEFINE response == headers(429, style)
<1>2. blocked /\ TypeOK /\ now \in Nat
  BY DEF Refuse, RateInv, TypeOK, ThrottleTypeOK
<1>3. response.status = 429
  BY DEF headers
<1>4. wait \in Nat \ {0} /\ Waits(wait)
  BY <1>2, LastReset DEF Waits
<1>5. resetTold(style) # Never =>
        /\ resetTold(style) = now + wait
        /\ \A n \in Nat : errorDetail(429, response, n).resetAt = n + wait
  BY <1>2, RefusalTells
<1>6. resetTold(style) \in Nat
  BY <1>2, <1>4, <1>5 DEF Never
<1>7. /\ told' \in [Callers -> [reset : Nat, sent : Nat]]
      /\ told'[t].reset = resetTold(style) /\ told'[t].sent = now
      /\ \A u \in Callers : u # t => told'[u] = told[u]
  <2>1. told \in [Callers -> [reset : Nat, sent : Nat]]
    BY DEF RateInv, TypeOK
  <2> QED
    BY <1>1, <1>2, <1>6, <2>1
<1> HIDE DEF response
<1>8. /\ now' = now /\ task'[t].at = "answer" /\ answer'[t] = response
      /\ TasksTyped' /\ PlaceOk(t)'
      /\ \A u \in Callers : u # t => TaskOk(u)'
  BY <1>1, <1>3, <1>7, SendMoves DEF response
<1>9. resetTold(style) # Never => resetTold(style) - now = wait
  BY <1>2, <1>4, <1>5
<1>10. ToldOk(t)'
  BY <1>2, <1>4, <1>7, <1>8, <1>9 DEF ToldOk, Waits
<1>11. RefusalOk(t)'
  <2>1. \A n \in Nat : errorDetail(429, response, n).resetAt \in Nat
    BY <1>2, HeadersReadable DEF response
  <2> QED
    BY <1>3, <1>5, <1>7, <1>8, <1>9, <2>1 DEF RefusalOk
<1>12. WaitOk(t)'
  BY <1>3, <1>8 DEF WaitOk
<1> QED
  BY <1>8, <1>10, <1>11, <1>12 DEF TasksOk, TaskOk

\* An answer that was waited for is handled.
LEMMA SucceedOk ==
  ASSUME RateInv, NEW t \in Callers, Succeed(t)
  PROVE  TasksOk'
<1>1. /\ task \in [Callers -> [at : Places, calls : 0..Calls, attempts : Nat, wake : Nat]]
      /\ told \in [Callers -> [reset : Nat, sent : Nat]]
      /\ DOMAIN answer = Callers /\ now' = now /\ now \in Nat
  BY DEF RateInv, TypeOK, ThrottleTypeOK, Succeed, throttleVars
<1>2. PlaceOk(t) /\ task[t].at = "answer"
  BY DEF RateInv, TaskOk, PlaceOk, Succeed
<1>3. task[t].calls + 1 \in 0..Calls /\ task[t].wake = 0 /\ mayRetry(task[t].attempts)
      /\ task[t].calls \in Nat
  BY <1>1, <1>2, RateLimitingAssumption DEF PlaceOk
<1> DEFINE at == IF task[t].calls + 1 = Calls THEN "done" ELSE "call"
<1>4. task' = [task EXCEPT ![t].calls = task[t].calls + 1, ![t].at = at] /\ at \in Places
  BY DEF Succeed, Places
<1>5. /\ task'[t].calls = task[t].calls + 1 /\ task'[t].at = at
      /\ task'[t].wake = 0 /\ task'[t].attempts = task[t].attempts
      /\ \A u \in Callers : u # t => task'[u] = task[u]
      /\ task' \in [Callers -> [at : Places, calls : 0..Calls, attempts : Nat, wake : Nat]]
  <2> HIDE DEF at
  <2> QED
    BY ZenonT(40), <1>1, <1>3, <1>4
<1>6. /\ answer'[t] = NoAnswer /\ DOMAIN answer' = Callers /\ told'[t] = NotTold
      /\ \A u \in Callers : u # t => answer'[u] = answer[u] /\ told'[u] = told[u]
      /\ told' \in [Callers -> [reset : Nat, sent : Nat]]
  BY <1>1 DEF Succeed, NotTold, Never
<1>7. TasksTyped'
  <2>1. MaxAttempts # 0 => \A u \in Callers : task'[u].attempts <= MaxAttempts + 1
    BY <1>5 DEF RateInv, TypeOK
  <2>2. ASSUME NEW u \in Callers PROVE answer'[u].status \in {0, 200, 429, 503}
    <3>1. CASE u = t
      BY <1>6, <3>1 DEF NoAnswer, bare
    <3>2. CASE u # t
      BY <1>6, <3>2 DEF RateInv, TypeOK
    <3> QED
      BY <3>1, <3>2
  <2> QED
    BY <1>5, <1>6, <2>1, <2>2 DEF TasksTyped
<1>8. TaskOk(t)'
  <2>1. PlaceOk(t)'
    <3>1. answer'[t].status = 0 /\ task'[t].at \in {"call", "done"}
      BY <1>5, <1>6 DEF NoAnswer, bare
    <3>2. task'[t].at = "call" => task'[t].calls < Calls
      BY <1>3, <1>5, RateLimitingAssumption
    <3> QED
      BY <1>3, <1>5, <3>1, <3>2 DEF PlaceOk, mayRetry
  <2>2. ToldOk(t)' /\ RefusalOk(t)' /\ notBefore(t)' = 0
    BY <1>1, <1>6 DEF ToldOk, RefusalOk, notBefore, NoAnswer, bare, NotTold, Never
  <2>3. WaitOk(t)'
    BY <1>1, <1>5, <2>2 DEF WaitOk
  <2> QED
    BY <2>1, <2>2, <2>3 DEF TaskOk
<1>9. ASSUME NEW u \in Callers, u # t PROVE TaskOk(u)'
  BY <1>1, <1>5, <1>6, <1>9, Untouched
<1> QED
  BY <1>7, <1>8, <1>9 DEF TasksOk

\* The delay is a length of time, and that after a refusal that told of a wait
\* is the wait, or the longest delay.
LEMMA DelayOfRefusal ==
  ASSUME RateInv, NEW t \in Callers, answer[t].status \in {429, 503},
         NEW attempts \in Nat
  PROVE  LET d == delay(errorDetail(answer[t].status, answer[t], now), attempts)
             k == told[t].reset - told[t].sent
         IN  /\ d \in Nat
             /\ answer[t].status = 429 /\ told[t].reset # Never =>
                  k \in Nat /\ d = least(MaxDelay, k)
<1> DEFINE resetAt == errorDetail(answer[t].status, answer[t], now).resetAt
           k       == told[t].reset - told[t].sent
           linear  == attempts * InitialDelay
<1>1. /\ now \in Nat /\ MaxDelay \in Nat /\ InitialDelay \in Nat
      /\ RefusalOk(t) /\ ToldOk(t)
  BY RateLimitingAssumption DEF RateInv, TypeOK, ThrottleTypeOK, TaskOk
<1>2. resetAt \in Nat
  BY <1>1 DEF RefusalOk
<1>3. linear \in Nat
  BY <1>1
<1>4. answer[t].status = 429 /\ told[t].reset # Never =>
        k \in Nat \ {0} /\ resetAt = now + k
  BY <1>1 DEF RefusalOk, ToldOk, Waits
<1>5. delay(errorDetail(answer[t].status, answer[t], now), attempts)
        = least(MaxDelay, IF resetAt > now THEN resetAt - now ELSE linear)
  BY DEF delay
<1> HIDE DEF resetAt, k, linear
<1>6. least(MaxDelay, IF resetAt > now THEN resetAt - now ELSE linear) \in Nat
  BY <1>1, <1>2, <1>3 DEF least
<1>7. resetAt = now + k /\ k \in Nat \ {0} =>
        least(MaxDelay, IF resetAt > now THEN resetAt - now ELSE linear) = least(MaxDelay, k)
  BY <1>1
<1> QED
  BY <1>4, <1>5, <1>6, <1>7 DEF k

\* A task that waits, waits as long as it was told to or as it may; one that has
\* used its retries does not come back.
LEMMA RetryOk ==
  ASSUME RateInv, NEW t \in Callers, ShouldWaitAndRetry(t)
  PROVE  TasksOk'
<1> DEFINE attempts == task[t].attempts + 1
           d == delay(errorDetail(answer[t].status, answer[t], now), attempts)
           waiting == mayRetry(attempts)
<1>1. /\ task \in [Callers -> [at : Places, calls : 0..Calls, attempts : Nat, wake : Nat]]
      /\ told \in [Callers -> [reset : Nat, sent : Nat]] /\ told' = told
      /\ DOMAIN answer = Callers /\ now' = now /\ now \in Nat
      /\ answer' = [answer EXCEPT ![t] = NoAnswer]
      /\ answer[t].status \in {429, 503} /\ MaxAttempts \in Nat /\ MaxDelay \in Nat
  BY RateLimitingAssumption
  DEF RateInv, TypeOK, ThrottleTypeOK, ShouldWaitAndRetry, throttleVars
<1>2. PlaceOk(t) /\ ToldOk(t) /\ WaitOk(t) /\ task[t].at = "answer"
  BY <1>1 DEF RateInv, TaskOk, PlaceOk
<1>3. attempts \in Nat /\ (MaxAttempts # 0 => attempts <= MaxAttempts + 1) /\ task[t].wake = 0
  BY <1>1, <1>2 DEF PlaceOk, mayRetry
<1>4. /\ d \in Nat
      /\ answer[t].status = 429 /\ told[t].reset # Never =>
           d = least(MaxDelay, told[t].reset - told[t].sent)
  BY <1>1, <1>3, DelayOfRefusal
<1>5. task' = IF waiting
              THEN [task EXCEPT ![t].at = "backoff", ![t].attempts = attempts,
                                ![t].calls = 0, ![t].wake = now + d]
              ELSE [task EXCEPT ![t].at = "failed", ![t].attempts = attempts]
  BY DEF ShouldWaitAndRetry
<1> HIDE DEF attempts, d, waiting
<1>6. /\ task'[t].attempts = attempts
      /\ waiting => task'[t].at = "backoff" /\ task'[t].calls = 0 /\ task'[t].wake = now + d
      /\ ~waiting => task'[t].at = "failed" /\ task'[t].wake = 0
      /\ \A u \in Callers : u # t => task'[u] = task[u]
  BY <1>1, <1>3, <1>5
<1>7. task' \in [Callers -> [at : Places, calls : 0..Calls, attempts : Nat, wake : Nat]]
  <2>1. now + d \in Nat /\ 0 \in 0..Calls /\ "backoff" \in Places /\ "failed" \in Places
    BY <1>1, <1>4, RateLimitingAssumption DEF Places
  <2> DEFINE Task == [at : Places, calls : 0..Calls, attempts : Nat, wake : Nat]
             back == [task[t] EXCEPT !.at = "backoff", !.attempts = attempts,
                                     !.calls = 0, !.wake = now + d]
             over == [task[t] EXCEPT !.at = "failed", !.attempts = attempts]
  <2>4. task[t] \in Task
    BY <1>1
  <2>7. back \in Task
    BY <1>3, <2>1, <2>4
  <2>8. over \in Task
    BY <1>3, <2>1, <2>4
  <2>5. /\ waiting => task' = [task EXCEPT ![t] = back]
        /\ ~waiting => task' = [task EXCEPT ![t] = over]
    BY <1>1, <1>5
  <2>6. task \in [Callers -> Task]
    BY <1>1
  <2> HIDE DEF Task, back, over
  <2>2. CASE waiting
    BY <2>2, <2>5, <2>6, <2>7 DEF Task
  <2>3. CASE ~waiting
    BY <2>3, <2>5, <2>6, <2>8 DEF Task
  <2> QED
    BY <2>2, <2>3
<1>8. /\ answer'[t] = NoAnswer /\ DOMAIN answer' = Callers
      /\ \A u \in Callers : u # t => answer'[u] = answer[u]
  BY <1>1
<1>9. answer'[t].status = 0
  BY <1>8 DEF NoAnswer, bare
<1>10. TasksTyped'
  <2>1. MaxAttempts # 0 => \A u \in Callers : task'[u].attempts <= MaxAttempts + 1
    BY <1>3, <1>6 DEF RateInv, TypeOK
  <2>2. \A u \in Callers : answer'[u].status \in {0, 200, 429, 503}
    BY <1>8, <1>9 DEF RateInv, TypeOK
  <2> QED
    BY <1>1, <1>7, <1>8, <2>1, <2>2 DEF TasksTyped
<1>11. TaskOk(t)'
  <2>1. PlaceOk(t)'
    <3>1. waiting => 0 < Calls /\ mayRetry(attempts)
      BY RateLimitingAssumption DEF waiting
    <3> QED
      BY <1>6, <1>9, <3>1 DEF PlaceOk, mayRetry
  <2>2. ToldOk(t)' /\ RefusalOk(t)'
    BY <1>1, <1>2, <1>9 DEF ToldOk, RefusalOk, Waits
  <2>3. waiting => now + d >= notBefore(t)
    <3>1. told[t].reset \in Nat /\ told[t].sent \in Nat /\ told[t].sent <= now
      BY <1>1, <1>2 DEF ToldOk
    <3>2. CASE answer[t].status = 429
      BY <1>1, <1>4, <3>1, <3>2 DEF notBefore, least, Never
    <3>3. CASE answer[t].status # 429
      <4>1. now >= notBefore(t) /\ notBefore(t) \in Nat
        BY <1>1, <1>2, <3>1, <3>3 DEF WaitOk, notBefore, least
      <4> QED
        BY <1>1, <1>4, <4>1
    <3> QED
      BY <3>2, <3>3
  <2>4. notBefore(t)' = notBefore(t)
    BY <1>1 DEF notBefore
  <2>5. WaitOk(t)'
    BY <1>6, <2>3, <2>4 DEF WaitOk
  <2> QED
    BY <2>1, <2>2, <2>5 DEF TaskOk
<1>12. ASSUME NEW u \in Callers, u # t PROVE TaskOk(u)'
  BY <1>1, <1>6, <1>8, <1>12, Untouched
<1> QED
  BY <1>10, <1>11, <1>12 DEF TasksOk

\* The operation starts over once its task has waited.
LEMMA WakeOk ==
  ASSUME RateInv, NEW t \in Callers, Wake(t)
  PROVE  TasksOk'
<1>1. /\ task \in [Callers -> [at : Places, calls : 0..Calls, attempts : Nat, wake : Nat]]
      /\ told \in [Callers -> [reset : Nat, sent : Nat]] /\ told' = told
      /\ DOMAIN answer = Callers /\ answer' = answer /\ now' = now /\ now \in Nat
      /\ task' = [task EXCEPT ![t].at = "call", ![t].wake = 0] /\ "call" \in Places
      /\ task[t].at = "backoff" /\ now >= task[t].wake
  BY DEF RateInv, TypeOK, ThrottleTypeOK, Wake, throttleVars, Places
<1>2. TaskOk(t) /\ answer[t].status = 0
  BY <1>1 DEF RateInv, TaskOk, PlaceOk, TypeOK
<1>3. /\ task'[t].at = "call" /\ task'[t].wake = 0 /\ task'[t].calls = task[t].calls
      /\ task'[t].attempts = task[t].attempts
      /\ \A u \in Callers : u # t => task'[u] = task[u]
      /\ task' \in [Callers -> [at : Places, calls : 0..Calls, attempts : Nat, wake : Nat]]
  BY <1>1
<1>4. TasksTyped'
  <2>1. MaxAttempts # 0 => \A u \in Callers : task'[u].attempts <= MaxAttempts + 1
    BY <1>3 DEF RateInv, TypeOK
  <2> QED
    BY <1>1, <1>3, <2>1 DEF TasksTyped, RateInv, TypeOK
<1>5. TaskOk(t)'
  <2>1. PlaceOk(t)'
    BY <1>1, <1>2, <1>3 DEF TaskOk, PlaceOk, mayRetry
  <2>2. ToldOk(t)' /\ RefusalOk(t)'
    BY <1>1, <1>2 DEF TaskOk, ToldOk, RefusalOk, Waits
  <2>3. now >= notBefore(t)
    <3>1. told[t].reset \in Nat /\ told[t].sent \in Nat /\ MaxDelay \in Nat
      BY <1>1, RateLimitingAssumption
    <3>2. notBefore(t) \in Nat
      BY <3>1 DEF notBefore, least
    <3>3. task[t].wake \in Nat /\ task[t].wake >= notBefore(t)
      BY <1>1, <1>2 DEF TaskOk, WaitOk
    <3> QED
      BY <1>1, <3>2, <3>3
  <2>4. notBefore(t)' = notBefore(t)
    BY <1>1 DEF notBefore
  <2>5. WaitOk(t)'
    BY <1>1, <1>3, <2>3, <2>4 DEF WaitOk
  <2> QED
    BY <2>1, <2>2, <2>5 DEF TaskOk
<1>6. ASSUME NEW u \in Callers, u # t PROVE TaskOk(u)'
  BY <1>1, <1>3, <1>6, Untouched
<1> QED
  BY <1>4, <1>5, <1>6 DEF TasksOk

\* Time, and calls of others, only bring a reset nearer.
LEMMA TasksLeftAlone ==
  ASSUME RateInv, UNCHANGED <<task, answer, told>>, now' \in Nat, now' >= now
  PROVE  TasksOk'
<1>1. ASSUME NEW t \in Callers PROVE TaskOk(t)'
  BY Untouched
<1>2. TasksTyped'
  BY DEF TasksTyped, RateInv, TypeOK
<1> QED
  BY <1>1, <1>2 DEF TasksOk

\* Every step keeps the invariant.
LEMMA RateStep == RateInv /\ [Next]_vars => RateInv'
<1> SUFFICES ASSUME RateInv, [Next]_vars PROVE RateInv'
  OBVIOUS
<1>1. ThrottleInv'
  BY TasksTakePermits, ThrottleStep DEF RateInv
<1> DEFINE UsedOk == \A p \in DOMAIN Policies : used[p] \in 0..Policies[p].quota
           OthersOk == others \in 0..MaxOthers /\ outages \in 0..MaxOutages
<1>2. SUFFICES TasksOk' /\ UsedOk' /\ OthersOk'
  BY <1>1, <1>2 DEF RateInv, TypeOK, TasksOk, TasksTyped, ThrottleInv
<1>3. /\ now \in Nat /\ TypeOK /\ UsedOk /\ OthersOk
      /\ MaxOthers \in Nat /\ MaxOutages \in Nat
  BY RateLimitingAssumption DEF RateInv, TypeOK, ThrottleTypeOK
<1>4. CASE Pass
  <2>1. TasksOk'
    BY <1>3, <1>4, TasksLeftAlone DEF Pass, Tick
  <2>2. UsedOk'
    <3> SUFFICES ASSUME NEW p \in DOMAIN Policies PROVE used'[p] \in 0..Policies[p].quota
      OBVIOUS
    <3>1. used'[p] = 0 \/ used'[p] = used[p]
      BY <1>4 DEF Pass
    <3> QED
      BY <1>3, <3>1, UntilReset
  <2> QED
    BY <1>3, <1>4, <2>1, <2>2 DEF Pass
<1>5. CASE OtherCall
  <2>1. TasksOk'
    BY <1>3, <1>5, TasksLeftAlone DEF OtherCall, throttleVars
  <2>2. UsedOk'
    BY <1>3, <1>5, CountWithinQuota DEF OtherCall
  <2>3. OthersOk'
    BY <1>3, <1>5 DEF OtherCall
  <2> QED
    BY <2>1, <2>2, <2>3
<1>6. ASSUME NEW t \in Callers, TakePermit(t) PROVE TasksOk' /\ UsedOk' /\ OthersOk'
  <2>1. now' = now
    BY <1>6 DEF TakePermit, Take, ReadClock, Load, CompareAndSwap, LoseRace
  <2>2. TasksOk'
    BY <1>3, <1>6, <2>1, TasksLeftAlone DEF TakePermit
  <2> QED
    BY <1>3, <1>6, <2>2 DEF TakePermit, cloudflare
<1>7. ASSUME NEW t \in Callers, Serve(t) PROVE TasksOk' /\ UsedOk' /\ OthersOk'
  <2>1. bare(200).status = 200
    BY DEF bare
  <2>2. TasksOk'
    BY <1>7, <2>1, AnsweredOk DEF Serve
  <2>3. UsedOk'
    BY <1>3, <1>7, CountWithinQuota DEF Serve
  <2> QED
    BY <1>3, <1>7, <2>2, <2>3 DEF Serve
<1>8. ASSUME NEW t \in Callers, Refuse(t) PROVE TasksOk' /\ UsedOk' /\ OthersOk'
  BY <1>3, <1>8, RefusedOk DEF Refuse, cloudflare
<1>9. ASSUME NEW t \in Callers, Outage(t) PROVE TasksOk' /\ UsedOk' /\ OthersOk'
  <2>1. PICK style \in HeaderStyles : Send(t, headers(503, style))
    BY <1>9 DEF Outage
  <2> DEFINE response == headers(503, style)
  <2>2. response.status = 503
    BY DEF headers
  <2>3. \A n \in Nat : errorDetail(503, response, n).resetAt \in Nat
    BY <1>3, HeadersReadable
  <2> HIDE DEF response
  <2>4. told' = told /\ Send(t, response)
    BY <1>9, <2>1 DEF Outage, response
  <2>5. TasksOk'
    BY <2>2, <2>3, <2>4, AnsweredOk
  <2> QED
    BY <1>3, <1>9, <2>5 DEF Outage
<1>10. ASSUME NEW t \in Callers, CacheHit(t) PROVE TasksOk' /\ UsedOk' /\ OthersOk'
  <2>1. bare(200).status = 200
    BY DEF bare
  <2>2. TasksOk'
    BY <1>10, <2>1, AnsweredOk DEF CacheHit
  <2> QED
    BY <1>3, <1>10, <2>2 DEF CacheHit, cloudflare
<1>11. ASSUME NEW t \in Callers, Succeed(t) PROVE TasksOk' /\ UsedOk' /\ OthersOk'
  BY <1>3, <1>11, SucceedOk DEF Succeed, cloudflare
<1>12. ASSUME NEW t \in Callers, ShouldWaitAndRetry(t)
       PROVE  TasksOk' /\ UsedOk' /\ OthersOk'
  BY ZenonT(40), <1>3, <1>12, RetryOk DEF ShouldWaitAndRetry, cloudflare
<1>13. ASSUME NEW t \in Callers, Wake(t) PROVE TasksOk' /\ UsedOk' /\ OthersOk'
  BY <1>3, <1>13, WakeOk DEF Wake, cloudflare
<1>14. CASE UNCHANGED vars
  <2>1. TasksOk'
    BY <1>3, <1>14, TasksLeftAlone DEF vars, throttleVars
  <2> QED
    BY <1>3, <1>14, <2>1 DEF vars, cloudflare
<1> QED
  BY <1>4, <1>5, <1>6, <1>7, <1>8, <1>9, <1>10, <1>11, <1>12, <1>13, <1>14 DEF Next

(***************************************************************************)
(* Results                                                                 *)
(***************************************************************************)

\* The invariant holds of every behaviour.
LEMMA RateInvariant == Spec => []RateInv
BY RateInit, RateStep, PTL DEF Spec

\* No policy counts more calls than its quota, and no operation makes more
\* calls or attempts than it may.
THEOREM RateTypeCorrect == Spec => []TypeOK
<1>1. RateInv => TypeOK
  BY DEF RateInv
<1> QED
  BY <1>1, RateInvariant, PTL

\* Whatever the policies, a task waits for the reset it was told of or for as
\* long as the retryer ever does.
THEOREM NeverEarly == Spec => []NotEarly
<1>1. RateInv => NotEarly
  BY DEF RateInv, TaskOk, WaitOk, NotEarly
<1> QED
  BY <1>1, RateInvariant, PTL

\* So where no window outlasts the longest delay, no task calls before every
\* policy that refused it has been reset, whichever header told of it.
THEOREM RetriesAfterReset == ASSUME WindowsFit PROVE Spec => []RetryAfterReset
<1>1. RateInv => RetryAfterReset
  <2> SUFFICES ASSUME RateInv, NEW t \in Callers, task[t].at = "call"
               PROVE  now >= told[t].reset
    BY DEF RetryAfterReset
  <2>1. /\ now \in Nat /\ told[t].reset \in Nat /\ told[t].sent \in Nat
        /\ ToldOk(t) /\ now >= notBefore(t)
    BY DEF RateInv, TypeOK, ThrottleTypeOK, TaskOk, WaitOk
  <2>2. CASE told[t].reset = Never
    BY <2>1, <2>2 DEF Never
  <2>3. CASE told[t].reset # Never
    <3>1. PICK p \in DOMAIN Policies : told[t].reset - told[t].sent <= Policies[p].window
      BY <2>1, <2>3 DEF ToldOk, Waits
    <3>2. Policies[p].window \in Nat /\ Policies[p].window <= MaxDelay /\ MaxDelay \in Nat
      BY <2>1, UntilReset, RateLimitingAssumption DEF WindowsFit
    <3>3. told[t].reset <= told[t].sent + MaxDelay
      BY <2>1, <3>1, <3>2
    <3> QED
      BY <2>1, <2>3, <3>2, <3>3 DEF notBefore, least
  <2> QED
    BY <2>2, <2>3
<1> QED
  BY <1>1, RateInvariant, PTL

\* Nor does it wait for a policy that did not refuse it: no task is later than
\* its reset by more than the refusal was under way.
THEOREM RetriesArePrompt == Spec => RetryIsPrompt
<1> DEFINE Prompt == \A t \in Callers :
             answer[t].status = 429 /\ answer'[t] = NoAnswer /\ told[t].reset # Never
               => task'[t].wake <= told[t].reset + (now - told[t].sent)
<1>1. RateInv /\ [Next]_vars => [Prompt]_vars
  <2> SUFFICES ASSUME RateInv, Next, NEW t \in Callers,
                      answer[t].status = 429, answer'[t] = NoAnswer, told[t].reset # Never
               PROVE  task'[t].wake <= told[t].reset + (now - told[t].sent)
    BY DEF Prompt
  <2> DEFINE k == told[t].reset - told[t].sent
  <2>1. /\ now \in Nat /\ told[t].reset \in Nat /\ told[t].sent \in Nat
        /\ DOMAIN answer = Callers /\ TaskOk(t) /\ MaxDelay \in Nat
        /\ task \in [Callers -> [at : Places, calls : 0..Calls, attempts : Nat, wake : Nat]]
    BY SMTT(30), RateLimitingAssumption DEF RateInv, TypeOK, ThrottleTypeOK
  <2>2. /\ NoAnswer.status = 0 /\ task[t].at = "answer" /\ task[t].wake = 0
        /\ task[t].attempts + 1 \in Nat
        /\ told[t].sent <= now /\ k \in Nat
    BY <2>1 DEF TaskOk, PlaceOk, ToldOk, Waits, NoAnswer, bare
  <2>3. answer' # answer
    BY <2>2
  <2>4. PICK u \in Callers : Serve(u) \/ Refuse(u) \/ Outage(u) \/ CacheHit(u)
                             \/ Succeed(u) \/ ShouldWaitAndRetry(u)
    <3>1. ~Pass /\ ~OtherCall
      BY <2>3 DEF Pass, OtherCall
    <3>2. \A u \in Callers : ~TakePermit(u) /\ ~Wake(u)
      BY <2>3 DEF TakePermit, Wake
    <3> QED
      BY <3>1, <3>2 DEF Next
  <2>5. u = t
    <3>1. \E r : answer' = [answer EXCEPT ![u] = r]
      BY <2>4 DEF Serve, Refuse, Outage, CacheHit, Send, Succeed, ShouldWaitAndRetry
    <3> QED
      BY <2>1, <2>2, <3>1
  <2>6. ~(Serve(u) \/ Refuse(u) \/ Outage(u) \/ CacheHit(u) \/ Succeed(u))
    BY <2>2, <2>5 DEF Serve, Refuse, Outage, CacheHit, Send, Succeed
  <2>7. ShouldWaitAndRetry(t)
    BY <2>4, <2>5, <2>6
  <2> DEFINE d == delay(errorDetail(answer[t].status, answer[t], now), task[t].attempts + 1)
  <2>8. d \in Nat /\ d = least(MaxDelay, k)
    BY <2>1, <2>2, DelayOfRefusal
  <2>9. task'[t].wake = now + d \/ task'[t].wake = 0
    <3> HIDE DEF d
    <3>1. /\ mayRetry(task[t].attempts + 1) =>
               task' = [task EXCEPT ![t].at = "backoff", ![t].attempts = task[t].attempts + 1,
                                    ![t].calls = 0, ![t].wake = now + d]
          /\ ~mayRetry(task[t].attempts + 1) =>
               task' = [task EXCEPT ![t].at = "failed", ![t].attempts = task[t].attempts + 1]
      BY <2>7 DEF ShouldWaitAndRetry, d
    <3> QED
      BY <2>1, <2>2, <3>1
  <2> HIDE DEF d
  <2> QED
    BY <2>1, <2>2, <2>8, <2>9 DEF least
<1> QED
  BY <1>1, RateInvariant, PTL DEF Spec, RetryIsPrompt, Prompt

=============================================================================
