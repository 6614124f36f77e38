-------------------------- MODULE RateLimitHeaders --------------------------
(***************************************************************************)
(* What the client makes of the rate-limit headers of a response           *)
(* (pkg/client/helpers.go), over the SDK's own parser.  A header is read   *)
(* into numbers before: an item of the structured Ratelimit list is        *)
(* [r, t], requests remaining and time until the reset.  Quotas and        *)
(* statuses, which are only reported, are left out.                        *)
(***************************************************************************)
EXTENDS Integers, Sequences

CONSTANT DefaultWait  \* the SDK's wait for a 429 without headers, 60 seconds

ASSUME DefaultWaitAssumption == DefaultWait \in Nat \ {0}

Absent     == -1  \* a parameter or a header that is not there
Unreadable == -2  \* one that is not a number

Never  == 0       \* the reset time of a description without one: the epoch
NoDesc == [remaining |-> Absent, resetAt |-> Never]

usable(item) == item.r >= 0 /\ (item.t = Absent \/ item.t >= 0)

until(item) == IF item.t = Absent THEN 0 ELSE item.t

\* Seeded fault: a tie goes to the earlier reset.
throttlesFirstTie(items, i, j) ==
  \/ items[i].r < items[j].r
  \/ items[i].r = items[j].r /\ until(items[i]) < until(items[j])
  \/ items[i].r = items[j].r /\ until(items[i]) = until(items[j]) /\ i <= j

\* Seeded fault: the last reset decides, whatever remains.
throttlesFirstLate(items, i, j) ==
  \/ until(items[i]) > until(items[j])
  \/ until(items[i]) = until(items[j]) /\ i <= j

\* Fewest remaining, then the later reset, then the first listed.
throttlesFirst(items, i, j) ==
  \/ items[i].r < items[j].r
  \/ items[i].r = items[j].r /\ until(items[i]) > until(items[j])
  \/ items[i].r = items[j].r /\ until(items[i]) = until(items[j]) /\ i <= j

parseStructuredRateLimit(status, header, now) ==
  LET items == {i \in DOMAIN header.items : usable(header.items[i])}
  IN  IF items = {} THEN NoDesc
      ELSE LET chosen == header.items[CHOOSE i \in items :
                           \A j \in items : throttlesFirst(header.items, i, j)]
           IN  [remaining |-> IF status = 429 THEN 0 ELSE chosen.r,
                resetAt   |-> IF chosen.t = Absent THEN Never ELSE now + chosen.t]

\* The SDK's parser; of the headers it knows Cloudflare sends Retry-After only.
ExtractRateLimitData(status, header, now) ==
  [remaining |-> 0,
   resetAt   |-> CASE header.retryAfter >= 0 -> now + header.retryAfter
                   [] header.retryAfter < 0 /\ status = 429 -> now + DefaultWait
                   [] OTHER -> Never]

extractRateLimit(status, header, now) ==
  LET desc == parseStructuredRateLimit(status, header, now)
      sdk  == ExtractRateLimitData(status, header, now)
  IN  CASE desc = NoDesc -> sdk
        [] /\ desc # NoDesc
           /\ status = 429 /\ header.retryAfter # Absent
           /\ sdk.resetAt > desc.resetAt -> [desc EXCEPT !.resetAt = sdk.resetAt]
        [] OTHER -> desc

\* The description in the first status of a failed call's error: the client's
\* on a 429 (withRateLimitDetails), else the one uhttp's own status carries.
errorDetail(status, header, now) ==
  IF status = 429 THEN extractRateLimit(status, header, now)
  ELSE ExtractRateLimitData(status, header, now)

=============================================================================
