--------------------------- MODULE MCRateLimiting ---------------------------
(***************************************************************************)
(* Instances of RateLimiting for TLC.  A unit of time is the 250 ms        *)
(* between two permits; quotas and windows are cut down with it.           *)
(***************************************************************************)
EXTENDS RateLimiting, TLC

\* Tasks differ in nothing.
Symmetry == Permutations(Callers)

Style(i, t, j, r) == [items |-> i, times |-> t, junk |-> j, retry |-> r]

\* Structured headers, those and Retry-After, Retry-After alone, nothing.
AllStyles ==
  {Style(TRUE, TRUE, TRUE, FALSE), Style(TRUE, FALSE, FALSE, TRUE),
   Style(FALSE, FALSE, FALSE, TRUE), Style(FALSE, FALSE, FALSE, FALSE)}

OneStyle == {Style(TRUE, TRUE, FALSE, FALSE)}

\* A burst policy, and one that resets later.
TwoPolicies == <<[quota |-> 2, window |-> 2], [quota |-> 3, window |-> 5]>>

\* As many calls as permits in a window: 1200 in 5 minutes, four per second.
AsThrottled == <<[quota |-> 3, window |-> 3]>>

\* A window that outlasts the longest delay, as 5 minutes outlast 60 seconds.
LongWindow == <<[quota |-> 2, window |-> 6]>>

=============================================================================
