------------------------------ MODULE Throttle ------------------------------
(***************************************************************************)
(* The limiter every call of the client takes a permit from                *)
(* (uhttp.WithRateLimiter over go.uber.org/ratelimit): callers share one   *)
(* word, the slot of the last permit, and advance it with compare-and-     *)
(* swap, so that slots are Per apart; up to Slack slots that nobody used   *)
(* may be made up for at once.                                             *)
(***************************************************************************)
EXTENDS Integers, Sequences

CONSTANTS
  Callers,  \* goroutines that call Cloudflare
  Per,      \* time between two slots
  Slack,    \* slots that may be made up for
  Horizon   \* bound: how far time runs

ASSUME ThrottleAssumption ==
  /\ Per \in Nat \ {0}
  /\ Slack \in Nat
  /\ Horizon \in Nat

VARIABLES
  now,     \* the time, at least 1
  state,   \* slot of the last permit issued, 0 before the first
  taking,  \* per caller, where it is in Take, with what it has read
  permits  \* history: the permits in the order they were issued

throttleVars == <<now, state, taking, permits>>

maxSlack == Slack * Per

Steps == {"out", "read", "loaded", "issued"}

Outside == [step |-> "out", clock |-> 0, slot |-> 0]

ThrottleInit ==
  /\ now = 1
  /\ state = 0
  /\ taking = [c \in Callers |-> Outside]
  /\ permits = <<>>

ThrottleTypeOK ==
  /\ now \in Nat \ {0}
  /\ state \in Nat
  /\ taking \in [Callers -> [step : Steps, clock : Nat, slot : Nat]]
  /\ permits \in Seq([slot : Nat, at : Nat])

\* The slot of the permit after the one at last, for a caller that read clock.
nextSlot(clock, last) ==
  CASE last = 0 \/ (Slack = 0 /\ clock - last > Per) -> clock
    [] last # 0 /\ Slack > 0 /\ clock - last > maxSlack + Per -> clock - maxSlack
    [] OTHER -> last + Per

ReadClock(c) ==
  /\ taking[c].step = "out"
  /\ taking' = [taking EXCEPT ![c] = [step |-> "read", clock |-> now, slot |-> 0]]
  /\ UNCHANGED <<now, state, permits>>

Load(c) ==
  /\ taking[c].step = "read"
  /\ taking' = [taking EXCEPT ![c].step = "loaded", ![c].slot = state]
  /\ UNCHANGED <<now, state, permits>>

\* The time Take returns: its caller sleeps until the slot.
permitAt(clock, slot) == IF slot > clock THEN slot ELSE clock

\* Seeded fault: the new slot is stored whether the word has changed or not.
StoreUnchecked(c) ==
  /\ taking[c].step = "loaded"
  /\ LET slot == nextSlot(taking[c].clock, taking[c].slot)
     IN  /\ state' = slot
         /\ permits' = Append(permits, [slot |-> slot, at |-> permitAt(taking[c].clock, slot)])
         /\ taking' = [taking EXCEPT ![c].step = "issued", ![c].slot = slot]
  /\ UNCHANGED now

CompareAndSwap(c) ==
  /\ taking[c].step = "loaded"
  /\ taking[c].slot = state
  /\ LET slot == nextSlot(taking[c].clock, state)
     IN  /\ state' = slot
         /\ permits' = Append(permits, [slot |-> slot, at |-> permitAt(taking[c].clock, slot)])
         /\ taking' = [taking EXCEPT ![c].step = "issued", ![c].slot = slot]
  /\ UNCHANGED now

\* Another caller was first: the loop starts again.
LoseRace(c) ==
  /\ taking[c].step = "loaded"
  /\ taking[c].slot # state
  /\ taking' = [taking EXCEPT ![c] = Outside]
  /\ UNCHANGED <<now, state, permits>>

Take(c) == ReadClock(c) \/ Load(c) \/ CompareAndSwap(c) \/ LoseRace(c)

\* The sleep is over: Take returns and the request is sent.
Return(c) ==
  /\ taking[c].step = "issued"
  /\ now >= taking[c].slot
  /\ taking' = [taking EXCEPT ![c] = Outside]
  /\ UNCHANGED <<now, state, permits>>

Tick ==
  /\ now < Horizon
  /\ now' = now + 1
  /\ UNCHANGED <<state, taking, permits>>

ThrottleNext == Tick \/ \E c \in Callers : Take(c) \/ Return(c)

ThrottleSpec == ThrottleInit /\ [][ThrottleNext]_throttleVars

(***************************************************************************)
(* Properties                                                              *)
(***************************************************************************)

\* However callers race for the word and however long the client was idle
\* before, n + 1 permits take at least n slots less the slack: "throttled to
\* 4 per second" (client.go) holds but for Slack calls.
PermitsAreSpaced ==
  \A i, j \in DOMAIN permits :
    i < j => permits[j].at - permits[i].at >= (j - i) * Per - maxSlack

=============================================================================
