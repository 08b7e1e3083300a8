---------------------------- MODULE EventDelivery ----------------------------
(***************************************************************************)
(* What the job queue promises to the voice gateway that records events,   *)
(* with no workers, requests, clocks or retries in it: a recorded event is *)
(* delivered to the integration service at least once and is then settled  *)
(* as done, or is given up; both are final.                                *)
(***************************************************************************)
EXTENDS Naturals

CONSTANT Event

VARIABLES
  outcome,     \* what the caller can learn about the event
  deliveries   \* successful deliveries so far

edvars == <<outcome, deliveries>>

Outcome == {"none", "pending", "done", "dead"}

EDTypeOK ==
  /\ outcome \in [Event -> Outcome]
  /\ deliveries \in [Event -> Nat]

EDInit ==
  /\ outcome = [e \in Event |-> "none"]
  /\ deliveries = [e \in Event |-> 0]

Record(e) ==
  /\ outcome[e] = "none"
  /\ outcome' = [outcome EXCEPT ![e] = "pending"]
  /\ UNCHANGED deliveries

\* A delivery may be late: the event can be settled by then.
Deliver(e) ==
  /\ outcome[e] # "none"
  /\ deliveries' = [deliveries EXCEPT ![e] = @ + 1]
  /\ UNCHANGED outcome

Settle(e) ==
  /\ outcome[e] = "pending"
  /\ deliveries[e] > 0
  /\ outcome' = [outcome EXCEPT ![e] = "done"]
  /\ UNCHANGED deliveries

\* Several events can be given up in one sweep.
GiveUp(E) ==
  /\ \A e \in E : outcome[e] = "pending"
  /\ outcome' = [e \in Event |-> IF e \in E THEN "dead" ELSE outcome[e]]
  /\ UNCHANGED deliveries

EDNext ==
  \/ \E e \in Event : Record(e) \/ Deliver(e) \/ Settle(e)
  \/ \E E \in SUBSET Event : GiveUp(E)

EDSpec == EDInit /\ [][EDNext]_edvars

=============================================================================
