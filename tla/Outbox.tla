-------------------------------- MODULE Outbox --------------------------------
(***************************************************************************)
(* What an operator's send promises for each submission, that is for a     *)
(* conversation and an idempotency key: it is recorded before it is given  *)
(* to the channel, given to the channel at most once however often the     *)
(* client retries, recorded as sent only if the channel accepted it, and   *)
(* final once it is sent or failed.                                        *)
(***************************************************************************)
EXTENDS Naturals

CONSTANT Submissions

VARIABLES
    status,      \* "none", "pending", "sent" or "failed"
    deliveries   \* how often the channel accepted it

Init ==
    /\ status = [s \in Submissions |-> "none"]
    /\ deliveries = [s \in Submissions |-> 0]

Record(s) ==
    /\ status[s] = "none"
    /\ status' = [status EXCEPT ![s] = "pending"]
    /\ UNCHANGED deliveries

Deliver(s) ==
    /\ status[s] = "pending" /\ deliveries[s] = 0
    /\ deliveries' = [deliveries EXCEPT ![s] = 1]
    /\ UNCHANGED status

Report(s, outcome) ==
    /\ status[s] = "pending"
    /\ outcome = "sent" => deliveries[s] = 1
    /\ status' = [status EXCEPT ![s] = outcome]
    /\ UNCHANGED deliveries

Next == \E s \in Submissions :
    Record(s) \/ Deliver(s) \/ \E outcome \in {"sent", "failed"} : Report(s, outcome)

Spec == Init /\ [][Next]_<<status, deliveries>>
===============================================================================
