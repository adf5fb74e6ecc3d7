-------------------------- MODULE SettlementPromise --------------------------
(***************************************************************************)
(* What the orchestrator promises a merchant about one payment: a transfer *)
(* is in a block for good before the system records the payment as         *)
(* confirmed, and the merchant is told only after that.  Nothing of it is  *)
(* ever taken back.  (That the transfer of that block succeeded is not     *)
(* promised: nobody looks.)                                                *)
(***************************************************************************)
CONSTANT Payments

VARIABLES stage,  \* payment -> how far it has come
          told    \* payment -> a payment.settled event exists

Stages == {"none", "accepted", "onchain", "confirmed"}

Init ==
    /\ stage = [p \in Payments |-> "none"]
    /\ told = [p \in Payments |-> FALSE]

Advance(p, from, to) ==
    /\ stage[p] = from
    /\ stage' = [stage EXCEPT ![p] = to]
    /\ UNCHANGED told

Accept(p) == Advance(p, "none", "accepted")
Pay(p) == Advance(p, "accepted", "onchain")
Confirm(p) == Advance(p, "onchain", "confirmed")

Tell(p) ==
    /\ stage[p] = "confirmed"
    /\ told' = [told EXCEPT ![p] = TRUE]
    /\ UNCHANGED stage

Next == \E p \in Payments : Accept(p) \/ Pay(p) \/ Confirm(p) \/ Tell(p)

Spec == Init /\ [][Next]_<<stage, told>>
=============================================================================
