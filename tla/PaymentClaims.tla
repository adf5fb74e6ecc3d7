---------------------------- MODULE PaymentClaims ----------------------------
(***************************************************************************)
(* What the documentation says of the payment path, one property per       *)
(* claim.  The code does not keep these; README.md tells each story.       *)
(***************************************************************************)
EXTENDS PaymentSystem

(* docs/index.md: no duplicate payment execution.  A try whose receipt was *)
(* lost is followed by one that sends a second transfer, and both land.    *)
PaidAtMostOnce ==
    \A p \in Payments :
        Cardinality({r \in RunsOf(p) : tx[r] \in {"final", "forgotten"}}) <= 1

(* docs/architecture.md: nothing follows settled.  A run that has recorded *)
(* its transaction but not yet the payment's status overwrites it.         *)
SettledIsTerminal ==
    [][\A p \in Payments : status[p] = "settled" => status'[p] = "settled"]_vars

(* docs/workers.md: a confirmed transfer settles its payment.  A scan that *)
(* fails after marking the attempt leaves the rest undone for ever, since  *)
(* no later scan looks at a confirmed attempt.                             *)
ConfirmedIsReported ==
    \A r \in Runs :
        attempt[r] = "confirmed" ~> events[PaymentOf(r)]["payment.settled"] > 0
=============================================================================
