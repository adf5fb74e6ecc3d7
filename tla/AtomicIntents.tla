---------------------------- MODULE AtomicIntents ----------------------------
(***************************************************************************)
(* What the creation of payment intents amounts to: per idempotency key at *)
(* most one intent, created in one step together with its reservation, for *)
(* which the wallet's row has room; its job is queued at most once, after  *)
(* that; and its reservation, paid out or returned, may be taken off the   *)
(* row again and again, but only once the job is queued.                   *)
(***************************************************************************)
EXTENDS Integers

CONSTANTS Keys, Quotes, Chains, ChainOf, Amount, Funds, NoQuote

VARIABLES intent,     \* key -> the quote its intent was made from, or NoQuote
          queued,     \* keys whose job was added
          available,
          reserved

Init ==
    /\ intent = [k \in Keys |-> NoQuote]
    /\ queued = {}
    /\ available = Funds
    /\ reserved = [c \in Chains |-> 0]

Create(k, q) ==
    LET c == ChainOf[q]
    IN  /\ intent[k] = NoQuote
        /\ Amount[q] <= available[c] - reserved[c]
        /\ intent' = [intent EXCEPT ![k] = q]
        /\ reserved' = [reserved EXCEPT ![c] = @ + Amount[q]]
        /\ UNCHANGED <<queued, available>>

Queue(k) ==
    /\ intent[k] # NoQuote
    /\ queued' = queued \cup {k}
    /\ UNCHANGED <<intent, available, reserved>>

LowerReserve(k) ==
    LET q == intent[k]
        c == ChainOf[q]
    IN  /\ k \in queued
        /\ reserved' = [reserved EXCEPT ![c] = @ - Amount[q]]
        /\ \/ available' = [available EXCEPT ![c] = @ - Amount[q]]
           \/ UNCHANGED available
        /\ UNCHANGED <<intent, queued>>

Next ==
    \E k \in Keys :
        \/ \E q \in Quotes : Create(k, q)
        \/ Queue(k)
        \/ LowerReserve(k)

Spec == Init /\ [][Next]_<<intent, queued, available, reserved>>
=============================================================================
