-------------------------- MODULE MCIntentCreation --------------------------
(* Three requests: two with the same key and different quotes, one of      *)
(* another key that competes for the same wallet.                          *)
EXTENDS IntentCreation

CONSTANTS r1, r2, r3, k1, k2, q1, q2, eth, sol

KeyMap == [r \in Requests |-> IF r = r3 THEN k2 ELSE k1]
QuoteMap == [r \in Requests |-> IF r = r2 THEN q2 ELSE q1]
TwoWallets == [q \in Quotes |-> IF q = q1 THEN eth ELSE sol]
Amounts == [q \in Quotes |-> IF q = q1 THEN 2 ELSE 1]
Balances == [c \in Chains |-> 3]
=============================================================================
