--------------------------- MODULE MCPaymentSystem ---------------------------
(* Small instances of PaymentSystem: one payment, or two of different      *)
(* amounts on one chain or on two, each wallet holding less than the two   *)
(* of them ask for.                                                        *)
EXTENDS PaymentClaims

CONSTANTS p1, p2, eth, sol

OneWallet == [p \in Payments |-> CHOOSE c \in Chains : TRUE]
TwoWallets == [p \in Payments |-> IF p = p1 THEN eth ELSE sol]
Amounts == [p \in Payments |-> IF p = p1 THEN 1 ELSE 2]
Balances == [c \in Chains |-> 2]
=============================================================================
