------------------------- MODULE PaymentBooks_proofs -------------------------
(***************************************************************************)
(* Proofs about the treasury, for any number of payments, tries, chains,   *)
(* scans and faults: the wallet rows and the ledger tell the same story,   *)
(* nothing is announced that was not deducted, no scan deducts a transfer  *)
(* twice, a wallet promises no more than it has and falls short of what it *)
(* set aside by a bounded amount only, and, while nothing fails, the books *)
(* of a payment close.                                                     *)
(***************************************************************************)
EXTENDS PaymentRuns_proofs, Sums_proofs

USE DEF PaymentOf

(***************************************************************************)
(* Totals.                                                                 *)
(***************************************************************************)
Plus1(n, p) == [n EXCEPT ![p] = @ + 1]

(* The payments on a chain are finitely many, and each weighs its amount.  *)
LEMMA TotalsAreFinite ==
    ASSUME NEW c
    PROVE  /\ IsFiniteSet(PaymentsOn(c)) /\ PaymentsOn(c) \subseteq Payments
           /\ \A p \in Payments : Amount[p] \in Int /\ Amount[p] \in Nat
BY FinitenessAssumption, PaymentsAssumption, FS_Subset DEF PaymentsOn

LEMMA TotalInt ==
    ASSUME NEW n \in [Payments -> Int], NEW c
    PROVE  Total(n, c) \in Int
<1> DEFINE f == [p \in Payments |-> n[p] * Amount[p]]
<1>1. \A p \in PaymentsOn(c) : f[p] \in Int
  BY TotalsAreFinite
<1> HIDE DEF f
<1>2. SumOver(f, PaymentsOn(c)) \in Int
  BY <1>1, SumInt, TotalsAreFinite
<1> QED BY <1>2 DEF f, Total

(* One more of a payment adds its amount to the total of its chain.        *)
LEMMA TotalPlus1 ==
    ASSUME NEW n \in [Payments -> Int], NEW p \in Payments, NEW c
    PROVE  Total(Plus1(n, p), c) =
             Total(n, c) + (IF ChainOf[p] = c THEN Amount[p] ELSE 0)
<1> DEFINE m == Plus1(n, p)
           S == PaymentsOn(c)
           f == [q \in Payments |-> n[q] * Amount[q]]
           g == [q \in Payments |-> m[q] * Amount[q]]
<1>1. m \in [Payments -> Int] /\ m[p] = n[p] + 1
      /\ \A q \in Payments : q # p => m[q] = n[q]
  BY DEF Plus1
<1>2. IsFiniteSet(S) /\ S \subseteq Payments /\ (p \in S <=> ChainOf[p] = c)
  BY TotalsAreFinite DEF PaymentsOn
<1> HIDE DEF m, S
<1>3. /\ \A q \in S : f[q] \in Int /\ g[q] \in Int
      /\ \A q \in S : q # p => g[q] = f[q]
  BY <1>1, <1>2, TotalsAreFinite
<1>4. g[p] - f[p] = Amount[p]
  <2>1. n[p] \in Int /\ Amount[p] \in Int
    BY TotalsAreFinite
  <2>2. g[p] = (n[p] + 1) * Amount[p] /\ f[p] = n[p] * Amount[p]
    BY <1>1
  <2>3. ASSUME NEW i \in Int, NEW a \in Int
        PROVE  (i + 1) * a - i * a = a
    <3>1. (i + 1) * a = i * a + a
      OBVIOUS
    <3>2. i * a \in Int
      OBVIOUS
    <3> QED BY <3>1, <3>2
  <2> HIDE DEF f, g
  <2>4. (n[p] + 1) * Amount[p] - n[p] * Amount[p] = Amount[p]
    BY <2>1, <2>3, Zenon
  <2> QED BY <2>2, <2>4
<1> HIDE DEF f, g
<1>5. SumOver(f, S) \in Int
  BY <1>2, <1>3, SumInt
<1>6. CASE ChainOf[p] = c
  <2>0. p \in S /\ IsFiniteSet(S)
    BY <1>2, <1>6
  <2>1. SumOver(g, S) = SumOver(f, S) + (g[p] - f[p])
    BY <1>3, <2>0, SumChange
  <2>2. SumOver(g, S) = SumOver(f, S) + Amount[p]
    BY <1>4, <2>1
  <2> QED BY <1>6, <2>2 DEF f, g, m, S, Total
<1>7. CASE ChainOf[p] # c
  <2>1. SumOver(g, S) = SumOver(f, S)
    BY <1>2, <1>3, <1>7, SumAgree
  <2>2. SumOver(g, S) = SumOver(f, S) + 0
    BY <1>5, <2>1
  <2> QED BY <1>7, <2>2 DEF f, g, m, S, Total
<1> QED BY <1>6, <1>7

(* What is no more for any payment is no more in total.                    *)
LEMMA TotalMonotonic ==
    ASSUME NEW n \in [Payments -> Int], NEW m \in [Payments -> Int], NEW c,
           \A p \in Payments : n[p] <= m[p]
    PROVE  Total(n, c) <= Total(m, c)
<1> DEFINE f == [p \in Payments |-> n[p] * Amount[p]]
           g == [p \in Payments |-> m[p] * Amount[p]]
<1>1. ASSUME NEW p \in PaymentsOn(c)
      PROVE  f[p] \in Int /\ g[p] \in Int /\ f[p] <= g[p]
  <2>1. /\ p \in Payments /\ Amount[p] \in Nat /\ n[p] \in Int /\ m[p] \in Int
        /\ n[p] <= m[p]
    BY TotalsAreFinite
  <2>2. f[p] = n[p] * Amount[p] /\ g[p] = m[p] * Amount[p]
    BY <2>1
  <2> HIDE DEF f, g
  <2>3. n[p] * Amount[p] <= m[p] * Amount[p]
    BY <2>1
  <2> QED BY <2>1, <2>2, <2>3
<1> HIDE DEF f, g
<1>2. SumOver(f, PaymentsOn(c)) <= SumOver(g, PaymentsOn(c))
  BY <1>1, SumMonotonic, TotalsAreFinite
<1> QED BY <1>2 DEF f, g, Total

(* k times as many of every payment are k times the total.                 *)
LEMMA TotalScale ==
    ASSUME NEW n \in [Payments -> Int], NEW k \in Int, NEW c
    PROVE  Total([p \in Payments |-> k * n[p]], c) = k * Total(n, c)
<1> DEFINE m == [p \in Payments |-> k * n[p]]
           f == [p \in Payments |-> n[p] * Amount[p]]
           g == [p \in Payments |-> m[p] * Amount[p]]
<1>1. ASSUME NEW p \in PaymentsOn(c)
      PROVE  f[p] \in Int /\ g[p] = k * f[p]
  <2>1. p \in Payments /\ Amount[p] \in Int /\ n[p] \in Int
    BY TotalsAreFinite
  <2>2. f[p] = n[p] * Amount[p] /\ g[p] = (k * n[p]) * Amount[p]
    BY <2>1
  <2> HIDE DEF f, g, m
  <2> QED BY <2>1, <2>2
<1> HIDE DEF f, g
<1>2. SumOver(g, PaymentsOn(c)) = k * SumOver(f, PaymentsOn(c))
  BY <1>1, SumScale, TotalsAreFinite
<1> QED BY <1>2 DEF f, g, Total

(* Totals add up.                                                          *)
LEMMA TotalSum ==
    ASSUME NEW n \in [Payments -> Int], NEW m \in [Payments -> Int], NEW c
    PROVE  Total([p \in Payments |-> n[p] + m[p]], c) = Total(n, c) + Total(m, c)
<1> DEFINE s == [p \in Payments |-> n[p] + m[p]]
           f == [p \in Payments |-> n[p] * Amount[p]]
           g == [p \in Payments |-> m[p] * Amount[p]]
           h == [p \in Payments |-> s[p] * Amount[p]]
<1>1. ASSUME NEW p \in PaymentsOn(c)
      PROVE  f[p] \in Int /\ g[p] \in Int /\ h[p] = f[p] + g[p]
  <2>1. p \in Payments /\ Amount[p] \in Int /\ n[p] \in Int /\ m[p] \in Int
    BY TotalsAreFinite
  <2>2. /\ f[p] = n[p] * Amount[p] /\ g[p] = m[p] * Amount[p]
        /\ h[p] = (n[p] + m[p]) * Amount[p]
    BY <2>1
  <2> HIDE DEF f, g, h, s
  <2> QED BY <2>1, <2>2
<1> HIDE DEF f, g, h
<1>2. SumOver(h, PaymentsOn(c)) =
        SumOver(f, PaymentsOn(c)) + SumOver(g, PaymentsOn(c))
  BY <1>1, SumPlus, TotalsAreFinite
<1> QED BY <1>2 DEF f, g, h, Total

-----------------------------------------------------------------------------
(***************************************************************************)
(* The invariant.  Nothing in the database says how often the reserve of a *)
(* payment was returned, and how often spent: the update of the wallet row *)
(* commits on its own, before the entry or the event that tells of it.  So *)
(* the invariant says that there are such numbers, returned[p] and         *)
(* spent[p], with which the wallets add up, and what bounds them.          *)
(***************************************************************************)
Wallets(returned, spent) ==
    \A c \in Chains :
        /\ reserved[c] + Deducted(c) = ReservedEntries(c) - Total(returned, c)
        /\ Deducted(c) = Total(spent, c)
        /\ reserved[c] + Deducted(c) <= Funds[c]

(* The runs of a payment that are at a place, the scans about to announce  *)
(* it, and the deductions of it that are behind a scan: a scan that has an *)
(* attempt ahead of it may yet deduct it.                                  *)
RunsAt(p, l) == {r \in RunsOf(p) : pc[r] = l}
Announcing(p) == {w \in Pollers : phase[w] = "emit_settled" /\ at[w] \in RunsOf(p)}
Ahead(w, r) ==
    \/ r \in todo[w]
    \/ /\ at[w] = r
       /\ phase[w] \in {"mark_confirmed", "settle", "record_fee", "deduct"}
Behind(p) ==
    {x \in Pollers \X RunsOf(p) : attempt[x[2]] = "confirmed" /\ ~ Ahead(x[1], x[2])}

(* A reserve is returned after the release is entered and before the       *)
(* failure is told, and spent before the settlement is announced, by each  *)
(* scan at most once for an attempt.                                       *)
Accounts(returned, spent) ==
    \A p \in Payments :
        /\ events[p]["payment.failed"] + Cardinality(RunsAt(p, "emit_failed"))
             <= returned[p]
        /\ returned[p] + Cardinality(RunsAt(p, "unreserve"))
             <= ledger[p]["release"]
        /\ events[p]["payment.settled"] + Cardinality(Announcing(p)) <= spent[p]
        /\ spent[p] <= Cardinality(Behind(p))

(* The attempt a scan has in hand is off its list, and between two of them *)
(* it has none in hand.                                                    *)
HandedOut ==
    \A w \in Pollers :
        /\ at[w] \notin todo[w]
        /\ phase[w] \in {"sleeping", "checking"} => at[w] = NoRun

BooksInv ==
    /\ HandedOut
    /\ \E returned, spent \in [Payments -> Nat] :
         Wallets(returned, spent) /\ Accounts(returned, spent)

(***************************************************************************)
(* What a step does to the counts.                                         *)
(***************************************************************************)
LEMMA CountsAreFinite ==
    ASSUME NEW p \in Payments, NEW l
    PROVE  /\ IsFiniteSet(RunsOf(p)) /\ IsFiniteSet(RunsAt(p, l))
           /\ IsFiniteSet(Announcing(p)) /\ IsFiniteSet(Behind(p))
           /\ IsFiniteSet(Confirmed(p))
           /\ Cardinality(RunsAt(p, l)) \in Nat
           /\ Cardinality(Announcing(p)) \in Nat
           /\ Cardinality(Behind(p)) \in Nat
<1>1. IsFiniteSet(Pollers)
  BY FinitenessAssumption
<1>2. IsFiniteSet(RunsOf(p))
  BY RunsAreFinite
<1>3. IsFiniteSet(RunsAt(p, l)) /\ IsFiniteSet(Confirmed(p))
  BY <1>2, FS_Subset DEF RunsAt, Confirmed
<1>4. IsFiniteSet(Announcing(p))
  BY <1>1, FS_Subset DEF Announcing
<1>5. IsFiniteSet(Behind(p))
  <2>1. IsFiniteSet(Pollers \X RunsOf(p))
    BY <1>1, <1>2, FS_Product
  <2> QED BY <2>1, FS_Subset DEF Behind
<1> QED BY <1>2, <1>3, <1>4, <1>5, FS_CardinalityType

(* A run that goes on leaves one place and comes to another.               *)
LEMMA RunMoves ==
    ASSUME TypeInv, NEW r \in Runs, NEW next, Goto(r, next),
           NEW p \in Payments, NEW l
    PROVE  Cardinality(RunsAt(p, l))' =
             Cardinality(RunsAt(p, l))
             - (IF p = PaymentOf(r) /\ pc[r] = l THEN 1 ELSE 0)
             + (IF p = PaymentOf(r) /\ next = l THEN 1 ELSE 0)
<1> DEFINE A == RunsAt(p, l)
           B == RunsAt(p, l) \ {r}
<1>0. RunsOf(p)' = RunsOf(p)
  BY DEF RunsOf
<1>1. \A s \in Runs : pc'[s] = IF s = r THEN next ELSE pc[s]
  BY DEF Goto, TypeInv, TypeOK, ExecutionTypeOK
<1>2. IsFiniteSet(A) /\ IsFiniteSet(B) /\ r \notin B
      /\ Cardinality(A) \in Nat
  BY CountsAreFinite, FS_RemoveElement
<1>3. r \in A <=> p = PaymentOf(r) /\ pc[r] = l
  BY DEF RunsAt, RunsOf
<1>4. A' = IF p = PaymentOf(r) /\ next = l THEN B \cup {r} ELSE B
  BY <1>0, <1>1 DEF RunsAt, RunsOf
<1>5. Cardinality(B) = IF r \in A THEN Cardinality(A) - 1 ELSE Cardinality(A)
  BY <1>2, FS_RemoveElement
<1>6. Cardinality(B \cup {r}) = Cardinality(B) + 1
  BY <1>2, FS_AddElement
<1> HIDE DEF A, B
<1>7. Cardinality(A') = Cardinality(A)
             - (IF p = PaymentOf(r) /\ pc[r] = l THEN 1 ELSE 0)
             + (IF p = PaymentOf(r) /\ next = l THEN 1 ELSE 0)
  BY <1>2, <1>3, <1>4, <1>5, <1>6
<1> QED BY <1>7 DEF A

(* Only a scan announces a settlement or gets an attempt behind it.        *)
LEMMA OthersSpendNothing ==
    ASSUME TypeInv, RunInv, NEW p \in Payments,
           ApiStep \/ ChainStep \/ ExecutionStep \/ UNCHANGED vars
    PROVE  /\ events'[p]["payment.settled"] = events[p]["payment.settled"]
           /\ Announcing(p)' = Announcing(p)
           /\ Behind(p)' = Behind(p)
<1>1. /\ UNCHANGED pollerVars
      /\ \A r \in Runs :
           /\ attempt[r] \in Recorded => attempt'[r] = attempt[r]
           /\ attempt'[r] = "confirmed" => attempt[r] = "confirmed"
      /\ events'[p]["payment.settled"] = events[p]["payment.settled"]
  BY OthersConfirmNothing
<1>2. RunsOf(p)' = RunsOf(p) /\ RunsOf(p) \subseteq Runs
  BY DEF RunsOf
<1>3. Announcing(p)' = Announcing(p)
  BY <1>1, <1>2 DEF Announcing, pollerVars
<1>4. \A w, r : Ahead(w, r)' <=> Ahead(w, r)
  BY <1>1 DEF Ahead, pollerVars
<1>5. \A x \in Pollers \X RunsOf(p) :
        attempt'[x[2]] = "confirmed" <=> attempt[x[2]] = "confirmed"
  BY <1>1, <1>2 DEF Recorded
<1>6. Behind(p)' = Behind(p)
  BY <1>2, <1>4, <1>5 DEF Behind
<1> QED BY <1>1, <1>3, <1>6

(* What leaves the wallets and the reserve entries alone keeps them in     *)
(* line.                                                                   *)
LEMMA WalletsFrame ==
    ASSUME NEW returned \in [Payments -> Nat], NEW spent \in [Payments -> Nat],
           Wallets(returned, spent), UNCHANGED <<available, reserved>>,
           \A p \in Payments : ledger'[p]["reserve"] = ledger[p]["reserve"]
    PROVE  Wallets(returned, spent)'
<1>1. \A c : ReservedEntries(c)' = ReservedEntries(c)
  BY DEF ReservedEntries, Total, PaymentsOn
<1>2. \A c : /\ Total(returned, c)' = Total(returned, c)
             /\ Total(spent, c)' = Total(spent, c)
             /\ Deducted(c)' = Deducted(c)
  BY DEF Total, PaymentsOn, Deducted
<1> QED BY <1>1, <1>2 DEF Wallets

(* An intent sets aside what the wallet can spare.                         *)
LEMMA WalletsReserve ==
    ASSUME TypeInv,
           NEW returned \in [Payments -> Nat], NEW spent \in [Payments -> Nat],
           Wallets(returned, spent), NEW p \in Payments, CreateIntent(p)
    PROVE  Wallets(returned, spent)'
<1> DEFINE n == [q \in Payments |-> ledger[q]["reserve"]]
           m == [q \in Payments |-> ledger'[q]["reserve"]]
<1>1. n \in [Payments -> Int] /\ ledger \in [Payments -> [EntryTypes -> Nat]]
  BY DEF TypeInv, TypeOK, StoreTypeOK, EntryTypes
<1>2. m = Plus1(n, p)
  BY <1>1 DEF CreateIntent, Plus1, EntryTypes
<1> HIDE DEF n, m
<1> SUFFICES ASSUME NEW c \in Chains
             PROVE  /\ (reserved[c] + Deducted(c) = ReservedEntries(c) - Total(returned, c))'
                    /\ (Deducted(c) = Total(spent, c))'
                    /\ (reserved[c] + Deducted(c) <= Funds[c])'
  BY DEF Wallets
<1>3. ReservedEntries(c)' =
        ReservedEntries(c) + (IF ChainOf[p] = c THEN Amount[p] ELSE 0)
  <2>1. ReservedEntries(c) = Total(n, c) /\ ReservedEntries(c)' = Total(m, c)
    BY DEF ReservedEntries, n, m, Total, PaymentsOn
  <2> QED BY <1>1, <1>2, <2>1, TotalPlus1
<1>4. /\ Total(returned, c)' = Total(returned, c) /\ Total(spent, c)' = Total(spent, c)
      /\ Deducted(c)' = Deducted(c)
  BY DEF Total, PaymentsOn, CreateIntent, Deducted
<1>5. /\ reserved'[c] = reserved[c] + (IF ChainOf[p] = c THEN Amount[p] ELSE 0)
      /\ ChainOf[p] = c => available[c] - reserved[c] >= Amount[p]
      /\ reserved[c] \in Int /\ available[c] \in Int /\ Funds[c] \in Int
      /\ Amount[p] \in Int
  <2>1. /\ reserved[c] \in Int /\ available[c] \in Int /\ Funds[c] \in Int
        /\ Amount[p] \in Int /\ Amount[p] >= 0 /\ ChainOf[p] \in Chains
        /\ reserved \in [Chains -> Int] /\ available \in [Chains -> Int]
    BY PaymentsAssumption DEF TypeInv, TypeOK, StoreTypeOK
  <2>2. /\ reserved'[c] = IF c = ChainOf[p] THEN reserved[c] + Amount[p] ELSE reserved[c]
        /\ ChainOf[p] = c => available[c] - reserved[c] >= Amount[p]
    BY <2>1 DEF CreateIntent
  <2> QED BY <2>1, <2>2
<1>6. /\ Total(returned, c) \in Int /\ Total(spent, c) \in Int
      /\ ReservedEntries(c) \in Int
  BY <1>1, TotalInt DEF ReservedEntries, n
<1>7. /\ reserved[c] + Deducted(c) = ReservedEntries(c) - Total(returned, c)
      /\ Deducted(c) = Total(spent, c) /\ Deducted(c) = Funds[c] - available[c]
      /\ reserved[c] + Deducted(c) <= Funds[c]
  BY DEF Wallets, Deducted
<1> QED BY <1>3, <1>4, <1>5, <1>6, <1>7

(* A run that returns a reserve gives back its amount.                     *)
LEMMA WalletsReturn ==
    ASSUME TypeInv,
           NEW returned \in [Payments -> Nat], NEW spent \in [Payments -> Nat],
           Wallets(returned, spent), NEW p \in Payments, ReturnReserve(p)
    PROVE  Wallets(Plus1(returned, p), spent)'
<1> SUFFICES ASSUME NEW c \in Chains
             PROVE  /\ reserved'[c] + Deducted(c)' =
                         ReservedEntries(c)' - Total(Plus1(returned, p), c)
                    /\ Deducted(c)' = Total(spent, c)
                    /\ reserved'[c] + Deducted(c)' <= Funds[c]
  BY DEF Wallets, Total, PaymentsOn, Plus1
<1>1. Total(Plus1(returned, p), c) =
        Total(returned, c) + (IF ChainOf[p] = c THEN Amount[p] ELSE 0)
  BY TotalPlus1
<1>2. ReservedEntries(c)' = ReservedEntries(c) /\ Deducted(c)' = Deducted(c)
  BY DEF ReservedEntries, Total, PaymentsOn, ReturnReserve, Deducted
<1>3. /\ reserved'[c] = reserved[c] - (IF ChainOf[p] = c THEN Amount[p] ELSE 0)
      /\ reserved[c] \in Int /\ available[c] \in Int /\ Funds[c] \in Int
      /\ Amount[p] \in Nat
  <2>1. /\ reserved[c] \in Int /\ available[c] \in Int /\ Funds[c] \in Int
        /\ Amount[p] \in Int /\ Amount[p] >= 0 /\ ChainOf[p] \in Chains
        /\ reserved \in [Chains -> Int] /\ available \in [Chains -> Int]
    BY PaymentsAssumption DEF TypeInv, TypeOK, StoreTypeOK
  <2>2. reserved'[c] = IF c = ChainOf[p] THEN reserved[c] - Amount[p] ELSE reserved[c]
    BY <2>1 DEF ReturnReserve
  <2> QED BY <2>1, <2>2
<1>4. Total(returned, c) \in Int /\ Total(spent, c) \in Int
  BY TotalInt
<1>5. ReservedEntries(c) \in Int
  <2>1. [q \in Payments |-> ledger[q]["reserve"]] \in [Payments -> Int]
    BY DEF TypeInv, TypeOK, StoreTypeOK, EntryTypes
  <2> QED BY <2>1, TotalInt DEF ReservedEntries
<1>6. /\ reserved[c] + Deducted(c) = ReservedEntries(c) - Total(returned, c)
      /\ Deducted(c) = Total(spent, c)
      /\ reserved[c] + Deducted(c) <= Funds[c]
  BY DEF Wallets
<1> QED BY <1>1, <1>2, <1>3, <1>4, <1>5, <1>6

(* A scan that deducts takes the amount from both balances.                *)
LEMMA WalletsSpend ==
    ASSUME TypeInv,
           NEW returned \in [Payments -> Nat], NEW spent \in [Payments -> Nat],
           Wallets(returned, spent), NEW p \in Payments, SpendReserve(p)
    PROVE  Wallets(returned, Plus1(spent, p))'
<1> SUFFICES ASSUME NEW c \in Chains
             PROVE  /\ reserved'[c] + Deducted(c)' =
                         ReservedEntries(c)' - Total(returned, c)
                    /\ Deducted(c)' = Total(Plus1(spent, p), c)
                    /\ reserved'[c] + Deducted(c)' <= Funds[c]
  BY DEF Wallets, Total, PaymentsOn, Plus1
<1>1. Total(Plus1(spent, p), c) =
        Total(spent, c) + (IF ChainOf[p] = c THEN Amount[p] ELSE 0)
  BY TotalPlus1
<1>2. ReservedEntries(c)' = ReservedEntries(c)
  BY DEF ReservedEntries, Total, PaymentsOn, SpendReserve
<1>3. /\ reserved'[c] = reserved[c] - (IF ChainOf[p] = c THEN Amount[p] ELSE 0)
      /\ available'[c] = available[c] - (IF ChainOf[p] = c THEN Amount[p] ELSE 0)
      /\ reserved[c] \in Int /\ available[c] \in Int /\ Funds[c] \in Int
      /\ Amount[p] \in Nat
  <2>1. /\ reserved[c] \in Int /\ available[c] \in Int /\ Funds[c] \in Int
        /\ Amount[p] \in Int /\ Amount[p] >= 0 /\ ChainOf[p] \in Chains
        /\ reserved \in [Chains -> Int] /\ available \in [Chains -> Int]
    BY PaymentsAssumption DEF TypeInv, TypeOK, StoreTypeOK
  <2>2. /\ reserved'[c] = IF c = ChainOf[p] THEN reserved[c] - Amount[p] ELSE reserved[c]
        /\ available'[c] = IF c = ChainOf[p] THEN available[c] - Amount[p] ELSE available[c]
    BY <2>1 DEF SpendReserve
  <2> QED BY <2>1, <2>2
<1>4. Total(returned, c) \in Int /\ Total(spent, c) \in Int
  BY TotalInt
<1>5. ReservedEntries(c) \in Int
  <2>1. [q \in Payments |-> ledger[q]["reserve"]] \in [Payments -> Int]
    BY DEF TypeInv, TypeOK, StoreTypeOK, EntryTypes
  <2> QED BY <2>1, TotalInt DEF ReservedEntries
<1>6. /\ reserved[c] + Deducted(c) = ReservedEntries(c) - Total(returned, c)
      /\ Deducted(c) = Total(spent, c)
      /\ reserved[c] + Deducted(c) <= Funds[c]
      /\ Deducted(c) = Funds[c] - available[c]
      /\ Deducted(c)' = Funds[c] - available'[c]
  BY DEF Wallets, Deducted
<1> QED BY <1>1, <1>2, <1>3, <1>4, <1>5, <1>6

(***************************************************************************)
(* A step of a run.                                                        *)
(***************************************************************************)
SameEntries ==
    \A q \in Payments :
        /\ ledger'[q]["reserve"] = ledger[q]["reserve"]
        /\ ledger'[q]["release"] = ledger[q]["release"]
SameFailures ==
    \A q \in Payments :
        events'[q]["payment.failed"] = events[q]["payment.failed"]

(* It releases, returns or tells of a failure only where its place says    *)
(* so, and comes to a place where it will from the one before.             *)
RunKeepsBooks(r, next) ==
    UNCHANGED reserved /\ SameEntries /\ SameFailures
    /\ next \notin {"unreserve", "emit_failed"}
RunReleases(r, next) ==
    /\ UNCHANGED reserved /\ SameFailures
    /\ pc[r] = "release" /\ next \in {"unreserve", "threw"}
    /\ \A q \in Payments :
         /\ ledger'[q]["reserve"] = ledger[q]["reserve"]
         /\ ledger'[q]["release"] =
              ledger[q]["release"] + (IF q = PaymentOf(r) THEN 1 ELSE 0)
RunGivesBack(r, next) ==
    /\ pc[r] = "unreserve" /\ next \in {"emit_failed", "threw"}
    /\ ReturnReserve(PaymentOf(r))
RunTells(r, next) ==
    /\ pc[r] = "emit_failed" /\ next = "threw"
    /\ UNCHANGED reserved /\ SameEntries
    /\ \A q \in Payments :
         events'[q]["payment.failed"] =
           events[q]["payment.failed"] + (IF q = PaymentOf(r) THEN 1 ELSE 0)

LEMMA RunStepBooks ==
    ASSUME TypeInv, NEW r \in Runs, RunStep(r) \/ RunCrashes(r)
    PROVE  /\ UNCHANGED available
           /\ \E next : /\ Goto(r, next)
                        /\ \/ RunKeepsBooks(r, next) \/ RunReleases(r, next)
                           \/ RunGivesBack(r, next) \/ RunTells(r, next)
<1>0. PaymentOf(r) \in Payments
  BY DEF Runs
<1> USE DEF TypeInv, TypeOK, StoreTypeOK
<1>1. ASSUME UNCHANGED <<available, reserved, ledger, events>>, NEW next,
             Goto(r, next), next \notin {"unreserve", "emit_failed"}
      PROVE  UNCHANGED available /\ \E l : Goto(r, l) /\ RunKeepsBooks(r, l)
  BY <1>1 DEF RunKeepsBooks, SameEntries, SameFailures
<1>2. CASE FetchIntent(r) \/ RunCrashes(r)
  BY <1>1, <1>2 DEF FetchIntent, RunCrashes, db
<1>3. CASE SetBroadcasting(r) \/ SetBroadcasted(r) \/ SetFailed(r)
  BY <1>1, <1>3 DEF SetBroadcasting, SetBroadcasted, SetFailed, Statement, SetStatus, db
<1>4. CASE InsertAttempt(r) \/ RecordTx(r)
  BY <1>1, <1>4 DEF InsertAttempt, RecordTx, Statement, SetAttempt, db
<1>5. CASE RefuseTransfer(r) \/ SendTransfer(r) \/ ReceiptArrives(r) \/ WaitThrows(r)
  BY <1>1, <1>5 DEF RefuseTransfer, SendTransfer, ReceiptArrives, WaitThrows, store, db
<1>6. CASE RunReturns(r) \/ RunThrows(r)
  BY <1>1, <1>6 DEF RunReturns, RunThrows, db
<1>7. CASE FailAttempts(r)
  BY <1>1, <1>7 DEF FailAttempts, Statement, FailPendingAttempts, db
<1>8. CASE DebitBalance(r)
  <2>1. ASSUME CreateLedgerEntry(PaymentOf(r), "debit")
        PROVE  UNCHANGED <<available, reserved>> /\ SameEntries /\ SameFailures
    BY <1>0, <2>1 DEF CreateLedgerEntry, SameEntries, SameFailures, EntryTypes
  <2>2. \E next \in {"returned", "set_failed"} :
          /\ Goto(r, next)
          /\ UNCHANGED db \/ CreateLedgerEntry(PaymentOf(r), "debit")
    BY <1>8 DEF DebitBalance, Statement
  <2> QED BY <1>1, <2>1, <2>2 DEF RunKeepsBooks, db
<1>9. CASE ReleaseReserve(r)
  <2>1. ASSUME CreateLedgerEntry(PaymentOf(r), "release"), pc[r] = "release",
               NEW next \in {"unreserve", "threw"}
        PROVE  UNCHANGED available /\ RunReleases(r, next)
    BY <1>0, <2>1 DEF CreateLedgerEntry, RunReleases, SameFailures, EntryTypes
  <2> QED BY <1>1, <1>9, <2>1 DEF ReleaseReserve, Statement, db
<1>10. CASE Unreserve(r)
  <2>1. ASSUME ReturnReserve(PaymentOf(r)), NEW next \in {"emit_failed", "threw"},
               pc[r] = "unreserve"
        PROVE  UNCHANGED available /\ RunGivesBack(r, next)
    BY <2>1 DEF ReturnReserve, RunGivesBack
  <2> QED BY <1>1, <1>10, <2>1 DEF Unreserve, Statement, db
<1>11. CASE EmitFailed(r)
  <2>1. ASSUME EmitWebhook(PaymentOf(r), "payment.failed"), pc[r] = "emit_failed"
        PROVE  UNCHANGED available /\ RunTells(r, "threw")
    BY <1>0, <2>1 DEF EmitWebhook, RunTells, SameEntries, EventTypes
  <2> QED BY <1>1, <1>11, <2>1 DEF EmitFailed, Statement, db
<1> QED
  BY <1>2, <1>3, <1>4, <1>5, <1>6, <1>7, <1>8, <1>9, <1>10, <1>11 DEF RunStep

(* A step of a run keeps the books in line, whatever it does or throws.    *)
LEMMA BooksRunStep ==
    ASSUME TypeInv, RunInv, ExecutionStep,
           NEW r \in Runs, RunStep(r) \/ RunCrashes(r),
           NEW returned \in [Payments -> Nat], NEW spent \in [Payments -> Nat],
           Wallets(returned, spent), Accounts(returned, spent)
    PROVE  \E n \in [Payments -> Nat] : Wallets(n, spent)' /\ Accounts(n, spent)'
<1>0. PaymentOf(r) \in Payments
  BY DEF Runs
<1>1. PICK next : /\ Goto(r, next)
                  /\ \/ RunKeepsBooks(r, next) \/ RunReleases(r, next)
                     \/ RunGivesBack(r, next) \/ RunTells(r, next)
  BY RunStepBooks
<1>2. UNCHANGED available
  BY RunStepBooks
<1>3. ASSUME NEW n \in [Payments -> Nat],
             \A q \in Payments :
               /\ events'[q]["payment.failed"] + Cardinality(RunsAt(q, "emit_failed"))'
                    <= n[q]
               /\ n[q] + Cardinality(RunsAt(q, "unreserve"))'
                    <= ledger'[q]["release"]
      PROVE  Accounts(n, spent)'
  <2>1. \A q \in Payments :
          /\ events'[q]["payment.settled"] = events[q]["payment.settled"]
          /\ Announcing(q)' = Announcing(q)
          /\ Behind(q)' = Behind(q)
    BY OthersSpendNothing
  <2> QED BY <1>3, <2>1 DEF Accounts
<1>4. ASSUME NEW q \in Payments, NEW l
      PROVE  /\ Cardinality(RunsAt(q, l))' =
                  Cardinality(RunsAt(q, l))
                  - (IF q = PaymentOf(r) /\ pc[r] = l THEN 1 ELSE 0)
                  + (IF q = PaymentOf(r) /\ next = l THEN 1 ELSE 0)
             /\ Cardinality(RunsAt(q, l)) \in Nat
  BY <1>1, RunMoves, CountsAreFinite
<1>5. ASSUME NEW q \in Payments
      PROVE  /\ events[q]["payment.failed"] + Cardinality(RunsAt(q, "emit_failed"))
                  <= returned[q]
             /\ returned[q] + Cardinality(RunsAt(q, "unreserve"))
                  <= ledger[q]["release"]
             /\ events[q]["payment.failed"] \in Nat /\ returned[q] \in Nat
             /\ ledger[q]["release"] \in Nat
  BY DEF Accounts, TypeInv, TypeOK, StoreTypeOK, EntryTypes, EventTypes
<1>6. CASE RunKeepsBooks(r, next)
  <2>1. ASSUME NEW q \in Payments
        PROVE  /\ events'[q]["payment.failed"] + Cardinality(RunsAt(q, "emit_failed"))'
                    <= returned[q]
               /\ returned[q] + Cardinality(RunsAt(q, "unreserve"))'
                    <= ledger'[q]["release"]
    BY <1>4, <1>5, <1>6 DEF RunKeepsBooks, SameEntries, SameFailures
  <2> QED BY <1>2, <1>3, <1>6, <2>1, WalletsFrame DEF RunKeepsBooks, SameEntries
<1>7. CASE RunReleases(r, next)
  <2>1. ASSUME NEW q \in Payments
        PROVE  /\ events'[q]["payment.failed"] + Cardinality(RunsAt(q, "emit_failed"))'
                    <= returned[q]
               /\ returned[q] + Cardinality(RunsAt(q, "unreserve"))'
                    <= ledger'[q]["release"]
    BY <1>4, <1>5, <1>7 DEF RunReleases, SameFailures
  <2> QED BY <1>2, <1>3, <1>7, <2>1, WalletsFrame DEF RunReleases
<1>8. CASE RunGivesBack(r, next)
  <2> DEFINE n == Plus1(returned, PaymentOf(r))
  <2>1. n \in [Payments -> Nat]
        /\ \A q \in Payments :
             n[q] = IF q = PaymentOf(r) THEN returned[q] + 1 ELSE returned[q]
    BY <1>0 DEF Plus1
  <2>2. Wallets(n, spent)'
    BY <1>0, <1>8, WalletsReturn DEF RunGivesBack
  <2> HIDE DEF n
  <2>3. ASSUME NEW q \in Payments
        PROVE  /\ events'[q]["payment.failed"] + Cardinality(RunsAt(q, "emit_failed"))'
                    <= n[q]
               /\ n[q] + Cardinality(RunsAt(q, "unreserve"))'
                    <= ledger'[q]["release"]
    <3>1. ledger' = ledger /\ events' = events /\ pc[r] = "unreserve"
          /\ next \in {"emit_failed", "threw"}
      BY <1>8 DEF RunGivesBack, ReturnReserve
    <3> QED BY <1>4, <1>5, <2>1, <3>1
  <2> QED BY <1>3, <2>1, <2>2, <2>3
<1>9. CASE RunTells(r, next)
  <2>1. ASSUME NEW q \in Payments
        PROVE  /\ events'[q]["payment.failed"] + Cardinality(RunsAt(q, "emit_failed"))'
                    <= returned[q]
               /\ returned[q] + Cardinality(RunsAt(q, "unreserve"))'
                    <= ledger'[q]["release"]
    BY <1>4, <1>5, <1>9 DEF RunTells, SameEntries
  <2> QED BY <1>2, <1>3, <1>9, <2>1, WalletsFrame DEF RunTells, SameEntries
<1> QED BY <1>1, <1>6, <1>7, <1>8, <1>9

(***************************************************************************)
(* A step of a scan.                                                       *)
(***************************************************************************)
SameSettlements ==
    \A q \in Payments :
        events'[q]["payment.settled"] = events[q]["payment.settled"]

(* It spends the reserve or announces the settlement of the attempt in     *)
(* hand where its place says so, and announces after it spent.             *)
ScanKeepsBooks(w) ==
    UNCHANGED <<available, reserved>> /\ SameSettlements
    /\ phase'[w] # "emit_settled"
ScanSpends(w) ==
    /\ phase[w] = "deduct" /\ SpendReserve(PaymentOf(at[w]))
    /\ \/ phase'[w] = "emit_settled" /\ at'[w] = at[w]
       \/ phase'[w] \in {"sleeping", "checking"}
ScanTells(w) ==
    /\ phase[w] = "emit_settled" /\ phase'[w] # "emit_settled"
    /\ UNCHANGED <<available, reserved>>
    /\ \A q \in Payments :
         events'[q]["payment.settled"] =
           events[q]["payment.settled"] + (IF q = PaymentOf(at[w]) THEN 1 ELSE 0)

LEMMA ScanStepBooks ==
    ASSUME TypeInv, NEW w \in Pollers, PollerStep(w) \/ PollerCrashes(w)
    PROVE  ScanKeepsBooks(w) \/ ScanSpends(w) \/ ScanTells(w)
<1> USE DEF TypeInv, TypeOK, StoreTypeOK, ConfirmationTypeOK
<1>1. CASE Scan(w) \/ PollerCrashes(w)
  BY <1>1 DEF Scan, PollerCrashes, ScanKeepsBooks, SameSettlements, store, db
<1>2. ASSUME NEW r \in todo[w], CheckConfirmed(w, r) \/ CheckUnconfirmed(w, r)
      PROVE  ScanKeepsBooks(w)
  BY <1>2 DEF CheckConfirmed, CheckUnconfirmed, NextAttempt, ScanKeepsBooks,
              SameSettlements, store, db
<1>3. CASE MarkConfirmed(w) \/ Settle(w)
  BY <1>3 DEF MarkConfirmed, Settle, PollerStatement, NextAttempt, SetAttempt,
              SetStatus, ScanKeepsBooks, SameSettlements, db
<1>4. CASE RecordFee(w)
  BY <1>4 DEF RecordFee, PollerStatement, NextAttempt, CreateLedgerEntry,
              ScanKeepsBooks, SameSettlements, db
<1>5. CASE Deduct(w)
  <2>1. CASE SpendReserve(PaymentOf(at[w]))
    BY <1>5, <2>1 DEF Deduct, PollerStatement, NextAttempt, ScanSpends
  <2>2. CASE UNCHANGED db /\ NextAttempt(w, todo[w])
    BY <2>2 DEF NextAttempt, ScanKeepsBooks, SameSettlements, db
  <2> QED BY <1>5, <2>1, <2>2 DEF Deduct, PollerStatement
<1>6. CASE EmitSettled(w)
  <2>1. PaymentOf(at[w]) \in Payments
    BY <1>6 DEF EmitSettled, PollerLastStatement, InHand, Runs
  <2>2. phase[w] = "emit_settled" /\ phase'[w] # "emit_settled"
    BY <1>6 DEF EmitSettled, PollerLastStatement, NextAttempt
  <2>3. CASE EmitWebhook(PaymentOf(at[w]), "payment.settled")
    BY <2>1, <2>2, <2>3 DEF EmitWebhook, ScanTells, EventTypes
  <2>4. CASE UNCHANGED db
    BY <2>2, <2>4 DEF ScanKeepsBooks, SameSettlements, db
  <2> QED BY <1>6, <2>3, <2>4 DEF EmitSettled, PollerLastStatement
<1>7. CASE MoveToManualReview(w)
  BY <1>7 DEF MoveToManualReview, PollerLastStatement, NextAttempt, SetStatus,
              ScanKeepsBooks, SameSettlements, db
<1> QED BY <1>1, <1>2, <1>3, <1>4, <1>5, <1>6, <1>7 DEF PollerStep

(* What is ahead of a scan was ahead of it before, or is new on its list   *)
(* and not yet confirmed; the scan that deducts is past the attempt.       *)
LEMMA ScanStepAhead ==
    ASSUME TypeInv, HandedOut, NEW w \in Pollers, PollerStep(w) \/ PollerCrashes(w)
    PROVE  /\ HandedOut'
           /\ \A r \in Runs : Ahead(w, r)' => Ahead(w, r) \/ attempt[r] = "broadcasted"
           /\ \A v \in Pollers : v # w =>
                phase'[v] = phase[v] /\ todo'[v] = todo[v] /\ at'[v] = at[v]
           /\ phase[w] = "deduct" => todo'[w] \subseteq todo[w]
<1>0. /\ todo[w] \subseteq Runs /\ at[w] \notin todo[w]
      /\ phase[w] \in {"sleeping", "checking"} => at[w] = NoRun
  BY DEF HandedOut, TypeInv, TypeOK, ConfirmationTypeOK
<1> SUFFICES /\ \A v \in Pollers : v # w =>
                  phase'[v] = phase[v] /\ todo'[v] = todo[v] /\ at'[v] = at[v]
             /\ \A r \in Runs : Ahead(w, r)' => Ahead(w, r) \/ attempt[r] = "broadcasted"
             /\ at'[w] \notin todo'[w]
             /\ phase'[w] \in {"sleeping", "checking"} => at'[w] = NoRun
             /\ phase[w] = "deduct" => todo'[w] \subseteq todo[w]
  BY DEF HandedOut
<1> USE <1>0, NoRunAssumption DEF TypeInv, TypeOK, ConfirmationTypeOK, Ahead
<1>1. CASE Scan(w)
  <2>1. /\ phase[w] = "sleeping" /\ phase'[w] = "checking" /\ UNCHANGED at
        /\ todo'[w] = {r \in Runs : attempt[r] = "broadcasted"}
        /\ \A v \in Pollers : v # w =>
             phase'[v] = phase[v] /\ todo'[v] = todo[v] /\ at'[v] = at[v]
    BY <1>1 DEF Scan
  <2> QED BY <2>1
<1>2. CASE PollerCrashes(w)
  <2>1. /\ phase'[w] = "sleeping" /\ at'[w] = NoRun /\ todo'[w] = {}
        /\ \A v \in Pollers : v # w =>
             phase'[v] = phase[v] /\ todo'[v] = todo[v] /\ at'[v] = at[v]
    BY <1>2 DEF PollerCrashes
  <2> QED BY <2>1
<1>3. ASSUME NEW r \in todo[w], CheckConfirmed(w, r) \/ CheckUnconfirmed(w, r)
      PROVE  /\ \A v \in Pollers : v # w =>
                  phase'[v] = phase[v] /\ todo'[v] = todo[v] /\ at'[v] = at[v]
             /\ phase[w] = "checking" /\ todo'[w] = todo[w] \ {r}
             /\ at'[w] \in {r, NoRun}
             /\ phase'[w] \in {"sleeping", "checking"} => at'[w] = NoRun
  BY <1>3 DEF CheckConfirmed, CheckUnconfirmed, Take, NextAttempt
<1>4. ASSUME NEW r \in todo[w], CheckConfirmed(w, r) \/ CheckUnconfirmed(w, r)
      PROVE  \A s \in Runs : Ahead(w, s)' => Ahead(w, s)
  BY <1>3, <1>4
<1>5. ASSUME MarkConfirmed(w) \/ Settle(w) \/ RecordFee(w) \/ Deduct(w)
             \/ EmitSettled(w) \/ MoveToManualReview(w)
      PROVE  /\ \A v \in Pollers : v # w =>
                  phase'[v] = phase[v] /\ todo'[v] = todo[v] /\ at'[v] = at[v]
             /\ todo'[w] = todo[w]
             /\ \/ phase'[w] \in {"sleeping", "checking"} /\ at'[w] = NoRun
                \/ /\ at'[w] = at[w]
                   /\ \/ phase[w] \in {"mark_confirmed", "settle", "record_fee"}
                         /\ phase'[w] \in {"settle", "record_fee", "deduct"}
                      \/ phase'[w] = "emit_settled"
  BY <1>5 DEF MarkConfirmed, Settle, RecordFee, Deduct, EmitSettled,
     MoveToManualReview, PollerStatement, PollerLastStatement, NextAttempt
<1> QED BY <1>1, <1>2, <1>3, <1>4, <1>5 DEF PollerStep

(* No deduction gets ahead of a scan again.                                *)
LEMMA ScanStepBehind ==
    ASSUME TypeInv, HandedOut, NEW w \in Pollers, PollerStep(w) \/ PollerCrashes(w),
           NEW q \in Payments
    PROVE  /\ Behind(q) \subseteq Behind(q)'
           /\ ScanSpends(w) /\ ScanInv /\ at[w] \in RunsOf(q) =>
                \E x : x \in Behind(q)' /\ x \notin Behind(q)
<1>0. /\ \A v, r : v \in Pollers /\ r \in Runs /\ Ahead(v, r)' =>
           Ahead(v, r) \/ attempt[r] = "broadcasted"
      /\ \A r \in Runs : attempt[r] = "confirmed" => attempt'[r] = "confirmed"
      /\ RunsOf(q)' = RunsOf(q) /\ RunsOf(q) \subseteq Runs
  <2>1. \A r \in Runs : attempt[r] = "confirmed" => attempt'[r] = "confirmed"
    BY ScanStepAttempts DEF TypeInv, TypeOK, StoreTypeOK
  <2>2. ASSUME NEW v \in Pollers, NEW r \in Runs, Ahead(v, r)'
        PROVE  Ahead(v, r) \/ attempt[r] = "broadcasted"
    <3>1. CASE v = w
      BY <2>2, <3>1, ScanStepAhead
    <3>2. CASE v # w
      BY <2>2, <3>2, ScanStepAhead DEF Ahead
    <3> QED BY <3>1, <3>2
  <2> QED BY <2>1, <2>2 DEF RunsOf
<1>1. Behind(q) \subseteq Behind(q)'
  BY <1>0 DEF Behind
<1>2. ASSUME ScanSpends(w), ScanInv, at[w] \in RunsOf(q)
      PROVE  \E x : x \in Behind(q)' /\ x \notin Behind(q)
  <2>1. PICK r \in RunsOf(q) : r = at[w]
    BY <1>2
  <2>2. phase[w] = "deduct" /\ attempt[r] = "confirmed"
        /\ phase'[w] \in {"emit_settled", "sleeping", "checking"}
    BY <1>2, <2>1 DEF ScanSpends, ScanInv
  <2>3. Ahead(w, r) /\ ~ Ahead(w, r)'
    BY <2>1, <2>2, ScanStepAhead DEF Ahead, HandedOut
  <2>4. <<w, r>> \in Behind(q)' /\ <<w, r>> \notin Behind(q)
    BY <1>0, <2>1, <2>2, <2>3 DEF Behind
  <2> QED BY <2>4
<1> QED BY <1>1, <1>2

(* The scans about to announce a payment: only the one that deducted it    *)
(* joins them, and the one that announces it leaves.                       *)
LEMMA ScanStepAnnouncing ==
    ASSUME TypeInv, HandedOut, NEW w \in Pollers, PollerStep(w) \/ PollerCrashes(w),
           NEW q \in Payments
    PROVE  /\ ScanKeepsBooks(w) =>
                Cardinality(Announcing(q))' <= Cardinality(Announcing(q))
           /\ ScanSpends(w) =>
                Cardinality(Announcing(q))' <=
                  Cardinality(Announcing(q)) + (IF q = PaymentOf(at[w]) THEN 1 ELSE 0)
           /\ ScanTells(w) =>
                Cardinality(Announcing(q))' <=
                  Cardinality(Announcing(q)) - (IF q = PaymentOf(at[w]) THEN 1 ELSE 0)
<1> DEFINE A == Announcing(q)
<1>0. /\ IsFiniteSet(A) /\ Cardinality(A) \in Nat
      /\ IsFiniteSet(A \cup {w})
      /\ Cardinality(A \cup {w}) = IF w \in A THEN Cardinality(A) ELSE Cardinality(A) + 1
      /\ IsFiniteSet(A \ {w})
      /\ Cardinality(A \ {w}) = IF w \in A THEN Cardinality(A) - 1 ELSE Cardinality(A)
  BY CountsAreFinite, FS_AddElement, FS_RemoveElement
<1>1. \A v \in Pollers : v # w => (v \in A' <=> v \in A)
  <2>1. \A v \in Pollers : v # w =>
           phase'[v] = phase[v] /\ todo'[v] = todo[v] /\ at'[v] = at[v]
    BY ScanStepAhead
  <2> QED BY <2>1 DEF Announcing, RunsOf
<1>2. A \subseteq Pollers /\ A' \subseteq Pollers
  BY DEF Announcing
<1>3. ASSUME ScanKeepsBooks(w)
      PROVE  Cardinality(A') <= Cardinality(A)
  <2>1. w \notin A'
    BY <1>3 DEF ScanKeepsBooks, Announcing
  <2> HIDE DEF A
  <2>2. A' \subseteq A
    BY <1>1, <1>2, <2>1
  <2> QED BY <1>0, <2>2, FS_Subset
<1>4. ASSUME ScanSpends(w)
      PROVE  Cardinality(A') <=
               Cardinality(A) + (IF q = PaymentOf(at[w]) THEN 1 ELSE 0)
  <2>1. w \notin A /\ (w \in A' => q = PaymentOf(at[w]))
    BY <1>4 DEF ScanSpends, Announcing, RunsOf
  <2> HIDE DEF A
  <2>2. CASE q = PaymentOf(at[w])
    <3>1. A' \subseteq A \cup {w}
      BY <1>1, <1>2
    <3>2. Cardinality(A') <= Cardinality(A \cup {w})
      BY <1>0, <3>1, FS_Subset
    <3> QED BY <1>0, <2>1, <2>2, <3>2
  <2>3. CASE q # PaymentOf(at[w])
    <3>1. A' \subseteq A
      BY <1>1, <1>2, <2>1, <2>3
    <3>2. Cardinality(A') <= Cardinality(A)
      BY <1>0, <3>1, FS_Subset
    <3> QED BY <1>0, <2>3, <3>2
  <2> QED BY <2>2, <2>3
<1>5. ASSUME ScanTells(w)
      PROVE  Cardinality(A') <=
               Cardinality(A) - (IF q = PaymentOf(at[w]) THEN 1 ELSE 0)
  <2>1. w \notin A' /\ (w \in A <=> q = PaymentOf(at[w]))
    BY <1>5 DEF ScanTells, Announcing, RunsOf, TypeInv, InHand
  <2> HIDE DEF A
  <2>2. A' \subseteq A \ {w}
    BY <1>1, <1>2, <2>1
  <2>3. Cardinality(A') <= Cardinality(A \ {w})
    BY <1>0, <2>2, FS_Subset
  <2>4. Cardinality(A \ {w}) =
          Cardinality(A) - (IF q = PaymentOf(at[w]) THEN 1 ELSE 0)
    BY <1>0, <2>1
  <2> QED BY <2>3, <2>4
<1> QED BY <1>3, <1>4, <1>5

(* What was counted before a step can be counted after it.                 *)
LEMMA BehindStaysFinite ==
    ASSUME NEW p \in Payments
    PROVE  /\ IsFiniteSet(Behind(p)') /\ Cardinality(Behind(p)') \in Nat
           /\ IsFiniteSet(Announcing(p)') /\ Cardinality(Announcing(p)') \in Nat
<1>1. IsFiniteSet(Pollers \X RunsOf(p)) /\ IsFiniteSet(Pollers)
  BY CountsAreFinite, FinitenessAssumption, FS_Product
<1>2. Behind(p)' \subseteq Pollers \X RunsOf(p) /\ Announcing(p)' \subseteq Pollers
  BY DEF Behind, Announcing, RunsOf
<1> QED BY <1>1, <1>2, FS_Subset, FS_CardinalityType

(* A step of a scan keeps the books in line, whatever it does or throws.   *)
LEMMA BooksScanStep ==
    ASSUME TypeInv, ScanInv, HandedOut, NEW w \in Pollers,
           PollerStep(w) \/ PollerCrashes(w), UNCHANGED pc,
           NEW returned \in [Payments -> Nat], NEW spent \in [Payments -> Nat],
           Wallets(returned, spent), Accounts(returned, spent)
    PROVE  \E n \in [Payments -> Nat] : Wallets(returned, n)' /\ Accounts(returned, n)'
<1>1. ASSUME NEW n \in [Payments -> Nat],
             \A q \in Payments :
               /\ events'[q]["payment.settled"] + Cardinality(Announcing(q))' <= n[q]
               /\ n[q] <= Cardinality(Behind(q))'
      PROVE  Accounts(returned, n)'
  <2>1. \A q \in Payments :
          /\ ledger'[q]["release"] = ledger[q]["release"]
          /\ events'[q]["payment.failed"] = events[q]["payment.failed"]
    BY ScanStepLedger
  <2>2. \A q, l : RunsAt(q, l)' = RunsAt(q, l)
    BY DEF RunsAt, RunsOf
  <2> QED BY <1>1, <2>1, <2>2 DEF Accounts
<1>2. \A q \in Payments : ledger'[q]["reserve"] = ledger[q]["reserve"]
  BY ScanStepLedger
<1>3. ASSUME NEW q \in Payments
      PROVE  /\ Cardinality(Behind(q)) <= Cardinality(Behind(q))'
             /\ Cardinality(Behind(q)) \in Nat /\ Cardinality(Behind(q))' \in Nat
             /\ Cardinality(Announcing(q)) \in Nat /\ Cardinality(Announcing(q))' \in Nat
  <2>1. IsFiniteSet(Behind(q)')
    BY BehindStaysFinite
  <2>2. Behind(q) \subseteq Behind(q)'
    BY ScanStepBehind
  <2> QED BY <2>1, <2>2, FS_Subset, CountsAreFinite, BehindStaysFinite
<1>4. ASSUME NEW q \in Payments
      PROVE  /\ events[q]["payment.settled"] + Cardinality(Announcing(q)) <= spent[q]
             /\ spent[q] <= Cardinality(Behind(q))
             /\ events[q]["payment.settled"] \in Nat /\ spent[q] \in Nat
  BY DEF Accounts, TypeInv, TypeOK, StoreTypeOK, EventTypes
<1>5. CASE ScanKeepsBooks(w)
  <2>1. ASSUME NEW q \in Payments
        PROVE  /\ events'[q]["payment.settled"] + Cardinality(Announcing(q))' <= spent[q]
               /\ spent[q] <= Cardinality(Behind(q))'
    <3>1. /\ Cardinality(Announcing(q))' <= Cardinality(Announcing(q))
          /\ events'[q]["payment.settled"] = events[q]["payment.settled"]
      BY <1>5, ScanStepAnnouncing DEF ScanKeepsBooks, SameSettlements
    <3> QED BY <1>3, <1>4, <3>1
  <2> QED BY <1>1, <1>2, <1>5, <2>1, WalletsFrame DEF ScanKeepsBooks
<1>6. CASE ScanSpends(w)
  <2>0. PICK p \in Payments : /\ p = PaymentOf(at[w])
                             /\ at[w] \in RunsOf(p) /\ UNCHANGED events
    BY <1>6 DEF ScanSpends, SpendReserve, TypeInv, InHand, Runs, RunsOf
  <2> DEFINE n == Plus1(spent, p)
  <2>1. n \in [Payments -> Nat]
        /\ \A q \in Payments : n[q] = IF q = p THEN spent[q] + 1 ELSE spent[q]
    BY <2>0 DEF Plus1
  <2>2. Wallets(returned, n)'
    BY <1>6, <2>0, WalletsSpend DEF ScanSpends
  <2>3. Cardinality(Behind(p)) + 1 <= Cardinality(Behind(p))'
    <3>1. PICK x : x \in Behind(p)' /\ x \notin Behind(p)
      BY <1>6, <2>0, ScanStepBehind
    <3>2. Behind(p) \cup {x} \subseteq Behind(p)'
      BY <2>0, <3>1, ScanStepBehind
    <3>3. /\ IsFiniteSet(Behind(p)) /\ Cardinality(Behind(p)) \in Nat
          /\ IsFiniteSet(Behind(p)')
      BY <2>0, CountsAreFinite, BehindStaysFinite
    <3>4. Cardinality(Behind(p) \cup {x}) = Cardinality(Behind(p)) + 1
      BY <3>1, <3>3, FS_AddElement
    <3>5. Cardinality(Behind(p) \cup {x}) <= Cardinality(Behind(p)')
      BY <3>2, <3>3, FS_Subset
    <3> QED BY <3>4, <3>5
  <2>4. ASSUME NEW q \in Payments
        PROVE  /\ events'[q]["payment.settled"] + Cardinality(Announcing(q))' <= n[q]
               /\ n[q] <= Cardinality(Behind(q))'
    <3>1. Cardinality(Announcing(q))' <=
            Cardinality(Announcing(q)) + (IF q = p THEN 1 ELSE 0)
      BY <1>6, <2>0, ScanStepAnnouncing
    <3>2. events'[q]["payment.settled"] = events[q]["payment.settled"]
      BY <2>0
    <3> HIDE DEF n
    <3> QED BY <1>3, <1>4, <2>1, <2>3, <3>1, <3>2
  <2> QED BY <1>1, <2>1, <2>2, <2>4
<1>7. CASE ScanTells(w)
  <2>1. ASSUME NEW q \in Payments
        PROVE  /\ events'[q]["payment.settled"] + Cardinality(Announcing(q))' <= spent[q]
               /\ spent[q] <= Cardinality(Behind(q))'
    <3>1. /\ Cardinality(Announcing(q))' <=
               Cardinality(Announcing(q)) - (IF q = PaymentOf(at[w]) THEN 1 ELSE 0)
          /\ events'[q]["payment.settled"] = events[q]["payment.settled"]
               + (IF q = PaymentOf(at[w]) THEN 1 ELSE 0)
      BY <1>7, ScanStepAnnouncing DEF ScanTells
    <3> QED BY <1>3, <1>4, <3>1
  <2> QED BY <1>1, <1>2, <1>7, <2>1, WalletsFrame DEF ScanTells
<1> QED BY <1>5, <1>6, <1>7, ScanStepBooks

(***************************************************************************)
(* The invariant holds.                                                    *)
(***************************************************************************)

(* Nothing of nothing is nothing.                                          *)
LEMMA TotalZero == ASSUME NEW c PROVE Total([p \in Payments |-> 0], c) = 0
<1> DEFINE z == [p \in Payments |-> 0]
<1>1. z \in [Payments -> Int] /\ [p \in Payments |-> 0 * z[p]] = z
  OBVIOUS
<1> HIDE DEF z
<1>2. Total(z, c) = 0 * Total(z, c) /\ Total(z, c) \in Int
  BY <1>1, TotalScale, TotalInt
<1> QED BY <1>2 DEF z

LEMMA BooksInit == Init => BooksInv
<1> SUFFICES ASSUME Init PROVE BooksInv
  OBVIOUS
<1> USE DEF Init, StoreInit, ExecutionInit, ConfirmationInit
<1> DEFINE z == [p \in Payments |-> 0]
<1>1. z \in [Payments -> Nat]
  OBVIOUS
<1>2. Wallets(z, z)
  <2> SUFFICES ASSUME NEW c \in Chains
               PROVE  /\ reserved[c] + Deducted(c) = ReservedEntries(c) - Total(z, c)
                      /\ Deducted(c) = Total(z, c)
                      /\ reserved[c] + Deducted(c) <= Funds[c]
    BY DEF Wallets
  <2>1. [p \in Payments |-> ledger[p]["reserve"]] = z
    BY DEF EntryTypes
  <2>2. Total(z, c) = 0 /\ ReservedEntries(c) = 0
    BY <2>1, TotalZero DEF ReservedEntries
  <2>3. Funds[c] \in Nat /\ available[c] = Funds[c] /\ reserved[c] = 0
    BY PaymentsAssumption
  <2>4. Deducted(c) = 0
    BY <2>3 DEF Deducted
  <2> QED BY <2>2, <2>3, <2>4
<1>3. Accounts(z, z)
  <2>1. ASSUME NEW p \in Payments
        PROVE  /\ Cardinality(RunsAt(p, "emit_failed")) = 0
               /\ Cardinality(RunsAt(p, "unreserve")) = 0
               /\ Cardinality(Announcing(p)) = 0
               /\ Cardinality(Behind(p)) \in Nat
    <3>1. /\ RunsAt(p, "emit_failed") = {} /\ RunsAt(p, "unreserve") = {}
          /\ Announcing(p) = {}
      BY DEF RunsAt, RunsOf, Announcing
    <3> QED BY <3>1, CountsAreFinite, FS_EmptySet
  <2>2. ASSUME NEW p \in Payments
        PROVE  /\ events[p]["payment.failed"] = 0 /\ events[p]["payment.settled"] = 0
               /\ ledger[p]["release"] = 0
    BY DEF EntryTypes, EventTypes
  <2>3. \A p \in Payments : z[p] = 0
    OBVIOUS
  <2> HIDE DEF z, Init, StoreInit, ExecutionInit, ConfirmationInit
  <2> QED BY <2>1, <2>2, <2>3 DEF Accounts
<1>4. HandedOut
  BY NoRunAssumption DEF HandedOut
<1> QED BY <1>1, <1>2, <1>3, <1>4 DEF BooksInv

(* A step that moves no run through the places where books are kept, and   *)
(* writes nothing of them, keeps the counts.                               *)
LEMMA AccountsFrame ==
    ASSUME NEW returned \in [Payments -> Nat], NEW spent \in [Payments -> Nat],
           Accounts(returned, spent),
           \A q \in Payments :
             /\ events'[q]["payment.failed"] = events[q]["payment.failed"]
             /\ ledger'[q]["release"] = ledger[q]["release"]
             /\ events'[q]["payment.settled"] = events[q]["payment.settled"]
             /\ Announcing(q)' = Announcing(q) /\ Behind(q)' = Behind(q)
             /\ \A l \in {"emit_failed", "unreserve"} :
                  Cardinality(RunsAt(q, l))' = Cardinality(RunsAt(q, l))
    PROVE  Accounts(returned, spent)'
BY DEF Accounts

(* Every step keeps the books in line.                                     *)
LEMMA BooksStep ==
    ASSUME TypeInv, FreshInv, RunInv, ScanInv, BooksInv, [Next]_vars
    PROVE  BooksInv'
<1>0. PICK returned \in [Payments -> Nat], spent \in [Payments -> Nat] :
        Wallets(returned, spent) /\ Accounts(returned, spent)
  BY DEF BooksInv
<1>1. HandedOut
  BY DEF BooksInv
<1>2. CASE ConfirmationStep
  <2>1. PICK w \in Pollers : PollerStep(w) \/ PollerCrashes(w)
    BY <1>2 DEF ConfirmationStep, ConfirmationNext
  <2>2. HandedOut'
    BY <1>1, <2>1, ScanStepAhead
  <2>3. \E n \in [Payments -> Nat] : Wallets(returned, n)' /\ Accounts(returned, n)'
    BY <1>0, <1>1, <1>2, <2>1, BooksScanStep DEF ConfirmationStep
  <2> QED BY <2>2, <2>3 DEF BooksInv
<1>3. CASE ApiStep \/ ChainStep \/ ExecutionStep \/ UNCHANGED vars
  <2>1. HandedOut'
    BY <1>1, <1>3 DEF HandedOut, ApiStep, ChainStep, ExecutionStep, vars, pollerVars
  <2>2. \A q \in Payments :
          /\ events'[q]["payment.settled"] = events[q]["payment.settled"]
          /\ Announcing(q)' = Announcing(q) /\ Behind(q)' = Behind(q)
    BY <1>3, OthersSpendNothing
  <2>3. ASSUME UNCHANGED <<db, pc>>
        PROVE  Wallets(returned, spent)' /\ Accounts(returned, spent)'
    <3>1. \A q, l : RunsAt(q, l)' = RunsAt(q, l)
      BY <2>3 DEF RunsAt, RunsOf
    <3>2. UNCHANGED <<ledger, events, available, reserved>>
      BY <2>3 DEF db
    <3> QED BY <1>0, <2>2, <3>1, <3>2, WalletsFrame, AccountsFrame
  <2>4. ASSUME NEW p \in Payments, CreateIntent(p), UNCHANGED pc
        PROVE  Wallets(returned, spent)' /\ Accounts(returned, spent)'
    <3>1. \A q, l : RunsAt(q, l)' = RunsAt(q, l)
      BY <2>4 DEF RunsAt, RunsOf
    <3>2. UNCHANGED events
          /\ \A q \in Payments : ledger'[q]["release"] = ledger[q]["release"]
      BY <2>4 DEF CreateIntent, EntryTypes, TypeInv, TypeOK, StoreTypeOK
    <3> QED BY <1>0, <2>2, <2>4, <3>1, <3>2, WalletsReserve, AccountsFrame
  <2>5. ASSUME NEW p \in Payments, StartRun(p)
        PROVE  Wallets(returned, spent)' /\ Accounts(returned, spent)'
    <3>1. PICK r \in Runs : pc[r] = "idle" /\ Goto(r, "fetch")
      BY <2>5, OwnerIsFresh DEF StartRun
    <3>2. ASSUME NEW q \in Payments, NEW l \in {"emit_failed", "unreserve"}
          PROVE  Cardinality(RunsAt(q, l))' = Cardinality(RunsAt(q, l))
      <4>1. Cardinality(RunsAt(q, l)) \in Nat
        BY CountsAreFinite
      <4>2. Cardinality(RunsAt(q, l))' =
              Cardinality(RunsAt(q, l))
              - (IF q = PaymentOf(r) /\ pc[r] = l THEN 1 ELSE 0)
              + (IF q = PaymentOf(r) /\ "fetch" = l THEN 1 ELSE 0)
        BY <3>1, RunMoves
      <4>3. pc[r] # l /\ "fetch" # l
        BY <3>1
      <4> QED BY <4>1, <4>2, <4>3
    <3>3. UNCHANGED <<ledger, events, available, reserved>>
      BY <2>5 DEF StartRun, db
    <3> QED BY <1>0, <2>2, <3>2, <3>3, WalletsFrame, AccountsFrame
  <2>6. ASSUME NEW r \in Runs, RunStep(r) \/ RunCrashes(r), ExecutionStep
        PROVE  \E n \in [Payments -> Nat] : Wallets(n, spent)' /\ Accounts(n, spent)'
    BY <1>0, <2>6, BooksRunStep
  <2>7. \/ UNCHANGED <<db, pc>>
        \/ \E p \in Payments : CreateIntent(p) /\ UNCHANGED pc
        \/ \E p \in Payments : StartRun(p)
        \/ ExecutionStep /\ \E r \in Runs : RunStep(r) \/ RunCrashes(r)
    <3>1. CASE ApiStep
      BY <3>1 DEF ApiStep, EnqueueExecution
    <3>2. CASE ChainStep
      BY <3>2 DEF ChainStep, FinalizeTx, DropTx, RevertTx, StickTx, ForgetTx
    <3>3. CASE ExecutionStep
      BY <3>3, ExecutionSteps DEF StallJob
    <3>4. CASE UNCHANGED vars
      BY <3>4 DEF vars, store
    <3> QED BY <1>3, <3>1, <3>2, <3>3, <3>4
  <2> QED BY <1>0, <2>1, <2>3, <2>4, <2>5, <2>6, <2>7 DEF BooksInv
<1> QED BY <1>2, <1>3 DEF Next

(* The books are in line in every reachable state.                         *)
THEOREM BooksInvariant == Spec => []BooksInv
<1>1. SettlementInv /\ BooksInv /\ [Next]_vars => BooksInv'
  BY BooksStep DEF SettlementInv
<1> QED BY <1>1, BooksInit, SettlementInvariant, PTL DEF Spec

(* Whatever fails, what the wallet rows hold or spent lies between what    *)
(* the ledger still reserves and what merchants have not been told has     *)
(* failed (execution.worker.ts, its catch block, and treasury.ts).         *)
THEOREM TreasuryAlwaysMatches == Spec => []TreasuryMatchesLedger
<1>1. TypeInv /\ BooksInv => TreasuryMatchesLedger
  <2> SUFFICES ASSUME TypeInv, BooksInv, NEW c \in Chains
               PROVE  /\ ReservedEntries(c) - ReleasedEntries(c)
                           <= reserved[c] + Deducted(c)
                      /\ reserved[c] + Deducted(c)
                           <= ReservedEntries(c) - FailedEvents(c)
    BY DEF TreasuryMatchesLedger
  <2>1. PICK returned \in [Payments -> Nat], spent \in [Payments -> Nat] :
          Wallets(returned, spent) /\ Accounts(returned, spent)
    BY DEF BooksInv
  <2> DEFINE released == [p \in Payments |-> ledger[p]["release"]]
             told == [p \in Payments |-> events[p]["payment.failed"]]
             set == [p \in Payments |-> ledger[p]["reserve"]]
  <2>2. /\ released \in [Payments -> Int] /\ told \in [Payments -> Int]
        /\ set \in [Payments -> Int] /\ returned \in [Payments -> Int]
    BY DEF TypeInv, TypeOK, StoreTypeOK, EntryTypes, EventTypes
  <2>3. ASSUME NEW p \in Payments
        PROVE  told[p] <= returned[p] /\ returned[p] <= released[p]
    <3>1. /\ Cardinality(RunsAt(p, "emit_failed")) \in Nat
          /\ Cardinality(RunsAt(p, "unreserve")) \in Nat
      BY CountsAreFinite
    <3>2. /\ told[p] + Cardinality(RunsAt(p, "emit_failed")) <= returned[p]
          /\ returned[p] + Cardinality(RunsAt(p, "unreserve")) <= released[p]
      BY <2>1 DEF Accounts
    <3>3. told[p] \in Int /\ returned[p] \in Int /\ released[p] \in Int
      BY <2>2
    <3> HIDE DEF told, released
    <3> QED BY <3>1, <3>2, <3>3
  <2>4. /\ ReleasedEntries(c) = Total(released, c) /\ FailedEvents(c) = Total(told, c)
        /\ ReservedEntries(c) = Total(set, c)
    BY DEF ReleasedEntries, FailedEvents, ReservedEntries
  <2> HIDE DEF told, released, set
  <2>5. Total(told, c) <= Total(returned, c) /\ Total(returned, c) <= Total(released, c)
    BY <2>2, <2>3, TotalMonotonic
  <2>6. /\ Total(told, c) \in Int /\ Total(returned, c) \in Int
        /\ Total(released, c) \in Int /\ Total(set, c) \in Int
    BY <2>2, TotalInt
  <2>7. reserved[c] + Deducted(c) = Total(set, c) - Total(returned, c)
    BY <2>1, <2>4 DEF Wallets
  <2> QED BY <2>4, <2>5, <2>6, <2>7
<1> QED BY <1>1, BooksInvariant, TypeCorrect, PTL

(* Whatever fails and however scans overlap, a settlement is announced     *)
(* after its deduction from the wallet (confirmation.worker.ts).           *)
THEOREM SettledIsDeducted == Spec => []SettledEventsAreDeducted
<1>1. TypeInv /\ BooksInv => SettledEventsAreDeducted
  <2> SUFFICES ASSUME TypeInv, BooksInv, NEW c \in Chains
               PROVE  SettledEvents(c) <= Deducted(c)
    BY DEF SettledEventsAreDeducted
  <2>1. PICK returned \in [Payments -> Nat], spent \in [Payments -> Nat] :
          Wallets(returned, spent) /\ Accounts(returned, spent)
    BY DEF BooksInv
  <2> DEFINE told == [p \in Payments |-> events[p]["payment.settled"]]
  <2>2. told \in [Payments -> Int] /\ spent \in [Payments -> Int]
    BY DEF TypeInv, TypeOK, StoreTypeOK, EventTypes
  <2>3. ASSUME NEW p \in Payments
        PROVE  told[p] <= spent[p]
    <3>1. Cardinality(Announcing(p)) \in Nat
      BY CountsAreFinite
    <3>2. told[p] + Cardinality(Announcing(p)) <= spent[p]
      BY <2>1 DEF Accounts
    <3>3. told[p] \in Int /\ spent[p] \in Int
      BY <2>2
    <3> HIDE DEF told
    <3> QED BY <3>1, <3>2, <3>3
  <2>4. SettledEvents(c) = Total(told, c)
    BY DEF SettledEvents
  <2> HIDE DEF told
  <2>5. Total(told, c) <= Total(spent, c)
    BY <2>2, <2>3, TotalMonotonic
  <2> QED BY <2>1, <2>4, <2>5 DEF Wallets
<1> QED BY <1>1, BooksInvariant, TypeCorrect, PTL

(* A scan has each confirmed attempt behind it at most once.               *)
LEMMA SpentAtMost ==
    ASSUME NEW p \in Payments
    PROVE  /\ Cardinality(Pollers) \in Nat /\ Cardinality(Confirmed(p)) \in Nat
           /\ Cardinality(Behind(p)) <= Cardinality(Pollers) * Cardinality(Confirmed(p))
<1>1. /\ IsFiniteSet(Pollers) /\ Cardinality(Pollers) \in Nat
      /\ IsFiniteSet(Confirmed(p)) /\ Cardinality(Confirmed(p)) \in Nat
  BY FinitenessAssumption, CountsAreFinite, FS_CardinalityType
<1>2. /\ IsFiniteSet(Pollers \X Confirmed(p))
      /\ Cardinality(Pollers \X Confirmed(p)) =
           Cardinality(Pollers) * Cardinality(Confirmed(p))
  BY <1>1, FS_Product
<1>3. Behind(p) \subseteq Pollers \X Confirmed(p)
  BY DEF Behind, Confirmed
<1>4. Cardinality(Behind(p)) <= Cardinality(Pollers) * Cardinality(Confirmed(p))
  BY <1>2, <1>3, FS_Subset
<1> QED BY <1>1, <1>4

(* Overlapping scans may each deduct a transfer, but no scan deducts one   *)
(* twice, through failed statements and restarts (confirmation.worker.ts). *)
THEOREM DeductionsStayBounded == Spec => []DeductionsBounded
<1>1. TypeInv /\ BooksInv => DeductionsBounded
  <2> DEFINE k == Cardinality(Pollers)
  <2> SUFFICES ASSUME TypeInv, BooksInv, NEW c \in Chains
               PROVE  Deducted(c) <= k * ConfirmedTotal(c)
    BY DEF DeductionsBounded
  <2>1. PICK returned \in [Payments -> Nat], spent \in [Payments -> Nat] :
          Wallets(returned, spent) /\ Accounts(returned, spent)
    BY DEF BooksInv
  <2> DEFINE confirmed == [p \in Payments |-> Cardinality(Confirmed(p))]
             most == [p \in Payments |-> k * confirmed[p]]
  <2>2. k \in Nat
    BY FinitenessAssumption, FS_CardinalityType
  <2>3. ASSUME NEW p \in Payments
        PROVE  /\ Cardinality(Confirmed(p)) \in Nat
               /\ spent[p] <= k * Cardinality(Confirmed(p))
    <3>1. /\ Cardinality(Confirmed(p)) \in Nat
          /\ Cardinality(Behind(p)) <= k * Cardinality(Confirmed(p))
      BY SpentAtMost
    <3>2. spent[p] <= Cardinality(Behind(p))
      BY <2>1 DEF Accounts
    <3>3. spent[p] \in Int /\ Cardinality(Behind(p)) \in Int
      BY CountsAreFinite
    <3>4. PICK m \in Int : m = k * Cardinality(Confirmed(p))
      <4> HIDE DEF k
      <4> QED BY <2>2, <3>1
    <3> HIDE DEF k
    <3> QED BY <3>1, <3>2, <3>3, <3>4
  <2> HIDE DEF k
  <2>4. /\ confirmed \in [Payments -> Int] /\ most \in [Payments -> Int]
        /\ spent \in [Payments -> Int] /\ \A p \in Payments : spent[p] <= most[p]
    BY <2>2, <2>3
  <2>5. ConfirmedTotal(c) = Total(confirmed, c)
    BY DEF ConfirmedTotal
  <2>6. Total(most, c) = k * Total(confirmed, c)
    BY <2>2, <2>4, TotalScale
  <2> HIDE DEF confirmed, most
  <2>7. Total(spent, c) <= Total(most, c)
    BY <2>4, TotalMonotonic
  <2>8. Deducted(c) = Total(spent, c)
    BY <2>1 DEF Wallets
  <2> QED BY <2>5, <2>6, <2>7, <2>8
<1> QED BY <1>1, BooksInvariant, TypeCorrect, PTL

-----------------------------------------------------------------------------
(***************************************************************************)
(* What the wallet promises, and what it set aside.                        *)
(***************************************************************************)

(* A row never has more reserved than available: every intent is checked   *)
(* against the row, and whatever lowers the one balance lowers the other,  *)
(* or the reserve alone.  Of the promises it says nothing (see             *)
(* PromisesStayCovered).                                                   *)
LEMMA RowStaysCovered ==
    Spec => [](\A c \in Chains : reserved[c] <= available[c])
<1>1. TypeInv /\ BooksInv => \A c \in Chains : reserved[c] <= available[c]
  <2> SUFFICES ASSUME TypeInv, BooksInv, NEW c \in Chains
               PROVE  reserved[c] <= available[c]
    OBVIOUS
  <2>1. reserved[c] + Deducted(c) <= Funds[c]
    BY DEF BooksInv, Wallets
  <2>2. reserved[c] \in Int /\ available[c] \in Int /\ Funds[c] \in Int
    BY PaymentsAssumption DEF TypeInv, TypeOK, StoreTypeOK
  <2> QED BY <2>1, <2>2 DEF Deducted
<1> QED BY <1>1, BooksInvariant, TypeCorrect, PTL

(* The transaction that makes an intent enters its reserve, once, and      *)
(* nothing is released before.                                             *)
ReservedOnce ==
    \A p \in Payments :
        /\ ledger[p]["reserve"] = IF status[p] = "none" THEN 0 ELSE 1
        /\ status[p] = "none" => ledger[p]["release"] = 0

LEMMA ReservedOnceInit == Init => ReservedOnce
BY DEF Init, StoreInit, ReservedOnce, EntryTypes

LEMMA ReservedOnceStep ==
    ASSUME TypeInv, RunInv, ScanInv, AcceptedInv, ReservedOnce, [Next]_vars
    PROVE  ReservedOnce'
<1>1. ASSUME NEW p \in Payments, ledger'[p]["reserve"] = ledger[p]["reserve"],
             status[p] = "none" => /\ status'[p] = "none"
                                   /\ ledger'[p]["release"] = ledger[p]["release"]
      PROVE  /\ ledger'[p]["reserve"] = IF status'[p] = "none" THEN 0 ELSE 1
             /\ status'[p] = "none" => ledger'[p]["release"] = 0
  BY <1>1, PaymentsStay DEF ReservedOnce
<1>2. ASSUME NEW q \in Payments, CreateIntent(q)
      PROVE  ReservedOnce'
  <2>1. status'[q] = "route_selected" /\ ledger'[q]["reserve"] = 1
    BY <1>2 DEF CreateIntent, ReservedOnce, TypeInv, TypeOK, StoreTypeOK, EntryTypes
  <2>2. \A p \in Payments : p # q =>
          status'[p] = status[p] /\ ledger'[p] = ledger[p]
    BY <1>2 DEF CreateIntent, TypeInv, TypeOK, StoreTypeOK, EntryTypes
  <2> QED BY <1>1, <2>1, <2>2 DEF ReservedOnce
<1>3. ASSUME UNCHANGED db
      PROVE  ReservedOnce'
  BY <1>3 DEF ReservedOnce, db
<1>4. CASE ApiStep \/ ChainStep \/ UNCHANGED vars
  BY <1>2, <1>3, <1>4 DEF ApiStep, ChainStep, EnqueueExecution, FinalizeTx, DropTx,
     RevertTx, StickTx, ForgetTx, vars, store
<1>5. ASSUME NEW r \in Runs, RunStep(r) \/ RunCrashes(r)
      PROVE  ReservedOnce'
  <2>1. \A p \in Payments : ledger'[p]["reserve"] = ledger[p]["reserve"]
    <3>1. ASSUME NEW next, RunGivesBack(r, next)
          PROVE  UNCHANGED ledger
      BY <3>1 DEF RunGivesBack, ReturnReserve
    <3> QED BY <1>5, <3>1, RunStepBooks DEF RunKeepsBooks, RunReleases, RunTells, SameEntries
  <2>2. \A p \in Payments : status[p] = "none" => status'[p] = "none"
    BY <1>5, RunStepWritesItsOwn DEF AcceptedInv
  <2>3. ASSUME NEW p \in Payments, status[p] = "none"
        PROVE  ledger'[p]["release"] = ledger[p]["release"]
    <3>1. PICK next : \/ RunKeepsBooks(r, next) \/ RunReleases(r, next)
                      \/ RunGivesBack(r, next) \/ RunTells(r, next)
      BY <1>5, RunStepBooks
    <3>2. CASE RunReleases(r, next)
      <4>1. p # PaymentOf(r)
        BY <2>3, <3>2 DEF RunReleases, AcceptedInv
      <4> QED BY <3>2, <4>1 DEF RunReleases, TypeInv, TypeOK, StoreTypeOK, EntryTypes
    <3> QED BY <3>1, <3>2 DEF RunKeepsBooks, RunGivesBack, RunTells, SameEntries,
               ReturnReserve
  <2> QED BY <1>1, <2>1, <2>2, <2>3 DEF ReservedOnce
<1>6. CASE ExecutionStep
  BY <1>3, <1>5, <1>6, ExecutionSteps DEF StartRun, StallJob
<1>7. CASE ConfirmationStep
  <2>1. PICK w \in Pollers : PollerStep(w) \/ PollerCrashes(w)
    BY <1>7 DEF ConfirmationStep, ConfirmationNext
  <2>2. \A p \in Payments : /\ ledger'[p]["reserve"] = ledger[p]["reserve"]
                            /\ ledger'[p]["release"] = ledger[p]["release"]
    BY <2>1, ScanStepLedger
  <2>3. CASE Settle(w) \/ MoveToManualReview(w)
    <3>1. /\ at[w] \in Runs
          /\ \/ UNCHANGED status
             \/ \E s : SetStatus(PaymentOf(at[w]), s)
      BY <2>3 DEF Settle, MoveToManualReview, PollerStatement,
                  PollerLastStatement, TypeInv, InHand, db
    <3>2. status[PaymentOf(at[w])] # "none"
      BY <3>1 DEF ScanInv, Recorded, RunInv, BeforeInsert, AcceptedInv
    <3>3. \A p \in Payments : status[p] = "none" => status'[p] = "none"
      BY <3>1, <3>2 DEF SetStatus, TypeInv, TypeOK, StoreTypeOK
    <3> QED BY <1>1, <2>2, <3>3 DEF ReservedOnce
  <2>4. CASE ~ (Settle(w) \/ MoveToManualReview(w))
    <3>1. UNCHANGED status
      BY <2>1, <2>4 DEF PollerStep, PollerCrashes, Scan, CheckConfirmed,
         CheckUnconfirmed, MarkConfirmed, RecordFee, Deduct, EmitSettled,
         PollerStatement, PollerLastStatement, SetAttempt, CreateLedgerEntry,
         SpendReserve, EmitWebhook, store, db
    <3> QED BY <1>1, <2>2, <3>1 DEF ReservedOnce
  <2> QED BY <2>3, <2>4
<1> QED BY <1>4, <1>6, <1>7 DEF Next

-----------------------------------------------------------------------------
(***************************************************************************)
(* Whatever fails: how often a payment can be released and sent.           *)
(***************************************************************************)

(* A run that will release the reserve or send a transfer, unless it fails,*)
(* and a dead one, whose job gets another run for it.                      *)
Owing(r) ==
    \/ pc[r] \in {"fetch", "set_broadcasting", "insert_attempt", "transfer",
                  "set_failed", "fail_attempts", "release"}
    \/ pc[r] = "wait_receipt" /\ tx[r] \in {"dropped", "reverted", "forgotten"}
    \/ Owns(r) /\ pc[r] = "dead"
OwingOf(p) == {r \in RunsOf(p) : Owing(r)}

(* The tries a job has left, but for the one under way.                    *)
TriesLeft(p) ==
    IF queue[p] \in {"absent", "waiting"} THEN MaxAttempts - made[p]
    ELSE IF queue[p] = "active" THEN MaxAttempts - made[p] - 1
    ELSE 0

(* Each try releases the reserve or sends a transfer that counts, and only *)
(* a fault makes it do both or has it run again.                           *)
OwesOf(p) ==
    ledger[p]["release"] + Cardinality(SentOf(p)) + Cardinality(OwingOf(p))
    + TriesLeft(p) <= MaxAttempts + faults
OwesInv == \A p \in Payments : OwesOf(p)

(* What a run and the tries to come add to that.                           *)
Debt(r) ==
    ledger[PaymentOf(r)]["release"] + (IF Sent(r) THEN 1 ELSE 0)
    + (IF Owing(r) THEN 1 ELSE 0) + TriesLeft(PaymentOf(r))

LEMMA OwesTypes ==
    ASSUME TypeInv, NEW p \in Payments
    PROVE  /\ ledger[p]["release"] \in Nat /\ TriesLeft(p) \in Nat
           /\ MaxAttempts \in Nat /\ faults \in Nat /\ made[p] \in Nat
           /\ Cardinality(SentOf(p)) \in Nat
           /\ IsFiniteSet(OwingOf(p)) /\ Cardinality(OwingOf(p)) \in Nat
<1>1. /\ ledger[p]["release"] \in Nat /\ made[p] \in Nat
      /\ MaxAttempts \in Nat /\ faults \in Nat
  BY LimitsAssumption DEF TypeInv, TypeOK, StoreTypeOK, EntryTypes
<1>2. TriesLeft(p) \in Nat
  BY <1>1 DEF TriesLeft, TypeInv, JobsOK
<1>3. IsFiniteSet(OwingOf(p))
  BY RunsAreFinite, FS_Subset DEF OwingOf
<1> QED BY <1>1, <1>2, <1>3, SendsAreFinite, FS_CardinalityType

(* A step that leaves the runs and the job of a payment as they are.       *)
LEMMA OwesUntouched ==
    ASSUME TypeInv, OwesInv, NEW p \in Payments,
           faults' = faults \/ faults' = faults + 1,
           ledger'[p]["release"] = ledger[p]["release"], TriesLeft(p)' = TriesLeft(p),
           \A s \in RunsOf(p) : (Sent(s)' <=> Sent(s)) /\ (Owing(s)' <=> Owing(s))
    PROVE  OwesOf(p)'
<1>0. RunsOf(p)' = RunsOf(p)
  BY DEF RunsOf
<1>1. SentOf(p)' = SentOf(p) /\ OwingOf(p)' = OwingOf(p)
  BY <1>0 DEF SentOf, OwingOf
<1>2. ledger[p]["release"] + Cardinality(SentOf(p)) + Cardinality(OwingOf(p))
      + TriesLeft(p) <= MaxAttempts + faults
  BY DEF OwesInv, OwesOf
<1>3. ledger[p]["release"] + Cardinality(SentOf(p)) + Cardinality(OwingOf(p))
      + TriesLeft(p) <= MaxAttempts + faults'
  BY <1>2, OwesTypes
<1> QED BY <1>1, <1>3 DEF OwesOf

(* A step that touches one run, and the job and the releases of its        *)
(* payment.                                                                *)
LEMMA OneRunOwes ==
    ASSUME TypeInv, TypeInv', OwesInv, NEW r \in Runs,
           faults' = faults \/ faults' = faults + 1,
           \A s \in Runs :
               s # r => (Sent(s)' <=> Sent(s)) /\ (Owing(s)' <=> Owing(s)),
           \A q \in Payments : q # PaymentOf(r) =>
               /\ ledger'[q]["release"] = ledger[q]["release"]
               /\ TriesLeft(q)' = TriesLeft(q),
           Debt(r)' - faults' <= Debt(r) - faults
    PROVE  OwesInv'
<1>0. PICK p \in Payments : p = PaymentOf(r) /\ r \in RunsOf(p)
  BY DEF Runs, RunsOf
<1>00. RunsOf(p)' = RunsOf(p)
  BY DEF RunsOf
<1>1. PICK T : T = SentOf(p)'
  OBVIOUS
<1>2. PICK L : L = OwingOf(p)'
  OBVIOUS
<1>3. /\ \A s : s # r => (s \in SentOf(p) <=> s \in T)
      /\ \A s : s # r => (s \in OwingOf(p) <=> s \in L)
      /\ r \in SentOf(p) <=> Sent(r)
      /\ r \in T <=> Sent(r)'
      /\ r \in OwingOf(p) <=> Owing(r)
      /\ r \in L <=> Owing(r)'
  <2>1. \A s \in RunsOf(p) : s \in Runs
    BY DEF RunsOf
  <2> QED BY <1>0, <1>00, <1>1, <1>2, <2>1 DEF SentOf, OwingOf
<1>4. /\ Cardinality(T) \in Nat
      /\ Cardinality(T) + (IF Sent(r) THEN 1 ELSE 0) =
           Cardinality(SentOf(p)) + (IF Sent(r)' THEN 1 ELSE 0)
  BY <1>3, SendsAreFinite, OneElementMore
<1>5. /\ Cardinality(L) \in Nat
      /\ Cardinality(L) + (IF Owing(r) THEN 1 ELSE 0) =
           Cardinality(OwingOf(p)) + (IF Owing(r)' THEN 1 ELSE 0)
  BY <1>3, OwesTypes, OneElementMore
<1>6. /\ ledger[p]["release"] \in Nat /\ TriesLeft(p) \in Nat
      /\ MaxAttempts \in Nat /\ faults \in Nat
      /\ Cardinality(SentOf(p)) \in Nat /\ Cardinality(OwingOf(p)) \in Nat
  BY OwesTypes
<1>7. ledger'[p]["release"] \in Nat /\ TriesLeft(p)' \in Nat
  <2>1. ledger'[p]["release"] \in Nat
    BY DEF TypeInv, TypeOK, StoreTypeOK, EntryTypes
  <2>2. made'[p] \in Nat
    BY <1>6 DEF TypeInv, TypeOK, StoreTypeOK
  <2>3. TriesLeft(p)' \in Nat
    BY <1>6, <2>2 DEF TriesLeft, TypeInv, JobsOK
  <2> QED BY <2>1, <2>3
<1>8. ledger[p]["release"] + Cardinality(SentOf(p)) + Cardinality(OwingOf(p))
      + TriesLeft(p) <= MaxAttempts + faults
  BY DEF OwesInv, OwesOf
<1>9. /\ Debt(r) = ledger[p]["release"] + (IF Sent(r) THEN 1 ELSE 0)
                   + (IF Owing(r) THEN 1 ELSE 0) + TriesLeft(p)
      /\ Debt(r)' = ledger'[p]["release"] + (IF Sent(r)' THEN 1 ELSE 0)
                    + (IF Owing(r)' THEN 1 ELSE 0) + TriesLeft(p)'
  BY <1>0 DEF Debt, TriesLeft
<1>10. ledger'[p]["release"] + Cardinality(T) + Cardinality(L) + TriesLeft(p)'
         <= MaxAttempts + faults'
  BY <1>4, <1>5, <1>6, <1>7, <1>8, <1>9
<1>11. OwesOf(p)'
  BY <1>1, <1>2, <1>10 DEF OwesOf
<1>12. ASSUME NEW q \in Payments, q # p
       PROVE  OwesOf(q)'
  <2>1. \A s \in RunsOf(q) : s \in Runs /\ s # r
    BY <1>0, <1>12 DEF RunsOf
  <2> QED BY <1>0, <1>12, <2>1, OwesUntouched
<1> QED BY <1>11, <1>12 DEF OwesInv

(* A run that goes on releases the reserve only if that was to come, and   *)
(* gets into its catch block by a fault or because its transfer is lost.   *)
LEMMA RunReleasesOnce ==
    ASSUME TypeInv, NEW r \in Runs, RunStep(r) \/ RunCrashes(r),
           ~ SendTransfer(r), ~ RunReturns(r), ~ RunThrows(r)
    PROVE  LET p == PaymentOf(r)
           IN  \/ /\ ledger'[p]["release"] = ledger[p]["release"]
                  /\ Owing(r)' /\ faults' = faults => Owing(r)
               \/ /\ ledger'[p]["release"] = ledger[p]["release"] + 1
                  /\ Owing(r) /\ ~ Owing(r)'
<1>0. PICK p \in Payments : p = PaymentOf(r)
  BY DEF Runs
<1>1. PICK next : /\ Goto(r, next)
                  /\ \/ RunKeepsBooks(r, next) \/ RunReleases(r, next)
                     \/ RunGivesBack(r, next) \/ RunTells(r, next)
  BY RunStepBooks
<1>2. UNCHANGED <<tx, jobs>> /\ pc'[r] = next
  BY <1>1, RunGoesOn DEF Goto, TypeInv, TypeOK, ExecutionTypeOK
<1>3. Owns(r)' <=> Owns(r)
  BY <1>2 DEF Owns, Owner, jobs
<1>4. CASE RunReleases(r, next)
  BY <1>0, <1>2, <1>4 DEF RunReleases, Owing
<1>5. CASE ~ RunReleases(r, next)
  <2>1. ledger'[p]["release"] = ledger[p]["release"]
    BY <1>0, <1>1, <1>5 DEF RunKeepsBooks, RunGivesBack, RunTells, SameEntries, ReturnReserve
  <2>2. ASSUME faults' = faults, Owing(r)'
        PROVE  Owing(r)
    <3>0. ~ Throws
      BY <2>2, OwesTypes, <1>0 DEF Throws
    <3> USE <1>2, <1>3, <2>2, <3>0 DEF Owing
    <3>1. CASE FetchIntent(r) \/ SetBroadcasting(r) \/ InsertAttempt(r)
      BY <3>1 DEF FetchIntent, SetBroadcasting, InsertAttempt, Statement
    <3>2. CASE RefuseTransfer(r) \/ ReceiptArrives(r) \/ WaitThrows(r)
      BY <3>2, <1>1 DEF RefuseTransfer, ReceiptArrives, WaitThrows, Goto, TypeInv, TypeOK,
         ExecutionTypeOK
    <3>3. CASE RecordTx(r) \/ SetBroadcasted(r) \/ DebitBalance(r)
      BY <3>3 DEF RecordTx, SetBroadcasted, DebitBalance, Statement, Goto, TypeInv, TypeOK,
         ExecutionTypeOK
    <3>4. CASE SetFailed(r) \/ FailAttempts(r) \/ ReleaseReserve(r)
      BY <3>4 DEF SetFailed, FailAttempts, ReleaseReserve, Statement
    <3>5. CASE Unreserve(r) \/ EmitFailed(r)
      BY <3>5 DEF Unreserve, EmitFailed, Statement, Goto, TypeInv, TypeOK, ExecutionTypeOK
    <3>6. CASE RunCrashes(r)
      BY <3>6 DEF RunCrashes
    <3> QED BY <3>1, <3>2, <3>3, <3>4, <3>5, <3>6 DEF RunStep
  <2> QED BY <1>0, <2>1, <2>2
<1> QED BY <1>4, <1>5

(* A step of a run keeps it: sending, releasing or ending.                 *)
LEMMA RunOwes ==
    ASSUME TypeInv, TypeInv', OwesInv, NEW r \in Runs, RunStep(r) \/ RunCrashes(r),
           faults' = faults \/ faults' = faults + 1
    PROVE  OwesInv'
<1>0. PICK p \in Payments : p = PaymentOf(r)
  BY DEF Runs
<1>1. \A s \in Runs : s # r => (Sent(s)' <=> Sent(s)) /\ (Owing(s)' <=> Owing(s))
  BY RunLeavesOthers DEF Sent, Owing
<1>2. ASSUME NEW q \in Payments, q # p
      PROVE  TriesLeft(q)' = TriesLeft(q) /\ ledger'[q]["release"] = ledger[q]["release"]
  <2>1. TriesLeft(q)' = TriesLeft(q)
    BY <1>0, <1>2, RunLeavesOthers DEF TriesLeft
  <2>2. PICK next : \/ RunKeepsBooks(r, next) \/ RunReleases(r, next)
                    \/ RunGivesBack(r, next) \/ RunTells(r, next)
    BY RunStepBooks
  <2>3. ledger[q]["release"] \in Nat
    BY OwesTypes
  <2> QED BY <1>0, <1>2, <2>1, <2>2, <2>3
          DEF RunKeepsBooks, RunReleases, RunGivesBack, RunTells, SameEntries, ReturnReserve
<1>3. /\ ledger[p]["release"] \in Nat /\ TriesLeft(p) \in Nat /\ MaxAttempts \in Nat
      /\ faults \in Nat /\ made[p] \in Nat
  BY OwesTypes
<1>4. Debt(r) = ledger[p]["release"] + (IF Sent(r) THEN 1 ELSE 0)
                + (IF Owing(r) THEN 1 ELSE 0) + TriesLeft(p)
      /\ Debt(r)' = ledger'[p]["release"] + (IF Sent(r)' THEN 1 ELSE 0)
                    + (IF Owing(r)' THEN 1 ELSE 0) + TriesLeft(p)'
  BY <1>0 DEF Debt, TriesLeft
<1>5. Debt(r)' - faults' <= Debt(r) - faults
  <2>1. CASE ~ SendTransfer(r) /\ ~ RunReturns(r) /\ ~ RunThrows(r)
    <3>1. UNCHANGED <<tx, jobs>>
      BY <2>1, RunGoesOn
    <3>2. (Sent(r)' <=> Sent(r)) /\ TriesLeft(p)' = TriesLeft(p)
      BY <3>1 DEF Sent, TriesLeft, jobs
    <3>3. \/ /\ ledger'[p]["release"] = ledger[p]["release"]
             /\ Owing(r)' /\ faults' = faults => Owing(r)
          \/ /\ ledger'[p]["release"] = ledger[p]["release"] + 1
             /\ Owing(r) /\ ~ Owing(r)'
      BY <1>0, <2>1, RunReleasesOnce
    <3> QED BY <1>3, <1>4, <3>2, <3>3
  <2>2. CASE SendTransfer(r)
    <3>1. /\ pc[r] = "transfer" /\ pc'[r] = "wait_receipt" /\ tx'[r] = "sent"
          /\ UNCHANGED <<jobs, faults, ledger>>
      BY <2>2 DEF SendTransfer, Goto, db, TypeInv, TypeOK, StoreTypeOK, ExecutionTypeOK
    <3>2. Owing(r) /\ ~ Owing(r)' /\ TriesLeft(p)' = TriesLeft(p)
      BY <3>1 DEF Owing, TriesLeft, jobs
    <3> QED BY <1>3, <1>4, <3>1, <3>2
  <2>3. CASE RunReturns(r) \/ RunThrows(r)
    <3>1. /\ pc'[r] = "ended" /\ UNCHANGED <<tx, faults, ledger>>
          /\ \/ UNCHANGED jobs
             \/ /\ queue[p] = "active"
                /\ \/ queue'[p] = "completed"
                   \/ queue'[p] = "failed"
                   \/ queue'[p] = "waiting" /\ made'[p] = made[p] + 1
      BY <1>0, <2>3 DEF RunReturns, RunThrows, Goto, Owns, jobs, db, TypeInv, TypeOK,
         StoreTypeOK, ExecutionTypeOK
    <3>2. ~ Owing(r)' /\ (Sent(r)' <=> Sent(r))
      BY <3>1 DEF Owing, Sent
    <3>3. TriesLeft(p)' <= TriesLeft(p) /\ TriesLeft(p)' \in Int
      <4>1. CASE UNCHANGED jobs
        BY <1>3, <4>1 DEF TriesLeft, jobs
      <4>2. CASE queue[p] = "active" /\ queue'[p] \in {"completed", "failed"}
        BY <1>3, <4>2 DEF TriesLeft
      <4>3. CASE queue[p] = "active" /\ queue'[p] = "waiting" /\ made'[p] = made[p] + 1
        BY <1>3, <4>3 DEF TriesLeft
      <4> QED BY <3>1, <4>1, <4>2, <4>3
    <3> QED BY <1>3, <1>4, <3>1, <3>2, <3>3
  <2> QED BY <2>1, <2>2, <2>3
<1> QED BY <1>0, <1>1, <1>2, <1>5, OneRunOwes

(* Before anything happens a job has all of its tries.                     *)
LEMMA OwesInit == Init => OwesInv
<1> SUFFICES ASSUME Init, NEW p \in Payments
             PROVE  OwesOf(p)
  BY DEF OwesInv
<1> USE DEF Init, StoreInit, ExecutionInit
<1>1. \A r \in RunsOf(p) : tx[r] = "none" /\ pc[r] = "idle"
  BY DEF RunsOf
<1>2. SentOf(p) = {} /\ OwingOf(p) = {}
  BY <1>1 DEF SentOf, Sent, OwingOf, Owing
<1>3. TriesLeft(p) = MaxAttempts /\ faults = 0 /\ MaxAttempts \in Nat
      /\ ledger[p]["release"] = 0
  BY LimitsAssumption DEF TriesLeft, EntryTypes
<1> QED BY <1>2, <1>3, FS_EmptySet DEF OwesOf

(* Every step keeps it.                                                    *)
LEMMA OwesStep ==
    ASSUME TypeInv, TypeInv', FreshInv, OwesInv, [Next]_vars
    PROVE  OwesInv'
<1>0. faults' = faults \/ faults' = faults + 1
  BY FaultsOnlyGrow
<1>00. \A r \in Runs : PaymentOf(r) \in Payments
  BY DEF Runs
<1>01. \A p : RunsOf(p) \subseteq Runs
  BY DEF RunsOf
<1>1. ASSUME UNCHANGED <<tx, jobs, pc>>,
             \A p \in Payments : ledger'[p]["release"] = ledger[p]["release"]
      PROVE  OwesInv'
  <2>1. /\ \A q : TriesLeft(q)' = TriesLeft(q)
        /\ \A s : (Sent(s)' <=> Sent(s)) /\ (Owing(s)' <=> Owing(s))
    BY <1>1 DEF TriesLeft, Sent, Owing, Owns, Owner, jobs
  <2> QED BY <1>0, <1>1, <2>1, OwesUntouched DEF OwesInv
<1>2. CASE ApiStep
  <2>1. ASSUME NEW p \in Payments, EnqueueExecution(p), UNCHANGED pc
        PROVE  OwesInv'
    <3>1. /\ queue[p] = "absent" /\ queue' = [queue EXCEPT ![p] = "waiting"]
          /\ UNCHANGED <<pc, tx, made, stalled, ledger>>
          /\ queue \in [Payments -> JobState]
      BY <2>1 DEF EnqueueExecution, db, TypeInv, TypeOK, StoreTypeOK
    <3>2. \A q \in Payments : TriesLeft(q)' = TriesLeft(q)
      BY <3>1 DEF TriesLeft
    <3>3. \A s \in Runs : Owns(s)' <=> Owns(s)
      BY <1>00, <3>1 DEF Owns, Owner
    <3>4. \A s \in Runs : (Sent(s)' <=> Sent(s)) /\ (Owing(s)' <=> Owing(s))
      BY <3>1, <3>3 DEF Sent, Owing
    <3> QED BY <1>0, <1>01, <3>1, <3>2, <3>4, OwesUntouched DEF OwesInv
  <2>2. ASSUME NEW p \in Payments, CreateIntent(p)
        PROVE  \A q \in Payments : ledger'[q]["release"] = ledger[q]["release"]
    BY <2>2 DEF CreateIntent, TypeInv, TypeOK, StoreTypeOK, EntryTypes
  <2> QED BY <1>1, <1>2, <2>1, <2>2 DEF ApiStep, CreateIntent
<1>3. CASE ChainStep
  <2>1. PICK r \in Runs :
          FinalizeTx(r) \/ DropTx(r) \/ RevertTx(r) \/ StickTx(r) \/ ForgetTx(r)
    BY <1>3 DEF ChainStep
  <2>2. PICK v \in TxState :
          /\ tx' = [tx EXCEPT ![r] = v]
          /\ \/ tx[r] = "sent" /\ v \in {"final", "dropped", "stuck"}
             \/ tx[r] \in {"sent", "final"} /\ v \in {"reverted", "forgotten"}
                /\ faults' = faults + 1
    BY <2>1 DEF FinalizeTx, DropTx, RevertTx, StickTx, ForgetTx, Throws, TxState
  <2>3. UNCHANGED <<pc, jobs, ledger>> /\ tx \in [Runs -> TxState]
    BY <1>3, <2>1 DEF ChainStep, FinalizeTx, DropTx, RevertTx, StickTx, ForgetTx, db,
       TypeInv, TypeOK, StoreTypeOK
  <2>4. /\ \A s : Owns(s)' <=> Owns(s)
        /\ \A q : TriesLeft(q)' = TriesLeft(q)
    BY <2>3 DEF Owns, Owner, TriesLeft, jobs
  <2>5. \A s \in Runs :
          s # r => (Sent(s)' <=> Sent(s)) /\ (Owing(s)' <=> Owing(s))
    BY <2>2, <2>3, <2>4 DEF Sent, Owing
  <2>6. /\ Sent(r)
        /\ \/ Owing(r)' => Owing(r)
           \/ ~ Sent(r)'
           \/ faults' = faults + 1
    BY <2>2, <2>3, <2>4 DEF Sent, Owing
  <2>7. Debt(r)' - faults' <= Debt(r) - faults
    <3>1. /\ TriesLeft(PaymentOf(r)) \in Nat /\ faults \in Nat
          /\ ledger[PaymentOf(r)]["release"] \in Nat
      BY <1>00, OwesTypes
    <3>2. Debt(r)' = ledger[PaymentOf(r)]["release"] + (IF Sent(r)' THEN 1 ELSE 0)
                     + (IF Owing(r)' THEN 1 ELSE 0) + TriesLeft(PaymentOf(r))
      BY <2>3, <2>4 DEF Debt
    <3> QED BY <1>0, <2>6, <3>1, <3>2 DEF Debt
  <2> QED BY <1>0, <2>3, <2>4, <2>5, <2>7, OneRunOwes
<1>4. CASE ExecutionStep
  <2>1. ASSUME NEW p \in Payments, StartRun(p) \/ StallJob(p)
        PROVE  OwesInv'
    <3>1. PICK r \in Runs :
            /\ r = Owner(p) /\ PaymentOf(r) = p
            /\ UNCHANGED <<tx, made>>
            /\ \A s \in Runs : s # r => pc'[s] = pc[s] /\ (Owns(s)' <=> Owns(s))
            /\ \A q \in Payments : q # p => queue'[q] = queue[q]
      BY <2>1, JobLeavesOthers
    <3>2. \A s \in Runs :
            s # r => (Sent(s)' <=> Sent(s)) /\ (Owing(s)' <=> Owing(s))
      BY <3>1 DEF Sent, Owing
    <3>3. /\ Sent(r)' <=> Sent(r)
          /\ \A q \in Payments : q # p => TriesLeft(q)' = TriesLeft(q)
          /\ UNCHANGED ledger
      BY <2>1, <3>1 DEF Sent, TriesLeft, StartRun, StallJob, db
    <3>4. /\ ledger[p]["release"] \in Nat /\ made[p] \in Nat
          /\ MaxAttempts \in Nat /\ faults \in Nat
      BY OwesTypes
    <3>5. Debt(r)' - faults' <= Debt(r) - faults
      <4>0. /\ Debt(r) = ledger[p]["release"] + (IF Sent(r) THEN 1 ELSE 0)
                         + (IF Owing(r) THEN 1 ELSE 0) + TriesLeft(p)
            /\ Debt(r)' = ledger[p]["release"] + (IF Sent(r)' THEN 1 ELSE 0)
                          + (IF Owing(r)' THEN 1 ELSE 0) + TriesLeft(p)'
        BY <3>1, <3>3 DEF Debt, TriesLeft
      <4>1. CASE StartRun(p)
        <5>1. pc[r] = "idle" /\ ~ Owing(r)
          BY <3>1, <4>1, OwnerIsFresh DEF StartRun, Owing
        <5>2. queue[p] = "waiting" /\ queue'[p] = "active" /\ made'[p] = made[p]
          BY <4>1 DEF StartRun, TypeInv, TypeOK, StoreTypeOK
        <5>3. TriesLeft(p) = MaxAttempts - made[p]
              /\ TriesLeft(p)' = MaxAttempts - made[p] - 1
          BY <5>2 DEF TriesLeft
        <5> QED BY <1>0, <3>3, <3>4, <4>0, <5>1, <5>3
      <4>2. CASE StallJob(p)
        <5>1. /\ Owns(r) /\ ~ Owns(r)'
              /\ pc'[r] = pc[r] /\ UNCHANGED tx
              /\ pc[r] = "dead" \/ faults' = faults + 1
          BY <3>1, <4>2 DEF StallJob, Owns, Throws, TypeInv, TypeOK, StoreTypeOK
        <5>2. \/ Owing(r) /\ ~ Owing(r)'
              \/ (Owing(r)' => Owing(r)) /\ faults' = faults + 1
          BY <5>1 DEF Owing
        <5>3. /\ queue[p] = "active" /\ queue'[p] \in {"waiting", "failed"}
              /\ made'[p] = made[p] /\ made[p] < MaxAttempts
          BY <4>2 DEF StallJob, TypeInv, TypeOK, StoreTypeOK, JobsOK
        <5>4. TriesLeft(p) = MaxAttempts - made[p] - 1
              /\ (TriesLeft(p)' = MaxAttempts - made[p] \/ TriesLeft(p)' = 0)
          BY <5>3 DEF TriesLeft
        <5> QED BY <1>0, <3>3, <3>4, <4>0, <5>2, <5>3, <5>4
      <4> QED BY <2>1, <4>1, <4>2
    <3> QED BY <1>0, <3>1, <3>2, <3>3, <3>5, OneRunOwes
  <2> QED BY <1>0, <1>4, <2>1, ExecutionSteps, RunOwes
<1>5. CASE ConfirmationStep
  BY <1>1, <1>5, ScanStepAttempts, ScanStepLedger DEF ConfirmationStep, ConfirmationNext
<1>6. CASE UNCHANGED vars
  BY <1>1, <1>6 DEF vars, store, db
<1> QED BY <1>2, <1>3, <1>4, <1>5, <1>6 DEF Next

(* Whatever fails a job's tries, each over with a release or a transfer,   *)
(* are all the releases and transfers its payment gets, but for one more   *)
(* that each fault brings (execution.worker.ts, and the retries of         *)
(* queue.ts).                                                              *)
THEOREM OwesInvariant == Spec => []OwesInv
<1>1. SettlementInv /\ SettlementInv' /\ OwesInv /\ [Next]_vars => OwesInv'
  BY OwesStep DEF SettlementInv
<1> QED BY <1>1, OwesInit, SettlementInvariant, PTL DEF Spec

(* M scans of C transfers, of which there are N at most, and each of which *)
(* took a try.                                                             *)
LEMMA ScansTimesTransfers ==
    ASSUME NEW M \in Nat, NEW C \in Nat, NEW N \in Nat, M # 0, C <= N
    PROVE  /\ M * C \in Int /\ M * N \in Int
           /\ M * C - C <= M * N - N
<1>1. PICK k \in Nat : M = k + 1
  <2>1. M - 1 \in Nat /\ M = (M - 1) + 1
    OBVIOUS
  <2> QED BY <2>1
<1>2. PICK d \in Nat : N = C + d
  <2>1. N - C \in Nat /\ N = C + (N - C)
    OBVIOUS
  <2> QED BY <2>1
<1>3. M * C \in Int /\ M * N \in Int
  OBVIOUS
<1>4. k * d \in Nat /\ k * C \in Int
  OBVIOUS
<1>5. M * C = k * C + C
  BY <1>1
<1>6. M * N = k * C + k * d + C + d
  BY <1>1, <1>2
<1> QED BY <1>2, <1>3, <1>4, <1>5, <1>6

(* Only transfers that were sent are confirmed, and none of a payment that *)
(* does not exist.                                                         *)
LEMMA ConfirmedAreSent ==
    ASSUME RunInv, AcceptedInv, NEW p \in Payments
    PROVE  /\ Cardinality(Confirmed(p)) \in Nat
           /\ Cardinality(Confirmed(p)) <= Cardinality(SentOf(p))
           /\ status[p] = "none" => Cardinality(Confirmed(p)) = 0
<1>1. Confirmed(p) \subseteq SentOf(p)
  BY DEF Confirmed, SentOf, Sent, RunInv, OnChain, RunsOf
<1>2. status[p] = "none" => Confirmed(p) = {}
  BY DEF Confirmed, RunsOf, AcceptedInv, RunInv, BeforeInsert
<1>3. Cardinality({}) = 0
  BY FS_EmptySet
<1> QED BY <1>1, <1>2, <1>3, CountsAreFinite, SendsAreFinite, FS_Subset, FS_CardinalityType

(* Each try that does not send returns the reserve once at most, and each  *)
(* scan spends once at most on each transfer.                              *)
LEMMA GoneAtMost ==
    ASSUME TypeInv, RunInv, AcceptedInv, SendsInv, OwesInv, ReservedOnce,
           NEW returned \in [Payments -> Nat], NEW spent \in [Payments -> Nat],
           Accounts(returned, spent), NEW p \in Payments
    PROVE  /\ Extra + 1 \in Int /\ ledger[p]["reserve"] \in Int
           /\ returned[p] + spent[p] <= (Extra + 1) * ledger[p]["reserve"]
<1> DEFINE k == Cardinality(Pollers)
           C == Cardinality(Confirmed(p))
           N == 1 + faults
<1>1. k \in Nat /\ k # 0
  BY FinitenessAssumption, FS_CardinalityType, FS_EmptySet
<1>2. /\ MaxAttempts \in Nat /\ faults \in Nat /\ N \in Nat
      /\ returned[p] \in Nat /\ spent[p] \in Nat /\ ledger[p]["release"] \in Nat
      /\ ledger[p]["reserve"] = IF status[p] = "none" THEN 0 ELSE 1
      /\ status[p] = "none" => ledger[p]["release"] = 0
  BY OwesTypes DEF ReservedOnce
<1>3. returned[p] <= ledger[p]["release"]
  <2>1. Cardinality(RunsAt(p, "unreserve")) \in Nat
    BY CountsAreFinite
  <2>2. returned[p] + Cardinality(RunsAt(p, "unreserve")) <= ledger[p]["release"]
    BY DEF Accounts
  <2> QED BY <1>2, <2>1, <2>2
<1>4. C \in Nat /\ (status[p] = "none" => C = 0)
  BY ConfirmedAreSent
<1>5. C <= N /\ ledger[p]["release"] + C <= MaxAttempts + faults
  <2>1. /\ Cardinality(SentOf(p)) + Cardinality(LeadingOn(p)) + ToCome(p) <= 1 + faults
        /\ ledger[p]["release"] + Cardinality(SentOf(p)) + Cardinality(OwingOf(p))
             + TriesLeft(p) <= MaxAttempts + faults
    BY DEF SendsInv, SendsOf, OwesInv, OwesOf
  <2>2. ToCome(p) \in Nat
    BY DEF ToCome
  <2>3. /\ Cardinality(SentOf(p)) \in Nat /\ Cardinality(LeadingOn(p)) \in Nat
        /\ Cardinality(OwingOf(p)) \in Nat /\ TriesLeft(p) \in Nat
    BY OwesTypes, SendsAreFinite
  <2>4. C <= Cardinality(SentOf(p))
    BY ConfirmedAreSent
  <2> HIDE DEF C
  <2> QED BY <1>2, <1>4, <2>1, <2>2, <2>3, <2>4
<1>6. spent[p] <= k * C
  <2>1. spent[p] <= Cardinality(Behind(p))
    BY DEF Accounts
  <2>2. Cardinality(Behind(p)) \in Nat
    BY CountsAreFinite
  <2>3. Cardinality(Behind(p)) <= k * C
    BY SpentAtMost
  <2> HIDE DEF k, C
  <2>4. PICK m \in Int : m = k * C
    BY <1>1, <1>4
  <2> QED BY <1>2, <2>1, <2>2, <2>3, <2>4
<1>7. Extra = MaxAttempts + k * N - 2
  BY DEF Extra
<1> HIDE DEF k, C, N
<1>8. k * C \in Int /\ k * N \in Int /\ k * C - C <= k * N - N
  BY <1>1, <1>2, <1>4, <1>5, ScansTimesTransfers
<1>9. PICK few \in Int, many \in Int : few = k * C /\ many = k * N
  BY <1>8
<1>10. Extra + 1 \in Int /\ returned[p] + spent[p] <= Extra + 1
  BY <1>2, <1>3, <1>4, <1>5, <1>6, <1>7, <1>8, <1>9 DEF N
<1>11. ASSUME status[p] = "none"
       PROVE  returned[p] + spent[p] <= 0
  <2>1. few = 0
    BY <1>1, <1>4, <1>9, <1>11
  <2> QED BY <1>2, <1>3, <1>6, <1>9, <1>11, <2>1
<1> QED BY <1>2, <1>10, <1>11

(* Nothing was taken off the reserve of a payment that is neither released *)
(* nor confirmed.                                                          *)
LEMMA StandingIsWhole ==
    ASSUME TypeInv, NEW returned \in [Payments -> Nat], NEW spent \in [Payments -> Nat],
           Accounts(returned, spent), NEW p \in Payments,
           ledger[p]["release"] = 0, Confirmed(p) = {}
    PROVE  returned[p] + spent[p] = 0
<1>1. returned[p] = 0
  <2>1. Cardinality(RunsAt(p, "unreserve")) \in Nat
    BY CountsAreFinite
  <2>2. returned[p] + Cardinality(RunsAt(p, "unreserve")) <= ledger[p]["release"]
    BY DEF Accounts
  <2> QED BY <2>1, <2>2
<1>2. spent[p] = 0
  <2>1. spent[p] <= Cardinality(Behind(p))
    BY DEF Accounts
  <2>2. Behind(p) = {}
    BY DEF Behind, Confirmed
  <2> QED BY <2>1, <2>2, FS_EmptySet
<1> QED BY <1>1, <1>2

(* What a wallet promised to payments that are neither released nor        *)
(* confirmed is in its row, and what is in its row it has, but for one     *)
(* reserve of each other payment for each try beyond the first and for     *)
(* each scan of each transfer, of which each fault may add one             *)
(* (execution.worker.ts with its queue options, and the interval of        *)
(* confirmation.worker.ts): with one try, one scan and no fault it never   *)
(* promises more than it has.                                              *)
THEOREM PromisesStayCovered == Spec => []PromisesCovered
<1> DEFINE Inv ==
      /\ SettlementInv /\ AcceptedInv /\ SendsInv /\ OwesInv /\ BooksInv
      /\ ReservedOnce
<1>1. Init => AcceptedInv /\ ReservedOnce
  BY AcceptedInit, ReservedOnceInit
<1>2. Inv /\ [Next]_vars => AcceptedInv' /\ ReservedOnce'
  BY AcceptedStep, ReservedOnceStep DEF SettlementInv
<1>3. Inv /\ (\A c \in Chains : reserved[c] <= available[c]) => PromisesCovered
  <2> SUFFICES ASSUME Inv, NEW c \in Chains
               PROVE  Promised(c) - Extra * (ReservedEntries(c) - Promised(c))
                        <= reserved[c]
    BY DEF PromisesCovered
  <2>0. TypeInv /\ RunInv
    BY DEF SettlementInv
  <2>1. PICK returned \in [Payments -> Nat], spent \in [Payments -> Nat] :
          Wallets(returned, spent) /\ Accounts(returned, spent)
    BY DEF BooksInv
  <2> DEFINE Standing(p) == ledger[p]["release"] = 0 /\ Confirmed(p) = {}
             set == [p \in Payments |-> ledger[p]["reserve"]]
             stands == [p \in Payments |->
                          IF ledger[p]["release"] = 0 /\ Confirmed(p) = {}
                          THEN ledger[p]["reserve"] ELSE 0]
             through == [p \in Payments |-> IF Standing(p) THEN 0
                                            ELSE ledger[p]["reserve"]]
             both == [p \in Payments |-> stands[p] + through[p]]
             gone == [p \in Payments |-> returned[p] + spent[p]]
             most == [p \in Payments |-> (Extra + 1) * through[p]]
  <2>2. Extra \in Int /\ Extra + 1 \in Int
    <3>1. /\ MaxAttempts \in Int /\ faults \in Int
          /\ Cardinality(Pollers) \in Int
      BY <2>0, LimitsAssumption, FinitenessAssumption, FS_CardinalityType
         DEF TypeInv, TypeOK, StoreTypeOK
    <3>2. Cardinality(Pollers) * (1 + faults) \in Int
      BY <3>1
    <3> QED BY <3>1, <3>2 DEF Extra
  <2>3. /\ set \in [Payments -> Int] /\ gone \in [Payments -> Int]
        /\ stands \in [Payments -> Int] /\ through \in [Payments -> Int]
        /\ returned \in [Payments -> Int] /\ spent \in [Payments -> Int]
    BY <2>0 DEF TypeInv, TypeOK, StoreTypeOK, EntryTypes
  <2>4. most \in [Payments -> Int] /\ \A p \in Payments : gone[p] <= most[p]
    <3>1. ASSUME NEW p \in Payments
          PROVE  (Extra + 1) * through[p] \in Int /\ gone[p] <= (Extra + 1) * through[p]
      <4>1. CASE Standing(p)
        <5>1. gone[p] = 0
          BY <2>0, <2>1, <4>1, StandingIsWhole
        <5>2. (Extra + 1) * through[p] = 0
          BY <2>2, <4>1
        <5> QED BY <5>1, <5>2
      <4>2. CASE ~ Standing(p)
        <5>1. /\ ledger[p]["reserve"] \in Int
              /\ returned[p] + spent[p] <= (Extra + 1) * ledger[p]["reserve"]
          BY <2>0, <2>1, GoneAtMost
        <5>2. through[p] = ledger[p]["reserve"]
          BY <4>2
        <5> HIDE DEF through
        <5> QED BY <2>2, <5>1, <5>2
      <4> QED BY <4>1, <4>2
    <3> QED BY <3>1
  <2>5. /\ Total(gone, c) = Total(returned, c) + Total(spent, c)
        /\ Total(both, c) = Total(stands, c) + Total(through, c)
    <3> HIDE DEF stands, through
    <3> QED BY <2>3, TotalSum
  <2>6. Total(most, c) = (Extra + 1) * Total(through, c)
    <3> HIDE DEF through
    <3> QED BY <2>2, <2>3, TotalScale
  <2>7. /\ ReservedEntries(c) = Total(set, c)
        /\ Promised(c) = Total(stands, c)
    BY DEF ReservedEntries, Promised
  <2>70. both = set
    <3>1. \A p \in Payments : stands[p] + through[p] = set[p]
      BY <2>0 DEF TypeInv, TypeOK, StoreTypeOK, EntryTypes
    <3> HIDE DEF stands, through
    <3> QED BY <3>1
  <2> HIDE DEF set, stands, through, both, gone, most
  <2>8. Total(gone, c) <= Total(most, c)
    BY <2>3, <2>4, TotalMonotonic
  <2>9. /\ Total(gone, c) \in Int /\ Total(set, c) \in Int
        /\ Total(stands, c) \in Int /\ Total(through, c) \in Int
        /\ Total(returned, c) \in Int /\ Total(spent, c) \in Int
    BY <2>3, TotalInt
  <2>10. reserved[c] = Total(set, c) - Total(returned, c) - Total(spent, c)
    <3>1. reserved[c] \in Int
      BY <2>0 DEF TypeInv, TypeOK, StoreTypeOK
    <3>2. /\ reserved[c] + Deducted(c) = Total(set, c) - Total(returned, c)
          /\ Deducted(c) = Total(spent, c)
      BY <2>1, <2>7 DEF Wallets
    <3> QED BY <2>9, <3>1, <3>2
  <2>11. (Extra + 1) * Total(through, c) = Extra * Total(through, c) + Total(through, c)
         /\ Extra * Total(through, c) \in Int
    BY <2>2, <2>9
  <2>12. ReservedEntries(c) - Promised(c) = Total(through, c)
    BY <2>5, <2>7, <2>70, <2>9
  <2>13. PICK t \in Int, m \in Int : t = Total(through, c) /\ m = Extra * t
    BY <2>9, <2>11
  <2>14. Promised(c) - Extra * (ReservedEntries(c) - Promised(c)) = Total(stands, c) - m
    BY <2>7, <2>12, <2>13
  <2>15. Total(set, c) = Total(stands, c) + t /\ Total(gone, c) <= m + t
    BY <2>5, <2>6, <2>70, <2>8, <2>11, <2>13
  <2> QED BY <2>5, <2>9, <2>10, <2>13, <2>14, <2>15
<1> QED
  BY <1>1, <1>2, <1>3, SettlementInvariant, SendsInvariant, OwesInvariant,
     BooksInvariant, RowStaysCovered, PTL DEF Spec

-----------------------------------------------------------------------------
(***************************************************************************)
(* The books of a payment that is through.                                 *)
(***************************************************************************)

(* While nothing fails only the run that has or had the job is confirmed.  *)
LEMMA ConfirmedOnce ==
    ASSUME CalmRecords, NEW p \in Payments
    PROVE  Cardinality(Confirmed(p)) = IF Confirmed(p) = {} THEN 0 ELSE 1
<1>1. Confirmed(p) \subseteq {Owner(p)}
  BY DEF Confirmed, CalmRecords, Holds, RunsOf, Recorded
<1>2. Cardinality({}) = 0 /\ Cardinality({Owner(p)}) = 1
  BY FS_EmptySet, FS_Singleton
<1> QED BY <1>1, <1>2

(* At rest the one attempt that may be confirmed was debited and told, and *)
(* nothing was deducted, let alone told, of any other.                     *)
LEMMA RestClosesBooks ==
    ASSUME TypeInv, CalmRecords, CalmLedger, ConfirmedTold, BooksInv,
           NEW p \in Payments, AtRest(p)
    PROVE  /\ ledger[p]["debit"] = Cardinality(Confirmed(p))
           /\ Cardinality(Confirmed(p)) <= events[p]["payment.settled"]
           /\ events[p]["payment.settled"]
                <= Cardinality(Pollers) * Cardinality(Confirmed(p))
           /\ ledger[p]["release"] = events[p]["payment.failed"]
<1>1. \A r \in RunsOf(p) : /\ r \in Runs /\ PaymentOf(r) = p
                           /\ pc[r] \notin Live /\ attempt[r] # "broadcasted"
                           /\ \A w \in Pollers : at[w] # r
  BY DEF AtRest, RunsOf
<1>2. \A r \in RunsOf(p) : (Entered(r) <=> r \in Confirmed(p)) /\ ~ Releasing(r)
  BY <1>1 DEF Entered, Releasing, Confirmed, Recorded, Live, Trying, Catching
<1>3. Confirmed(p) \subseteq RunsOf(p)
  BY DEF Confirmed
<1>4. Cardinality(Confirmed(p)) = IF Confirmed(p) = {} THEN 0 ELSE 1
  BY ConfirmedOnce
<1>5. /\ events[p]["payment.failed"] \in Nat /\ events[p]["payment.settled"] \in Nat
  BY DEF TypeInv, TypeOK, StoreTypeOK, EventTypes
<1>6. /\ ledger[p]["debit"] = Cardinality(Confirmed(p))
      /\ ledger[p]["release"] = events[p]["payment.failed"]
  <2>1. /\ (\E r \in RunsOf(p) : Entered(r)) <=> Confirmed(p) # {}
        /\ ~ \E r \in RunsOf(p) : Releasing(r)
    BY <1>2, <1>3
  <2> QED BY <1>4, <1>5, <2>1 DEF CalmLedger
<1>7. Cardinality(Confirmed(p)) <= events[p]["payment.settled"]
  <2>1. ASSUME Confirmed(p) # {}
        PROVE  events[p]["payment.settled"] > 0
    <3>1. PICK r \in RunsOf(p) : attempt[r] = "confirmed"
      BY <2>1 DEF Confirmed
    <3> QED BY <1>1, <3>1 DEF ConfirmedTold
  <2> QED BY <1>4, <1>5, <2>1
<1>8. events[p]["payment.settled"] <= Cardinality(Pollers) * Cardinality(Confirmed(p))
  <2>1. PICK returned \in [Payments -> Nat], spent \in [Payments -> Nat] :
          Accounts(returned, spent)
    BY DEF BooksInv
  <2>2. /\ spent[p] \in Nat /\ Cardinality(Announcing(p)) \in Nat
        /\ Cardinality(Behind(p)) \in Nat
    BY CountsAreFinite
  <2>3. /\ events[p]["payment.settled"] + Cardinality(Announcing(p)) <= spent[p]
        /\ spent[p] <= Cardinality(Behind(p))
    BY <2>1 DEF Accounts
  <2>4. /\ Cardinality(Pollers) \in Nat /\ Cardinality(Confirmed(p)) \in Nat
        /\ Cardinality(Behind(p)) <= Cardinality(Pollers) * Cardinality(Confirmed(p))
    BY SpentAtMost
  <2>5. PICK m \in Int : m = Cardinality(Pollers) * Cardinality(Confirmed(p))
    BY <2>4
  <2> QED BY <1>5, <2>2, <2>3, <2>4, <2>5
<1> QED BY <1>6, <1>7, <1>8

(* While nothing fails the books of a payment whose job is through close:  *)
(* its debits are its confirmed attempts, its releases are its failed      *)
(* events, and a settled event was sent for each confirmed attempt, and by *)
(* each scan at most once (execution.worker.ts, confirmation.worker.ts).   *)
THEOREM BooksAlwaysClose == Spec => []BooksClose
<1>1. SettlementInv /\ LedgerInv /\ ToldInv /\ BooksInv => BooksClose
  BY RestClosesBooks DEF BooksClose, SettlementInv, LedgerInv, ToldInv
<1> QED BY <1>1, SettlementInvariant, CalmBooksInvariant, BooksInvariant, PTL
=============================================================================
