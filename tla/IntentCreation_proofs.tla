------------------------ MODULE IntentCreation_proofs ------------------------
(***************************************************************************)
(* Proofs about the creation of payment intents, for any number of         *)
(* requests, keys, quotes and wallets.                                     *)
(***************************************************************************)
EXTENDS IntentCreation, Sums_proofs

(* What the row lock gives: a request in its transaction holds the row of  *)
(* its wallet, and the room it found there is still there.                 *)
Open == InTransaction \ {"rollback"}

LockInv ==
    \A r \in Requests : pc[r] \in Open =>
        /\ lock[Wallet(r)] = r
        /\ Price(r) <= available[Wallet(r)] - reserved[Wallet(r)]

(* What the unique index gives: one transaction at a time has inserted a   *)
(* key, and only one that no intent has.                                   *)
KeyInv ==
    \A r \in Requests : pc[r] \in Inserted =>
        /\ intent[KeyOf[r]] = None
        /\ \A s \in Requests :
             s # r /\ KeyOf[s] = KeyOf[r] => pc[s] \notin Inserted

AnswerInv ==
    /\ \A r \in Requests :
         /\ id[r] # None => id[r] = intent[KeyOf[r]]
         /\ pc[r] \in {"enqueue", "done"} => id[r] # None
         /\ pc[r] = "done" => KeyOf[r] \in queued
    /\ \A k \in queued : intent[k] # None
    /\ \A k \in Keys : intent[k] = None => lowered[k] = 0

CreationInv == TypeOK /\ LockInv /\ KeyInv /\ AnswerInv /\ NoOversubscription

(* What the constants are, in the form the steps use.                      *)
LEMMA Constants ==
    /\ \A r \in Requests : /\ KeyOf[r] \in Keys
                           /\ QuoteOf[r] \in Quotes
                           /\ Wallet(r) \in Chains
                           /\ Price(r) \in Nat /\ Price(r) > 0
    /\ None \notin Requests
BY RequestsAssumption, QuotesAssumption DEF Wallet, Price

(* What workers lower is the reserve of an intent of the table.            *)
LEMMA LoweredIntent ==
    ASSUME TypeOK, AnswerInv, NEW k \in Keys, WorkerReturns(k) \/ WorkerDeducts(k)
    PROVE  LET q == QuoteOf[intent[k]]
           IN  /\ k \in queued /\ intent[k] \in Requests
               /\ q \in Quotes /\ ChainOf[q] \in Chains /\ Amount[q] \in Nat
               /\ ChainOf[q] = Wallet(intent[k]) /\ Amount[q] = Price(intent[k])
               /\ lock[ChainOf[q]] = None
               /\ lowered[k] < MaxLowered
               /\ lowered' = [lowered EXCEPT ![k] = @ + 1]
               /\ reserved' = [reserved EXCEPT ![ChainOf[q]] = @ - Amount[q]]
               /\ \/ available' = [available EXCEPT ![ChainOf[q]] = @ - Amount[q]]
                  \/ UNCHANGED available
               /\ UNCHANGED <<pc, id, intent, entries, lock, queued, fresh, faults>>
<1>1. k \in queued /\ intent[k] \in Requests
  BY DEF TypeOK, AnswerInv, WorkerReturns, WorkerDeducts, LowerReserve
<1> QED
  BY <1>1, RequestsAssumption, QuotesAssumption
     DEF WorkerReturns, WorkerDeducts, LowerReserve, Wallet, Price

(* Every step leaves every variable in its type.                           *)
LEMMA TypeStep ==
    ASSUME TypeOK, AnswerInv, [Next]_vars
    PROVE  TypeOK'
<1> USE Constants DEF TypeOK, Pc, Working, Connected, InTransaction, Goto
<1>0. Throws \/ UNCHANGED faults => faults' \in 0 .. MaxFaults
  BY QuotesAssumption DEF Throws
<1>1. \A r \in Requests : Release(r) => lock' \in [Chains -> Requests \cup {None}]
  BY DEF Release
<1>2. ASSUME NEW r \in Requests, Submit(r) PROVE TypeOK'
  BY <1>2 DEF Submit, tables
<1>3. ASSUME NEW r \in Requests, LookupKey(r) PROVE TypeOK'
  BY <1>3 DEF LookupKey, tables
<1>4. ASSUME NEW r \in Requests, CheckQuote(r) \/ Connect(r) PROVE TypeOK'
  BY <1>4 DEF CheckQuote, Connect, tables
<1>5. ASSUME NEW r \in Requests, LockTreasury(r) PROVE TypeOK'
  BY <1>5 DEF LockTreasury, tables
<1>6. ASSUME NEW r \in Requests,
             UpdateReserved(r) \/ InsertIntent(r) \/ InsertEntry(r)
      PROVE  TypeOK'
  BY <1>6 DEF UpdateReserved, InsertIntent, InsertEntry, tables
<1>7. ASSUME NEW r \in Requests, Commit(r) PROVE TypeOK'
  <2>1. reserved' \in [Chains -> Int]
    <3>1. reserved[Wallet(r)] + Price(r) \in Int
      OBVIOUS
    <3> QED BY <1>7, <3>1 DEF Commit, ApplyTransaction
  <2>2. intent' \in [Keys -> Requests \cup {None}] /\ entries' \in [Keys -> Nat]
        /\ UNCHANGED <<lowered, available>>
    BY <1>7 DEF Commit, ApplyTransaction
  <2>3. pc' \in [Requests -> Pc] /\ id' \in [Requests -> Requests \cup {None}]
        /\ UNCHANGED <<queued, fresh>>
    BY <1>7 DEF Commit
  <2>4. faults' \in 0 .. MaxFaults /\ lock' \in [Chains -> Requests \cup {None}]
    BY <1>0, <1>1, <1>7 DEF Commit, ApplyTransaction
  <2> QED BY <2>1, <2>2, <2>3, <2>4
<1>8. ASSUME NEW r \in Requests, Rollback(r) PROVE TypeOK'
  BY <1>1, <1>8 DEF Rollback, tables
<1>9. ASSUME NEW r \in Requests, Enqueue(r) PROVE TypeOK'
  BY <1>0, <1>9 DEF Enqueue, tables
<1>10. ASSUME NEW r \in Requests, StatementThrows(r) PROVE TypeOK'
  BY <1>0, <1>10 DEF StatementThrows, tables
<1>11. ASSUME NEW r \in Requests, RequestDies(r) PROVE TypeOK'
  BY <1>0, <1>1, <1>11 DEF RequestDies, tables
<1>12. ASSUME NEW q \in fresh, QuoteExpires(q) PROVE TypeOK'
  BY <1>12 DEF QuoteExpires, tables
<1>13. ASSUME NEW k \in Keys, WorkerReturns(k) \/ WorkerDeducts(k) PROVE TypeOK'
  <2> DEFINE q == QuoteOf[intent[k]]
  <2>1. /\ q \in Quotes /\ ChainOf[q] \in Chains /\ Amount[q] \in Nat
        /\ lowered[k] < MaxLowered
        /\ lowered' = [lowered EXCEPT ![k] = @ + 1]
        /\ reserved' = [reserved EXCEPT ![ChainOf[q]] = @ - Amount[q]]
        /\ \/ available' = [available EXCEPT ![ChainOf[q]] = @ - Amount[q]]
           \/ UNCHANGED available
        /\ UNCHANGED <<pc, id, intent, entries, lock, queued, fresh, faults>>
    BY <1>13, LoweredIntent
  <2>2. /\ reserved[ChainOf[q]] - Amount[q] \in Int
        /\ available[ChainOf[q]] - Amount[q] \in Int
        /\ lowered[k] + 1 \in 0 .. MaxLowered
    BY <2>1, QuotesAssumption
  <2> HIDE DEF q
  <2> QED BY <2>1, <2>2
<1>14. CASE UNCHANGED vars
  BY <1>14 DEF vars, tables
<1> QED
  BY <1>2, <1>3, <1>4, <1>5, <1>6, <1>7, <1>8, <1>9, <1>10, <1>11, <1>12,
     <1>13, <1>14 DEF Next, HandlerStep

(* The row lock is kept, and with it the room, by every step of the        *)
(* request that holds it and of all the others.                            *)
LEMMA LockStep ==
    ASSUME CreationInv, [Next]_vars
    PROVE  LockInv'
<1> USE Constants DEF CreationInv, TypeOK, Pc, Working, Connected, InTransaction, Open,
                      Goto, LockInv
<1>1. ASSUME NEW r \in Requests,
             \/ Submit(r) \/ LookupKey(r) \/ CheckQuote(r) \/ Connect(r) \/ UpdateReserved(r)
             \/ InsertIntent(r) \/ InsertEntry(r) \/ Enqueue(r) \/ StatementThrows(r)
      PROVE  LockInv'
  <2>1. UNCHANGED <<available, reserved, lock>>
    BY <1>1 DEF Submit, LookupKey, CheckQuote, Connect, UpdateReserved, InsertIntent,
                InsertEntry, Enqueue, StatementThrows, tables
  <2>2. /\ pc' \in [Requests -> Pc]
        /\ \A s \in Requests : s # r => pc'[s] = pc[s]
    BY <1>1 DEF Submit, LookupKey, CheckQuote, Connect, UpdateReserved, InsertIntent,
                InsertEntry, Enqueue, StatementThrows
  <2>3. pc'[r] \in Open => pc[r] \in Open
    BY <1>1 DEF Submit, LookupKey, CheckQuote, Connect, UpdateReserved, InsertIntent,
                InsertEntry, Enqueue, StatementThrows
  <2> QED BY <2>1, <2>2, <2>3 DEF Wallet, Price
<1>2. ASSUME NEW r \in Requests, LockTreasury(r) PROVE LockInv'
  <2>1. /\ UNCHANGED <<available, reserved>>
        /\ lock[Wallet(r)] = None
        /\ lock' = [lock EXCEPT ![Wallet(r)] = r]
        /\ pc' = [pc EXCEPT ![r] = IF available[Wallet(r)] - reserved[Wallet(r)] < Price(r)
                                   THEN "rollback" ELSE "reserve"]
    BY <1>2 DEF LockTreasury, tables
  <2>2. \A s \in Requests : s # r /\ pc[s] \in Open => Wallet(s) # Wallet(r)
    BY <2>1
  <2>3. lock'[Wallet(r)] = r
    BY <2>1
  <2>4. pc'[r] # "rollback" =>
          Price(r) <= available[Wallet(r)] - reserved[Wallet(r)]
    BY <2>1
  <2>5. ASSUME NEW s \in Requests, s # r, pc'[s] \in Open
        PROVE  pc[s] \in Open /\ pc'[s] = pc[s] /\ lock'[Wallet(s)] = s
    BY <2>1, <2>2, <2>5
  <2> QED BY <2>1, <2>3, <2>4, <2>5 DEF Wallet, Price
<1>3. ASSUME NEW r \in Requests, Release(r),
             \A s \in Requests : s # r => pc'[s] = pc[s],
             pc'[r] \notin Open,
             \A s \in Requests : s # r /\ pc[s] \in Open =>
                /\ UNCHANGED available
                /\ reserved'[Wallet(s)] = reserved[Wallet(s)]
      PROVE  LockInv'
  <2>1. \A s \in Requests : s # r /\ pc[s] \in Open => lock'[Wallet(s)] = s
    BY <1>3 DEF Release
  <2> QED BY <1>3, <2>1 DEF Wallet, Price
<1>4. ASSUME NEW r \in Requests, Commit(r) PROVE LockInv'
  <2>1. pc[r] = "commit" /\ Release(r) /\ UNCHANGED available
        /\ reserved' = [reserved EXCEPT ![Wallet(r)] = @ + Price(r)]
    BY <1>4 DEF Commit, ApplyTransaction
  <2>2. pc'[r] \in {"enqueue", "failed"} /\ \A s \in Requests : s # r => pc'[s] = pc[s]
    BY <1>4 DEF Commit
  <2>3. \A s \in Requests : s # r /\ pc[s] \in Open => Wallet(s) # Wallet(r)
    BY <2>1
  <2>4. \A s \in Requests : s # r /\ pc[s] \in Open =>
          reserved'[Wallet(s)] = reserved[Wallet(s)]
    BY <2>1, <2>3
  <2> QED BY <1>3, <2>1, <2>2, <2>4
<1>5. ASSUME NEW r \in Requests, Rollback(r) \/ RequestDies(r) PROVE LockInv'
  <2>1. /\ Release(r) /\ UNCHANGED <<available, reserved>>
        /\ pc' = [pc EXCEPT ![r] = "failed"]
    BY <1>5 DEF Rollback, RequestDies, tables
  <2> QED BY <1>3, <2>1
<1>6. ASSUME NEW k \in Keys, WorkerReturns(k) \/ WorkerDeducts(k) PROVE LockInv'
  <2>0. PICK c : c = ChainOf[QuoteOf[intent[k]]]
    OBVIOUS
  <2>1. /\ c \in Chains /\ lock[c] = None /\ UNCHANGED <<pc, lock>>
        /\ reserved' = [reserved EXCEPT ![c] = @ - Amount[QuoteOf[intent[k]]]]
        /\ \/ available' = [available EXCEPT ![c] = @ - Amount[QuoteOf[intent[k]]]]
           \/ UNCHANGED available
    BY <1>6, <2>0, LoweredIntent
  <2>2. \A s \in Requests : pc[s] \in Open => Wallet(s) # c
    BY <2>1
  <2>3. \A d \in Chains : d # c =>
          reserved'[d] = reserved[d] /\ available'[d] = available[d]
    BY <2>1
  <2> QED BY <2>1, <2>2, <2>3 DEF Wallet, Price
<1>7. ASSUME NEW q \in fresh, QuoteExpires(q) PROVE LockInv'
  BY <1>7 DEF QuoteExpires, tables, Wallet, Price
<1>8. CASE UNCHANGED vars
  BY <1>8 DEF vars, tables, Wallet, Price
<1> QED
  BY <1>1, <1>2, <1>4, <1>5, <1>6, <1>7, <1>8 DEF Next, HandlerStep

(* No key is inserted by two transactions, nor once more after a commit.   *)
LEMMA KeyStep ==
    ASSUME CreationInv, [Next]_vars
    PROVE  KeyInv'
<1> USE Constants DEF CreationInv, TypeOK, Pc, Working, Connected, InTransaction, Inserted,
                      Goto, KeyInv
<1>1. ASSUME NEW r \in Requests, UNCHANGED intent,
             pc'[r] \in Inserted => pc[r] \in Inserted,
             \A s \in Requests : s # r => pc'[s] = pc[s]
      PROVE  KeyInv'
  BY <1>1
<1>2. ASSUME NEW r \in Requests,
             \/ Submit(r) \/ LookupKey(r) \/ CheckQuote(r) \/ Connect(r) \/ LockTreasury(r)
             \/ UpdateReserved(r) \/ InsertEntry(r) \/ Rollback(r)
             \/ Enqueue(r) \/ StatementThrows(r) \/ RequestDies(r)
      PROVE  KeyInv'
  <2>1. UNCHANGED intent
    BY <1>2 DEF Submit, LookupKey, CheckQuote, Connect, LockTreasury, UpdateReserved,
         InsertEntry, Rollback, Enqueue, StatementThrows, RequestDies, tables
  <2>2. /\ pc'[r] \in Inserted => pc[r] \in Inserted
        /\ \A s \in Requests : s # r => pc'[s] = pc[s]
    BY <1>2 DEF Submit, LookupKey, CheckQuote, Connect, LockTreasury, UpdateReserved,
         InsertEntry, Rollback, Enqueue, StatementThrows, RequestDies
  <2> QED BY <1>1, <2>1, <2>2
<1>3. ASSUME NEW r \in Requests, InsertIntent(r) PROVE KeyInv'
  <2>1. /\ UNCHANGED intent
        /\ \A s \in Requests : s # r => pc'[s] = pc[s]
        /\ pc'[r] \in Inserted => intent[KeyOf[r]] = None
        /\ \A s \in Requests : s # r /\ KeyOf[s] = KeyOf[r] => pc[s] \notin Inserted
    BY <1>3 DEF InsertIntent, tables
  <2> QED BY <2>1
<1>4. ASSUME NEW r \in Requests, Commit(r) PROVE KeyInv'
  <2>1. /\ pc[r] = "commit"
        /\ intent' = [intent EXCEPT ![KeyOf[r]] = r]
        /\ \A s \in Requests : s # r => pc'[s] = pc[s]
        /\ pc'[r] \in {"enqueue", "failed"}
    BY <1>4 DEF Commit, ApplyTransaction
  <2>2. \A s \in Requests : pc'[s] \in Inserted =>
          s # r /\ pc[s] \in Inserted /\ KeyOf[s] # KeyOf[r]
    BY <2>1
  <2>3. \A s \in Requests : pc'[s] \in Inserted => intent'[KeyOf[s]] = None
    BY <2>1, <2>2
  <2> QED BY <2>1, <2>2, <2>3
<1>5. ASSUME NEW k \in Keys, WorkerReturns(k) \/ WorkerDeducts(k) PROVE KeyInv'
  BY <1>5 DEF WorkerReturns, WorkerDeducts, LowerReserve
<1>6. ASSUME NEW q \in fresh, QuoteExpires(q) PROVE KeyInv'
  BY <1>6 DEF QuoteExpires, tables
<1>7. CASE UNCHANGED vars
  BY <1>7 DEF vars, tables
<1> QED
  BY <1>2, <1>3, <1>4, <1>5, <1>6, <1>7 DEF Next, HandlerStep

(* An answer, once decided on, stays the intent of the table.              *)
LEMMA AnswerStep ==
    ASSUME CreationInv, [Next]_vars
    PROVE  AnswerInv'
<1> USE Constants DEF CreationInv, TypeOK, Pc, Working, Connected, InTransaction, Goto, AnswerInv
<1>1. ASSUME NEW r \in Requests,
             \/ Submit(r) \/ CheckQuote(r) \/ Connect(r) \/ LockTreasury(r) \/ UpdateReserved(r)
             \/ InsertIntent(r) \/ InsertEntry(r) \/ Rollback(r)
             \/ StatementThrows(r) \/ RequestDies(r)
      PROVE  AnswerInv'
  <2>1. UNCHANGED <<intent, id, lowered, queued>>
    BY <1>1 DEF Submit, CheckQuote, Connect, LockTreasury, UpdateReserved, InsertIntent,
         InsertEntry, Rollback, StatementThrows, RequestDies, tables
  <2>2. /\ pc'[r] \notin {"enqueue", "done"}
        /\ \A s \in Requests : s # r => pc'[s] = pc[s]
    BY <1>1 DEF Submit, CheckQuote, Connect, LockTreasury, UpdateReserved, InsertIntent,
         InsertEntry, Rollback, StatementThrows, RequestDies
  <2> QED BY <2>1, <2>2
<1>2. ASSUME NEW r \in Requests, LookupKey(r) PROVE AnswerInv'
  BY <1>2 DEF LookupKey, tables
<1>3. ASSUME NEW r \in Requests, Commit(r) PROVE AnswerInv'
  <2>1. /\ pc[r] = "commit" /\ intent[KeyOf[r]] = None
        /\ intent' = [intent EXCEPT ![KeyOf[r]] = r]
        /\ UNCHANGED <<lowered, queued>>
    BY <1>3 DEF Commit, ApplyTransaction, KeyInv, Inserted
  <2>2. /\ \A s \in Requests : s # r => pc'[s] = pc[s] /\ id'[s] = id[s]
        /\ \/ pc'[r] = "enqueue" /\ id'[r] = r
           \/ pc'[r] = "failed" /\ id'[r] = id[r]
    BY <1>3 DEF Commit
  <2>3. \A s \in Requests : id[s] # None => KeyOf[s] # KeyOf[r]
    BY <2>1
  <2>4. \A s \in Requests : id'[s] # None => id'[s] = intent'[KeyOf[s]]
    BY <2>1, <2>2, <2>3
  <2>5. \A s \in Requests : /\ pc'[s] \in {"enqueue", "done"} => id'[s] # None
                            /\ pc'[s] = "done" => KeyOf[s] \in queued'
    BY <2>1, <2>2
  <2>6. /\ \A k \in queued' : intent'[k] # None
        /\ \A k \in Keys : intent'[k] = None => lowered'[k] = 0
    BY <2>1
  <2> QED BY <2>4, <2>5, <2>6
<1>4. ASSUME NEW r \in Requests, Enqueue(r) PROVE AnswerInv'
  BY <1>4 DEF Enqueue, tables
<1>5. ASSUME NEW k \in Keys, WorkerReturns(k) \/ WorkerDeducts(k) PROVE AnswerInv'
  BY <1>5, LoweredIntent
<1>6. ASSUME NEW q \in fresh, QuoteExpires(q) PROVE AnswerInv'
  BY <1>6 DEF QuoteExpires, tables
<1>7. CASE UNCHANGED vars
  BY <1>7 DEF vars, tables
<1> QED
  BY <1>1, <1>2, <1>3, <1>4, <1>5, <1>6, <1>7 DEF Next, HandlerStep

(* Only a commit adds to a reserved balance, and its row still has the     *)
(* room the transaction found when it took the lock.                       *)
LEMMA WalletStep ==
    ASSUME CreationInv, [Next]_vars
    PROVE  NoOversubscription'
<1> USE Constants DEF CreationInv, TypeOK, NoOversubscription
<1>1. CASE UNCHANGED <<available, reserved>>
  BY <1>1
<1>2. ASSUME NEW r \in Requests, Commit(r) PROVE NoOversubscription'
  <2>1. Price(r) <= available[Wallet(r)] - reserved[Wallet(r)]
    BY <1>2 DEF LockInv, Commit, Open, InTransaction
  <2>2. reserved' = [reserved EXCEPT ![Wallet(r)] = @ + Price(r)] /\ UNCHANGED available
    BY <1>2 DEF Commit, ApplyTransaction
  <2> QED BY <2>1, <2>2
<1>3. ASSUME NEW k \in Keys, WorkerReturns(k) \/ WorkerDeducts(k)
      PROVE  NoOversubscription'
  <2>0. PICK q, c : q = QuoteOf[intent[k]] /\ c = ChainOf[q]
    OBVIOUS
  <2>1. c \in Chains /\ Amount[q] \in Nat
    BY <1>3, <2>0, LoweredIntent
  <2>2. /\ reserved' = [reserved EXCEPT ![c] = @ - Amount[q]]
        /\ available' = [available EXCEPT ![c] = @ - Amount[q]] \/ UNCHANGED available
    BY <1>3, <2>0, LoweredIntent
  <2>3. reserved'[c] <= available'[c]
    BY <2>1, <2>2
  <2>4. \A d \in Chains : d # c => reserved'[d] = reserved[d] /\ available'[d] = available[d]
    BY <2>1, <2>2
  <2> QED BY <2>3, <2>4
<1>4. ASSUME NEW r \in Requests,
             \/ Submit(r) \/ LookupKey(r) \/ CheckQuote(r) \/ Connect(r) \/ LockTreasury(r)
             \/ UpdateReserved(r) \/ InsertIntent(r) \/ InsertEntry(r)
             \/ Rollback(r) \/ Enqueue(r) \/ StatementThrows(r) \/ RequestDies(r)
      PROVE  UNCHANGED <<available, reserved>>
  BY <1>4 DEF Submit, LookupKey, CheckQuote, Connect, LockTreasury, UpdateReserved,
       InsertIntent, InsertEntry, Rollback, Enqueue, StatementThrows,
       RequestDies, tables
<1>5. ASSUME NEW q \in fresh, QuoteExpires(q) PROVE UNCHANGED <<available, reserved>>
  BY <1>5 DEF QuoteExpires, tables
<1>6. CASE UNCHANGED vars
  BY <1>1, <1>6 DEF vars, tables
<1> QED
  BY <1>1, <1>2, <1>3, <1>4, <1>5, <1>6 DEF Next, HandlerStep

(* Nothing has happened yet: every part holds.                             *)
LEMMA CreationStart == Init => CreationInv
<1> SUFFICES ASSUME Init PROVE CreationInv
  OBVIOUS
<1> USE Constants, RequestsAssumption, QuotesAssumption DEF Init
<1>1. TypeOK
  BY DEF TypeOK, Pc, Working, Connected, InTransaction
<1>2. LockInv /\ KeyInv /\ AnswerInv
  BY DEF LockInv, KeyInv, AnswerInv, Open, InTransaction, Inserted
<1>3. NoOversubscription
  BY DEF NoOversubscription
<1> QED BY <1>1, <1>2, <1>3 DEF CreationInv

(* The row lock, the unique index, the answers and the balances together:  *)
(* none of them can be kept without the others.                            *)
THEOREM CreationInvariant == Spec => []CreationInv
<1>1. Init => CreationInv
  BY CreationStart
<1>2. CreationInv /\ [Next]_vars => CreationInv'
  BY TypeStep, LockStep, KeyStep, AnswerStep, WalletStep DEF CreationInv
<1> QED BY <1>1, <1>2, PTL DEF Spec

(* Every variable stays in its type: no step answers with something else   *)
(* than the id of an intent, nor leaves a row locked by nobody's request.  *)
THEOREM CreationTypeOK == Spec => []TypeOK
<1>1. CreationInv => TypeOK
  BY DEF CreationInv
<1> QED BY <1>1, CreationInvariant, PTL

(* createPaymentIntent never reserves more of a wallet than the wallet     *)
(* has, however many requests run at once and wherever they fail.          *)
THEOREM NeverOversubscribed == Spec => []NoOversubscription
<1>1. CreationInv => NoOversubscription
  BY DEF CreationInv
<1> QED BY <1>1, CreationInvariant, PTL

(* Requests of one key are answered with the one intent of that key, whose *)
(* job is in the queue.                                                    *)
THEOREM AnswersAlwaysAgree == Spec => []AnswersAgree
<1>1. CreationInv => AnswersAgree
  BY DEF CreationInv, AnswerInv, AnswersAgree
<1> QED BY <1>1, CreationInvariant, PTL

(* Each step of the handler is one step of AtomicIntents or none: a commit *)
(* creates, queue.add queues, a worker lowers the reserve.                  *)
LEMMA AtomicStep ==
    ASSUME CreationInv, [Next]_vars
    PROVE  [Atomic!Next]_<<intentOf, queued, available, reserved>>
<1> DEFINE avars == <<intentOf, queued, available, reserved>>
<1> USE Constants DEF CreationInv, TypeOK
<1>1. UNCHANGED tables => UNCHANGED <<intentOf, available, reserved>>
  BY DEF tables, intentOf
<1>2. ASSUME NEW r \in Requests,
             \/ Submit(r) \/ LookupKey(r) \/ CheckQuote(r) \/ Connect(r) \/ LockTreasury(r)
             \/ UpdateReserved(r) \/ InsertIntent(r) \/ InsertEntry(r)
             \/ Rollback(r) \/ StatementThrows(r) \/ RequestDies(r)
      PROVE  UNCHANGED avars
  <2>1. UNCHANGED <<tables, queued>>
    BY <1>2 DEF Submit, LookupKey, CheckQuote, Connect, LockTreasury, UpdateReserved,
         InsertIntent, InsertEntry, Rollback, StatementThrows, RequestDies
  <2> QED BY <1>1, <2>1
<1>3. ASSUME NEW r \in Requests, Commit(r) PROVE Atomic!Next
  <2> DEFINE k == KeyOf[r]
  <2>1. /\ intent[k] = None
        /\ Price(r) <= available[Wallet(r)] - reserved[Wallet(r)]
    BY <1>3 DEF Commit, LockInv, KeyInv, Open, InTransaction, Inserted
  <2>2. /\ intent' = [intent EXCEPT ![k] = r]
        /\ reserved' = [reserved EXCEPT ![Wallet(r)] = @ + Price(r)]
        /\ UNCHANGED <<available, queued>>
    BY <1>3 DEF Commit, ApplyTransaction
  <2>3. intentOf' = [intentOf EXCEPT ![k] = QuoteOf[r]] /\ intentOf[k] = None
    BY <2>1, <2>2 DEF intentOf
  <2>4. Atomic!Create(k, QuoteOf[r])
    BY <2>1, <2>2, <2>3 DEF Atomic!Create, Wallet, Price
  <2> QED BY <2>4 DEF Atomic!Next
<1>4. ASSUME NEW r \in Requests, Enqueue(r) PROVE Atomic!Next
  <2>1. /\ intent[KeyOf[r]] # None
        /\ UNCHANGED tables
        /\ queued' = queued \cup {KeyOf[r]}
    BY <1>4 DEF Enqueue, AnswerInv
  <2>2. intentOf[KeyOf[r]] # None
    BY <2>1, RequestsAssumption DEF intentOf
  <2>3. Atomic!Queue(KeyOf[r])
    BY <1>1, <2>1, <2>2 DEF Atomic!Queue
  <2> QED BY <2>3 DEF Atomic!Next
<1>5. ASSUME NEW k \in Keys, WorkerReturns(k) \/ WorkerDeducts(k) PROVE Atomic!Next
  <2>1. intentOf[k] = QuoteOf[intent[k]] /\ UNCHANGED intentOf
    BY <1>5, LoweredIntent DEF intentOf
  <2>2. Atomic!LowerReserve(k)
    BY <1>5, <2>1, LoweredIntent DEF Atomic!LowerReserve
  <2> QED BY <2>2 DEF Atomic!Next
<1>6. ASSUME NEW q \in fresh, QuoteExpires(q) PROVE UNCHANGED avars
  BY <1>1, <1>6 DEF QuoteExpires
<1>7. CASE UNCHANGED vars
  BY <1>1, <1>7 DEF vars
<1> QED
  BY <1>2, <1>3, <1>4, <1>5, <1>6, <1>7 DEF Next, HandlerStep

(* The statements, locks, failures and repeated requests of intent         *)
(* creation amount to the single steps of AtomicIntents.                   *)
THEOREM CreationIsAtomic == Spec => ImplementsAtomicIntents
<1>1. Init => Atomic!Init
  BY DEF Init, Atomic!Init, intentOf
<1>2. CreationInv /\ [Next]_vars =>
        [Atomic!Next]_<<intentOf, queued, available, reserved>>
  BY AtomicStep
<1> QED
  BY <1>1, <1>2, CreationInvariant, PTL DEF Spec, ImplementsAtomicIntents, Atomic!Spec

-----------------------------------------------------------------------------
(* What is reserved of a wallet is the price of its intents, less what the *)
(* workers took off, as often as they did.                                 *)
CreatedOn(c) == {k \in Created : Wallet(intent[k]) = c}
Worth == [k \in Created |-> Outstanding(k)]

LEMMA CreatedIntents ==
    ASSUME TypeOK
    PROVE  /\ \A k \in Created : /\ k \in Keys /\ intent[k] \in Requests
                                 /\ Worth[k] = Outstanding(k)
                                 /\ Worth[k] \in Int
           /\ \A c : IsFiniteSet(CreatedOn(c)) /\ CreatedOn(c) \subseteq Created
<1>1. \A k \in Created : k \in Keys /\ intent[k] \in Requests
  BY DEF TypeOK, Created
<1>2. \A k \in Created : Price(intent[k]) \in Int /\ lowered[k] \in Int
  BY <1>1, Constants, QuotesAssumption DEF TypeOK
<1>3. \A k \in Created : Worth[k] = Outstanding(k) /\ Worth[k] \in Int
  BY <1>2 DEF Worth, Outstanding
<1>4. \A c : CreatedOn(c) \subseteq Keys /\ CreatedOn(c) \subseteq Created
  BY <1>1 DEF CreatedOn
<1> QED BY <1>1, <1>3, <1>4, FinitenessAssumption, FS_Subset

(* The sum over a wallet changes only with its own intents.                *)
LEMMA SameSum ==
    ASSUME TypeOK, TypeOK', NEW c,
           CreatedOn(c)' = CreatedOn(c),
           \A k \in CreatedOn(c) : intent'[k] = intent[k] /\ lowered'[k] = lowered[k]
    PROVE  SumOver(Worth', CreatedOn(c)') = SumOver(Worth, CreatedOn(c))
<1>1. \A k \in Created' : Worth'[k] = (1 - lowered'[k]) * Price(intent'[k])
  BY DEF Worth, Outstanding, Price
<1>2. CreatedOn(c)' \subseteq Created'
  BY DEF CreatedOn
<1>3. \A k \in CreatedOn(c) : Worth'[k] = Worth[k]
  BY <1>1, <1>2, CreatedIntents DEF Outstanding
<1>4. IsFiniteSet(CreatedOn(c))
  BY CreatedIntents
<1> HIDE DEF CreatedOn, Worth
<1>5. SumOver(Worth', CreatedOn(c)) = SumOver(Worth, CreatedOn(c))
  BY <1>3, <1>4, SumAgree
<1> QED BY <1>5

(* A commit adds its own intent, which the unique index keeps from being   *)
(* there already.                                                          *)
LEMMA CommitAddsUp ==
    ASSUME CreationInv, CreationInv', ReservationsAddUp, NEW r \in Requests, Commit(r)
    PROVE  ReservationsAddUp'
<1> DEFINE k == KeyOf[r]
           w == ChainOf[QuoteOf[r]]
<1>1. /\ pc[r] = "commit" /\ k \in Keys /\ w = Wallet(r) /\ w \in Chains
      /\ Price(r) \in Int
  BY Constants DEF Commit, Wallet
<1>2. /\ intent' = [intent EXCEPT ![k] = r]
      /\ entries' = [entries EXCEPT ![k] = @ + 1]
      /\ lowered' = lowered
      /\ reserved' = [reserved EXCEPT ![w] = @ + Price(r)]
  BY <1>1 DEF Commit, ApplyTransaction
<1>3. intent[k] = None /\ k \notin Created /\ entries[k] = 0 /\ lowered[k] = 0
  BY <1>1 DEF CreationInv, KeyInv, Inserted, AnswerInv, ReservationsAddUp, Created
<1>4. /\ intent \in [Keys -> Requests \cup {None}] /\ entries \in [Keys -> Nat]
      /\ reserved \in [Chains -> Int] /\ TypeOK /\ TypeOK'
  BY DEF CreationInv, TypeOK
<1>5. /\ intent'[k] = r /\ Created' = Created \cup {k}
      /\ \A j \in Created : intent'[j] = intent[j]
  BY <1>1, <1>2, <1>3, <1>4, Constants DEF Created
<1>6. \A j \in Keys : entries'[j] = IF intent'[j] = None THEN 0 ELSE 1
  <2>1. entries'[k] = 1 /\ intent'[k] # None
    BY <1>1, <1>2, <1>3, <1>4, <1>5, Constants
  <2>2. \A j \in Keys : j # k => entries'[j] = entries[j] /\ intent'[j] = intent[j]
    BY <1>2, <1>4
  <2> QED BY <2>1, <2>2 DEF ReservationsAddUp
<1>7. \A c : CreatedOn(c)' = IF c = w THEN CreatedOn(c) \cup {k} ELSE CreatedOn(c)
  BY <1>1, <1>5 DEF CreatedOn, Wallet
<1> HIDE DEF k, w
<1>8. ASSUME NEW c \in Chains, c # w
      PROVE  reserved'[c] = SumOver(Worth', CreatedOn(c)')
  <2>1. reserved'[c] = reserved[c]
    BY <1>2, <1>4, <1>8
  <2>2. CreatedOn(c)' = CreatedOn(c)
    BY <1>7, <1>8
  <2>3. \A j \in CreatedOn(c) : intent'[j] = intent[j] /\ lowered'[j] = lowered[j]
    BY <1>2, <1>5 DEF CreatedOn
  <2>4. SumOver(Worth', CreatedOn(c)') = SumOver(Worth, CreatedOn(c))
    BY <1>4, <2>2, <2>3, SameSum
  <2>5. reserved[c] = SumOver(Worth, CreatedOn(c))
    BY DEF ReservationsAddUp, Worth, CreatedOn
  <2> QED BY <2>1, <2>4, <2>5
<1>9. reserved'[w] = SumOver(Worth', CreatedOn(w)')
  <2>1. reserved'[w] = reserved[w] + Price(r)
    BY <1>1, <1>2, <1>4
  <2>2. /\ \A j \in Created' : Worth'[j] = (1 - lowered'[j]) * Price(intent'[j])
        /\ \A j \in Created' : Worth'[j] \in Int
        /\ IsFiniteSet(CreatedOn(w)') /\ CreatedOn(w)' \subseteq Created'
    <3>1. \A j \in Created' : Worth'[j] = (1 - lowered'[j]) * Price(intent'[j])
      BY DEF Worth, Outstanding, Price
    <3>2. \A j \in Created' : intent'[j] \in Requests /\ lowered'[j] \in Int
      BY <1>4, QuotesAssumption DEF TypeOK, Created
    <3>3. \A j \in Created' : Worth'[j] \in Int
      BY <3>1, <3>2, Constants
    <3>4. IsFiniteSet(CreatedOn(w)')
      BY <1>4, <1>7, CreatedIntents, FS_AddElement
    <3> QED BY <3>1, <3>3, <3>4 DEF CreatedOn
  <2>3. /\ k \in CreatedOn(w)' /\ CreatedOn(w)' \ {k} = CreatedOn(w)
    BY <1>3, <1>7 DEF CreatedOn
  <2>4. Worth'[k] = Price(r)
    BY <1>1, <1>2, <1>3, <1>5, <2>2
  <2>5. SumOver(Worth', CreatedOn(w)') = Price(r) + SumOver(Worth', CreatedOn(w))
    BY <2>2, <2>3, <2>4, SumRemove
  <2>6. \A j \in CreatedOn(w) : Worth'[j] = Worth[j]
    BY <1>2, <1>4, <1>5, <2>2, CreatedIntents DEF Outstanding
  <2>7. SumOver(Worth', CreatedOn(w)) = SumOver(Worth, CreatedOn(w))
    BY <1>4, <2>6, CreatedIntents, SumAgree
  <2>8. reserved[w] = SumOver(Worth, CreatedOn(w))
    BY <1>1 DEF ReservationsAddUp, Worth, CreatedOn
  <2> QED BY <1>1, <1>4, <2>1, <2>5, <2>7, <2>8
<1> QED BY <1>6, <1>8, <1>9 DEF ReservationsAddUp, Worth, CreatedOn

(* Workers take an intent off the sum when they take it off the balance,   *)
(* once or again.                                                          *)
LEMMA LoweringAddsUp ==
    ASSUME CreationInv, CreationInv', ReservationsAddUp, NEW k \in Keys,
           WorkerReturns(k) \/ WorkerDeducts(k)
    PROVE  ReservationsAddUp'
<1>0. PICK w, p : w = ChainOf[QuoteOf[intent[k]]] /\ p = Price(intent[k])
  OBVIOUS
<1>1. reserved \in [Chains -> Int] /\ TypeOK /\ TypeOK' /\ AnswerInv
  BY DEF CreationInv, TypeOK
<1>2. /\ k \in Created /\ UNCHANGED <<intent, entries>>
      /\ lowered' = [lowered EXCEPT ![k] = @ + 1]
      /\ w = Wallet(intent[k]) /\ w \in Chains /\ p \in Int
      /\ reserved' = [reserved EXCEPT ![w] = @ - p]
  BY <1>0, <1>1, LoweredIntent, Constants DEF Created
<1>3. lowered[k] \in Int /\ \A j \in Keys : j # k => lowered'[j] = lowered[j]
  BY <1>1, <1>2, QuotesAssumption DEF TypeOK
<1>4. /\ \A c : CreatedOn(c)' = CreatedOn(c)
      /\ \A c : c # w => k \notin CreatedOn(c)
      /\ k \in CreatedOn(w)
  BY <1>2 DEF CreatedOn, Created, Wallet
<1>5. ASSUME NEW c \in Chains, c # w
      PROVE  reserved'[c] = SumOver(Worth', CreatedOn(c)')
  <2>1. reserved'[c] = reserved[c]
    BY <1>1, <1>2, <1>5
  <2>2. \A j \in CreatedOn(c) : intent'[j] = intent[j] /\ lowered'[j] = lowered[j]
    BY <1>2, <1>3, <1>4, <1>5 DEF CreatedOn, Created
  <2>3. SumOver(Worth', CreatedOn(c)') = SumOver(Worth, CreatedOn(c))
    BY <1>1, <1>4, <2>2, SameSum
  <2>4. reserved[c] = SumOver(Worth, CreatedOn(c))
    BY DEF ReservationsAddUp, Worth, CreatedOn
  <2> QED BY <2>1, <2>3, <2>4
<1>6. reserved'[w] = SumOver(Worth', CreatedOn(w)')
  <2>0. PICK S : S = CreatedOn(w)
    OBVIOUS
  <2>1. reserved'[w] = reserved[w] - p
    BY <1>1, <1>2
  <2>2. /\ IsFiniteSet(S) /\ S \subseteq Created /\ k \in S
        /\ \A j \in S : Worth[j] \in Int /\ Worth[j] = Outstanding(j)
    BY <1>1, <1>4, <2>0, CreatedIntents
  <2>3. \A j \in S : Worth'[j] = (1 - lowered'[j]) * Price(intent[j])
    BY <1>2, <2>2 DEF Worth, Outstanding, Created, Price
  <2>4. /\ \A j \in S \ {k} : Worth'[j] = Worth[j]
        /\ IsFiniteSet(S \ {k})
    BY <1>3, <2>2, <2>3, FS_RemoveElement DEF Outstanding, Created
  <2>5. Worth'[k] = Worth[k] - p /\ Worth[k] \in Int
    <3>1. Worth[k] = (1 - lowered[k]) * p /\ Worth[k] \in Int
      BY <1>0, <2>2 DEF Outstanding
    <3>2. Worth'[k] = (1 - (lowered[k] + 1)) * p
      <4>1. lowered'[k] = lowered[k] + 1
        BY <1>1, <1>2 DEF TypeOK
      <4> QED BY <1>0, <2>2, <2>3, <4>1
    <3>3. (1 - (lowered[k] + 1)) * p = (1 - lowered[k]) * p - p
      BY <1>2, <1>3
    <3> QED BY <3>1, <3>2, <3>3
  <2>6. \A j \in S : Worth'[j] \in Int
    BY <1>2, <2>2, <2>4, <2>5
  <2>7. /\ SumOver(Worth, S) = Worth[k] + SumOver(Worth, S \ {k})
        /\ SumOver(Worth', S) = Worth'[k] + SumOver(Worth', S \ {k})
        /\ SumOver(Worth', S \ {k}) = SumOver(Worth, S \ {k})
        /\ SumOver(Worth, S \ {k}) \in Int
    BY <2>2, <2>4, <2>6, SumRemove, SumAgree, SumInt
  <2>8. reserved[w] = SumOver(Worth, S) /\ reserved[w] \in Int
    BY <1>1, <1>2, <2>0 DEF ReservationsAddUp, Worth, CreatedOn
  <2>9. SumOver(Worth', CreatedOn(w)') = SumOver(Worth', S)
    BY <1>4, <2>0
  <2> QED BY <1>2, <2>1, <2>5, <2>7, <2>8, <2>9
<1>7. \A j \in Keys : entries'[j] = IF intent'[j] = None THEN 0 ELSE 1
  BY <1>2 DEF ReservationsAddUp
<1> QED BY <1>5, <1>6, <1>7 DEF ReservationsAddUp, Worth, CreatedOn

(* Every other step leaves the three records alone.                        *)
LEMMA RecordsStay ==
    ASSUME TypeOK, AnswerInv, ReservationsAddUp,
           UNCHANGED <<intent, entries, lowered, reserved>>
    PROVE  ReservationsAddUp'
BY DEF ReservationsAddUp, Created, Outstanding, Price, Wallet

(* The intents, their reserve entries and the reserved balance of every    *)
(* wallet agree after any step, whatever fails between the statements      *)
(* (createPaymentIntent of payment-intent.service.ts).                     *)
THEOREM RecordsAlwaysAgree == Spec => []ReservationsAddUp
<1>1. Init => ReservationsAddUp
  <2> SUFFICES ASSUME Init PROVE ReservationsAddUp
    OBVIOUS
  <2>1. \A c \in Chains : {k \in Created : Wallet(intent[k]) = c} = {}
    BY DEF Init, Created
  <2> QED BY <2>1, SumEmpty, Constants DEF Init, ReservationsAddUp
<1>2. CreationInv /\ CreationInv' /\ ReservationsAddUp /\ [Next]_vars
        => ReservationsAddUp'
  <2> SUFFICES ASSUME CreationInv, CreationInv', ReservationsAddUp, [Next]_vars
               PROVE  ReservationsAddUp'
    OBVIOUS
  <2>0. TypeOK /\ AnswerInv
    BY DEF CreationInv
  <2>1. ASSUME NEW r \in Requests, Commit(r) PROVE ReservationsAddUp'
    BY <2>1, CommitAddsUp
  <2>2. ASSUME NEW k \in Keys, WorkerReturns(k) \/ WorkerDeducts(k)
        PROVE  ReservationsAddUp'
    BY <2>2, LoweringAddsUp
  <2>3. ASSUME NEW r \in Requests,
               \/ Submit(r) \/ LookupKey(r) \/ CheckQuote(r) \/ Connect(r)
               \/ LockTreasury(r) \/ UpdateReserved(r) \/ InsertIntent(r)
               \/ InsertEntry(r) \/ Rollback(r) \/ Enqueue(r)
               \/ StatementThrows(r) \/ RequestDies(r)
        PROVE  ReservationsAddUp'
    <3>1. UNCHANGED tables
      BY <2>3 DEF Submit, LookupKey, CheckQuote, Connect, LockTreasury, UpdateReserved,
         InsertIntent, InsertEntry, Rollback, Enqueue, StatementThrows, RequestDies
    <3> QED BY <2>0, <3>1, RecordsStay DEF tables
  <2>4. CASE (\E q \in fresh : QuoteExpires(q)) \/ UNCHANGED vars
    BY <2>0, <2>4, RecordsStay DEF QuoteExpires, tables, vars
  <2> QED BY <2>1, <2>2, <2>3, <2>4 DEF Next, HandlerStep
<1> QED BY <1>1, <1>2, CreationInvariant, PTL DEF Spec
=============================================================================
