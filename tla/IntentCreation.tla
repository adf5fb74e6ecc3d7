--------------------------- MODULE IntentCreation ---------------------------
(***************************************************************************)
(* POST /payment_intents: createPaymentIntent of payment-intent.service.ts *)
(* and the queue.add that follows it in routes/payment-intents.ts, one     *)
(* step per statement, with the row lock and the unique index of           *)
(* PostgreSQL.  Requests run concurrently, in one API process or several,  *)
(* may fail or die at every step, and are sent again by the merchant.      *)
(***************************************************************************)
EXTENDS Sums, FiniteSets

CONSTANTS
    Requests,   \* calls a merchant makes; one that failed is made again
    Keys,       \* (merchant, idempotency key)
    KeyOf,      \* request -> its key
    Quotes,
    QuoteOf,    \* request -> the quote it names
    Owned,      \* requests whose quote is their merchant's, with an address
    Chains,
    ChainOf,    \* quote -> recommended_chain
    Amount,     \* quote -> amount_usd
    Funds,      \* chain -> available_balance to begin with
    PoolSize,   \* the 20 of `max: 20`: connections of the API's pool
    MaxFaults,  \* bound: failing statements and crashes
    MaxLowered, \* bound: how often the workers lower one intent's reserve
    None        \* no request, no quote

ASSUME RequestsAssumption ==
    /\ KeyOf \in [Requests -> Keys]
    /\ QuoteOf \in [Requests -> Quotes]
    /\ Owned \subseteq Requests
    /\ None \notin Requests \cup Quotes

ASSUME QuotesAssumption ==
    /\ ChainOf \in [Quotes -> Chains]
    /\ Amount \in [Quotes -> Nat \ {0}]
    /\ Funds \in [Chains -> Nat]
    /\ PoolSize \in Nat \ {0}
    /\ MaxFaults \in Nat
    /\ MaxLowered \in Nat

(* What is added up is finite: the rows of the payment_intents table.      *)
ASSUME FinitenessAssumption == IsFiniteSet(Keys)

VARIABLES
    pc,         \* request -> the statement it issues next
    id,         \* request -> id of the intent it answers with, or None
    intent,     \* key -> id of its payment_intents row, or None
    entries,    \* key -> number of 'reserve' ledger entries of its intent
    lowered,    \* key -> how often the workers lowered the reserve of its intent
    available,  \* treasury_wallets, per chain
    reserved,
    lock,       \* chain -> request that holds the lock of its treasury row
    queued,     \* keys whose job was added to 'payment-execution'
    fresh,      \* quotes that have not expired
    faults

tables == <<intent, entries, lowered, available, reserved>>
vars == <<pc, id, tables, lock, queued, fresh, faults>>

(* An intent is named after the request that created it.                   *)
Wallet(r) == ChainOf[QuoteOf[r]]
Price(r) == Amount[QuoteOf[r]]

InTransaction == {"reserve", "insert_intent", "insert_entry", "commit", "rollback"}
Inserted == {"insert_entry", "commit"}  \* holding the new key in the index
Connected == {"lock"} \cup InTransaction  \* holding a connection of the pool
Working == {"lookup", "quote", "connect", "enqueue"} \cup Connected
Pc == {"idle", "done", "failed"} \cup Working

TypeOK ==
    /\ pc \in [Requests -> Pc]
    /\ id \in [Requests -> Requests \cup {None}]
    /\ intent \in [Keys -> Requests \cup {None}]
    /\ entries \in [Keys -> Nat]
    /\ lowered \in [Keys -> 0 .. MaxLowered]
    /\ available \in [Chains -> Int]
    /\ reserved \in [Chains -> Int]
    /\ lock \in [Chains -> Requests \cup {None}]
    /\ queued \in SUBSET Keys
    /\ fresh \in SUBSET Quotes
    /\ faults \in 0 .. MaxFaults

Init ==
    /\ pc = [r \in Requests |-> "idle"]
    /\ id = [r \in Requests |-> None]
    /\ intent = [k \in Keys |-> None]
    /\ entries = [k \in Keys |-> 0]
    /\ lowered = [k \in Keys |-> 0]
    /\ available = Funds
    /\ reserved = [c \in Chains |-> 0]
    /\ lock = [c \in Chains |-> None]
    /\ queued = {}
    /\ fresh = Quotes
    /\ faults = 0

(* A connection is free.  There is no limit to the wait for one.           *)
PoolHasRoom == Cardinality({r \in Requests : pc[r] \in Connected}) < PoolSize

Goto(r, l) == pc' = [pc EXCEPT ![r] = l]
Throws == faults < MaxFaults /\ faults' = faults + 1
Release(r) == lock' = [c \in Chains |-> IF lock[c] = r THEN None ELSE lock[c]]

(* The merchant sends the request, or sends it again after a failure.      *)
Submit(r) ==
    /\ pc[r] \in {"idle", "failed"}
    /\ Goto(r, "lookup")
    /\ UNCHANGED <<id, tables, lock, queued, fresh, faults>>

(* Mutant: the answer is the key, not the intent.                          *)
LookupAnswersKey(r) ==
    /\ pc[r] = "lookup"
    /\ \/ /\ intent[KeyOf[r]] # None
          /\ id' = [id EXCEPT ![r] = KeyOf[r]]
          /\ Goto(r, "enqueue")
       \/ /\ intent[KeyOf[r]] = None
          /\ Goto(r, "quote")
          /\ UNCHANGED id
    /\ UNCHANGED <<tables, lock, queued, fresh, faults>>

(* Mutant: only the request that creates an intent adds its job.           *)
LookupEnds(r) ==
    /\ pc[r] = "lookup"
    /\ \/ /\ intent[KeyOf[r]] # None
          /\ id' = [id EXCEPT ![r] = intent[KeyOf[r]]]
          /\ Goto(r, "done")
       \/ /\ intent[KeyOf[r]] = None
          /\ Goto(r, "quote")
          /\ UNCHANGED id
    /\ UNCHANGED <<tables, lock, queued, fresh, faults>>

(* An intent with the same key is the answer, whatever quote it was made   *)
(* from and whatever its status.                                           *)
LookupKey(r) ==
    /\ pc[r] = "lookup"
    /\ PoolHasRoom
    /\ \/ /\ intent[KeyOf[r]] # None
          /\ id' = [id EXCEPT ![r] = intent[KeyOf[r]]]
          /\ Goto(r, "enqueue")
       \/ /\ intent[KeyOf[r]] = None
          /\ Goto(r, "quote")
          /\ UNCHANGED id
    /\ UNCHANGED <<tables, lock, queued, fresh, faults>>

(* getQuote, validateQuoteFreshness and the check of its merchant.         *)
CheckQuote(r) ==
    /\ pc[r] = "quote"
    /\ PoolHasRoom
    /\ Goto(r, IF QuoteOf[r] \in fresh /\ r \in Owned THEN "connect" ELSE "failed")
    /\ UNCHANGED <<id, tables, lock, queued, fresh, faults>>

(* pool.connect: from here on the request keeps a connection to itself.    *)
Connect(r) ==
    /\ pc[r] = "connect"
    /\ PoolHasRoom
    /\ Goto(r, "lock")
    /\ UNCHANGED <<id, tables, lock, queued, fresh, faults>>

(* Mutant: SELECT without FOR UPDATE.                                      *)
ReadTreasury(r) ==
    LET c == Wallet(r)
    IN  /\ pc[r] = "lock"
        /\ Goto(r, IF available[c] - reserved[c] < Price(r) THEN "rollback"
                   ELSE "reserve")
        /\ UNCHANGED <<id, tables, lock, queued, fresh, faults>>

(* BEGIN and SELECT ... FOR UPDATE, which waits for the row, reads it as   *)
(* last committed and keeps it until the transaction ends.                 *)
LockTreasury(r) ==
    LET c == Wallet(r)
    IN  /\ pc[r] = "lock"
        /\ lock[c] = None
        /\ lock' = [lock EXCEPT ![c] = r]
        /\ Goto(r, IF available[c] - reserved[c] < Price(r) THEN "rollback"
                   ELSE "reserve")
        /\ UNCHANGED <<id, tables, queued, fresh, faults>>

(* Mutant: the update uses a connection of its own, outside the transaction.*)
UpdateReservedAtOnce(r) ==
    /\ pc[r] = "reserve"
    /\ Goto(r, "insert_intent")
    /\ reserved' = [reserved EXCEPT ![Wallet(r)] = @ + Price(r)]
    /\ UNCHANGED <<id, intent, entries, lowered, available, lock, queued, fresh, faults>>

(* Mutant: a statement of the transaction asks the pool for a connection   *)
(* while its request holds one.                                            *)
UpdateReservedByPool(r) ==
    /\ pc[r] = "reserve"
    /\ PoolHasRoom
    /\ Goto(r, "insert_intent")
    /\ UNCHANGED <<id, tables, lock, queued, fresh, faults>>

(* The writes of the transaction are seen by others only once committed.   *)
UpdateReserved(r) ==
    /\ pc[r] = "reserve"
    /\ Goto(r, "insert_intent")
    /\ UNCHANGED <<id, tables, lock, queued, fresh, faults>>

(* Mutant: there is no unique index.                                       *)
InsertUnindexed(r) ==
    /\ pc[r] = "insert_intent"
    /\ Goto(r, "insert_entry")
    /\ UNCHANGED <<id, tables, lock, queued, fresh, faults>>

(* UNIQUE(merchant_id, idempotency_key): the insert waits for another      *)
(* transaction that inserted the key, and fails once the key is committed. *)
InsertIntent(r) ==
    /\ pc[r] = "insert_intent"
    /\ \A s \in Requests : s # r /\ KeyOf[s] = KeyOf[r] => pc[s] \notin Inserted
    /\ Goto(r, IF intent[KeyOf[r]] = None THEN "insert_entry" ELSE "rollback")
    /\ UNCHANGED <<id, tables, lock, queued, fresh, faults>>

(* The entry is named after the millisecond: it may be another's already.  *)
InsertEntry(r) ==
    /\ pc[r] = "insert_entry"
    /\ \/ Goto(r, "commit")
       \/ (\E k \in Keys : entries[k] > 0) /\ Goto(r, "rollback")
    /\ UNCHANGED <<id, tables, lock, queued, fresh, faults>>

(* Everything the transaction wrote becomes visible and the row is free.   *)
ApplyTransaction(r) ==
    LET k == KeyOf[r]
    IN  /\ intent' = [intent EXCEPT ![k] = r]
        /\ entries' = [entries EXCEPT ![k] = @ + 1]
        /\ reserved' = [reserved EXCEPT ![Wallet(r)] = @ + Price(r)]
        /\ Release(r)
        /\ UNCHANGED <<lowered, available>>

Commit(r) ==
    /\ pc[r] = "commit"
    /\ ApplyTransaction(r)
    /\ \/ /\ id' = [id EXCEPT ![r] = r]
          /\ Goto(r, "enqueue")
          /\ UNCHANGED faults
       \/ /\ Throws                \* committed, but the answer was lost
          /\ Goto(r, "failed")
          /\ UNCHANGED id
    /\ UNCHANGED <<queued, fresh>>

Rollback(r) ==
    /\ pc[r] = "rollback"
    /\ Release(r)
    /\ Goto(r, "failed")
    /\ UNCHANGED <<id, tables, queued, fresh, faults>>

(* A job whose jobId exists is not added again.                            *)
Enqueue(r) ==
    /\ pc[r] = "enqueue"
    /\ queued' = queued \cup {KeyOf[r]}
    /\ \/ Goto(r, "done") /\ UNCHANGED faults
       \/ Goto(r, "failed") /\ Throws    \* added, but the answer was lost
    /\ UNCHANGED <<id, tables, lock, fresh>>

(* A statement throws: with a connection the catch block rolls back.       *)
StatementThrows(r) ==
    /\ pc[r] \in Working \ {"rollback"}
    /\ Throws
    /\ Goto(r, IF pc[r] \in Connected THEN "rollback" ELSE "failed")
    /\ UNCHANGED <<id, tables, lock, queued, fresh>>

(* The API process dies.  PostgreSQL aborts the transaction of a lost      *)
(* connection, and the merchant sees no answer.                            *)
RequestDies(r) ==
    /\ pc[r] \in Working
    /\ Throws
    /\ Release(r)
    /\ Goto(r, "failed")
    /\ UNCHANGED <<id, tables, queued, fresh>>

(* External: five minutes pass.                                            *)
QuoteExpires(q) ==
    /\ fresh' = fresh \ {q}
    /\ UNCHANGED <<pc, id, tables, lock, queued, faults>>

(* An UPDATE of the wallet by a worker, which waits for the row.  Nothing  *)
(* keeps the workers from lowering the same reserve again: each try that   *)
(* throws does, and so does each scan that finds the transfer final.       *)
LowerReserve(k, q) ==
    LET c == ChainOf[q]
    IN  /\ k \in queued
        /\ lock[c] = None
        /\ lowered[k] < MaxLowered
        /\ lowered' = [lowered EXCEPT ![k] = @ + 1]
        /\ reserved' = [reserved EXCEPT ![c] = @ - Amount[q]]
        /\ UNCHANGED <<pc, id, intent, entries, lock, queued, fresh, faults>>

(* The catch block of the execution worker: the reserve is given back.     *)
WorkerReturns(k) ==
    /\ LowerReserve(k, QuoteOf[intent[k]])
    /\ UNCHANGED available

(* The confirmation worker: the reserve is spent.                          *)
WorkerDeducts(k) ==
    LET q == QuoteOf[intent[k]]
    IN  /\ LowerReserve(k, q)
        /\ available' = [available EXCEPT ![ChainOf[q]] = @ - Amount[q]]

HandlerStep(r) ==
    \/ LookupKey(r) \/ CheckQuote(r) \/ Connect(r) \/ LockTreasury(r)
    \/ UpdateReserved(r) \/ InsertIntent(r) \/ InsertEntry(r) \/ Commit(r)
    \/ Rollback(r) \/ Enqueue(r)

Next ==
    \/ \E r \in Requests :
         Submit(r) \/ HandlerStep(r) \/ StatementThrows(r) \/ RequestDies(r)
    \/ \E q \in fresh : QuoteExpires(q)
    \/ \E k \in Keys : WorkerReturns(k) \/ WorkerDeducts(k)

Spec == Init /\ [][Next]_vars

(* A handler that can go on does; a lock or a connection that keeps being  *)
(* freed is granted (PostgreSQL and the pool queue their waiters).         *)
HandlerFairness == \A r \in Requests : SF_vars(HandlerStep(r))

FairSpec == Spec /\ HandlerFairness

-----------------------------------------------------------------------------
(* Concurrent requests never leave a row with more reserved than it has:   *)
(* the check that the row has enough and the update that takes it stay     *)
(* together although they are statements of their own.  That is about the  *)
(* row: one whose reserve was lowered too often passes the check too often *)
(* (PromisesCovered of PaymentSystem says how far that goes).              *)
NoOversubscription == \A c \in Chains : reserved[c] <= available[c]

(* The intents, their reserve entries and the reserved balance are always  *)
(* of one mind: no failure between the three writes leaves one behind, and *)
(* every intent counts with its price, less what the workers took off.     *)
Created == {k \in Keys : intent[k] # None}
Outstanding(k) == (1 - lowered[k]) * Price(intent[k])

ReservationsAddUp ==
    /\ \A k \in Keys : entries[k] = IF intent[k] = None THEN 0 ELSE 1
    /\ \A c \in Chains :
         reserved[c] = SumOver([k \in Created |-> Outstanding(k)],
                               {k \in Created : Wallet(intent[k]) = c})

(* Requests with the same key that are answered at all are answered with   *)
(* the same intent, the one the table holds, and its job has been added.   *)
AnswersAgree ==
    \A r \in Requests : pc[r] = "done" =>
        id[r] # None /\ id[r] = intent[KeyOf[r]] /\ KeyOf[r] \in queued

(* No request stays in the handler for ever, waiting for a connection, for *)
(* a wallet or for another transaction with its key, although those that   *)
(* wait for a wallet may hold every connection there is.                   *)
RequestsEnd ==
    \A r \in Requests : pc[r] = "lookup" ~> pc[r] \in {"done", "failed"}

(* An intent whose creation died between the commit and queue.add is       *)
(* queued by the next request with its key.  Nothing else would: it stays  *)
(* without a job only if everyone who asked for it has failed.             *)
RetryQueuesIntent ==
    \A k \in Keys :
        intent[k] # None ~>
            \/ k \in queued
            \/ \A r \in Requests : KeyOf[r] = k => pc[r] \in {"idle", "failed"}

intentOf == [k \in Keys |-> IF intent[k] = None THEN None ELSE QuoteOf[intent[k]]]

(* All of it together is what AtomicIntents does in single steps.          *)
Atomic == INSTANCE AtomicIntents WITH intent <- intentOf, NoQuote <- None
ImplementsAtomicIntents == Atomic!Spec

=============================================================================
