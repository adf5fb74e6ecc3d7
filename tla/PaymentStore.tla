---------------------------- MODULE PaymentStore ----------------------------
(***************************************************************************)
(* What the services of the orchestrator share: the PostgreSQL tables, the *)
(* chains the adapters talk to and the BullMQ queue 'payment-execution'.   *)
(* Every SQL statement outside createPaymentIntent commits on its own, so  *)
(* a statement is one write operator here and one step of the worker that  *)
(* issues it.                                                              *)
(***************************************************************************)
EXTENDS Integers, FiniteSets

CONSTANTS
    Payments,     \* payment intents, one per (merchant, idempotency key)
    Chains,       \* one treasury wallet row per chain
    ChainOf,      \* payment_intents.selected_chain
    Amount,       \* payment_intents.amount_usd
    Funds,        \* treasury_wallets.available_balance to begin with
    MaxAttempts,  \* BullMQ option `attempts`
    MaxStalls,    \* BullMQ option `maxStalledCount`
    Concurrency,  \* jobs worked on at once: 5 per worker process
    Expiring,     \* chains where a transfer lands or expires within minutes,
                  \* and that know it for some minutes more: Solana
    MaxFaults     \* bound: failed statements, failed calls and crashes

ASSUME PaymentsAssumption ==
    /\ Chains # {}
    /\ ChainOf \in [Payments -> Chains]
    /\ Amount \in [Payments -> Nat \ {0}]
    /\ Funds \in [Chains -> Nat]
    /\ Expiring \subseteq Chains

ASSUME LimitsAssumption ==
    /\ MaxAttempts \in Nat \ {0}
    /\ MaxStalls \in Nat
    /\ Concurrency \in Nat \ {0}
    /\ MaxFaults \in Nat

(* The nth call of processPayment for a payment.  A call inserts at most   *)
(* one attempt row and sends at most one transfer, so both carry its name. *)
Runs == Payments \X (1 .. (MaxAttempts + MaxStalls))
PaymentOf(r) == r[1]
RunsOf(p) == {r \in Runs : PaymentOf(r) = p}

IntentStatus == {"created", "quoted", "route_selected", "broadcasting",
                 "broadcasted", "pending_confirmation", "settled", "failed",
                 "manual_review", "retrying", "expired", "cancelled"}
AttemptStatus == {"pending", "broadcasted", "confirmed", "failed"}
EntryTypes == {"reserve", "debit", "fee", "release", "refund"}
EventTypes == {"payment.created", "payment.broadcasting",
               "payment.broadcasted", "payment.settled", "payment.failed",
               "payment.manual_review"}
TxState ==
    {"none", "sent", "stuck", "dropped", "final", "reverted", "forgotten"}

(* Both adapters take a transfer whose block is final for confirmed; none  *)
(* reads receipt.status or status.err, which tell whether the money moved. *)
OnChain == {"final", "reverted", "forgotten"}

(* What checkConfirmation can see: Solana answers getSignatureStatus from  *)
(* its recent blocks only, and nobody asks it to search the older ones.    *)
Visible == OnChain \ {"forgotten"}

JobState == {"absent", "waiting", "active", "completed", "failed"}

VARIABLES
    status,     \* payment -> status of its row, "none" while there is none
    attempt,    \* run -> status of its payment_attempts row, or "none"
    ledger,     \* payment -> entry type -> number of rows, each of Amount
    available,  \* chain -> treasury_wallets.available_balance
    reserved,   \* chain -> treasury_wallets.reserved_balance
    events,     \* payment -> event type -> number of webhook_events rows
    tx,         \* run -> its transfer, as the chain sees it
    queue,      \* payment -> state of the job whose jobId is its id
    made,       \* payment -> finished tries of the job (attemptsMade)
    stalled,    \* payment -> times the job was found stalled
    faults      \* how many faults have happened

db == <<status, attempt, ledger, available, reserved, events>>
jobs == <<queue, made, stalled>>
store == <<db, tx, jobs, faults>>

StoreTypeOK ==
    /\ status \in [Payments -> IntentStatus \cup {"none"}]
    /\ attempt \in [Runs -> AttemptStatus \cup {"none"}]
    /\ ledger \in [Payments -> [EntryTypes -> Nat]]
    /\ available \in [Chains -> Int]
    /\ reserved \in [Chains -> Int]
    /\ events \in [Payments -> [EventTypes -> Nat]]
    /\ tx \in [Runs -> TxState]
    /\ queue \in [Payments -> JobState]
    /\ made \in [Payments -> 0 .. MaxAttempts]
    /\ stalled \in [Payments -> 0 .. MaxStalls]
    /\ faults \in 0 .. MaxFaults

StoreInit ==
    /\ status = [p \in Payments |-> "none"]
    /\ attempt = [r \in Runs |-> "none"]
    /\ ledger = [p \in Payments |-> [t \in EntryTypes |-> 0]]
    /\ available = Funds
    /\ reserved = [c \in Chains |-> 0]
    /\ events = [p \in Payments |-> [t \in EventTypes |-> 0]]
    /\ tx = [r \in Runs |-> "none"]
    /\ queue = [p \in Payments |-> "absent"]
    /\ made = [p \in Payments |-> 0]
    /\ stalled = [p \in Payments |-> 0]
    /\ faults = 0

(***************************************************************************)
(* Statements.  Each says what becomes of the whole database.              *)
(***************************************************************************)
SetStatus(p, s) ==
    /\ status' = [status EXCEPT ![p] = s]
    /\ UNCHANGED <<attempt, ledger, available, reserved, events>>

SetAttempt(r, s) ==
    /\ attempt' = [attempt EXCEPT ![r] = s]
    /\ UNCHANGED <<status, ledger, available, reserved, events>>

CreateLedgerEntry(p, type) ==
    /\ ledger' = [ledger EXCEPT ![p][type] = @ + 1]
    /\ UNCHANGED <<status, attempt, available, reserved, events>>

EmitWebhook(p, type) ==
    /\ events' = [events EXCEPT ![p][type] = @ + 1]
    /\ UNCHANGED <<status, attempt, ledger, available, reserved>>

(* A step that goes well, and one in which a statement or a call throws.   *)
Works == UNCHANGED faults
Throws == faults < MaxFaults /\ faults' = faults + 1

(* Mutant: the reserve is entered in the ledger, not in the wallet row.    *)
CreateIntentUnreserved(p) ==
    LET c == ChainOf[p]
    IN  /\ status[p] = "none"
        /\ available[c] - reserved[c] >= Amount[p]
        /\ status' = [status EXCEPT ![p] = "route_selected"]
        /\ ledger' = [ledger EXCEPT ![p]["reserve"] = @ + 1]
        /\ UNCHANGED <<attempt, available, reserved, events, tx, jobs, faults>>

(***************************************************************************)
(* The API: the transaction of createPaymentIntent is atomic here (module  *)
(* IntentCreation looks inside it), and the job is added after its commit. *)
(***************************************************************************)
CreateIntent(p) ==
    LET c == ChainOf[p]
    IN  /\ status[p] = "none"
        /\ available[c] - reserved[c] >= Amount[p]
        /\ status' = [status EXCEPT ![p] = "route_selected"]
        /\ reserved' = [reserved EXCEPT ![c] = @ + Amount[p]]
        /\ ledger' = [ledger EXCEPT ![p]["reserve"] = @ + 1]
        /\ UNCHANGED <<attempt, available, events, tx, jobs, faults>>

(* Adding a job whose jobId exists changes nothing, so a repeated request  *)
(* matters only when the first one died between commit and add.            *)
EnqueueExecution(p) ==
    /\ status[p] # "none"
    /\ queue[p] = "absent"
    /\ queue' = [queue EXCEPT ![p] = "waiting"]
    /\ UNCHANGED <<db, tx, made, stalled, faults>>

(***************************************************************************)
(* The chains: a transfer that was sent reaches finality, or never lands   *)
(* and says so (expired, replaced, refused by the contract).  Three faults *)
(* of a chain: a reorganisation puts a transfer that succeeded into its    *)
(* final block as one that failed; a transfer that cannot expire waits for *)
(* ever, behind a nonce gap or for a gas price nobody asks any more; and   *)
(* Solana forgets a transfer minutes after its block.                      *)
(***************************************************************************)
FinalizeTx(r) ==
    /\ tx[r] = "sent"
    /\ tx' = [tx EXCEPT ![r] = "final"]
    /\ UNCHANGED <<db, jobs, faults>>

DropTx(r) ==
    /\ tx[r] = "sent"
    /\ tx' = [tx EXCEPT ![r] = "dropped"]
    /\ UNCHANGED <<db, jobs, faults>>

RevertTx(r) ==
    /\ tx[r] = "sent"
    /\ tx' = [tx EXCEPT ![r] = "reverted"]
    /\ Throws
    /\ UNCHANGED <<db, jobs>>

StickTx(r) ==
    /\ ChainOf[PaymentOf(r)] \notin Expiring
    /\ tx[r] = "sent"
    /\ tx' = [tx EXCEPT ![r] = "stuck"]
    /\ Throws
    /\ UNCHANGED <<db, jobs>>

ForgetTx(r) ==
    /\ ChainOf[PaymentOf(r)] \in Expiring
    /\ tx[r] = "final"
    /\ tx' = [tx EXCEPT ![r] = "forgotten"]
    /\ Throws
    /\ UNCHANGED <<db, jobs>>
=============================================================================
