------------------------- MODULE ConfirmationWorker -------------------------
(***************************************************************************)
(* apps/worker-service/src/workers/confirmation.worker.ts: the interval    *)
(* starts a scan of the broadcasted attempts every 15 seconds whether or   *)
(* not the last one is over, so several scans may be under way.            *)
(***************************************************************************)
EXTENDS PaymentStore

CONSTANTS Pollers,   \* scans that may overlap
          NoRun      \* the attempt a scan is at when it is at none

ASSUME NoRunAssumption == NoRun \notin Runs

VARIABLES phase,   \* poller -> the call it makes next
          todo,    \* poller -> attempts its query returned, not yet checked
          at       \* poller -> the attempt it is processing

pollerVars == <<phase, todo, at>>

PollerPhase == {"sleeping", "checking", "mark_confirmed", "settle",
                "record_fee", "deduct", "emit_settled", "review"}

ConfirmationTypeOK ==
    /\ phase \in [Pollers -> PollerPhase]
    /\ todo \in [Pollers -> SUBSET Runs]
    /\ at \in [Pollers -> Runs \cup {NoRun}]

ConfirmationInit ==
    /\ phase = [w \in Pollers |-> "sleeping"]
    /\ todo = [w \in Pollers |-> {}]
    /\ at = [w \in Pollers |-> NoRun]

(* Mutant: the query finds confirmed attempts, too.                        *)
ScanAgain(w) ==
    /\ phase[w] = "sleeping"
    /\ \E r \in Runs : attempt[r] \in {"broadcasted", "confirmed"}
    /\ todo' = [todo EXCEPT ![w] =
                  {r \in Runs : attempt[r] \in {"broadcasted", "confirmed"}}]
    /\ phase' = [phase EXCEPT ![w] = "checking"]
    /\ UNCHANGED <<store, at>>

(* Mutant: the query asks for the status of the payment instead.           *)
ScanByPayment(w) ==
    LET found == {r \in Runs : /\ attempt[r] = "broadcasted"
                               /\ status[PaymentOf(r)] = "broadcasted"}
    IN  /\ phase[w] = "sleeping"
        /\ found # {}
        /\ todo' = [todo EXCEPT ![w] = found]
        /\ phase' = [phase EXCEPT ![w] = "checking"]
        /\ UNCHANGED <<store, at>>

(* A scan queries once and then works from its own copy of the rows.       *)
Scan(w) ==
    /\ phase[w] = "sleeping"
    /\ \E r \in Runs : attempt[r] = "broadcasted"
    /\ todo' = [todo EXCEPT ![w] = {r \in Runs : attempt[r] = "broadcasted"}]
    /\ phase' = [phase EXCEPT ![w] = "checking"]
    /\ UNCHANGED <<store, at>>

Take(w, r) ==
    /\ phase[w] = "checking"
    /\ r \in todo[w]
    /\ todo' = [todo EXCEPT ![w] = @ \ {r}]

(* Past the attempt in hand: on to the next one, or asleep.                *)
NextAttempt(w, rest) ==
    /\ phase' = [phase EXCEPT ![w] = IF rest = {} THEN "sleeping"
                                     ELSE "checking"]
    /\ at' = [at EXCEPT ![w] = NoRun]

(* Mutant: a transfer that is in a block counts as final.                  *)
CheckIncluded(w, r) ==
    /\ Take(w, r)
    /\ tx[r] \in {"sent"} \cup Visible
    /\ phase' = [phase EXCEPT ![w] = "mark_confirmed"]
    /\ at' = [at EXCEPT ![w] = r]
    /\ UNCHANGED store

CheckConfirmed(w, r) ==
    /\ Take(w, r)
    /\ tx[r] \in Visible
    /\ phase' = [phase EXCEPT ![w] = "mark_confirmed"]
    /\ at' = [at EXCEPT ![w] = r]
    /\ UNCHANGED store

(* Not final, or the adapter could not tell (an RPC error reads the same). *)
CheckUnconfirmed(w, r) ==
    /\ Take(w, r)
    /\ IF tx[r] \in Visible THEN Throws ELSE Works
    /\ \/ NextAttempt(w, todo[w] \ {r})
       \/ /\ phase' = [phase EXCEPT ![w] = "review"]  \* older than 10 minutes
          /\ at' = [at EXCEPT ![w] = r]
    /\ UNCHANGED <<db, tx, jobs>>

(* One statement on behalf of the attempt in hand.  What throws is logged  *)
(* and the scan goes on with the next attempt.                             *)
PollerStatement(w, here, next, Effect) ==
    /\ phase[w] = here
    /\ UNCHANGED <<todo, tx, jobs>>
    /\ \/ Works /\ Effect /\ UNCHANGED at
                /\ phase' = [phase EXCEPT ![w] = next]
       \/ Throws /\ Effect /\ NextAttempt(w, todo[w])
       \/ Throws /\ UNCHANGED db /\ NextAttempt(w, todo[w])

(* The last statement for the attempt in hand.                             *)
PollerLastStatement(w, here, Effect) ==
    /\ phase[w] = here
    /\ UNCHANGED <<todo, tx, jobs>>
    /\ NextAttempt(w, todo[w])
    /\ \/ Works /\ Effect
       \/ Throws /\ Effect
       \/ Throws /\ UNCHANGED db

MarkConfirmed(w) ==
    PollerStatement(w, "mark_confirmed", "settle",
                    SetAttempt(at[w], "confirmed"))

Settle(w) ==
    PollerStatement(w, "settle", "record_fee",
                    SetStatus(PaymentOf(at[w]), "settled"))

(* Skipped when the adapter could not tell the fee.                        *)
RecordFee(w) ==
    PollerStatement(w, "record_fee", "deduct",
                    \/ CreateLedgerEntry(PaymentOf(at[w]), "fee")
                    \/ UNCHANGED db)

(* Mutant: only the reserved balance goes down.                            *)
SpendReserveOnly(p) ==
    /\ reserved' = [reserved EXCEPT ![ChainOf[p]] = @ - Amount[p]]
    /\ UNCHANGED <<status, attempt, ledger, available, events>>

SpendReserve(p) ==
    /\ reserved' = [reserved EXCEPT ![ChainOf[p]] = @ - Amount[p]]
    /\ available' = [available EXCEPT ![ChainOf[p]] = @ - Amount[p]]
    /\ UNCHANGED <<status, attempt, ledger, events>>

Deduct(w) ==
    PollerStatement(w, "deduct", "emit_settled",
                    SpendReserve(PaymentOf(at[w])))

EmitSettled(w) ==
    PollerLastStatement(w, "emit_settled",
                        EmitWebhook(PaymentOf(at[w]), "payment.settled"))

(* Mutant: the attempt under review is closed as failed.                   *)
FailOnReview(w) ==
    PollerLastStatement(w, "review", SetAttempt(at[w], "failed"))

MoveToManualReview(w) ==
    PollerLastStatement(w, "review",
                        SetStatus(PaymentOf(at[w]), "manual_review"))

(* The process dies, or a graceful shutdown, which waits for runs and not  *)
(* for scans, ends it; its successor's interval starts afresh.             *)
PollerCrashes(w) ==
    /\ phase[w] # "sleeping"
    /\ Throws
    /\ phase' = [phase EXCEPT ![w] = "sleeping"]
    /\ todo' = [todo EXCEPT ![w] = {}]
    /\ at' = [at EXCEPT ![w] = NoRun]
    /\ UNCHANGED <<db, tx, jobs>>

PollerStep(w) ==
    \/ Scan(w)
    \/ \E r \in todo[w] : CheckConfirmed(w, r) \/ CheckUnconfirmed(w, r)
    \/ MarkConfirmed(w) \/ Settle(w) \/ RecordFee(w) \/ Deduct(w)
    \/ EmitSettled(w) \/ MoveToManualReview(w)

ConfirmationNext == \E w \in Pollers : PollerStep(w) \/ PollerCrashes(w)
=============================================================================
