-------------------------- MODULE ExecutionWorker --------------------------
(***************************************************************************)
(* apps/worker-service/src/workers/execution.worker.ts: processPayment,    *)
(* one step per awaited call, run by BullMQ workers that may crash or lose *)
(* the lock of a job they are still working on.                            *)
(***************************************************************************)
EXTENDS PaymentStore

VARIABLE pc     \* run -> the call it makes next

Trying == {"set_broadcasting", "insert_attempt", "transfer", "wait_receipt",
           "record_tx", "set_broadcasted", "debit"}
Catching == {"set_failed", "fail_attempts", "release", "unreserve",
             "emit_failed"}
Live == {"fetch", "returned", "threw"} \cup Trying \cup Catching
RunPc == {"idle", "ended", "dead"} \cup Live

ExecutionTypeOK == pc \in [Runs -> RunPc]
ExecutionInit == pc = [r \in Runs |-> "idle"]

(* The run that holds the lock of p's job while the job is active.         *)
Owner(p) == <<p, made[p] + stalled[p] + 1>>
Owns(r) == queue[PaymentOf(r)] = "active" /\ r = Owner(PaymentOf(r))

Goto(r, l) == pc' = [pc EXCEPT ![r] = l]

(* One awaited statement: it takes effect, or it throws and may still have *)
(* taken effect (the connection broke after the commit).                   *)
Statement(r, here, next, handler, Effect) ==
    /\ pc[r] = here
    /\ UNCHANGED <<tx, jobs>>
    /\ \/ Works /\ Effect /\ Goto(r, next)
       \/ Throws /\ Effect /\ Goto(r, handler)
       \/ Throws /\ UNCHANGED db /\ Goto(r, handler)

(* Mutant: the slot of a process that died is not given back.              *)
BusyOrDead == {r \in Runs : pc[r] \in Live \cup {"dead"}}

(* A worker process takes a job while one of its slots is free; a run      *)
(* keeps its slot until the promise of processPayment settles.             *)
Busy == {r \in Runs : pc[r] \in Live}

StartRun(p) ==
    /\ queue[p] = "waiting"
    /\ Cardinality(Busy) < Concurrency
    /\ queue' = [queue EXCEPT ![p] = "active"]
    /\ Goto(Owner(p), "fetch")
    /\ UNCHANGED <<db, tx, made, stalled, faults>>

(* The read is outside the try block: when it throws nothing is undone.    *)
FetchIntent(r) ==
    /\ pc[r] = "fetch"
    /\ UNCHANGED <<db, tx, jobs>>
    /\ \/ Works /\ status[PaymentOf(r)] \in {"none", "settled", "cancelled"}
                /\ Goto(r, "returned")
       \/ Works /\ status[PaymentOf(r)] \notin {"none", "settled", "cancelled"}
                /\ Goto(r, "set_broadcasting")
       \/ Throws /\ Goto(r, "threw")

(* Mutant: no attempt row is written before the transfer is sent.          *)
SetBroadcastingAndSend(r) ==
    Statement(r, "set_broadcasting", "transfer", "set_failed",
              SetStatus(PaymentOf(r), "broadcasting"))

SetBroadcasting(r) ==
    Statement(r, "set_broadcasting", "insert_attempt", "set_failed",
              SetStatus(PaymentOf(r), "broadcasting"))

InsertAttempt(r) ==
    Statement(r, "insert_attempt", "transfer", "set_failed",
              SetAttempt(r, "pending"))

(* buildAndSendTransfer, step by step: refused before anything is sent     *)
(* (nonce lock taken, no token account, not enough gas) ...                *)
RefuseTransfer(r) ==
    /\ pc[r] = "transfer"
    /\ Goto(r, "set_failed")
    /\ UNCHANGED store

(* ... or handed to the chain, whose receipt is then awaited.              *)
SendTransfer(r) ==
    /\ pc[r] = "transfer"
    /\ tx' = [tx EXCEPT ![r] = "sent"]
    /\ Goto(r, "wait_receipt")
    /\ UNCHANGED <<db, jobs, faults>>

ReceiptArrives(r) ==
    /\ pc[r] = "wait_receipt"
    /\ tx[r] \in {"sent", "final", "forgotten"}
    /\ Goto(r, "record_tx")
    /\ UNCHANGED store

(* Mutant: the wait has a timeout.                                         *)
WaitTimesOut(r) ==
    /\ pc[r] = "wait_receipt"
    /\ Goto(r, "set_failed")
    /\ UNCHANGED store

(* The wait throws when the transfer failed or was dropped or its chain no *)
(* longer knows it, and when the RPC endpoint fails, whatever becomes of   *)
(* the transfer.  It has no timeout: a run whose transfer is stuck waits   *)
(* with it.                                                                *)
WaitThrows(r) ==
    /\ pc[r] = "wait_receipt"
    /\ Goto(r, "set_failed")
    /\ UNCHANGED <<db, tx, jobs>>
    /\ \/ Works /\ tx[r] \in {"dropped", "reverted", "forgotten"}
       \/ Throws

RecordTx(r) ==
    Statement(r, "record_tx", "set_broadcasted", "set_failed",
              SetAttempt(r, "broadcasted"))

(* Mutant: the run returns without entering the debit.                     *)
SetBroadcastedOnly(r) ==
    Statement(r, "set_broadcasted", "returned", "set_failed",
              SetStatus(PaymentOf(r), "broadcasted"))

SetBroadcasted(r) ==
    Statement(r, "set_broadcasted", "debit", "set_failed",
              SetStatus(PaymentOf(r), "broadcasted"))

DebitBalance(r) ==
    Statement(r, "debit", "returned", "set_failed",
              CreateLedgerEntry(PaymentOf(r), "debit"))

(* The catch block.  A statement of it that throws skips the rest.         *)
SetFailed(r) ==
    Statement(r, "set_failed", "fail_attempts", "threw",
              SetStatus(PaymentOf(r), "failed"))

(* Mutant: all attempts of the payment, whatever their status.             *)
FailAllAttempts(p) ==
    /\ attempt' = [r \in Runs |->
                     IF PaymentOf(r) = p /\ attempt[r] # "none"
                     THEN "failed" ELSE attempt[r]]
    /\ UNCHANGED <<status, ledger, available, reserved, events>>

(* Every attempt of the payment that is still pending, whichever run it    *)
(* belongs to.                                                             *)
FailPendingAttempts(p) ==
    /\ attempt' = [r \in Runs |->
                     IF PaymentOf(r) = p /\ attempt[r] = "pending"
                     THEN "failed" ELSE attempt[r]]
    /\ UNCHANGED <<status, ledger, available, reserved, events>>

(* Mutant: the release is not entered in the ledger.                       *)
FailAttemptsUnreleased(r) ==
    Statement(r, "fail_attempts", "unreserve", "threw",
              FailPendingAttempts(PaymentOf(r)))

FailAttempts(r) ==
    Statement(r, "fail_attempts", "release", "threw",
              FailPendingAttempts(PaymentOf(r)))

ReleaseReserve(r) ==
    Statement(r, "release", "unreserve", "threw",
              CreateLedgerEntry(PaymentOf(r), "release"))

(* Mutant: the update names no chain.                                      *)
ReturnReserveEverywhere(p) ==
    /\ reserved' = [c \in Chains |-> reserved[c] - Amount[p]]
    /\ UNCHANGED <<status, attempt, ledger, available, events>>

ReturnReserve(p) ==
    /\ reserved' = [reserved EXCEPT ![ChainOf[p]] = @ - Amount[p]]
    /\ UNCHANGED <<status, attempt, ledger, available, events>>

Unreserve(r) ==
    Statement(r, "unreserve", "emit_failed", "threw",
              ReturnReserve(PaymentOf(r)))

EmitFailed(r) ==
    Statement(r, "emit_failed", "threw", "threw",
              EmitWebhook(PaymentOf(r), "payment.failed"))

(***************************************************************************)
(* BullMQ.  A processor that returns completes the job, one that throws    *)
(* has it retried while tries remain.  Neither counts once another run has *)
(* the job's lock.                                                         *)
(***************************************************************************)
RunReturns(r) ==
    /\ pc[r] = "returned"
    /\ Goto(r, "ended")
    /\ queue' = IF Owns(r) THEN [queue EXCEPT ![PaymentOf(r)] = "completed"]
                ELSE queue
    /\ UNCHANGED <<db, tx, made, stalled, faults>>

(* Mutant: one try too many.                                               *)
RunThrowsOnceMore(r) ==
    LET p == PaymentOf(r)
    IN  /\ pc[r] = "threw"
        /\ Goto(r, "ended")
        /\ UNCHANGED <<db, tx, stalled, faults>>
        /\ IF Owns(r)
           THEN /\ made' = [made EXCEPT ![p] = @ + 1]
                /\ queue' = [queue EXCEPT ![p] =
                               IF made[p] < MaxAttempts THEN "waiting"
                               ELSE "failed"]
           ELSE UNCHANGED <<made, queue>>

RunThrows(r) ==
    LET p == PaymentOf(r)
    IN  /\ pc[r] = "threw"
        /\ Goto(r, "ended")
        /\ UNCHANGED <<db, tx, stalled, faults>>
        /\ IF Owns(r)
           THEN /\ made' = [made EXCEPT ![p] = @ + 1]
                /\ queue' = [queue EXCEPT ![p] =
                               IF made[p] + 1 < MaxAttempts THEN "waiting"
                               ELSE "failed"]
           ELSE UNCHANGED <<made, queue>>

RunCrashes(r) ==
    /\ pc[r] \in Live
    /\ Throws
    /\ Goto(r, "dead")
    /\ UNCHANGED <<db, tx, jobs>>

(* Mutant: a stalled job is counted but not put back.                      *)
StallJobOnly(p) ==
    /\ queue[p] = "active"
    /\ IF pc[Owner(p)] = "dead" THEN Works ELSE Throws
    /\ stalled[p] < MaxStalls
    /\ stalled' = [stalled EXCEPT ![p] = @ + 1]
    /\ UNCHANGED <<db, tx, made, queue, pc>>

(* The stalled-job check finds the lock expired: its run is dead, or alive *)
(* and too slow to renew it (a fault).  The job goes back to the queue up  *)
(* to MaxStalls times and fails after that.                                *)
StallJob(p) ==
    /\ queue[p] = "active"
    /\ IF pc[Owner(p)] = "dead" THEN Works ELSE Throws
    /\ IF stalled[p] < MaxStalls
       THEN /\ stalled' = [stalled EXCEPT ![p] = @ + 1]
            /\ queue' = [queue EXCEPT ![p] = "waiting"]
       ELSE /\ queue' = [queue EXCEPT ![p] = "failed"]
            /\ UNCHANGED stalled
    /\ UNCHANGED <<db, tx, made, pc>>

OwnerIsDead(p) == queue[p] = "active" /\ pc[Owner(p)] = "dead"

(* What a run does by itself.                                              *)
RunStep(r) ==
    \/ FetchIntent(r) \/ SetBroadcasting(r) \/ InsertAttempt(r)
    \/ RefuseTransfer(r) \/ SendTransfer(r) \/ ReceiptArrives(r)
    \/ WaitThrows(r) \/ RecordTx(r) \/ SetBroadcasted(r) \/ DebitBalance(r)
    \/ SetFailed(r) \/ FailAttempts(r) \/ ReleaseReserve(r) \/ Unreserve(r)
    \/ EmitFailed(r) \/ RunReturns(r) \/ RunThrows(r)

ExecutionNext ==
    \/ \E p \in Payments : StartRun(p) \/ StallJob(p)
    \/ \E r \in Runs : RunStep(r) \/ RunCrashes(r)
=============================================================================
