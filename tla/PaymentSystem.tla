---------------------------- MODULE PaymentSystem ----------------------------
(***************************************************************************)
(* The payment path end to end: intents and jobs from the API, execution   *)
(* runs, confirmation scans and the chains, all interleaved.               *)
(***************************************************************************)
EXTENDS ExecutionWorker, ConfirmationWorker, Sums

(* What is added up is finite: the rows of the payment_intents table and   *)
(* the scans under way, of which a worker process always has one to make.  *)
ASSUME FinitenessAssumption ==
    IsFiniteSet(Payments) /\ IsFiniteSet(Pollers) /\ Pollers # {}

vars == <<store, pc, pollerVars>>

Init == StoreInit /\ ExecutionInit /\ ConfirmationInit

ApiStep ==
    /\ \E p \in Payments : CreateIntent(p) \/ EnqueueExecution(p)
    /\ UNCHANGED <<pc, pollerVars>>
ChainStep ==
    /\ \E r \in Runs :
         FinalizeTx(r) \/ DropTx(r) \/ RevertTx(r) \/ StickTx(r) \/ ForgetTx(r)
    /\ UNCHANGED <<pc, pollerVars>>
ExecutionStep == ExecutionNext /\ UNCHANGED pollerVars
ConfirmationStep == ConfirmationNext /\ UNCHANGED pc

Next == ApiStep \/ ChainStep \/ ExecutionStep \/ ConfirmationStep

Spec == Init /\ [][Next]_vars

(* BullMQ hands out waiting jobs while a slot is free and checks for       *)
(* stalled ones, Node runs every pending continuation, the interval keeps  *)
(* firing and a transfer that is not stuck does not stay in the mempool    *)
(* for ever.  A run and a transfer take only so many steps, so it is       *)
(* enough that some run of a payment, and some transfer of it, moves while *)
(* one can.  The API owes nothing: whether a merchant asks, or asks again, *)
(* is up to the merchant.                                                  *)
Fairness ==
    /\ \A p \in Payments :
         /\ WF_vars(StartRun(p) /\ UNCHANGED pollerVars)
         /\ WF_vars(OwnerIsDead(p) /\ StallJob(p) /\ UNCHANGED pollerVars)
         /\ WF_vars(\E r \in RunsOf(p) : RunStep(r) /\ UNCHANGED pollerVars)
         /\ WF_vars(\E r \in RunsOf(p) :
                       (FinalizeTx(r) \/ DropTx(r)) /\ UNCHANGED <<pc, pollerVars>>)
    /\ \A w \in Pollers : WF_vars(PollerStep(w) /\ UNCHANGED pc)

FairSpec == Spec /\ Fairness

TypeOK == StoreTypeOK /\ ExecutionTypeOK /\ ConfirmationTypeOK

-----------------------------------------------------------------------------
(* Safety, whatever fails and whatever overlaps.                           *)

(* A payment is shown as settled, or its merchant told so, only when one   *)
(* of its attempts is recorded as confirmed and that very transfer is in a *)
(* final block: no retry, late catch block, second scan or crash makes the *)
(* report run ahead of the chain.                                          *)
SettledIsFinal ==
    \A p \in Payments :
        (status[p] = "settled" \/ events[p]["payment.settled"] > 0) =>
            \E r \in RunsOf(p) : attempt[r] = "confirmed" /\ tx[r] \in OnChain

(* The attempt row is written before the transfer is sent, so a worker     *)
(* that dies in between leaves a trace of every transfer on the chain.     *)
TransferHasAttempt ==
    \A r \in Runs : tx[r] # "none" => attempt[r] # "none"

PaymentsOn(c) == {p \in Payments : ChainOf[p] = c}
Confirmed(p) == {r \in RunsOf(p) : attempt[r] = "confirmed"}

(* What n[p] times the amount of every payment p comes to on a chain.      *)
Total(n, c) == SumOver([p \in Payments |-> n[p] * Amount[p]], PaymentsOn(c))
ReservedEntries(c) == Total([p \in Payments |-> ledger[p]["reserve"]], c)
ReleasedEntries(c) == Total([p \in Payments |-> ledger[p]["release"]], c)
FailedEvents(c) == Total([p \in Payments |-> events[p]["payment.failed"]], c)
SettledEvents(c) == Total([p \in Payments |-> events[p]["payment.settled"]], c)
ConfirmedTotal(c) == Total([p \in Payments |-> Cardinality(Confirmed(p))], c)
Deducted(c) == Funds[c] - available[c]

(* The wallet row and the ledger tell the same story up to the statements  *)
(* a failure cut off: what is reserved or was deducted is at least what    *)
(* the ledger reserved and did not release, and at most what was reserved  *)
(* less what merchants were told has failed.                               *)
TreasuryMatchesLedger ==
    \A c \in Chains :
        LET held == reserved[c] + Deducted(c)
        IN  /\ ReservedEntries(c) - ReleasedEntries(c) <= held
            /\ held <= ReservedEntries(c) - FailedEvents(c)

(* No merchant is told of a settlement the treasury has not paid for.      *)
SettledEventsAreDeducted ==
    \A c \in Chains : SettledEvents(c) <= Deducted(c)

(* Overlapping scans may each deduct a transfer they both found            *)
(* broadcasted, but no scan deducts one twice: it is never taken up again  *)
(* once it is confirmed.                                                   *)
DeductionsBounded ==
    \A c \in Chains : Deducted(c) <= Cardinality(Pollers) * ConfirmedTotal(c)

Transfers(p) == {r \in RunsOf(p) : tx[r] \in {"sent", "stuck", "final", "forgotten"}}

(* A payment is sent again only after its last transfer can no longer      *)
(* land, or because a receipt was lost, a run stalled or died: each fault  *)
(* costs one more transfer at most, however tries and stalls come together.*)
TransfersBounded ==
    \A p \in Payments : Cardinality(Transfers(p)) <= 1 + faults

(* payment.failed goes out before the retry that may yet pay.  Once the    *)
(* job is given up it is the truth, but for one transfer at most that each *)
(* fault left on the chain or on its way there.                            *)
GivenUpIsUnpaid ==
    \A p \in Payments :
        queue[p] = "failed" => Cardinality(Transfers(p)) <= faults

(* What the intents that were neither released nor confirmed were promised *)
(* of a wallet, which the row alone does not say: each try that throws     *)
(* gives the same reserve back once more and each scan may spend it once   *)
(* more, so the row forgets promises that stand, and the check of the next *)
(* intent, which reads the row, lets more through than the wallet has.     *)
Promised(c) ==
    Total([p \in Payments |->
             IF ledger[p]["release"] = 0 /\ Confirmed(p) = {}
             THEN ledger[p]["reserve"] ELSE 0], c)

(* A wallet is never short of what it promised by more than the tries,     *)
(* scans and faults of the payments that are through can explain.  Each    *)
(* try of a job gives its reserve back or sends a transfer, each fault     *)
(* adds a transfer at most, and each scan spends a transfer once at most.  *)
(* With one try, one scan and no fault Extra is 0: what is promised is     *)
(* reserved, and what is reserved is there.                                *)
Extra == MaxAttempts + Cardinality(Pollers) * (1 + faults) - 2
PromisesCovered ==
    \A c \in Chains :
        /\ Promised(c) - Extra * (ReservedEntries(c) - Promised(c)) <= reserved[c]
        /\ reserved[c] <= available[c]

(* Confirmed is the end for an attempt: neither a catch block, which fails *)
(* the payment's attempts wholesale, nor a late record of the transaction  *)
(* id, nor a scan that read the attempt earlier takes it back.             *)
ConfirmedIsTerminal ==
    [][\A r \in Runs : attempt[r] = "confirmed" => attempt'[r] = "confirmed"]_vars

(* The records a merchant relies on only move forward, in the order of     *)
(* SettlementPromise.                                                      *)
stageOf == [p \in Payments |->
    IF status[p] = "none" THEN "none"
    ELSE IF Confirmed(p) # {} THEN "confirmed"
    ELSE IF \E r \in RunsOf(p) : tx[r] \in OnChain THEN "onchain"
    ELSE "accepted"]
toldOf == [p \in Payments |-> events[p]["payment.settled"] > 0]

Promise == INSTANCE SettlementPromise WITH stage <- stageOf, told <- toldOf
KeepsPromise == Promise!Spec

-----------------------------------------------------------------------------
(* Safety while nothing fails.                                             *)

AtRest(p) ==
    /\ queue[p] \in {"completed", "failed"}
    /\ \A r \in RunsOf(p) : pc[r] \notin Live /\ attempt[r] # "broadcasted"
    /\ \A w \in Pollers : at[w] \notin RunsOf(p)

(* The two workers write the books of a payment in turns, the debit in the *)
(* run and the deduction in the scan.  When both are through, what the     *)
(* ledger debits is what was confirmed, that was reported as settled, by   *)
(* each scan that found it once at most, and what the ledger released was  *)
(* reported as failed.                                                     *)
BooksClose ==
    faults = 0 =>
        \A p \in Payments : AtRest(p) =>
            /\ ledger[p]["debit"] = Cardinality(Confirmed(p))
            /\ Cardinality(Confirmed(p)) <= events[p]["payment.settled"]
            /\ events[p]["payment.settled"]
                 <= Cardinality(Pollers) * Cardinality(Confirmed(p))
            /\ ledger[p]["release"] = events[p]["payment.failed"]

-----------------------------------------------------------------------------
(* Liveness.                                                               *)

WaitsForever(r) == pc[r] = "wait_receipt" /\ tx[r] = "stuck"

(* Every job comes to an end, through throwing runs, crashes and stalls,   *)
(* unless a stuck transfer of its own holds it up, or stuck transfers of   *)
(* others hold every slot: then it starves, on whatever chain it is.       *)
JobsFinish ==
    \A p \in Payments :
        queue[p] = "waiting" ~>
            \/ queue[p] \in {"completed", "failed"}
            \/ \E r \in RunsOf(p) : WaitsForever(r)
            \/ Cardinality({r \in Runs : WaitsForever(r)}) = Concurrency

(* Every transfer that is recorded and in a final block its chain still    *)
(* knows is found by some scan, whatever happened to the scans before it:  *)
(* again and again there is none left to confirm.                          *)
RecordedTransferIsConfirmed ==
    []<>(\A r \in Runs : attempt[r] = "broadcasted" => tx[r] \notin Visible)

Reported(r) ==
    /\ attempt[r] = "confirmed"
    /\ events[PaymentOf(r)]["payment.settled"] > 0

(* Every transfer that lands is confirmed and its merchant told, unless    *)
(* something fails.                                                        *)
LandedTransferIsReported ==
    []<>(faults > 0 \/ \A r \in Runs : tx[r] = "final" => Reported(r))
=============================================================================
