------------------------ MODULE PaymentSystem_proofs ------------------------
(***************************************************************************)
(* Proofs about the payment path, for any number of payments, wallets,     *)
(* tries, stalls, faults and overlapping scans: types, the settlement      *)
(* invariant, and that the system keeps SettlementPromise.                 *)
(***************************************************************************)
EXTENDS PaymentSystem, TLAPS

(* A job that is not over has a try left.                                  *)
JobsOK ==
    \A p \in Payments :
        queue[p] \in {"absent", "waiting", "active"} => made[p] < MaxAttempts

(* A scan between two statements has an attempt in hand.                   *)
InHand ==
    \A w \in Pollers :
        phase[w] \notin {"sleeping", "checking"} => at[w] \in Runs

(* Types, with what keeps run numbers and attempts in hand within them.    *)
TypeInv == TypeOK /\ JobsOK /\ InHand

USE DEF PaymentOf

(* The initial state is well typed.                                        *)
LEMMA TypeInit == Init => TypeInv
<1> USE PaymentsAssumption, LimitsAssumption DEF Init, TypeInv, TypeOK, JobsOK
<1>1. Init => StoreTypeOK
  BY DEF StoreInit, StoreTypeOK, EntryTypes, EventTypes, TxState, JobState
<1>2. Init => ExecutionTypeOK
  BY DEF ExecutionInit, ExecutionTypeOK, RunPc
<1>3. Init => ConfirmationTypeOK
  BY DEF ConfirmationInit, ConfirmationTypeOK, PollerPhase
<1>4. Init => JobsOK /\ InHand
  BY DEF StoreInit, ConfirmationInit, InHand
<1> QED BY <1>1, <1>2, <1>3, <1>4

(* The statements keep the type of every table they write.                 *)
LEMMA SetStatusTyped ==
    ASSUME StoreTypeOK, NEW p \in Payments, NEW s \in IntentStatus,
           SetStatus(p, s), UNCHANGED <<tx, jobs>>, faults' \in 0 .. MaxFaults
    PROVE  StoreTypeOK'
BY DEF StoreTypeOK, SetStatus, jobs

(* The same of an update or insert of an attempt row,                      *)
LEMMA SetAttemptTyped ==
    ASSUME StoreTypeOK, NEW r \in Runs, NEW s \in AttemptStatus,
           SetAttempt(r, s), UNCHANGED <<tx, jobs>>, faults' \in 0 .. MaxFaults
    PROVE  StoreTypeOK'
BY DEF StoreTypeOK, SetAttempt, jobs

(* of a ledger row,                                                        *)
LEMMA CreateLedgerEntryTyped ==
    ASSUME StoreTypeOK, NEW p \in Payments, NEW t \in EntryTypes,
           CreateLedgerEntry(p, t), UNCHANGED <<tx, jobs>>, faults' \in 0 .. MaxFaults
    PROVE  StoreTypeOK'
BY DEF StoreTypeOK, CreateLedgerEntry, jobs

(* of an event row,                                                        *)
LEMMA EmitWebhookTyped ==
    ASSUME StoreTypeOK, NEW p \in Payments, NEW t \in EventTypes,
           EmitWebhook(p, t), UNCHANGED <<tx, jobs>>, faults' \in 0 .. MaxFaults
    PROVE  StoreTypeOK'
BY DEF StoreTypeOK, EmitWebhook, jobs

(* and of a statement that throws before it takes effect.                  *)
LEMMA UnchangedDbTyped ==
    ASSUME StoreTypeOK, UNCHANGED <<db, tx, jobs>>, faults' \in 0 .. MaxFaults
    PROVE  StoreTypeOK'
BY DEF StoreTypeOK, db, jobs

(* Faults stay within their bound.                                         *)
LEMMA FaultsBounded ==
    ASSUME StoreTypeOK, Works \/ Throws
    PROVE  faults' \in 0 .. MaxFaults
BY LimitsAssumption DEF StoreTypeOK, Works, Throws

(* The steps of a run keep every variable in its type. *)
LEMMA RunStepTyped ==
    ASSUME TypeInv, NEW r \in Runs, RunStep(r) \/ RunCrashes(r)
    PROVE  StoreTypeOK' /\ ExecutionTypeOK'
<1> USE FaultsBounded DEF TypeInv, TypeOK
<1>0. PaymentOf(r) \in Payments
  BY DEF Runs
<1>1. \A l \in RunPc : Goto(r, l) => ExecutionTypeOK'
  BY DEF ExecutionTypeOK, Goto
<1> USE DEF RunPc, Live, Trying, Catching
<1>2. CASE FetchIntent(r)
  BY <1>1, <1>2, UnchangedDbTyped DEF FetchIntent
<1>3. CASE SetBroadcasting(r)
  BY <1>0, <1>1, <1>3, SetStatusTyped, UnchangedDbTyped
     DEF SetBroadcasting, Statement, IntentStatus
<1>4. CASE InsertAttempt(r)
  BY <1>1, <1>4, SetAttemptTyped, UnchangedDbTyped
     DEF InsertAttempt, Statement, AttemptStatus
<1>5. CASE RefuseTransfer(r)
  BY <1>1, <1>5, UnchangedDbTyped DEF RefuseTransfer, store, StoreTypeOK
<1>6. CASE SendTransfer(r)
  BY <1>1, <1>6 DEF SendTransfer, StoreTypeOK, TxState, db, jobs
<1>7. CASE ReceiptArrives(r)
  BY <1>1, <1>7, UnchangedDbTyped DEF ReceiptArrives, store, StoreTypeOK
<1>8. CASE WaitThrows(r)
  BY <1>1, <1>8, UnchangedDbTyped DEF WaitThrows
<1>9. CASE RecordTx(r)
  BY <1>1, <1>9, SetAttemptTyped, UnchangedDbTyped
     DEF RecordTx, Statement, AttemptStatus
<1>10. CASE SetBroadcasted(r)
  BY <1>0, <1>1, <1>10, SetStatusTyped, UnchangedDbTyped
     DEF SetBroadcasted, Statement, IntentStatus
<1>11. CASE DebitBalance(r)
  BY <1>0, <1>1, <1>11, CreateLedgerEntryTyped, UnchangedDbTyped
     DEF DebitBalance, Statement, EntryTypes
<1>12. CASE SetFailed(r)
  BY <1>0, <1>1, <1>12, SetStatusTyped, UnchangedDbTyped
     DEF SetFailed, Statement, IntentStatus
<1>13. CASE FailAttempts(r)
  <2>1. ASSUME FailPendingAttempts(PaymentOf(r)), UNCHANGED <<tx, jobs>>,
               faults' \in 0 .. MaxFaults
        PROVE  StoreTypeOK'
    BY <2>1 DEF FailPendingAttempts, StoreTypeOK, AttemptStatus, jobs
  <2> QED
    BY <1>1, <1>13, <2>1, UnchangedDbTyped DEF FailAttempts, Statement
<1>14. CASE ReleaseReserve(r)
  BY <1>0, <1>1, <1>14, CreateLedgerEntryTyped, UnchangedDbTyped
     DEF ReleaseReserve, Statement, EntryTypes
<1>15. CASE Unreserve(r)
  <2>1. ASSUME ReturnReserve(PaymentOf(r)), UNCHANGED <<tx, jobs>>,
               faults' \in 0 .. MaxFaults
        PROVE  StoreTypeOK'
    BY <1>0, <2>1, PaymentsAssumption DEF ReturnReserve, StoreTypeOK, jobs
  <2> QED
    BY <1>1, <1>15, <2>1, UnchangedDbTyped DEF Unreserve, Statement
<1>16. CASE EmitFailed(r)
  BY <1>0, <1>1, <1>16, EmitWebhookTyped, UnchangedDbTyped
     DEF EmitFailed, Statement, EventTypes
<1>17. CASE RunReturns(r)
  BY <1>0, <1>1, <1>17 DEF RunReturns, StoreTypeOK, JobState, db
<1>18. CASE RunThrows(r)
  <2> DEFINE p == PaymentOf(r)
  <2>1. ExecutionTypeOK' /\ UNCHANGED <<db, tx, stalled, faults>>
    BY <1>1, <1>18 DEF RunThrows
  <2>2. made' \in [Payments -> 0 .. MaxAttempts]
    <3>1. CASE Owns(r)
      <4>1. made[p] + 1 \in 0 .. MaxAttempts
        BY <1>0, <3>1, LimitsAssumption DEF Owns, JobsOK, StoreTypeOK
      <4>2. made' = [made EXCEPT ![p] = made[p] + 1]
        BY <1>18, <3>1 DEF RunThrows
      <4> QED BY <1>0, <4>1, <4>2 DEF StoreTypeOK
    <3>2. CASE ~ Owns(r)
      BY <1>18, <3>2 DEF RunThrows, StoreTypeOK
    <3> QED BY <3>1, <3>2
  <2>3. queue' \in [Payments -> JobState]
    BY <1>18 DEF RunThrows, StoreTypeOK, JobState
  <2> QED BY <2>1, <2>2, <2>3 DEF StoreTypeOK, db
<1>19. CASE RunCrashes(r)
  BY <1>1, <1>19, UnchangedDbTyped DEF RunCrashes
<1> QED
  BY <1>2, <1>3, <1>4, <1>5, <1>6, <1>7, <1>8, <1>9, <1>10, <1>11, <1>12,
     <1>13, <1>14, <1>15, <1>16, <1>17, <1>18, <1>19 DEF RunStep

(* A step of the execution worker is one of BullMQ or one of a run, and    *)
(* BullMQ writes no row.                                                   *)
LEMMA ExecutionSteps ==
    ASSUME ExecutionStep
    PROVE  \/ \E p \in Payments : StartRun(p) \/ StallJob(p)
           \/ \E r \in Runs : RunStep(r) \/ RunCrashes(r)
BY DEF ExecutionStep, ExecutionNext

LEMMA JobStepsWriteNoRow ==
    ASSUME NEW p \in Payments, StartRun(p) \/ StallJob(p)
    PROVE  UNCHANGED <<status, attempt, events, tx>>
<1>1. CASE StartRun(p)
  BY <1>1 DEF StartRun, db
<1>2. CASE StallJob(p)
  BY <1>2 DEF StallJob, db
<1> QED BY <1>1, <1>2

(* The steps of the API, the chains and BullMQ keep the types, too.        *)
LEMMA StoreAndExecutionTyped ==
    ASSUME TypeInv, ApiStep \/ ChainStep \/ ExecutionStep
    PROVE  StoreTypeOK' /\ ExecutionTypeOK'
<1> USE DEF TypeInv, TypeOK
<1>1. CASE ApiStep
  <2>1. ExecutionTypeOK'
    BY <1>1 DEF ApiStep, ExecutionTypeOK
  <2>2. ASSUME NEW p \in Payments, CreateIntent(p)
        PROVE  StoreTypeOK'
    <3>1. /\ status' \in [Payments -> IntentStatus \cup {"none"}]
          /\ reserved' \in [Chains -> Int]
          /\ UNCHANGED <<attempt, available, events, tx, jobs, faults>>
      <4>1. /\ ChainOf[p] \in Chains
            /\ reserved[ChainOf[p]] + Amount[p] \in Int
        BY PaymentsAssumption DEF StoreTypeOK
      <4> QED BY <2>2, <4>1 DEF CreateIntent, StoreTypeOK, IntentStatus
    <3>2. ledger' \in [Payments -> [EntryTypes -> Nat]]
      BY <2>2 DEF CreateIntent, StoreTypeOK, EntryTypes
    <3> QED BY <3>1, <3>2 DEF StoreTypeOK, jobs
  <2>3. ASSUME NEW p \in Payments, EnqueueExecution(p)
        PROVE  StoreTypeOK'
    BY <2>3 DEF EnqueueExecution, StoreTypeOK, JobState, db
  <2> QED BY <1>1, <2>1, <2>2, <2>3 DEF ApiStep
<1>2. CASE ChainStep
  <2>1. UNCHANGED <<db, jobs, pc>>
    BY <1>2 DEF ChainStep, FinalizeTx, DropTx, RevertTx, StickTx, ForgetTx
  <2>2. PICK r \in Runs, l \in TxState : tx' = [tx EXCEPT ![r] = l]
    BY <1>2 DEF ChainStep, FinalizeTx, DropTx, RevertTx, StickTx, ForgetTx, TxState
  <2>3. tx' \in [Runs -> TxState]
    BY <2>2 DEF StoreTypeOK
  <2>4. Throws \/ UNCHANGED faults
    BY <1>2 DEF ChainStep, FinalizeTx, DropTx, RevertTx, StickTx, ForgetTx
  <2>5. faults' \in 0 .. MaxFaults
    BY <2>4, FaultsBounded DEF StoreTypeOK
  <2> QED BY <2>1, <2>3, <2>5 DEF StoreTypeOK, ExecutionTypeOK, db, jobs
<1>3. CASE ExecutionStep
  <2>1. ASSUME NEW p \in Payments, StartRun(p)
        PROVE  StoreTypeOK' /\ ExecutionTypeOK'
    BY <2>1 DEF StartRun, Goto, StoreTypeOK, ExecutionTypeOK, JobState, RunPc,
                Live, db
  <2>2. ASSUME NEW p \in Payments, StallJob(p)
        PROVE  StoreTypeOK' /\ ExecutionTypeOK'
    <3>1. faults' \in 0 .. MaxFaults /\ ExecutionTypeOK'
      BY <2>2, FaultsBounded DEF StallJob, ExecutionTypeOK
    <3>2. stalled' \in [Payments -> 0 .. MaxStalls]
      <4>1. stalled[p] < MaxStalls => stalled[p] + 1 \in 0 .. MaxStalls
        BY LimitsAssumption DEF StoreTypeOK
      <4> QED BY <2>2, <4>1 DEF StallJob, StoreTypeOK
    <3>3. queue' \in [Payments -> JobState]
      <4>1. PICK s \in {"waiting", "failed"} : queue' = [queue EXCEPT ![p] = s]
        BY <2>2 DEF StallJob
      <4> QED BY <4>1 DEF StoreTypeOK, JobState
    <3> QED BY <2>2, <3>1, <3>2, <3>3 DEF StallJob, StoreTypeOK, db
  <2> QED BY <1>3, <2>1, <2>2, ExecutionSteps, RunStepTyped
<1> QED BY <1>1, <1>2, <1>3

(* The steps of a scan, which runs no statement without an attempt in hand.*)
LEMMA ConfirmationStepTyped ==
    ASSUME TypeInv, ConfirmationStep
    PROVE  StoreTypeOK' /\ ConfirmationTypeOK' /\ InHand'
<1> USE FaultsBounded DEF TypeInv, TypeOK
<1>1. PICK w \in Pollers : PollerStep(w) \/ PollerCrashes(w)
  BY DEF ConfirmationStep, ConfirmationNext
<1>2. ASSUME NEW rest \in SUBSET Runs, NextAttempt(w, rest),
             todo' \in [Pollers -> SUBSET Runs]
      PROVE  ConfirmationTypeOK' /\ InHand'
  BY <1>2 DEF NextAttempt, ConfirmationTypeOK, InHand, PollerPhase
<1>3. ASSUME NEW l \in PollerPhase, phase' = [phase EXCEPT ![w] = l],
             at[w] \in Runs, UNCHANGED <<todo, at>>
      PROVE  ConfirmationTypeOK' /\ InHand'
  BY <1>3 DEF ConfirmationTypeOK, InHand
<1>4. todo[w] \in SUBSET Runs
  BY DEF ConfirmationTypeOK
<1>5. at[w] \in Runs => PaymentOf(at[w]) \in Payments
  BY DEF Runs
<1>6. CASE Scan(w)
  BY <1>6 DEF Scan, ConfirmationTypeOK, InHand, PollerPhase, StoreTypeOK,
              store, db, jobs
<1>7. ASSUME NEW r \in todo[w], CheckConfirmed(w, r)
      PROVE  StoreTypeOK' /\ ConfirmationTypeOK' /\ InHand'
  BY <1>4, <1>7 DEF CheckConfirmed, Take, ConfirmationTypeOK, InHand,
                    PollerPhase, StoreTypeOK, store, db, jobs
<1>8. ASSUME NEW r \in todo[w], CheckUnconfirmed(w, r)
      PROVE  StoreTypeOK' /\ ConfirmationTypeOK' /\ InHand'
  <2>1. StoreTypeOK'
    BY <1>8, UnchangedDbTyped DEF CheckUnconfirmed
  <2>2. todo' \in [Pollers -> SUBSET Runs] /\ todo[w] \ {r} \in SUBSET Runs
    BY <1>4, <1>8 DEF CheckUnconfirmed, Take, ConfirmationTypeOK
  <2>3. CASE NextAttempt(w, todo[w] \ {r})
    BY <1>2, <2>1, <2>2, <2>3
  <2>4. CASE /\ phase' = [phase EXCEPT ![w] = "review"]
             /\ at' = [at EXCEPT ![w] = r]
    BY <1>4, <2>1, <2>2, <2>4 DEF ConfirmationTypeOK, InHand, PollerPhase
  <2> QED BY <1>8, <2>3, <2>4 DEF CheckUnconfirmed
<1> USE DEF PollerPhase
<1>9. CASE MarkConfirmed(w)
  BY <1>2, <1>3, <1>4, <1>9, SetAttemptTyped, UnchangedDbTyped
     DEF MarkConfirmed, PollerStatement, AttemptStatus, InHand, ConfirmationTypeOK
<1>10. CASE Settle(w)
  BY <1>2, <1>3, <1>4, <1>5, <1>10, SetStatusTyped, UnchangedDbTyped
     DEF Settle, PollerStatement, IntentStatus, InHand, ConfirmationTypeOK
<1>11. CASE RecordFee(w)
  BY <1>2, <1>3, <1>4, <1>5, <1>11, CreateLedgerEntryTyped, UnchangedDbTyped
     DEF RecordFee, PollerStatement, EntryTypes, InHand, ConfirmationTypeOK
<1>12. CASE Deduct(w)
  <2>1. at[w] \in Runs
    BY <1>12 DEF Deduct, PollerStatement, InHand
  <2>2. ASSUME SpendReserve(PaymentOf(at[w])), UNCHANGED <<tx, jobs>>,
               faults' \in 0 .. MaxFaults
        PROVE  StoreTypeOK'
    BY <1>5, <2>1, <2>2, PaymentsAssumption DEF SpendReserve, StoreTypeOK, jobs
  <2> QED
    BY <1>2, <1>3, <1>4, <1>12, <2>1, <2>2, UnchangedDbTyped
       DEF Deduct, PollerStatement, ConfirmationTypeOK
<1>13. CASE EmitSettled(w)
  BY <1>2, <1>4, <1>5, <1>13, EmitWebhookTyped, UnchangedDbTyped
     DEF EmitSettled, PollerLastStatement, EventTypes, InHand, ConfirmationTypeOK
<1>14. CASE MoveToManualReview(w)
  BY <1>2, <1>4, <1>5, <1>14, SetStatusTyped, UnchangedDbTyped
     DEF MoveToManualReview, PollerLastStatement, IntentStatus, InHand,
         ConfirmationTypeOK
<1>15. CASE PollerCrashes(w)
  BY <1>15, UnchangedDbTyped DEF PollerCrashes, ConfirmationTypeOK, InHand
<1> QED
  BY <1>1, <1>6, <1>7, <1>8, <1>9, <1>10, <1>11, <1>12, <1>13, <1>14, <1>15
     DEF PollerStep

(* A try is left to every job that can still start or be running one.      *)
LEMMA JobsStep ==
    ASSUME TypeInv, Next
    PROVE  JobsOK'
<1> USE DEF TypeInv, TypeOK
<1>1. CASE UNCHANGED <<queue, made>>
  BY <1>1 DEF JobsOK
<1>2. ASSUME NEW p \in Payments,
             EnqueueExecution(p) \/ StartRun(p) \/ StallJob(p)
      PROVE  JobsOK'
  BY <1>2 DEF EnqueueExecution, StartRun, StallJob, JobsOK, StoreTypeOK
<1>3. ASSUME NEW r \in Runs, RunReturns(r)
      PROVE  JobsOK'
  BY <1>3 DEF RunReturns, JobsOK, StoreTypeOK
<1>4. ASSUME NEW r \in Runs, RunThrows(r)
      PROVE  JobsOK'
  <2>1. PaymentOf(r) \in Payments
    BY DEF Runs
  <2> QED BY <1>4, <2>1 DEF RunThrows, Owns, JobsOK, StoreTypeOK
<1>5. ASSUME NEW r \in Runs, RunStep(r) \/ RunCrashes(r)
      PROVE  RunReturns(r) \/ RunThrows(r) \/ UNCHANGED <<queue, made>>
  BY <1>5 DEF RunStep, RunCrashes, FetchIntent, SetBroadcasting, InsertAttempt,
     RefuseTransfer, SendTransfer, ReceiptArrives, WaitThrows, RecordTx,
     SetBroadcasted, DebitBalance, SetFailed, FailAttempts, ReleaseReserve,
     Unreserve, EmitFailed, Statement, store, jobs
<1>6. ASSUME NEW w \in Pollers, PollerStep(w) \/ PollerCrashes(w)
      PROVE  UNCHANGED <<queue, made>>
  BY <1>6 DEF PollerStep, PollerCrashes, Scan, CheckConfirmed, CheckUnconfirmed,
     MarkConfirmed, Settle, RecordFee, Deduct, EmitSettled, MoveToManualReview,
     PollerStatement, PollerLastStatement, store, jobs
<1>7. CASE ApiStep
  BY <1>1, <1>2, <1>7 DEF ApiStep, CreateIntent, jobs
<1>8. CASE ChainStep
  BY <1>1, <1>8 DEF ChainStep, FinalizeTx, DropTx, RevertTx, StickTx, ForgetTx, jobs
<1> QED
  BY <1>1, <1>2, <1>3, <1>4, <1>5, <1>6, <1>7, <1>8
     DEF Next, ExecutionStep, ExecutionNext, ConfirmationStep, ConfirmationNext

(* Types are kept together with the run numbers and attempts in hand.      *)
THEOREM TypeCorrect == Spec => []TypeInv
<1>1. TypeInv /\ [Next]_vars => TypeInv'
  <2> SUFFICES ASSUME TypeInv, [Next]_vars PROVE TypeInv'
    OBVIOUS
  <2>1. CASE ApiStep \/ ChainStep \/ ExecutionStep
    <3>1. ConfirmationTypeOK' /\ InHand'
      BY <2>1 DEF ApiStep, ChainStep, ExecutionStep, pollerVars, TypeInv,
                  TypeOK, ConfirmationTypeOK, InHand
    <3> QED
      BY <2>1, <3>1, StoreAndExecutionTyped, JobsStep DEF Next, TypeInv, TypeOK
  <2>2. CASE ConfirmationStep
    <3>1. ExecutionTypeOK'
      BY <2>2 DEF ConfirmationStep, TypeInv, TypeOK, ExecutionTypeOK
    <3> QED
      BY <2>2, <3>1, ConfirmationStepTyped, JobsStep DEF Next, TypeInv, TypeOK
  <2>3. CASE UNCHANGED vars
    BY <2>3 DEF vars, store, db, jobs, pollerVars, TypeInv, TypeOK, StoreTypeOK,
                ExecutionTypeOK, ConfirmationTypeOK, JobsOK, InHand
  <2> QED BY <2>1, <2>2, <2>3 DEF Next
<1> QED BY <1>1, TypeInit, PTL DEF Spec

(* Balances stay integers, counters within the tries BullMQ allows.        *)
THEOREM TypeAlwaysOK == Spec => []TypeOK
<1>1. TypeInv => TypeOK
  BY DEF TypeInv
<1> QED BY <1>1, TypeCorrect, PTL

-----------------------------------------------------------------------------
(***************************************************************************)
(* SettledIsFinal is not inductive.  It needs where a run may be, given    *)
(* its attempt and its transfer, and what a scan knows of the attempts it  *)
(* holds copies of.                                                        *)
(***************************************************************************)

(* Runs that have not started are idle, and the next one to start is one   *)
(* of them.                                                                *)
FreshInv ==
    \A r \in Runs :
        LET p == PaymentOf(r)
            started == made[p] + stalled[p]
        IN  \/ queue[p] \in {"absent", "waiting"} /\ r[2] > started
            \/ queue[p] = "active" /\ r[2] > started + 1
            => pc[r] = "idle"

(* The places of a run before its attempt row exists, and between that and *)
(* the record of the transaction.                                          *)
BeforeInsert == {"idle", "fetch", "set_broadcasting", "insert_attempt"}
BeforeRecord == {"transfer", "wait_receipt", "record_tx"}

(* What the place of a run says of its attempt row and its transfer.       *)
RunInv ==
    \A r \in Runs :
        /\ pc[r] \in BeforeInsert => attempt[r] = "none"
        /\ pc[r] \in BeforeInsert \cup {"transfer"} => tx[r] = "none"
        /\ pc[r] \in BeforeRecord => attempt[r] \in {"pending", "failed"}
        /\ tx[r] # "none" => attempt[r] # "none"
        /\ attempt[r] = "confirmed" => tx[r] \in OnChain

Recorded == {"broadcasted", "confirmed"}

(* What a scan works on is recorded, and confirmed once it is past marking *)
(* it.                                                                     *)
ScanInv ==
    \A w \in Pollers :
        /\ \A r \in todo[w] : attempt[r] \in Recorded
        /\ at[w] \in Runs => attempt[at[w]] \in Recorded
        /\ phase[w] = "mark_confirmed" => tx[at[w]] \in OnChain
        /\ phase[w] \in {"settle", "record_fee", "deduct", "emit_settled"} =>
             attempt[at[w]] = "confirmed"

SettlementInv == TypeInv /\ FreshInv /\ RunInv /\ ScanInv /\ SettledIsFinal

(* Initially nothing has run, been recorded or been announced.             *)
LEMMA SettlementInit == Init => FreshInv /\ RunInv /\ ScanInv /\ SettledIsFinal
BY NoRunAssumption
   DEF Init, StoreInit, ExecutionInit, ConfirmationInit, FreshInv, RunInv,
       ScanInv, SettledIsFinal, BeforeInsert, BeforeRecord, EventTypes

(* A job starts a run that has not run before.                             *)
LEMMA OwnerIsFresh ==
    ASSUME TypeInv, FreshInv, NEW p \in Payments, queue[p] = "waiting"
    PROVE  Owner(p) \in Runs /\ pc[Owner(p)] = "idle"
<1>1. made[p] \in Nat /\ stalled[p] \in Nat /\ made[p] < MaxAttempts
      /\ stalled[p] <= MaxStalls
  BY LimitsAssumption DEF TypeInv, TypeOK, StoreTypeOK, JobsOK
<1>2. made[p] + stalled[p] + 1 \in 1 .. (MaxAttempts + MaxStalls)
  BY <1>1, LimitsAssumption
<1>3. Owner(p) \in Runs /\ PaymentOf(Owner(p)) = p
      /\ Owner(p)[2] = made[p] + stalled[p] + 1
  BY <1>2 DEF Owner, Runs
<1> QED BY <1>1, <1>3 DEF FreshInv

(* A run keeps what it knows of its own attempt and transfer.              *)
LEMMA RunInvRunStep ==
    ASSUME TypeInv, RunInv, NEW r \in Runs, RunStep(r) \/ RunCrashes(r)
    PROVE  RunInv'
<1> USE DEF TypeInv, TypeOK, StoreTypeOK, ExecutionTypeOK, RunInv,
            BeforeInsert, BeforeRecord, Goto, db, jobs
<1>1. CASE FetchIntent(r)
  BY <1>1 DEF FetchIntent
<1>2. CASE SetBroadcasting(r)
  BY <1>2 DEF SetBroadcasting, Statement, SetStatus
<1>3. CASE InsertAttempt(r)
  BY <1>3 DEF InsertAttempt, Statement, SetAttempt
<1>4. CASE RefuseTransfer(r)
  BY <1>4 DEF RefuseTransfer, store
<1>5. CASE SendTransfer(r)
  BY <1>5 DEF SendTransfer
<1>6. CASE ReceiptArrives(r)
  BY <1>6 DEF ReceiptArrives, store
<1>7. CASE WaitThrows(r)
  BY <1>7 DEF WaitThrows
<1>8. CASE RecordTx(r)
  BY <1>8 DEF RecordTx, Statement, SetAttempt
<1>9. CASE SetBroadcasted(r)
  BY <1>9 DEF SetBroadcasted, Statement, SetStatus
<1>10. CASE DebitBalance(r)
  BY <1>10 DEF DebitBalance, Statement, CreateLedgerEntry
<1>11. CASE SetFailed(r)
  BY <1>11 DEF SetFailed, Statement, SetStatus
<1>12. CASE FailAttempts(r)
  BY <1>12 DEF FailAttempts, Statement, FailPendingAttempts
<1>13. CASE ReleaseReserve(r)
  BY <1>13 DEF ReleaseReserve, Statement, CreateLedgerEntry
<1>14. CASE Unreserve(r)
  BY <1>14 DEF Unreserve, Statement, ReturnReserve
<1>15. CASE EmitFailed(r)
  BY <1>15 DEF EmitFailed, Statement, EmitWebhook
<1>16. CASE RunReturns(r)
  BY <1>16 DEF RunReturns
<1>17. CASE RunThrows(r)
  BY <1>17 DEF RunThrows
<1>18. CASE RunCrashes(r)
  BY <1>18 DEF RunCrashes
<1> QED
  BY <1>1, <1>2, <1>3, <1>4, <1>5, <1>6, <1>7, <1>8, <1>9, <1>10, <1>11, <1>12,
     <1>13, <1>14, <1>15, <1>16, <1>17, <1>18 DEF RunStep

(* A scan changes no attempt but the one it marks, whose transfer is final *)
(* and whose run is past recording it.                                     *)
LEMMA ScanStepAttempts ==
    ASSUME NEW w \in Pollers, PollerStep(w) \/ PollerCrashes(w)
    PROVE  /\ UNCHANGED <<tx, jobs>>
           /\ \/ UNCHANGED attempt
              \/ /\ phase[w] = "mark_confirmed"
                 /\ attempt' = [attempt EXCEPT ![at[w]] = "confirmed"]
<1>1. CASE Scan(w) \/ PollerCrashes(w)
  BY <1>1 DEF Scan, PollerCrashes, store, db
<1>2. ASSUME NEW r \in todo[w], CheckConfirmed(w, r) \/ CheckUnconfirmed(w, r)
      PROVE  UNCHANGED <<tx, jobs, attempt>>
  BY <1>2 DEF CheckConfirmed, CheckUnconfirmed, store, db
<1>3. CASE MarkConfirmed(w)
  BY <1>3 DEF MarkConfirmed, PollerStatement, SetAttempt, db
<1>4. CASE Settle(w) \/ RecordFee(w) \/ Deduct(w)
  BY <1>4 DEF Settle, RecordFee, Deduct, PollerStatement, SetStatus,
              CreateLedgerEntry, SpendReserve, db
<1>5. CASE EmitSettled(w) \/ MoveToManualReview(w)
  BY <1>5 DEF EmitSettled, MoveToManualReview, PollerLastStatement,
              EmitWebhook, SetStatus, db
<1> QED BY <1>1, <1>2, <1>3, <1>4, <1>5 DEF PollerStep

(* Every step keeps what the runs know of their attempts.                  *)
LEMMA RunInvStep ==
    ASSUME TypeInv, FreshInv, RunInv, ScanInv, [Next]_vars
    PROVE  RunInv'
<1> USE DEF TypeInv, TypeOK, StoreTypeOK, ExecutionTypeOK
<1>1. CASE ApiStep
  BY <1>1 DEF ApiStep, CreateIntent, EnqueueExecution, RunInv, db
<1>2. CASE ChainStep
  BY <1>2 DEF ChainStep, FinalizeTx, DropTx, RevertTx, StickTx, ForgetTx, OnChain, RunInv,
              BeforeInsert, db
<1>3. CASE ExecutionStep
  <2>1. ASSUME NEW p \in Payments, StartRun(p)
        PROVE  RunInv'
    <3>1. Owner(p) \in Runs /\ pc[Owner(p)] = "idle"
      BY <2>1, OwnerIsFresh DEF StartRun
    <3> QED BY <2>1, <3>1 DEF StartRun, Goto, RunInv, BeforeInsert, BeforeRecord, db
  <2>2. ASSUME NEW p \in Payments, StallJob(p)
        PROVE  RunInv'
    BY <2>2 DEF StallJob, RunInv, db
  <2> QED BY <1>3, <2>1, <2>2, ExecutionSteps, RunInvRunStep
<1>4. CASE ConfirmationStep
  <2>1. PICK w \in Pollers : PollerStep(w) \/ PollerCrashes(w)
    BY <1>4 DEF ConfirmationStep, ConfirmationNext
  <2>2. UNCHANGED <<pc, tx>>
    BY <1>4, <2>1, ScanStepAttempts DEF ConfirmationStep
  <2>3. CASE UNCHANGED attempt
    BY <2>2, <2>3 DEF RunInv
  <2>4. CASE /\ phase[w] = "mark_confirmed"
             /\ attempt' = [attempt EXCEPT ![at[w]] = "confirmed"]
    <3>1. /\ at[w] \in Runs
          /\ attempt[at[w]] \in Recorded
          /\ tx[at[w]] \in OnChain
      BY <2>4 DEF InHand, ScanInv
    <3> QED BY <2>2, <2>4, <3>1 DEF RunInv, Recorded, BeforeInsert, BeforeRecord
  <2> QED BY <2>1, <2>3, <2>4, ScanStepAttempts
<1>5. CASE UNCHANGED vars
  BY <1>5 DEF vars, store, db, RunInv
<1> QED BY <1>1, <1>2, <1>3, <1>4, <1>5 DEF Next

(* Every step leaves the runs to come idle.                                *)
LEMMA FreshInvStep ==
    ASSUME TypeInv, FreshInv, [Next]_vars
    PROVE  FreshInv'
<1> USE DEF TypeInv, TypeOK, StoreTypeOK, ExecutionTypeOK
<1>0. \A r \in Runs : PaymentOf(r) \in Payments /\ r[2] \in Nat
  BY LimitsAssumption DEF Runs
<1>00. \A p \in Payments : made[p] \in Nat /\ stalled[p] \in Nat
  BY LimitsAssumption
<1>1. CASE UNCHANGED <<pc, jobs>>
  BY <1>1 DEF FreshInv, jobs
<1>2. ASSUME NEW p \in Payments, EnqueueExecution(p), UNCHANGED pc
      PROVE  FreshInv'
  BY <1>0, <1>2 DEF EnqueueExecution, FreshInv
<1>3. ASSUME NEW p \in Payments, StartRun(p)
      PROVE  FreshInv'
  BY <1>0, <1>00, <1>3 DEF StartRun, FreshInv, Goto, Owner
<1>4. ASSUME NEW p \in Payments, StallJob(p)
      PROVE  FreshInv'
  <2>1. CASE queue' = [queue EXCEPT ![p] = "failed"]
    BY <1>0, <1>4, <2>1 DEF StallJob, FreshInv
  <2>2. CASE /\ stalled' = [stalled EXCEPT ![p] = @ + 1]
             /\ queue' = [queue EXCEPT ![p] = "waiting"]
    BY <1>0, <1>00, <1>4, <2>2 DEF StallJob, FreshInv
  <2> QED BY <1>4, <2>1, <2>2 DEF StallJob
<1>5. ASSUME NEW r \in Runs, RunReturns(r)
      PROVE  FreshInv'
  BY <1>0, <1>5 DEF RunReturns, FreshInv, Goto
<1>6. ASSUME NEW r \in Runs, RunThrows(r)
      PROVE  FreshInv'
  <2> DEFINE p == PaymentOf(r)
  <2>1. CASE Owns(r)
    <3>1. /\ queue[p] = "active"
          /\ made' = [made EXCEPT ![p] = @ + 1]
          /\ UNCHANGED stalled
          /\ \A q \in Payments : q # p => queue'[q] = queue[q]
          /\ pc' = [pc EXCEPT ![r] = "ended"]
      BY <1>0, <1>6, <2>1 DEF RunThrows, Owns, Goto
    <3>2. r[2] = made[p] + stalled[p] + 1
      BY <2>1 DEF Owns, Owner
    <3>3. queue'[p] \in {"waiting", "failed"}
      BY <1>0, <1>6, <2>1 DEF RunThrows
    <3> QED BY <1>0, <1>00, <3>1, <3>2, <3>3 DEF FreshInv
  <2>2. CASE ~ Owns(r)
    BY <1>0, <1>6, <2>2 DEF RunThrows, FreshInv, Goto
  <2> QED BY <2>1, <2>2
<1>7. ASSUME NEW r \in Runs, RunStep(r) \/ RunCrashes(r)
      PROVE  \/ RunReturns(r) \/ RunThrows(r)
             \/ UNCHANGED jobs /\ pc[r] # "idle" /\ \E l \in RunPc : Goto(r, l)
  BY <1>7 DEF RunStep, RunCrashes, FetchIntent, SetBroadcasting, InsertAttempt,
     RefuseTransfer, SendTransfer, ReceiptArrives, WaitThrows, RecordTx,
     SetBroadcasted, DebitBalance, SetFailed, FailAttempts, ReleaseReserve,
     Unreserve, EmitFailed, Statement, store, RunPc, Live, Trying, Catching
<1>8. ASSUME NEW r \in Runs, pc[r] # "idle", UNCHANGED jobs,
             NEW l \in RunPc, Goto(r, l)
      PROVE  FreshInv'
  BY <1>0, <1>8 DEF FreshInv, Goto, jobs
<1>9. CASE ApiStep
  BY <1>1, <1>2, <1>9 DEF ApiStep, CreateIntent
<1>10. CASE ChainStep
  BY <1>1, <1>10 DEF ChainStep, FinalizeTx, DropTx, RevertTx, StickTx, ForgetTx
<1>11. CASE ExecutionStep
  BY <1>3, <1>4, <1>5, <1>6, <1>7, <1>8, <1>11, ExecutionSteps
<1>12. CASE ConfirmationStep
  BY <1>1, <1>12, ScanStepAttempts DEF ConfirmationStep, ConfirmationNext
<1>13. CASE UNCHANGED vars
  BY <1>1, <1>13 DEF vars, store
<1> QED BY <1>9, <1>10, <1>11, <1>12, <1>13 DEF Next

(* A run writes to an attempt only before it is recorded.                  *)
LEMMA RunStepAttempts ==
    ASSUME TypeInv, RunInv, NEW r \in Runs, RunStep(r) \/ RunCrashes(r),
           NEW s \in Runs
    PROVE  /\ attempt[s] \in Recorded => attempt'[s] = attempt[s]
           /\ attempt'[s] = "confirmed" => attempt[s] = "confirmed"
           /\ (tx'[s] \in OnChain) <=> (tx[s] \in OnChain)
<1> USE DEF TypeInv, TypeOK, StoreTypeOK, RunInv, Recorded, BeforeInsert,
            BeforeRecord
<1>1. CASE InsertAttempt(r)
  BY <1>1 DEF InsertAttempt, Statement, SetAttempt, db
<1>2. CASE RecordTx(r)
  BY <1>2 DEF RecordTx, Statement, SetAttempt, db
<1>3. CASE FailAttempts(r)
  BY <1>3 DEF FailAttempts, Statement, FailPendingAttempts, db
<1>4. CASE SendTransfer(r)
  BY <1>4 DEF SendTransfer, OnChain, db
<1>5. CASE ~ (InsertAttempt(r) \/ RecordTx(r) \/ FailAttempts(r) \/ SendTransfer(r))
  BY <1>5 DEF RunStep, RunCrashes, FetchIntent, SetBroadcasting,
     RefuseTransfer, ReceiptArrives, WaitThrows, SetBroadcasted, DebitBalance,
     SetFailed, ReleaseReserve, Unreserve, EmitFailed, RunReturns, RunThrows,
     Statement, SetStatus, CreateLedgerEntry, ReturnReserve, EmitWebhook,
     store, db
<1> QED BY <1>1, <1>2, <1>3, <1>4, <1>5

(* Records only move forward: recorded attempts stay recorded, confirmed   *)
(* ones confirmed and final transfers final.                               *)
LEMMA RecordsMoveForward ==
    ASSUME TypeInv, RunInv, ScanInv, [Next]_vars, NEW s \in Runs
    PROVE  /\ attempt[s] \in Recorded => attempt'[s] \in Recorded
           /\ attempt[s] = "confirmed" => attempt'[s] = "confirmed"
           /\ tx[s] \in OnChain => tx'[s] \in OnChain
<1> USE DEF Recorded, TypeInv, TypeOK, StoreTypeOK
<1>1. CASE ApiStep
  BY <1>1 DEF ApiStep, CreateIntent, EnqueueExecution, db
<1>2. CASE ChainStep
  BY <1>2 DEF ChainStep, FinalizeTx, DropTx, RevertTx, StickTx, ForgetTx, OnChain, db
<1>3. CASE ExecutionStep
  BY <1>3, ExecutionSteps, JobStepsWriteNoRow, RunStepAttempts
<1>4. CASE ConfirmationStep
  BY <1>4, ScanStepAttempts DEF ConfirmationStep, ConfirmationNext
<1>5. CASE UNCHANGED vars
  BY <1>5 DEF vars, store, db
<1> QED BY <1>1, <1>2, <1>3, <1>4, <1>5 DEF Next

(* What a scan has in hand or on its list stays as recorded as it was.     *)
LEMMA ScanInvStep ==
    ASSUME TypeInv, RunInv, ScanInv, [Next]_vars
    PROVE  ScanInv'
<1> USE DEF TypeInv, TypeOK, ConfirmationTypeOK
<1>1. \A r \in Runs :
        /\ attempt[r] \in Recorded => attempt'[r] \in Recorded
        /\ attempt[r] = "confirmed" => attempt'[r] = "confirmed"
        /\ tx[r] \in OnChain => tx'[r] \in OnChain
  BY RecordsMoveForward
<1>2. \A w \in Pollers : todo[w] \subseteq Runs
  OBVIOUS
<1>3. CASE UNCHANGED pollerVars
  BY <1>1, <1>2, <1>3 DEF ScanInv, InHand, pollerVars
<1>4. ASSUME NEW w \in Pollers, PollerStep(w) \/ PollerCrashes(w)
      PROVE  ScanInv'
  (* Every other scan stays where it was; w may have changed place. *)
  <2>1. ASSUME NEW v \in Pollers, v # w
        PROVE  todo'[v] = todo[v] /\ at'[v] = at[v] /\ phase'[v] = phase[v]
    BY <1>4, <2>1 DEF PollerStep, PollerCrashes, Scan, Take, CheckConfirmed,
       CheckUnconfirmed, MarkConfirmed, Settle, RecordFee, Deduct, EmitSettled,
       MoveToManualReview, PollerStatement, PollerLastStatement, NextAttempt
  <2> DEFINE Known ==
        /\ \A r \in todo'[w] : attempt'[r] \in Recorded
        /\ at'[w] \in Runs => attempt'[at'[w]] \in Recorded
        /\ phase'[w] = "mark_confirmed" => tx'[at'[w]] \in OnChain
        /\ phase'[w] \in {"settle", "record_fee", "deduct", "emit_settled"} =>
             attempt'[at'[w]] = "confirmed"
  <2>2. SUFFICES Known
    BY <1>1, <1>2, <2>1 DEF ScanInv, InHand
  <2>3. CASE Scan(w)
    BY <1>1, <2>3 DEF Scan, ScanInv, InHand, Recorded
  <2>4. ASSUME NEW r \in todo[w], CheckConfirmed(w, r)
        PROVE  Known
    BY <1>1, <1>2, <2>4 DEF CheckConfirmed, Take, Visible, ScanInv
  <2>5. ASSUME NEW r \in todo[w], CheckUnconfirmed(w, r)
        PROVE  Known
    BY <1>1, <1>2, <2>5, NoRunAssumption
       DEF CheckUnconfirmed, Take, NextAttempt, ScanInv
  <2>6. ASSUME NextAttempt(w, todo[w]), UNCHANGED todo
        PROVE  Known
    BY <1>1, <1>2, <2>6, NoRunAssumption DEF NextAttempt, ScanInv
  <2>7. ASSUME NEW l \in {"record_fee", "deduct", "emit_settled"},
               phase[w] \in {"settle", "record_fee", "deduct"},
               phase' = [phase EXCEPT ![w] = l], UNCHANGED <<todo, at>>
        PROVE  Known
    BY <1>1, <1>2, <2>7 DEF ScanInv, InHand
  <2>8. CASE MarkConfirmed(w)
    <3>1. CASE NextAttempt(w, todo[w])
      BY <2>6, <2>8, <3>1 DEF MarkConfirmed, PollerStatement
    <3>2. CASE /\ SetAttempt(at[w], "confirmed")
               /\ UNCHANGED <<todo, at>>
               /\ phase' = [phase EXCEPT ![w] = "settle"]
      <4>1. at[w] \in Runs
        BY <2>8 DEF MarkConfirmed, PollerStatement, InHand
      <4>2. attempt'[at[w]] = "confirmed"
        BY <3>2, <4>1 DEF SetAttempt, StoreTypeOK
      <4> QED BY <1>1, <1>2, <3>2, <4>1, <4>2 DEF ScanInv, Recorded
    <3> QED BY <2>8, <3>1, <3>2 DEF MarkConfirmed, PollerStatement
  <2>9. CASE Settle(w) \/ RecordFee(w) \/ Deduct(w)
    BY <2>6, <2>7, <2>9 DEF Settle, RecordFee, Deduct, PollerStatement
  <2>10. CASE EmitSettled(w) \/ MoveToManualReview(w)
    BY <2>6, <2>10 DEF EmitSettled, MoveToManualReview, PollerLastStatement
  <2>11. CASE PollerCrashes(w)
    BY <2>11, NoRunAssumption DEF PollerCrashes
  <2> QED
    BY <1>4, <2>3, <2>4, <2>5, <2>8, <2>9, <2>10, <2>11 DEF PollerStep
<1>5. CASE ConfirmationStep
  BY <1>4, <1>5 DEF ConfirmationStep, ConfirmationNext
<1>6. CASE ~ ConfirmationStep
  BY <1>3, <1>6 DEF Next, ApiStep, ChainStep, ExecutionStep, vars, pollerVars
<1> QED BY <1>5, <1>6

(* A run neither settles a payment nor announces it settled, and no        *)
(* payment comes into being by it.                                         *)
LEMMA RunStepReports ==
    ASSUME TypeInv, NEW r \in Runs, RunStep(r) \/ RunCrashes(r),
           NEW p \in Payments
    PROVE  /\ events'[p]["payment.settled"] = events[p]["payment.settled"]
           /\ status'[p] = "settled" => status[p] = "settled"
           /\ status'[p] = "none" => status[p] = "none"
<1> USE DEF TypeInv, TypeOK, StoreTypeOK
<1>1. CASE UNCHANGED db
  BY <1>1 DEF db
<1>2. CASE EmitFailed(r)
  <2>1. CASE EmitWebhook(PaymentOf(r), "payment.failed")
    BY <2>1 DEF EmitWebhook, EventTypes
  <2> QED BY <1>1, <1>2, <2>1 DEF EmitFailed, Statement
<1>3. CASE SetBroadcasting(r) \/ SetBroadcasted(r) \/ SetFailed(r)
  <2>1. ASSUME NEW t \in {"broadcasting", "broadcasted", "failed"},
               SetStatus(PaymentOf(r), t)
        PROVE  /\ UNCHANGED events
               /\ status'[p] \in {"settled", "none"} => status'[p] = status[p]
    BY <2>1 DEF SetStatus
  <2> QED
    BY <1>1, <1>3, <2>1 DEF SetBroadcasting, SetBroadcasted, SetFailed, Statement
<1>4. CASE ~ (EmitFailed(r) \/ SetBroadcasting(r) \/ SetBroadcasted(r)
               \/ SetFailed(r))
  BY <1>4 DEF RunStep, RunCrashes, FetchIntent, InsertAttempt,
     RefuseTransfer, SendTransfer, ReceiptArrives, WaitThrows, RecordTx,
     DebitBalance, FailAttempts, ReleaseReserve, Unreserve, RunReturns,
     RunThrows, Statement, SetAttempt, CreateLedgerEntry,
     FailPendingAttempts, ReturnReserve, store, db
<1> QED BY <1>2, <1>3, <1>4

(* What settles a payment: the scan that holds a confirmed attempt of it.  *)
LEMMA OnlyScansSettle ==
    ASSUME TypeInv, ScanInv, [Next]_vars, NEW p \in Payments,
           \/ status'[p] = "settled" /\ status[p] # "settled"
           \/ events'[p]["payment.settled"] # events[p]["payment.settled"]
    PROVE  \E r \in RunsOf(p) : attempt[r] = "confirmed"
<1> USE DEF TypeInv, TypeOK, StoreTypeOK
<1>1. CASE ApiStep
  BY <1>1 DEF ApiStep, CreateIntent, EnqueueExecution, db
<1>2. CASE ChainStep
  BY <1>2 DEF ChainStep, FinalizeTx, DropTx, RevertTx, StickTx, ForgetTx, db
<1>3. CASE ExecutionStep
  BY <1>3, ExecutionSteps, JobStepsWriteNoRow, RunStepReports
<1>4. CASE ConfirmationStep
  <2>1. PICK w \in Pollers : PollerStep(w) \/ PollerCrashes(w)
    BY <1>4 DEF ConfirmationStep, ConfirmationNext
  <2>2. CASE Settle(w) \/ EmitSettled(w)
    <3>1. at[w] \in Runs /\ attempt[at[w]] = "confirmed"
      BY <2>2 DEF Settle, EmitSettled, PollerStatement, PollerLastStatement,
                  InHand, ScanInv
    <3>2. PaymentOf(at[w]) = p
      <4>1. PaymentOf(at[w]) \in Payments
        BY <3>1 DEF Runs
      <4>2. CASE Settle(w)
        BY <4>1, <4>2 DEF Settle, PollerStatement, SetStatus, db
      <4>3. CASE EmitSettled(w)
        <5>1. CASE UNCHANGED db
          BY <5>1 DEF db
        <5>2. CASE EmitWebhook(PaymentOf(at[w]), "payment.settled")
          BY <4>1, <5>2, SMTT(30) DEF EmitWebhook
        <5> QED BY <4>3, <5>1, <5>2 DEF EmitSettled, PollerLastStatement
      <4> QED BY <2>2, <4>2, <4>3
    <3> QED BY <3>1, <3>2 DEF RunsOf
  <2>3. CASE ~ (Settle(w) \/ EmitSettled(w))
    BY <2>1, <2>3 DEF PollerStep, PollerCrashes, Scan, CheckConfirmed,
       CheckUnconfirmed, MarkConfirmed, RecordFee, Deduct, MoveToManualReview,
       PollerStatement, PollerLastStatement, SetAttempt, SetStatus,
       CreateLedgerEntry, SpendReserve, store, db
  <2> QED BY <2>2, <2>3
<1>5. CASE UNCHANGED vars
  BY <1>5 DEF vars, store, db
<1> QED BY <1>1, <1>2, <1>3, <1>4, <1>5 DEF Next

(* A report of settlement keeps its confirmed, final attempt.              *)
LEMMA SettledStep ==
    ASSUME TypeInv, RunInv, ScanInv, SettledIsFinal, [Next]_vars
    PROVE  SettledIsFinal'
<1> SUFFICES ASSUME NEW p \in Payments,
                    status'[p] = "settled" \/ events'[p]["payment.settled"] > 0
             PROVE  \E r \in RunsOf(p) : attempt'[r] = "confirmed"
                                        /\ tx'[r] \in OnChain
  BY DEF SettledIsFinal, RunsOf
<1>1. \E r \in RunsOf(p) : attempt[r] = "confirmed"
  <2>1. CASE status[p] = "settled" \/ events[p]["payment.settled"] > 0
    BY <2>1 DEF SettledIsFinal
  <2>2. CASE ~ (status[p] = "settled" \/ events[p]["payment.settled"] > 0)
    BY <2>2, OnlyScansSettle
  <2> QED BY <2>1, <2>2
<1>2. PICK r \in RunsOf(p) : attempt[r] = "confirmed"
  BY <1>1
<1>3. r \in Runs /\ tx[r] \in OnChain
  BY <1>2 DEF RunsOf, RunInv
<1> QED BY <1>2, <1>3, RecordsMoveForward

(* The inductive invariant: runs to come are idle; the place a run has     *)
(* reached bounds its attempt and its transfer; scans hold recorded        *)
(* attempts only.                                                          *)
THEOREM SettlementInvariant == Spec => []SettlementInv
<1>1. Init => SettlementInv
  BY TypeInit, SettlementInit DEF SettlementInv
<1>2. SettlementInv /\ TypeInv' /\ [Next]_vars => SettlementInv'
  BY RunInvStep, FreshInvStep, ScanInvStep, SettledStep DEF SettlementInv
<1> QED BY <1>1, <1>2, TypeCorrect, PTL DEF Spec

(* A payment is never shown or announced as settled without a confirmed    *)
(* attempt whose transfer is final on the chain (execution.worker.ts and   *)
(* confirmation.worker.ts under any interleaving, crash or failed call).   *)
THEOREM SettledIsFinalAlways == Spec => []SettledIsFinal
<1>1. SettlementInv => SettledIsFinal
  BY DEF SettlementInv
<1> QED BY <1>1, SettlementInvariant, PTL

(* No transfer is on a chain without the attempt row that announces it.    *)
THEOREM TransferHasAttemptAlways == Spec => []TransferHasAttempt
<1>1. SettlementInv => TransferHasAttempt
  BY DEF SettlementInv, RunInv, TransferHasAttempt
<1> QED BY <1>1, SettlementInvariant, PTL

(* No step takes an attempt back from confirmed.                           *)
THEOREM ConfirmedForGood == Spec => ConfirmedIsTerminal
<1>1. SettlementInv /\ [Next]_vars =>
        [\A r \in Runs : attempt[r] = "confirmed" => attempt'[r] = "confirmed"]_vars
  BY RecordsMoveForward DEF SettlementInv
<1> QED BY <1>1, SettlementInvariant, PTL DEF Spec, ConfirmedIsTerminal

-----------------------------------------------------------------------------
(***************************************************************************)
(* The system implements SettlementPromise.                                *)
(***************************************************************************)

(* Nothing is queued, run or sent for a payment that does not exist.       *)
AcceptedInv ==
    /\ \A p \in Payments : queue[p] # "absent" => status[p] # "none"
    /\ \A r \in Runs : pc[r] # "idle" => status[PaymentOf(r)] # "none"

(* Initially there is neither a job nor a run.                             *)
LEMMA AcceptedInit == Init => AcceptedInv
BY DEF Init, StoreInit, ExecutionInit, AcceptedInv

(* No step removes a payment.                                              *)
LEMMA PaymentsStay ==
    ASSUME TypeInv, [Next]_vars, NEW p \in Payments, status[p] # "none"
    PROVE  status'[p] # "none"
<1>1. CASE ApiStep
  <2>1. ASSUME NEW q \in Payments, CreateIntent(q)
        PROVE  status'[p] # "none"
    BY <2>1 DEF CreateIntent, TypeInv, TypeOK, StoreTypeOK
  <2>2. ASSUME NEW q \in Payments, EnqueueExecution(q)
        PROVE  UNCHANGED status
    BY <2>2 DEF EnqueueExecution, db
  <2> QED BY <1>1, <2>1, <2>2 DEF ApiStep
<1>2. CASE ChainStep
  BY <1>2 DEF ChainStep, FinalizeTx, DropTx, RevertTx, StickTx, ForgetTx, db
<1>3. CASE ExecutionStep
  BY <1>3, ExecutionSteps, JobStepsWriteNoRow, RunStepReports
<1>4. CASE ConfirmationStep
  <2>1. PICK w \in Pollers : PollerStep(w) \/ PollerCrashes(w)
    BY <1>4 DEF ConfirmationStep, ConfirmationNext
  <2>2. CASE Settle(w) \/ MoveToManualReview(w)
    <3>1. \/ UNCHANGED status
          \/ SetStatus(PaymentOf(at[w]), "settled")
          \/ SetStatus(PaymentOf(at[w]), "manual_review")
      BY <2>2 DEF Settle, MoveToManualReview, PollerStatement,
                  PollerLastStatement, db
    <3>2. status \in [Payments -> IntentStatus \cup {"none"}]
      BY Zenon DEF TypeInv, TypeOK, StoreTypeOK
    <3> QED BY <3>1, <3>2 DEF SetStatus
  <2>3. CASE ~ (Settle(w) \/ MoveToManualReview(w))
    BY <2>1, <2>3 DEF PollerStep, PollerCrashes, Scan, CheckConfirmed,
       CheckUnconfirmed, MarkConfirmed, RecordFee, Deduct, EmitSettled,
       PollerStatement, PollerLastStatement, SetAttempt, CreateLedgerEntry,
       SpendReserve, EmitWebhook, store, db
  <2> QED BY <2>2, <2>3
<1>5. CASE UNCHANGED vars
  BY <1>5 DEF vars, store, db
<1> QED BY <1>1, <1>2, <1>3, <1>4, <1>5 DEF Next

(* Jobs and runs only come of payments that exist, and those stay.         *)
LEMMA AcceptedStep ==
    ASSUME TypeInv, AcceptedInv, [Next]_vars
    PROVE  AcceptedInv'
<1> USE DEF TypeInv, TypeOK, StoreTypeOK, ExecutionTypeOK
<1>1. \A r \in Runs : PaymentOf(r) \in Payments
  BY DEF Runs
<1>2. CASE UNCHANGED <<queue, pc>>
  BY <1>1, <1>2, PaymentsStay DEF AcceptedInv
<1>3. ASSUME NEW p \in Payments, EnqueueExecution(p), UNCHANGED pc
      PROVE  AcceptedInv'
  BY <1>1, <1>3, PaymentsStay DEF EnqueueExecution, AcceptedInv
<1>4. ASSUME NEW p \in Payments, StartRun(p)
      PROVE  AcceptedInv'
  <2>1. status[p] # "none" /\ PaymentOf(Owner(p)) = p
    BY <1>4 DEF StartRun, AcceptedInv, Owner
  <2> QED BY <1>1, <1>4, <2>1, PaymentsStay DEF StartRun, Goto, AcceptedInv
<1>5. ASSUME NEW p \in Payments, StallJob(p)
      PROVE  AcceptedInv'
  BY <1>1, <1>5, PaymentsStay DEF StallJob, AcceptedInv
<1>6. ASSUME NEW r \in Runs, RunStep(r) \/ RunCrashes(r)
      PROVE  AcceptedInv'
  <2>1. pc[r] # "idle" /\ \E l \in RunPc : Goto(r, l)
    BY <1>6 DEF RunStep, RunCrashes, FetchIntent, SetBroadcasting,
       InsertAttempt, RefuseTransfer, SendTransfer, ReceiptArrives, WaitThrows,
       RecordTx, SetBroadcasted, DebitBalance, SetFailed, FailAttempts,
       ReleaseReserve, Unreserve, EmitFailed, RunReturns, RunThrows, Statement,
       RunPc, Live, Trying, Catching
  <2>2. \A p \in Payments : queue'[p] = "absent" \/ queue[p] # "absent"
    <3>1. CASE RunReturns(r) \/ RunThrows(r)
      BY <1>1, <3>1 DEF RunReturns, RunThrows, Owns
    <3>2. CASE ~ (RunReturns(r) \/ RunThrows(r))
      BY <1>6, <3>2 DEF RunStep, RunCrashes, FetchIntent, SetBroadcasting,
         InsertAttempt, RefuseTransfer, SendTransfer, ReceiptArrives,
         WaitThrows, RecordTx, SetBroadcasted, DebitBalance, SetFailed,
         FailAttempts, ReleaseReserve, Unreserve, EmitFailed, Statement, store,
         jobs
    <3> QED BY <3>1, <3>2
  <2> QED BY <1>1, <2>1, <2>2, PaymentsStay DEF AcceptedInv, Goto
<1>7. CASE ApiStep
  BY <1>2, <1>3, <1>7 DEF ApiStep, CreateIntent, jobs
<1>8. CASE ExecutionStep
  BY <1>4, <1>5, <1>6, <1>8, ExecutionSteps
<1>9. CASE ChainStep \/ ConfirmationStep \/ UNCHANGED vars
  BY <1>2, <1>9, ScanStepAttempts DEF ChainStep, FinalizeTx, DropTx, RevertTx, StickTx, ForgetTx,
     ConfirmationStep, ConfirmationNext, vars, store, jobs
<1> QED BY <1>7, <1>8, <1>9 DEF Next

(* A step of a run changes the status of no payment but its own.           *)
LEMMA RunStepWritesItsOwn ==
    ASSUME TypeInv, NEW r \in Runs, RunStep(r) \/ RunCrashes(r),
           NEW p \in Payments
    PROVE  status'[p] = status[p] \/ (p = PaymentOf(r) /\ pc[r] # "idle")
<1> USE DEF TypeInv, TypeOK, StoreTypeOK
<1>1. CASE SetBroadcasting(r) \/ SetBroadcasted(r) \/ SetFailed(r)
  <2>1. pc[r] # "idle"
    BY <1>1 DEF SetBroadcasting, SetBroadcasted, SetFailed, Statement
  <2>2. ASSUME NEW t, SetStatus(PaymentOf(r), t)
        PROVE  status'[p] = status[p] \/ p = PaymentOf(r)
    BY <2>2 DEF SetStatus
  <2>3. CASE UNCHANGED db
    BY <2>3 DEF db
  <2> QED
    BY <1>1, <2>1, <2>2, <2>3
       DEF SetBroadcasting, SetBroadcasted, SetFailed, Statement
<1>2. CASE ~ (SetBroadcasting(r) \/ SetBroadcasted(r) \/ SetFailed(r))
  BY <1>2 DEF RunStep, RunCrashes, FetchIntent, InsertAttempt,
     RefuseTransfer, SendTransfer, ReceiptArrives, WaitThrows, RecordTx,
     DebitBalance, FailAttempts, ReleaseReserve, Unreserve, EmitFailed,
     RunReturns, RunThrows, Statement, SetAttempt, CreateLedgerEntry,
     FailPendingAttempts, ReturnReserve, EmitWebhook, store, db
<1> QED BY <1>1, <1>2

(* The mapped state changes only with the facts it is computed from.       *)
LEMMA StageUnchanged ==
    ASSUME \A p \in Payments : (status'[p] = "none") <=> (status[p] = "none"),
           \A r \in Runs : /\ (attempt'[r] = "confirmed") <=> (attempt[r] = "confirmed")
                           /\ (tx'[r] \in OnChain) <=> (tx[r] \in OnChain)
    PROVE  stageOf' = stageOf
<1>1. \A p \in Payments : Confirmed(p)' = Confirmed(p)
  BY DEF Confirmed, RunsOf
<1>2. \A p \in Payments :
        (\E r \in RunsOf(p) : tx'[r] \in OnChain) <=> (\E r \in RunsOf(p) : tx[r] \in OnChain)
  BY DEF RunsOf
<1> QED BY <1>1, <1>2 DEF stageOf, RunsOf

(* A payment whose facts change as Advance says advances alone.            *)
LEMMA StageAdvances ==
    ASSUME NEW p \in Payments, NEW from, NEW to,
           stageOf[p] = from, stageOf'[p] = to,
           \A q \in Payments : q # p => stageOf'[q] = stageOf[q],
           toldOf' = toldOf
    PROVE  Promise!Advance(p, from, to)
<1>1. stageOf' = [stageOf EXCEPT ![p] = to]
  BY DEF stageOf
<1> QED BY <1>1 DEF Promise!Advance

(* The insert of an intent is Accept.                                      *)
LEMMA CreateIntentKeepsPromise ==
    ASSUME TypeInv, RunInv, AcceptedInv, NEW p \in Payments, CreateIntent(p),
           UNCHANGED pc
    PROVE  Promise!Accept(p)
<1> USE DEF TypeInv, TypeOK, StoreTypeOK
<1>1. stageOf[p] = "none"
  BY DEF CreateIntent, stageOf
<1>2. \A r \in RunsOf(p) : attempt[r] = "none" /\ tx[r] = "none"
  <2>1. \A r \in RunsOf(p) : r \in Runs /\ pc[r] = "idle"
    BY DEF CreateIntent, AcceptedInv, RunsOf
  <2> QED BY <2>1 DEF RunInv, BeforeInsert
<1>3. UNCHANGED <<attempt, tx, events>>
  BY DEF CreateIntent
<1>4. Confirmed(p)' = {} /\ ~ (\E r \in RunsOf(p) : tx'[r] \in OnChain)
  BY <1>2, <1>3 DEF Confirmed, OnChain, RunsOf
<1>5. stageOf'[p] = "accepted"
  <2>1. status'[p] = "route_selected"
    BY DEF CreateIntent
  <2> QED BY <1>4, <2>1 DEF stageOf, RunsOf
<1>6. ASSUME NEW q \in Payments, q # p
      PROVE  stageOf'[q] = stageOf[q]
  <2>1. status'[q] = status[q]
    BY <1>6 DEF CreateIntent
  <2>2. Confirmed(q)' = Confirmed(q)
    BY <1>3 DEF Confirmed, RunsOf
  <2> QED BY <1>3, <2>1, <2>2 DEF stageOf, RunsOf
<1>7. toldOf' = toldOf
  BY <1>3 DEF toldOf
<1> QED BY <1>1, <1>5, <1>6, <1>7, StageAdvances DEF Promise!Accept

(* The first transfer of a payment in a final block, whether it succeeded  *)
(* there or not, is Pay, a further one nothing.                            *)
LEMMA LandingKeepsPromise ==
    ASSUME TypeInv, RunInv, AcceptedInv, NEW r \in Runs, NEW l \in OnChain,
           tx[r] = "sent", tx' = [tx EXCEPT ![r] = l], UNCHANGED db
    PROVE  Promise!Pay(PaymentOf(r)) \/ UNCHANGED <<stageOf, toldOf>>
<1> USE DEF TypeInv, TypeOK, StoreTypeOK
<1> DEFINE p == PaymentOf(r)
<1>1. p \in Payments /\ r \in RunsOf(p)
  BY DEF Runs, RunsOf
<1>2. UNCHANGED <<status, attempt, events>>
  BY DEF db
<1>3. status[p] # "none"
  BY <1>1 DEF RunInv, AcceptedInv, BeforeInsert
<1>4. toldOf' = toldOf
  BY <1>2 DEF toldOf
<1>5. \A q \in Payments : Confirmed(q)' = Confirmed(q)
  BY <1>2 DEF Confirmed, RunsOf
<1>6. \A q \in Payments : q # p =>
        (\E s \in RunsOf(q) : tx'[s] \in OnChain) <=> (\E s \in RunsOf(q) : tx[s] \in OnChain)
  BY <1>2 DEF RunsOf
<1>7. \A q \in Payments : q # p => stageOf'[q] = stageOf[q]
  BY <1>2, <1>5, <1>6 DEF stageOf, RunsOf
<1>8. \E s \in RunsOf(p) : tx'[s] \in OnChain
  BY <1>1, <1>2
<1>9. CASE Confirmed(p) # {} \/ \E s \in RunsOf(p) : tx[s] \in OnChain
  <2>1. stageOf'[p] = stageOf[p]
    BY <1>1, <1>2, <1>3, <1>5, <1>8, <1>9 DEF stageOf, RunsOf
  <2>2. \A q \in Payments : stageOf'[q] = stageOf[q]
    BY <1>7, <2>1
  <2>3. /\ stageOf = [q \in Payments |-> stageOf[q]]
        /\ stageOf' = [q \in Payments |-> stageOf'[q]]
    BY DEF stageOf
  <2>4. stageOf' = stageOf
    BY <2>2, <2>3
  <2> QED BY <1>4, <2>4
<1>10. CASE Confirmed(p) = {} /\ ~ \E s \in RunsOf(p) : tx[s] \in OnChain
  <2>1. stageOf[p] = "accepted"
    BY <1>1, <1>3, <1>10 DEF stageOf
  <2>2. stageOf'[p] = "onchain"
    BY <1>1, <1>2, <1>3, <1>5, <1>8, <1>10 DEF stageOf, RunsOf
  <2> QED BY <1>1, <1>4, <1>7, <2>1, <2>2, StageAdvances DEF Promise!Pay
<1> QED BY <1>9, <1>10

(* The first attempt marked confirmed is Confirm, a further one nothing.   *)
LEMMA MarkKeepsPromise ==
    ASSUME TypeInv, RunInv, AcceptedInv, NEW r \in Runs, tx[r] \in OnChain,
           attempt' = [attempt EXCEPT ![r] = "confirmed"],
           UNCHANGED <<status, events, tx>>
    PROVE  Promise!Confirm(PaymentOf(r)) \/ UNCHANGED <<stageOf, toldOf>>
<1> USE DEF TypeInv, TypeOK, StoreTypeOK
<1> DEFINE p == PaymentOf(r)
<1>1. p \in Payments /\ r \in RunsOf(p)
  BY DEF Runs, RunsOf
<1>2. status[p] # "none"
  BY <1>1 DEF OnChain, RunInv, AcceptedInv, BeforeInsert
<1>3. toldOf' = toldOf
  BY DEF toldOf
<1>4. \A q \in Payments : q # p => Confirmed(q)' = Confirmed(q)
  BY DEF Confirmed, RunsOf
<1>5. \A q \in Payments : q # p => stageOf'[q] = stageOf[q]
  BY <1>4 DEF stageOf, RunsOf
<1>6. stageOf'[p] = "confirmed"
  <2>1. r \in Confirmed(p)'
    BY <1>1 DEF Confirmed, RunsOf
  <2> QED BY <1>1, <1>2, <2>1 DEF stageOf
<1>7. CASE Confirmed(p) # {}
  <2>1. stageOf[p] = "confirmed"
    BY <1>1, <1>2, <1>7 DEF stageOf
  <2>2. \A q \in Payments : stageOf'[q] = stageOf[q]
    BY <1>1, <1>5, <1>6, <2>1
  <2>3. stageOf' = stageOf
    BY <2>2 DEF stageOf
  <2> QED BY <1>3, <2>3
<1>8. CASE Confirmed(p) = {}
  <2>1. stageOf[p] = "onchain"
    BY <1>1, <1>2, <1>8 DEF stageOf
  <2> QED BY <1>1, <1>3, <1>5, <1>6, <2>1, StageAdvances DEF Promise!Confirm
<1> QED BY <1>7, <1>8

(* The first payment.settled event is Tell, a further one nothing.         *)
LEMMA EmitKeepsPromise ==
    ASSUME TypeInv, AcceptedInv, RunInv, NEW r \in Runs, attempt[r] = "confirmed",
           EmitWebhook(PaymentOf(r), "payment.settled"), UNCHANGED tx
    PROVE  Promise!Tell(PaymentOf(r))
<1> USE DEF TypeInv, TypeOK, StoreTypeOK
<1> DEFINE p == PaymentOf(r)
<1>1. p \in Payments /\ r \in RunsOf(p) /\ r \in Confirmed(p)
  BY DEF Runs, RunsOf, Confirmed
<1>2. status[p] # "none"
  BY <1>1 DEF RunInv, AcceptedInv, BeforeInsert
<1>3. stageOf[p] = "confirmed"
  BY <1>1, <1>2 DEF stageOf
<1>4. stageOf' = stageOf
  BY StageUnchanged DEF EmitWebhook
<1>5. toldOf' = [toldOf EXCEPT ![p] = TRUE]
  <2>1. "payment.settled" \in EventTypes
    BY DEF EventTypes
  <2>2. events'[p]["payment.settled"] = events[p]["payment.settled"] + 1
    BY <1>1, <2>1 DEF EmitWebhook
  <2>3. \A q \in Payments : q # p => events'[q] = events[q]
    BY DEF EmitWebhook
  <2>4. events'[p]["payment.settled"] > 0
    BY <1>1, <2>1, <2>2
  <2> QED BY <1>1, <2>3, <2>4 DEF toldOf
<1> QED BY <1>3, <1>4, <1>5 DEF Promise!Tell

(* Every step of the system is a step of the promise or none.              *)
LEMMA PromiseStep ==
    ASSUME TypeInv, RunInv, ScanInv, AcceptedInv, [Next]_vars
    PROVE  [Promise!Next]_<<stageOf, toldOf>>
<1> USE DEF TypeInv, TypeOK, StoreTypeOK, Promise!Next
<1>0. \A r \in Runs : PaymentOf(r) \in Payments
  BY DEF Runs
<1>1. ASSUME UNCHANGED <<status, attempt, tx, events>>
      PROVE  UNCHANGED <<stageOf, toldOf>>
  BY <1>1, StageUnchanged DEF toldOf
<1>2. CASE ApiStep
  <2>1. ASSUME NEW p \in Payments, EnqueueExecution(p)
        PROVE  UNCHANGED <<status, attempt, tx, events>>
    BY <2>1 DEF EnqueueExecution, db
  <2> QED BY <1>1, <1>2, <2>1, CreateIntentKeepsPromise DEF ApiStep
<1>3. CASE ChainStep
  <2>1. ASSUME NEW r \in Runs, NEW l \in {"dropped", "stuck"}, tx[r] = "sent",
               tx' = [tx EXCEPT ![r] = l], UNCHANGED db
        PROVE  UNCHANGED <<stageOf, toldOf>>
    <3>1. UNCHANGED <<status, attempt, events>>
      BY <2>1 DEF db
    <3> QED BY <2>1, <3>1, StageUnchanged DEF OnChain, toldOf
  <2>2. "final" \in OnChain /\ "reverted" \in OnChain
    BY DEF OnChain
  <2>3. PICK r \in Runs :
            FinalizeTx(r) \/ DropTx(r) \/ RevertTx(r) \/ StickTx(r) \/ ForgetTx(r)
    BY <1>3 DEF ChainStep
  <2>4. CASE FinalizeTx(r) \/ RevertTx(r)
    BY <1>0, <2>2, <2>4, LandingKeepsPromise DEF FinalizeTx, RevertTx
  <2>5. CASE DropTx(r) \/ StickTx(r)
    BY <2>1, <2>5 DEF DropTx, StickTx
  <2>6. CASE ForgetTx(r)
    <3>1. \A s \in Runs : (tx'[s] \in OnChain) <=> (tx[s] \in OnChain)
      BY <1>0, <2>6 DEF ForgetTx, OnChain, TypeInv, TypeOK, StoreTypeOK
    <3>2. UNCHANGED <<status, attempt, events>>
      BY <2>6 DEF ForgetTx, db
    <3> QED BY <3>1, <3>2, StageUnchanged DEF toldOf
  <2> QED BY <2>3, <2>4, <2>5, <2>6
<1>4. CASE ExecutionStep
  <2>1. ASSUME NEW p \in Payments, StartRun(p) \/ StallJob(p)
        PROVE  UNCHANGED <<status, attempt, tx, events>>
    BY <2>1, JobStepsWriteNoRow
  <2>2. ASSUME NEW r \in Runs, RunStep(r) \/ RunCrashes(r)
        PROVE  UNCHANGED <<stageOf, toldOf>>
    <3>1. \A s \in Runs :
            /\ (attempt'[s] = "confirmed") <=> (attempt[s] = "confirmed")
            /\ (tx'[s] \in OnChain) <=> (tx[s] \in OnChain)
      BY <2>2, RunStepAttempts DEF Recorded
    <3>2. \A p \in Payments :
            /\ (status'[p] = "none") <=> (status[p] = "none")
            /\ events'[p]["payment.settled"] = events[p]["payment.settled"]
      <4> TAKE p \in Payments
      <4>1. status[p] # "none" => status'[p] # "none"
        BY PaymentsStay
      <4>2. status[p] = "none" => status'[p] = "none"
        BY <1>0, <2>2, RunStepWritesItsOwn DEF AcceptedInv
      <4>3. events'[p]["payment.settled"] = events[p]["payment.settled"]
        BY <2>2, RunStepReports
      <4> QED BY <4>1, <4>2, <4>3
    <3> QED BY <3>1, <3>2, StageUnchanged DEF toldOf
  <2> QED BY <1>1, <1>4, <2>1, <2>2, ExecutionSteps
<1>5. CASE ConfirmationStep
  <2>1. PICK w \in Pollers : PollerStep(w) \/ PollerCrashes(w)
    BY <1>5 DEF ConfirmationStep, ConfirmationNext
  <2>2. UNCHANGED tx
    BY <2>1, ScanStepAttempts
  <2>3. CASE MarkConfirmed(w)
    <3>1. at[w] \in Runs /\ tx[at[w]] \in OnChain
      BY <2>3 DEF MarkConfirmed, PollerStatement, InHand, ScanInv
    <3>2. UNCHANGED <<status, events>>
      BY <2>3 DEF MarkConfirmed, PollerStatement, SetAttempt, db
    <3>3. \/ UNCHANGED attempt
          \/ attempt' = [attempt EXCEPT ![at[w]] = "confirmed"]
      BY <2>3 DEF MarkConfirmed, PollerStatement, SetAttempt, db
    <3> QED BY <1>0, <1>1, <2>2, <3>1, <3>2, <3>3, MarkKeepsPromise
  <2>4. CASE EmitSettled(w)
    <3>1. at[w] \in Runs /\ attempt[at[w]] = "confirmed"
      BY <2>4 DEF EmitSettled, PollerLastStatement, InHand, ScanInv
    <3>2. UNCHANGED db \/ EmitWebhook(PaymentOf(at[w]), "payment.settled")
      BY <2>4 DEF EmitSettled, PollerLastStatement
    <3>3. CASE UNCHANGED db
      BY <1>1, <2>2, <3>3 DEF db
    <3> QED BY <1>0, <2>2, <3>1, <3>2, <3>3, EmitKeepsPromise
  <2>5. CASE Settle(w) \/ MoveToManualReview(w)
    <3>1. UNCHANGED <<attempt, events>>
      BY <2>5 DEF Settle, MoveToManualReview, PollerStatement,
                  PollerLastStatement, SetStatus, db
    <3>2. \A p \in Payments : (status'[p] = "none") <=> (status[p] = "none")
      <4> TAKE p \in Payments
      <4>1. status[p] # "none" => status'[p] # "none"
        BY PaymentsStay
      <4>2. at[w] \in Runs /\ pc[at[w]] # "idle"
        BY <2>5 DEF Settle, MoveToManualReview, PollerStatement, InHand,
           PollerLastStatement, ScanInv, RunInv, BeforeInsert, Recorded
      <4>3. status[PaymentOf(at[w])] # "none"
        BY <4>2 DEF AcceptedInv
      <4>4. status[p] = "none" => status'[p] = "none"
        BY <2>5, <4>3 DEF Settle, MoveToManualReview, PollerStatement,
                          PollerLastStatement, SetStatus, db
      <4> QED BY <4>1, <4>4
    <3>3. stageOf' = stageOf
      BY <2>2, <3>1, <3>2, StageUnchanged
    <3> QED BY <3>1, <3>3 DEF toldOf
  <2>6. CASE ~ (MarkConfirmed(w) \/ EmitSettled(w) \/ Settle(w)
                 \/ MoveToManualReview(w))
    <3>1. UNCHANGED <<status, attempt, tx, events>>
      <4>1. CASE Scan(w) \/ PollerCrashes(w)
        BY <4>1 DEF Scan, PollerCrashes, store, db
      <4>2. ASSUME NEW r \in todo[w], CheckConfirmed(w, r) \/ CheckUnconfirmed(w, r)
            PROVE  UNCHANGED db /\ UNCHANGED tx
        BY <4>2 DEF CheckConfirmed, CheckUnconfirmed, store
      <4>3. CASE RecordFee(w) \/ Deduct(w)
        BY <4>3 DEF RecordFee, Deduct, PollerStatement, CreateLedgerEntry,
                    SpendReserve, db
      <4> QED BY <2>1, <2>6, <4>1, <4>2, <4>3 DEF PollerStep, db
    <3> QED BY <1>1, <3>1
  <2> QED BY <2>3, <2>4, <2>5, <2>6
<1>6. CASE UNCHANGED vars
  BY <1>1, <1>6 DEF vars, store, db
<1> QED BY <1>2, <1>3, <1>4, <1>5, <1>6 DEF Next

(* The system implements SettlementPromise: paid on the chain, then        *)
(* confirmed in the records, then told, each for good.                     *)
THEOREM ImplementsPromise == Spec => KeepsPromise
<1>1. Init => Promise!Init
  <2> SUFFICES ASSUME StoreInit PROVE Promise!Init
    BY DEF Init
  <2>1. \A p \in Payments :
          status[p] = "none" /\ events[p]["payment.settled"] = 0
    BY DEF StoreInit, EventTypes
  <2>2. stageOf = [p \in Payments |-> "none"]
    BY <2>1 DEF stageOf
  <2>3. \A p \in Payments : (events[p]["payment.settled"] > 0) = FALSE
    BY <2>1
  <2>4. toldOf = [p \in Payments |-> FALSE]
    BY <2>3, Zenon DEF toldOf
  <2> QED BY <2>2, <2>4 DEF Promise!Init
<1>2. Init => AcceptedInv
  BY AcceptedInit
<1>3. SettlementInv /\ AcceptedInv /\ [Next]_vars => AcceptedInv'
  BY AcceptedStep DEF SettlementInv
<1>4. SettlementInv /\ AcceptedInv /\ [Next]_vars =>
        [Promise!Next]_<<stageOf, toldOf>>
  BY PromiseStep DEF SettlementInv
<1> QED
  BY <1>1, <1>2, <1>3, <1>4, SettlementInvariant, PTL
     DEF Spec, KeepsPromise, Promise!Spec
=============================================================================
