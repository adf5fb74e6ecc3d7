------------------------- MODULE PaymentRuns_proofs -------------------------
(***************************************************************************)
(* Proofs about the payment path for any number of payments, tries, stalls,*)
(* slots and scans: how often a payment can be sent and how often one that *)
(* was given up, counted in faults; and, while nothing fails, which run    *)
(* works on a payment and the two sides of its books.                      *)
(***************************************************************************)
EXTENDS PaymentSystem_proofs, FiniteSetTheorems

USE DEF PaymentOf

(* The run that has the job, or had it when the job completed.             *)
Holds(r) ==
    /\ r = Owner(PaymentOf(r))
    /\ queue[PaymentOf(r)] \in {"active", "completed"}

(* Only the run that has a job works on it, whatever it sent belongs to    *)
(* that run, and it gives up only what was never sent or was dropped.      *)
CalmRuns ==
    \A r \in Runs :
        /\ pc[r] # "dead"
        /\ pc[r] \in Live => Owns(r)
        /\ tx[r] \in {"none", "sent", "dropped", "final"}
        /\ tx[r] \in {"sent", "final"} => Holds(r)
        /\ pc[r] \in Catching \cup {"threw"} => tx[r] \in {"none", "dropped"}

CalmInv == faults = 0 => CalmRuns

(* Faults are counted and never forgotten.                                 *)
LEMMA FaultsOnlyGrow ==
    ASSUME TypeInv, [Next]_vars
    PROVE  faults' = faults \/ (faults' = faults + 1 /\ faults \in Nat)
<1>0. faults \in Nat
  BY LimitsAssumption DEF TypeInv, TypeOK, StoreTypeOK
<1> USE DEF Works, Throws
<1>1. CASE ApiStep \/ ChainStep
  BY <1>0, <1>1 DEF ApiStep, ChainStep, CreateIntent, EnqueueExecution,
     FinalizeTx, DropTx, RevertTx, StickTx, ForgetTx
<1>2. ASSUME NEW p \in Payments, StartRun(p) \/ StallJob(p)
      PROVE  faults' = faults \/ faults' = faults + 1
  BY <1>2 DEF StartRun, StallJob
<1>3. ASSUME NEW r \in Runs, RunStep(r) \/ RunCrashes(r)
      PROVE  faults' = faults \/ faults' = faults + 1
  BY <1>3 DEF RunStep, RunCrashes, FetchIntent, SetBroadcasting, InsertAttempt,
     RefuseTransfer, SendTransfer, ReceiptArrives, WaitThrows, RecordTx,
     SetBroadcasted, DebitBalance, SetFailed, FailAttempts, ReleaseReserve,
     Unreserve, EmitFailed, RunReturns, RunThrows, Statement, store
<1>4. ASSUME NEW w \in Pollers, PollerStep(w) \/ PollerCrashes(w)
      PROVE  faults' = faults \/ faults' = faults + 1
  BY <1>4 DEF PollerStep, PollerCrashes, Scan, CheckConfirmed, CheckUnconfirmed,
     MarkConfirmed, Settle, RecordFee, Deduct, EmitSettled, MoveToManualReview,
     PollerStatement, PollerLastStatement, store
<1>5. CASE ExecutionStep \/ ConfirmationStep
  BY <1>0, <1>2, <1>3, <1>4, <1>5, ExecutionSteps
     DEF ConfirmationStep, ConfirmationNext
<1>6. CASE UNCHANGED vars
  BY <1>6 DEF vars, store
<1> QED BY <1>1, <1>5, <1>6 DEF Next

(* The run a job has, or is to have next, is one of those that are counted.*)
LEMMA OwnerIsRun ==
    ASSUME TypeInv, NEW p \in Payments, queue[p] \in {"waiting", "active"}
    PROVE  Owner(p) \in Runs /\ PaymentOf(Owner(p)) = p
<1>1. made[p] \in Nat /\ stalled[p] \in Nat /\ made[p] < MaxAttempts
      /\ stalled[p] <= MaxStalls
  BY LimitsAssumption DEF TypeInv, TypeOK, StoreTypeOK, JobsOK
<1>2. made[p] + stalled[p] + 1 \in 1 .. (MaxAttempts + MaxStalls)
  BY <1>1, LimitsAssumption
<1> QED BY <1>2 DEF Owner, Runs

(* What a run may do while nothing fails: send the transfer, come to an    *)
(* end, or go on without touching the chain or the job, and into the catch *)
(* block only where the transfer was refused or is known to have failed.   *)
QuietMove(r, l) ==
    /\ Goto(r, l)
    /\ UNCHANGED <<tx, jobs>>
    /\ l \in Live
    /\ l \in Catching \cup {"threw"} =>
         \/ pc[r] \in Catching \cup {"transfer"}
         \/ tx[r] \in {"dropped", "reverted", "forgotten"}

LEMMA CalmRunStep ==
    ASSUME NEW r \in Runs, RunStep(r) \/ RunCrashes(r), faults = 0, faults' = 0
    PROVE  /\ pc[r] \in Live
           /\ \/ \E l \in Live : QuietMove(r, l)
              \/ SendTransfer(r)
              \/ RunReturns(r)
              \/ RunThrows(r)
<1>0. ~ Throws
  BY DEF Throws
<1> USE <1>0 DEF QuietMove, Live, Trying, Catching
<1>1. CASE FetchIntent(r) \/ SetBroadcasting(r) \/ InsertAttempt(r)
  BY <1>1 DEF FetchIntent, SetBroadcasting, InsertAttempt, Statement
<1>2. CASE RefuseTransfer(r) \/ ReceiptArrives(r) \/ WaitThrows(r)
  BY <1>2 DEF RefuseTransfer, ReceiptArrives, WaitThrows, store
<1>3. CASE RecordTx(r) \/ SetBroadcasted(r) \/ DebitBalance(r)
  BY <1>3 DEF RecordTx, SetBroadcasted, DebitBalance, Statement
<1>4. CASE SetFailed(r) \/ FailAttempts(r) \/ ReleaseReserve(r)
  BY <1>4 DEF SetFailed, FailAttempts, ReleaseReserve, Statement
<1>5. CASE Unreserve(r) \/ EmitFailed(r)
  BY <1>5 DEF Unreserve, EmitFailed, Statement
<1>6. CASE SendTransfer(r) \/ RunReturns(r) \/ RunThrows(r)
  BY <1>6 DEF SendTransfer, RunReturns, RunThrows
<1>7. ~ RunCrashes(r)
  BY DEF RunCrashes
<1> QED BY <1>1, <1>2, <1>3, <1>4, <1>5, <1>6, <1>7 DEF RunStep

(* Initially nothing runs.                                                 *)
LEMMA CalmInit == Init => CalmInv
BY DEF Init, StoreInit, ExecutionInit, CalmInv, CalmRuns, Live, Trying, Catching

(* A step of a run keeps the job to the run that has it.                   *)
LEMMA CalmRunStepKeeps ==
    ASSUME TypeInv, RunInv, CalmRuns, NEW r \in Runs,
           RunStep(r) \/ RunCrashes(r), faults = 0, faults' = 0
    PROVE  CalmRuns'
<1> DEFINE p == PaymentOf(r)
<1>0. p \in Payments /\ \A s \in Runs : PaymentOf(s) \in Payments
  BY DEF Runs
<1>1. pc[r] \in Live /\ Owns(r) /\ Holds(r)
  BY CalmRunStep DEF CalmRuns, Owns, Holds
<1> USE DEF TypeInv, TypeOK, StoreTypeOK, ExecutionTypeOK
<1>2. ASSUME NEW l \in Live, QuietMove(r, l)
      PROVE  CalmRuns'
  <2>1. pc[r] = "transfer" => tx[r] = "none"
    BY DEF RunInv, BeforeInsert
  <2>2. l \in Catching \cup {"threw"} => tx[r] \in {"none", "dropped"}
    BY <1>2, <2>1 DEF QuietMove, CalmRuns
  <2>3. \A s \in Runs : pc'[s] = IF s = r THEN l ELSE pc[s]
    BY <1>2 DEF QuietMove, Goto
  <2>4. \A s \in Runs : (Owns(s)' <=> Owns(s)) /\ (Holds(s)' <=> Holds(s))
    BY <1>2 DEF QuietMove, Owns, Holds, Owner, jobs
  <2>5. UNCHANGED tx /\ "dead" \notin Live
    BY <1>2 DEF QuietMove, Live, Trying, Catching
  <2> QED BY <1>1, <1>2, <2>2, <2>3, <2>4, <2>5 DEF CalmRuns
<1>3. CASE SendTransfer(r)
  <2>1. /\ \A s \in Runs : pc'[s] = IF s = r THEN "wait_receipt" ELSE pc[s]
        /\ \A s \in Runs : tx'[s] = IF s = r THEN "sent" ELSE tx[s]
    BY <1>3 DEF SendTransfer, Goto
  <2>2. \A s \in Runs : (Owns(s)' <=> Owns(s)) /\ (Holds(s)' <=> Holds(s))
    BY <1>3 DEF SendTransfer, Owns, Holds, Owner, jobs
  <2> QED BY <1>1, <2>1, <2>2 DEF CalmRuns, Catching
<1>4. CASE RunReturns(r)
  <2>1. /\ \A s \in Runs : pc'[s] = IF s = r THEN "ended" ELSE pc[s]
        /\ queue' = [queue EXCEPT ![p] = "completed"]
        /\ UNCHANGED <<tx, made, stalled>>
    BY <1>1, <1>4 DEF RunReturns, Goto
  <2>2. ASSUME NEW s \in Runs, s # r, pc[s] \in Live
        PROVE  Owns(s)'
    <3>1. Owns(s) /\ PaymentOf(s) # p
      BY <1>1, <2>2 DEF CalmRuns, Owns
    <3> QED BY <1>0, <2>1, <3>1 DEF Owns, Owner
  <2>3. \A s \in Runs : Holds(s) => Holds(s)'
    BY <1>0, <2>1 DEF Holds, Owner
  <2> QED BY <2>1, <2>2, <2>3 DEF CalmRuns, Live, Trying, Catching
<1>5. CASE RunThrows(r)
  <2>1. pc[r] = "threw" /\ tx[r] \in {"none", "dropped"}
    BY <1>5 DEF RunThrows, CalmRuns
  <2>2. /\ \A s \in Runs : pc'[s] = IF s = r THEN "ended" ELSE pc[s]
        /\ \A q \in Payments : q # p => queue'[q] = queue[q] /\ made'[q] = made[q]
        /\ UNCHANGED <<tx, stalled>>
    BY <1>0, <1>1, <1>5 DEF RunThrows, Goto
  <2>3. ASSUME NEW s \in Runs, s # r
        PROVE  /\ Owns(s) => Owns(s)'
               /\ Holds(s) => Holds(s)'
    <3>1. CASE PaymentOf(s) = p
      BY <1>1, <2>3, <3>1 DEF Owns, Holds
    <3>2. CASE PaymentOf(s) # p
      BY <1>0, <2>2, <3>2 DEF Owns, Holds, Owner
    <3> QED BY <3>1, <3>2
  <2> QED BY <2>1, <2>2, <2>3 DEF CalmRuns, Live, Trying, Catching
<1> QED BY <1>2, <1>3, <1>4, <1>5, CalmRunStep

(* Every step keeps it, as long as nothing fails.                          *)
LEMMA CalmStep ==
    ASSUME TypeInv, RunInv, CalmInv, [Next]_vars
    PROVE  CalmInv'
<1> SUFFICES ASSUME faults' = 0 PROVE CalmRuns'
  BY DEF CalmInv
<1>0. faults = 0 /\ CalmRuns /\ ~ Throws
  BY FaultsOnlyGrow DEF CalmInv, Throws
<1>00. \A r \in Runs : PaymentOf(r) \in Payments
  BY DEF Runs
<1> USE DEF TypeInv, TypeOK, StoreTypeOK, ExecutionTypeOK
<1>1. ASSUME UNCHANGED <<tx, jobs, pc>>
      PROVE  CalmRuns'
  BY <1>0, <1>1 DEF CalmRuns, Owns, Holds, Owner, jobs
<1>2. CASE ApiStep
  <2>1. ASSUME NEW p \in Payments, EnqueueExecution(p), UNCHANGED pc
        PROVE  CalmRuns'
    BY <1>0, <1>00, <2>1 DEF EnqueueExecution, CalmRuns, Owns, Holds, Owner
  <2> QED BY <1>1, <1>2, <2>1 DEF ApiStep, CreateIntent
<1>3. CASE ChainStep
  <2>1. PICK r \in Runs : FinalizeTx(r) \/ DropTx(r)
    BY <1>0, <1>3 DEF ChainStep, RevertTx, StickTx, ForgetTx
  <2>2. PICK l \in {"final", "dropped"} : tx' = [tx EXCEPT ![r] = l]
    BY <2>1 DEF FinalizeTx, DropTx
  <2>3. tx[r] = "sent" /\ UNCHANGED <<pc, jobs>>
    BY <1>3, <2>1 DEF ChainStep, FinalizeTx, DropTx
  <2> QED BY <1>0, <2>2, <2>3 DEF CalmRuns, Owns, Holds, Owner, jobs
<1>4. CASE ExecutionStep
  <2>1. ASSUME NEW p \in Payments, StartRun(p)
        PROVE  CalmRuns'
    <3>1. Owner(p) \in Runs /\ PaymentOf(Owner(p)) = p /\ queue[p] = "waiting"
      BY <2>1, OwnerIsRun DEF StartRun
    <3>2. /\ \A s \in Runs : pc'[s] = IF s = Owner(p) THEN "fetch" ELSE pc[s]
          /\ \A q \in Payments : queue'[q] = IF q = p THEN "active" ELSE queue[q]
          /\ UNCHANGED <<tx, made, stalled>>
      BY <2>1 DEF StartRun, Goto
    <3>3. \A q : Owner(q)' = Owner(q)
      BY <3>2 DEF Owner
    <3>4. ASSUME NEW s \in Runs, s = Owner(p)
          PROVE  Owns(s)'
      BY <3>1, <3>2, <3>3, <3>4 DEF Owns
    <3>5. \A s \in Runs : (Owns(s) => Owns(s)') /\ (Holds(s) => Holds(s)')
      BY <1>00, <3>1, <3>2, <3>3 DEF Owns, Holds
    <3> QED BY <1>0, <3>2, <3>4, <3>5 DEF CalmRuns, Catching
  <2>2. ASSUME NEW p \in Payments, StallJob(p)
        PROVE  FALSE
    <3>1. Owner(p) \in Runs
      BY <2>2, OwnerIsRun DEF StallJob
    <3> QED BY <1>0, <2>2, <3>1 DEF StallJob, CalmRuns
  <2> QED
    BY <1>0, <1>4, <2>1, <2>2, ExecutionSteps, CalmRunStepKeeps
<1>5. CASE ConfirmationStep
  BY <1>1, <1>5, ScanStepAttempts DEF ConfirmationStep, ConfirmationNext
<1>6. CASE UNCHANGED vars
  BY <1>1, <1>6 DEF vars, store
<1> QED BY <1>2, <1>3, <1>4, <1>5, <1>6 DEF Next

(* While nothing fails, only the run that has a job works on it, and every *)
(* transfer that may still land or has landed belongs to that run.         *)
THEOREM CalmRunsInvariant == Spec => []CalmInv
<1>1. SettlementInv => TypeInv /\ RunInv
  BY DEF SettlementInv
<1> QED BY <1>1, CalmInit, CalmStep, SettlementInvariant, PTL DEF Spec

-----------------------------------------------------------------------------
(***************************************************************************)
(* Whatever fails: how often a payment can be sent.                        *)
(***************************************************************************)

(* Sent, and not known to have come to nothing.                            *)
Sent(r) == tx[r] \notin {"none", "dropped"}
SentOf(p) == {r \in RunsOf(p) : Sent(r)}

(* A run that may yet send, and the run a job is with when it will make    *)
(* BullMQ call for another one: it is failing, or dead, or its transfer    *)
(* is lost and it is about to find out.                                    *)
LeadsOn(r) ==
    \/ pc[r] \in {"fetch", "set_broadcasting", "insert_attempt", "transfer"}
    \/ Owns(r) /\ pc[r] \in Catching \cup {"threw", "dead"}
    \/ /\ Owns(r) /\ pc[r] = "wait_receipt"
       /\ tx[r] \in {"dropped", "reverted", "forgotten"}
LeadingOn(p) == {r \in RunsOf(p) : LeadsOn(r)}

(* A job that waits for its next run has a transfer to come.  A job that   *)
(* is given up has one that never came.                                    *)
ToCome(p) == IF queue[p] \in {"absent", "waiting", "failed"} THEN 1 ELSE 0

(* Of the transfers made, under way and to come, only one is not owed to a *)
(* fault.                                                                  *)
SendsOf(p) ==
    Cardinality(SentOf(p)) + Cardinality(LeadingOn(p)) + ToCome(p) <= 1 + faults
SendsInv == \A p \in Payments : SendsOf(p)

LEMMA RunsAreFinite == ASSUME NEW p PROVE IsFiniteSet(RunsOf(p))
<1>1. IsFiniteSet(1 .. (MaxAttempts + MaxStalls)) /\ IsFiniteSet(Payments)
  BY FS_Interval, LimitsAssumption, FinitenessAssumption
<1>2. IsFiniteSet(Runs)
  BY <1>1, FS_Product DEF Runs
<1> QED BY <1>2, FS_Subset DEF RunsOf

LEMMA SendsAreFinite ==
    ASSUME NEW p
    PROVE  /\ IsFiniteSet(SentOf(p)) /\ Cardinality(SentOf(p)) \in Nat
           /\ IsFiniteSet(LeadingOn(p)) /\ Cardinality(LeadingOn(p)) \in Nat
<1>1. IsFiniteSet(SentOf(p)) /\ IsFiniteSet(LeadingOn(p))
  BY RunsAreFinite, FS_Subset DEF SentOf, LeadingOn
<1> QED BY <1>1, FS_CardinalityType

(* Sets that differ in one element differ by one at most.                  *)
LEMMA OneElementMore ==
    ASSUME NEW S, NEW T, IsFiniteSet(S), NEW x,
           \A y : y # x => (y \in S <=> y \in T)
    PROVE  /\ Cardinality(S) \in Nat /\ Cardinality(T) \in Nat
           /\ Cardinality(T) + (IF x \in S THEN 1 ELSE 0) =
                Cardinality(S) + (IF x \in T THEN 1 ELSE 0)
<1>1. Cardinality(S) \in Nat
  BY FS_CardinalityType
<1>2. CASE x \in S /\ x \notin T
  <2>1. T = S \ {x}
    BY <1>2
  <2>2. Cardinality(T) = Cardinality(S) - 1 /\ Cardinality(T) \in Nat
    BY <1>2, <2>1, FS_RemoveElement, FS_CardinalityType
  <2> QED BY <1>1, <1>2, <2>2
<1>3. CASE x \notin S /\ x \in T
  <2>1. T = S \cup {x}
    BY <1>3
  <2>2. Cardinality(T) = Cardinality(S) + 1
    BY <1>3, <2>1, FS_AddElement
  <2> QED BY <1>1, <1>3, <2>2
<1>4. CASE x \in S <=> x \in T
  <2>1. S = T
    BY <1>4
  <2> QED BY <1>1, <1>4, <2>1
<1> QED BY <1>2, <1>3, <1>4

(* What a run counts for, and what is to come of its payment.              *)
Cost(r) ==
    (IF Sent(r) THEN 1 ELSE 0) + (IF LeadsOn(r) THEN 1 ELSE 0) + ToCome(PaymentOf(r))

(* A step that leaves the other runs of a payment as they are, and makes   *)
(* one of them count for no more than the faults it takes.                 *)
LEMMA SendsKept ==
    ASSUME SendsInv, NEW p \in Payments, NEW r \in RunsOf(p),
           faults \in Nat, faults' \in Nat,
           \A s \in RunsOf(p) :
               s # r => (Sent(s)' <=> Sent(s)) /\ (LeadsOn(s)' <=> LeadsOn(s)),
           Cost(r)' - faults' <= Cost(r) - faults
    PROVE  SendsOf(p)'
<1>0. RunsOf(p)' = RunsOf(p) /\ PaymentOf(r) = p
  BY DEF RunsOf
<1>1. PICK T : T = SentOf(p)'
  OBVIOUS
<1>2. PICK L : L = LeadingOn(p)'
  OBVIOUS
<1>3. /\ \A s : s # r => (s \in SentOf(p) <=> s \in T)
      /\ \A s : s # r => (s \in LeadingOn(p) <=> s \in L)
      /\ r \in SentOf(p) <=> Sent(r)
      /\ r \in T <=> Sent(r)'
      /\ r \in LeadingOn(p) <=> LeadsOn(r)
      /\ r \in L <=> LeadsOn(r)'
  BY <1>0, <1>1, <1>2 DEF SentOf, LeadingOn
<1>4. /\ Cardinality(T) \in Nat /\ Cardinality(SentOf(p)) \in Nat
      /\ Cardinality(T) + (IF Sent(r) THEN 1 ELSE 0) =
           Cardinality(SentOf(p)) + (IF Sent(r)' THEN 1 ELSE 0)
  BY <1>3, SendsAreFinite, OneElementMore
<1>5. /\ Cardinality(L) \in Nat /\ Cardinality(LeadingOn(p)) \in Nat
      /\ Cardinality(L) + (IF LeadsOn(r) THEN 1 ELSE 0) =
           Cardinality(LeadingOn(p)) + (IF LeadsOn(r)' THEN 1 ELSE 0)
  BY <1>3, SendsAreFinite, OneElementMore
<1>6. Cardinality(SentOf(p)) + Cardinality(LeadingOn(p)) + ToCome(p) <= 1 + faults
  BY DEF SendsInv, SendsOf
<1>7. /\ ToCome(p) \in Nat /\ ToCome(p)' \in Nat
      /\ Cost(r) = (IF Sent(r) THEN 1 ELSE 0) + (IF LeadsOn(r) THEN 1 ELSE 0)
                   + ToCome(p)
      /\ Cost(r)' = (IF Sent(r)' THEN 1 ELSE 0) + (IF LeadsOn(r)' THEN 1 ELSE 0)
                    + ToCome(p)'
  BY <1>0 DEF Cost, ToCome
<1>8. Cardinality(T) + Cardinality(L) + ToCome(p)' <= 1 + faults'
  BY <1>4, <1>5, <1>6, <1>7
<1> QED BY <1>1, <1>2, <1>8 DEF SendsOf

(* A step that leaves all of its runs as they are.                         *)
LEMMA SendsUntouched ==
    ASSUME SendsInv, NEW p \in Payments, faults \in Nat,
           faults' = faults \/ faults' = faults + 1, ToCome(p)' = ToCome(p),
           \A s \in RunsOf(p) : (Sent(s)' <=> Sent(s)) /\ (LeadsOn(s)' <=> LeadsOn(s))
    PROVE  SendsOf(p)'
<1>0. RunsOf(p)' = RunsOf(p)
  BY DEF RunsOf
<1>1. SentOf(p)' = SentOf(p) /\ LeadingOn(p)' = LeadingOn(p)
  BY <1>0 DEF SentOf, LeadingOn
<1>2. Cardinality(SentOf(p)) \in Nat /\ Cardinality(LeadingOn(p)) \in Nat
  BY SendsAreFinite
<1>3. Cardinality(SentOf(p)) + Cardinality(LeadingOn(p)) + ToCome(p) <= 1 + faults
  BY DEF SendsInv, SendsOf
<1>4. Cardinality(SentOf(p)) + Cardinality(LeadingOn(p)) + ToCome(p) <= 1 + faults'
  BY <1>2, <1>3 DEF ToCome
<1> QED BY <1>1, <1>4 DEF SendsOf

(* A step that touches one run, and what is to come of its payment.        *)
LEMMA OneRunSends ==
    ASSUME SendsInv, NEW r \in Runs,
           faults \in Nat, faults' = faults \/ faults' = faults + 1,
           \A s \in Runs :
               s # r => (Sent(s)' <=> Sent(s)) /\ (LeadsOn(s)' <=> LeadsOn(s)),
           \A q \in Payments : q # PaymentOf(r) => ToCome(q)' = ToCome(q),
           Cost(r)' - faults' <= Cost(r) - faults
    PROVE  SendsInv'
<1>1. PICK p \in Payments : p = PaymentOf(r) /\ r \in RunsOf(p)
  BY DEF Runs, RunsOf
<1>2. SendsOf(p)'
  <2>1. faults' \in Nat /\ \A s \in RunsOf(p) : s \in Runs
    BY DEF RunsOf
  <2> QED BY <1>1, <2>1, SendsKept
<1>3. ASSUME NEW q \in Payments, q # p
      PROVE  SendsOf(q)'
  <2>1. \A s \in RunsOf(q) : s \in Runs /\ s # r
    BY <1>1, <1>3 DEF RunsOf
  <2> QED BY <1>1, <1>3, <2>1, SendsUntouched
<1> QED BY <1>2, <1>3 DEF SendsInv

(* A run that goes on, without a fault, counts for no more than before.    *)
LEMMA RunGoesOn ==
    ASSUME TypeInv, NEW r \in Runs, RunStep(r) \/ RunCrashes(r),
           ~ SendTransfer(r), ~ RunReturns(r), ~ RunThrows(r)
    PROVE  /\ UNCHANGED <<tx, jobs>>
           /\ \E next : Goto(r, next)
           /\ LeadsOn(r)' /\ faults' = faults => LeadsOn(r)
<1>0. /\ Throws => faults' = faults + 1 /\ faults \in Nat
      /\ faults' = faults + 1 /\ faults \in Nat => faults' # faults
  BY LimitsAssumption DEF Throws, TypeInv, TypeOK, StoreTypeOK
<1>1. ASSUME UNCHANGED jobs
      PROVE  Owns(r)' <=> Owns(r)
  BY <1>1 DEF Owns, Owner, jobs
<1> USE DEF LeadsOn, Catching, Goto, TypeInv, TypeOK, ExecutionTypeOK
<1>2. CASE FetchIntent(r)
  BY <1>0, <1>1, <1>2 DEF FetchIntent
<1>3. CASE SetBroadcasting(r) \/ InsertAttempt(r)
  BY <1>0, <1>1, <1>3 DEF SetBroadcasting, InsertAttempt, Statement
<1>4. CASE RefuseTransfer(r) \/ ReceiptArrives(r)
  BY <1>0, <1>1, <1>4 DEF RefuseTransfer, ReceiptArrives, store
<1>5. CASE WaitThrows(r)
  BY <1>0, <1>1, <1>5 DEF WaitThrows
<1>6. CASE RecordTx(r) \/ SetBroadcasted(r) \/ DebitBalance(r)
  BY <1>0, <1>1, <1>6 DEF RecordTx, SetBroadcasted, DebitBalance, Statement
<1>7. CASE SetFailed(r) \/ FailAttempts(r) \/ ReleaseReserve(r)
  BY <1>0, <1>1, <1>7 DEF SetFailed, FailAttempts, ReleaseReserve, Statement
<1>8. CASE Unreserve(r) \/ EmitFailed(r)
  BY <1>0, <1>1, <1>8 DEF Unreserve, EmitFailed, Statement
<1>9. CASE RunCrashes(r)
  BY <1>0, <1>9 DEF RunCrashes
<1> QED
  BY <1>2, <1>3, <1>4, <1>5, <1>6, <1>7, <1>8, <1>9 DEF RunStep

(* A run keeps its hands off the other runs, of its payment as of others:  *)
(* a job belongs to one run, and the next one gets it later.               *)
LEMMA RunLeavesOthers ==
    ASSUME TypeInv, NEW r \in Runs, RunStep(r) \/ RunCrashes(r)
    PROVE  /\ \A s \in Runs : s # r =>
                pc'[s] = pc[s] /\ tx'[s] = tx[s] /\ (Owns(s)' <=> Owns(s))
           /\ \A q \in Payments : q # PaymentOf(r) =>
                queue'[q] = queue[q] /\ made'[q] = made[q]
<1>0. PICK p \in Payments : p = PaymentOf(r)
  BY DEF Runs
<1> USE DEF TypeInv, TypeOK, StoreTypeOK, ExecutionTypeOK
<1>1. CASE ~ SendTransfer(r) /\ ~ RunReturns(r) /\ ~ RunThrows(r)
  <2>1. UNCHANGED <<tx, jobs>> /\ \A s \in Runs : s # r => pc'[s] = pc[s]
    <3>1. PICK next : Goto(r, next)
      BY <1>1, RunGoesOn
    <3> QED BY <1>1, <3>1, RunGoesOn DEF Goto
  <2> QED BY <2>1 DEF Owns, Owner, jobs
<1>2. CASE SendTransfer(r)
  BY <1>2 DEF SendTransfer, Goto, Owns, Owner, jobs
<1>3. CASE (RunReturns(r) \/ RunThrows(r)) /\ ~ Owns(r)
  <2>1. UNCHANGED <<tx, jobs>> /\ \A s \in Runs : s # r => pc'[s] = pc[s]
    BY <1>3 DEF RunReturns, RunThrows, Goto, jobs
  <2> QED BY <2>1 DEF Owns, Owner, jobs
<1>4. CASE (RunReturns(r) \/ RunThrows(r)) /\ Owns(r)
  <2>1. /\ UNCHANGED <<tx, stalled>> /\ queue[p] = "active" /\ r = Owner(p)
        /\ queue'[p] # "active"
        /\ \A s \in Runs : s # r => pc'[s] = pc[s]
        /\ \A q \in Payments : q # p => queue'[q] = queue[q] /\ made'[q] = made[q]
    BY <1>0, <1>4 DEF RunReturns, RunThrows, Goto, Owns
  <2> QED BY <1>0, <2>1 DEF Owns, Owner, Runs
<1> QED BY <1>1, <1>2, <1>3, <1>4

(* BullMQ touches the run that has the job, or is to have it, and no other.*)
LEMMA JobLeavesOthers ==
    ASSUME TypeInv, NEW p \in Payments, StartRun(p) \/ StallJob(p)
    PROVE  \E r \in Runs :
             /\ r = Owner(p) /\ PaymentOf(r) = p
             /\ UNCHANGED <<tx, made>>
             /\ \A s \in Runs : s # r => pc'[s] = pc[s] /\ (Owns(s)' <=> Owns(s))
             /\ \A q \in Payments : q # p => queue'[q] = queue[q]
<1>0. \A r \in Runs : PaymentOf(r) \in Payments
  BY DEF Runs
<1> USE DEF TypeInv, TypeOK, StoreTypeOK, ExecutionTypeOK
<1>1. queue[p] \in {"waiting", "active"}
  BY DEF StartRun, StallJob
<1>2. PICK r \in Runs : r = Owner(p) /\ PaymentOf(r) = p
  BY <1>1, OwnerIsRun
<1>3. /\ UNCHANGED <<tx, made>>
      /\ \A s \in Runs : s # r => pc'[s] = pc[s]
      /\ \A q \in Payments : q # p => queue'[q] = queue[q] /\ stalled'[q] = stalled[q]
  BY <1>2 DEF StartRun, StallJob, Goto
<1>4. ASSUME NEW s \in Runs, s # r
      PROVE  Owns(s)' <=> Owns(s)
  <2>1. CASE PaymentOf(s) = p
    BY <1>2, <1>4, <2>1 DEF StartRun, StallJob, Owns, Owner
  <2>2. CASE PaymentOf(s) # p
    BY <1>0, <1>3, <2>2 DEF Owns, Owner
  <2> QED BY <2>1, <2>2
<1> QED BY <1>2, <1>3, <1>4

(* A run that sends, or ends, or goes on.                                  *)
LEMMA RunSends ==
    ASSUME TypeInv, SendsInv, NEW r \in Runs, RunStep(r) \/ RunCrashes(r),
           faults \in Nat, faults' = faults \/ faults' = faults + 1
    PROVE  SendsInv'
<1>0. PICK p \in Payments : p = PaymentOf(r)
  BY DEF Runs
<1>1. \A s \in Runs : s # r => (Sent(s)' <=> Sent(s)) /\ (LeadsOn(s)' <=> LeadsOn(s))
  BY RunLeavesOthers DEF Sent, LeadsOn
<1>2. \A q \in Payments : q # p => ToCome(q)' = ToCome(q)
  BY <1>0, RunLeavesOthers DEF ToCome
<1> USE DEF TypeInv, TypeOK, StoreTypeOK, ExecutionTypeOK
<1>3. CASE ~ SendTransfer(r) /\ ~ RunReturns(r) /\ ~ RunThrows(r)
  <2>1. UNCHANGED <<tx, jobs>> /\ (LeadsOn(r)' /\ faults' = faults => LeadsOn(r))
    BY <1>3, RunGoesOn
  <2>2. (Sent(r)' <=> Sent(r)) /\ ToCome(p)' = ToCome(p) /\ ToCome(p) \in Nat
    BY <2>1 DEF Sent, ToCome, jobs
  <2>3. Cost(r)' - faults' <= Cost(r) - faults
    BY <1>0, <2>1, <2>2 DEF Cost
  <2> QED BY <1>0, <1>1, <1>2, <2>3, OneRunSends
<1>4. CASE SendTransfer(r)
  <2>1. /\ pc[r] = "transfer" /\ pc'[r] = "wait_receipt" /\ tx'[r] = "sent"
        /\ UNCHANGED <<jobs, faults>>
    BY <1>4 DEF SendTransfer, Goto
  <2>2. LeadsOn(r) /\ ~ LeadsOn(r)' /\ ToCome(p)' = ToCome(p) /\ ToCome(p) \in Nat
    BY <2>1 DEF LeadsOn, Catching, ToCome, jobs
  <2>3. Cost(r)' - faults' <= Cost(r) - faults
    BY <1>0, <2>1, <2>2 DEF Cost
  <2> QED BY <1>0, <1>1, <1>2, <2>3, OneRunSends
<1>5. CASE RunReturns(r) \/ RunThrows(r)
  <2>1. /\ pc'[r] = "ended" /\ UNCHANGED <<tx, faults>>
        /\ \/ UNCHANGED jobs
           \/ /\ Owns(r) /\ queue[p] = "active"
              /\ \/ queue'[p] = "completed"
                 \/ pc[r] = "threw" /\ queue'[p] \in {"waiting", "failed"}
    BY <1>0, <1>5 DEF RunReturns, RunThrows, Goto, Owns, jobs
  <2>2. /\ ~ LeadsOn(r)' /\ (Sent(r)' <=> Sent(r)) /\ ToCome(p) \in Nat
        /\ \/ ToCome(p)' = ToCome(p)
           \/ ToCome(p) = 0 /\ (ToCome(p)' = 0 \/ (ToCome(p)' = 1 /\ LeadsOn(r)))
    BY <2>1 DEF LeadsOn, Catching, ToCome, Sent, jobs
  <2>3. Cost(r)' - faults' <= Cost(r) - faults
    BY <1>0, <2>1, <2>2 DEF Cost
  <2> QED BY <1>0, <1>1, <1>2, <2>3, OneRunSends
<1> QED BY <1>3, <1>4, <1>5

(* Before anything happens, all that counts is the run to come.            *)
LEMMA SendsInit == Init => SendsInv
<1> SUFFICES ASSUME Init, NEW p \in Payments
             PROVE  SendsOf(p)
  BY DEF SendsInv
<1> USE DEF Init, StoreInit, ExecutionInit
<1>1. \A r \in RunsOf(p) : tx[r] = "none" /\ pc[r] = "idle"
  BY DEF RunsOf
<1>2. SentOf(p) = {} /\ LeadingOn(p) = {}
  BY <1>1 DEF SentOf, Sent, LeadingOn, LeadsOn, Catching
<1>3. ToCome(p) = 1 /\ faults = 0
  BY DEF ToCome
<1> QED BY <1>2, <1>3, FS_EmptySet DEF SendsOf

(* Every step keeps it.                                                    *)
LEMMA SendsStep ==
    ASSUME TypeInv, FreshInv, SendsInv, [Next]_vars
    PROVE  SendsInv'
<1>0. faults \in Nat /\ (faults' = faults \/ faults' = faults + 1)
  BY FaultsOnlyGrow, LimitsAssumption DEF TypeInv, TypeOK, StoreTypeOK
<1>00. \A r \in Runs : PaymentOf(r) \in Payments
  BY DEF Runs
<1>01. \A p : RunsOf(p) \subseteq Runs
  BY DEF RunsOf
<1> USE DEF TypeInv, TypeOK, StoreTypeOK, ExecutionTypeOK
<1>1. ASSUME UNCHANGED <<tx, jobs, pc>>
      PROVE  SendsInv'
  <2>1. /\ \A q : ToCome(q)' = ToCome(q)
        /\ \A s : (Sent(s)' <=> Sent(s)) /\ (LeadsOn(s)' <=> LeadsOn(s))
    BY <1>1 DEF ToCome, Sent, LeadsOn, Owns, Owner, jobs
  <2> QED BY <1>0, <2>1, SendsUntouched DEF SendsInv
<1>2. CASE ApiStep
  <2>1. ASSUME NEW p \in Payments, EnqueueExecution(p), UNCHANGED pc
        PROVE  SendsInv'
    <3>1. /\ queue[p] = "absent" /\ queue' = [queue EXCEPT ![p] = "waiting"]
          /\ UNCHANGED <<pc, tx, made, stalled>>
      BY <2>1 DEF EnqueueExecution
    <3>2. \A q \in Payments : ToCome(q)' = ToCome(q)
      BY <3>1 DEF ToCome
    <3>3. \A s \in Runs : Owns(s)' <=> Owns(s)
      BY <1>00, <3>1 DEF Owns, Owner
    <3>4. \A s \in Runs : (Sent(s)' <=> Sent(s)) /\ (LeadsOn(s)' <=> LeadsOn(s))
      BY <3>1, <3>3 DEF Sent, LeadsOn
    <3> QED BY <1>0, <1>01, <3>2, <3>4, SendsUntouched DEF SendsInv
  <2> QED BY <1>1, <1>2, <2>1 DEF ApiStep, CreateIntent
<1>3. CASE ChainStep
  <2>1. PICK r \in Runs :
          FinalizeTx(r) \/ DropTx(r) \/ RevertTx(r) \/ StickTx(r) \/ ForgetTx(r)
    BY <1>3 DEF ChainStep
  <2>2. PICK v \in TxState :
          /\ tx' = [tx EXCEPT ![r] = v]
          /\ \/ tx[r] = "sent" /\ v \in {"final", "dropped", "stuck"}
             \/ tx[r] \in {"sent", "final"} /\ v \in {"reverted", "forgotten"}
                /\ faults' = faults + 1
    BY <2>1 DEF FinalizeTx, DropTx, RevertTx, StickTx, ForgetTx, Throws, TxState
  <2>3. UNCHANGED <<pc, jobs>>
    BY <1>3, <2>1 DEF ChainStep, FinalizeTx, DropTx, RevertTx, StickTx, ForgetTx
  <2>4. /\ \A s : Owns(s)' <=> Owns(s)
        /\ \A q : ToCome(q)' = ToCome(q)
    BY <2>3 DEF Owns, Owner, ToCome, jobs
  <2>5. \A s \in Runs :
          s # r => (Sent(s)' <=> Sent(s)) /\ (LeadsOn(s)' <=> LeadsOn(s))
    BY <2>2, <2>3, <2>4 DEF Sent, LeadsOn
  <2>6. /\ Sent(r)
        /\ \/ LeadsOn(r)' => LeadsOn(r)
           \/ ~ Sent(r)'
           \/ faults' = faults + 1
    BY <2>2, <2>3, <2>4 DEF Sent, LeadsOn
  <2>7. Cost(r)' - faults' <= Cost(r) - faults
    <3>1. ToCome(PaymentOf(r)) \in Nat
      BY DEF ToCome
    <3>2. Cost(r)' = (IF Sent(r)' THEN 1 ELSE 0) + (IF LeadsOn(r)' THEN 1 ELSE 0)
                     + ToCome(PaymentOf(r))
      BY <2>4 DEF Cost
    <3> QED BY <1>0, <2>6, <3>1, <3>2 DEF Cost
  <2> QED BY <1>0, <2>4, <2>5, <2>7, OneRunSends
<1>4. CASE ExecutionStep
  <2>1. ASSUME NEW p \in Payments, StartRun(p) \/ StallJob(p)
        PROVE  SendsInv'
    <3>1. PICK r \in Runs :
            /\ r = Owner(p) /\ PaymentOf(r) = p
            /\ UNCHANGED <<tx, made>>
            /\ \A s \in Runs : s # r => pc'[s] = pc[s] /\ (Owns(s)' <=> Owns(s))
            /\ \A q \in Payments : q # p => queue'[q] = queue[q]
      BY <2>1, JobLeavesOthers
    <3>2. \A s \in Runs :
            s # r => (Sent(s)' <=> Sent(s)) /\ (LeadsOn(s)' <=> LeadsOn(s))
      BY <3>1 DEF Sent, LeadsOn
    <3>3. /\ Sent(r)' <=> Sent(r)
          /\ \A q \in Payments : q # p => ToCome(q)' = ToCome(q)
      BY <3>1 DEF Sent, ToCome
    <3>4. Cost(r)' - faults' <= Cost(r) - faults
      <4>1. CASE StartRun(p)
        <5>1. pc[r] = "idle" /\ ~ LeadsOn(r)
          BY <3>1, <4>1, OwnerIsFresh DEF StartRun, LeadsOn, Catching
        <5>2. ToCome(p) = 1 /\ ToCome(p)' = 0
          BY <4>1 DEF StartRun, ToCome
        <5> QED BY <1>0, <3>1, <3>3, <5>1, <5>2 DEF Cost
      <4>2. CASE StallJob(p)
        <5>1. /\ Owns(r) /\ ~ Owns(r)'
              /\ pc'[r] = pc[r]
              /\ pc[r] = "dead" \/ faults' = faults + 1
          BY <3>1, <4>2 DEF StallJob, Owns, Throws
        <5>2. \/ LeadsOn(r) /\ ~ LeadsOn(r)'
              \/ (LeadsOn(r)' => LeadsOn(r)) /\ faults' = faults + 1
          BY <3>1, <5>1 DEF LeadsOn, Catching
        <5>3. ToCome(p) = 0 /\ ToCome(p)' = 1
          BY <4>2 DEF StallJob, ToCome
        <5> QED BY <1>0, <3>1, <3>3, <5>2, <5>3 DEF Cost
      <4> QED BY <2>1, <4>1, <4>2
    <3> QED BY <1>0, <3>1, <3>2, <3>3, <3>4, OneRunSends
  <2> QED BY <1>0, <1>4, <2>1, ExecutionSteps, RunSends
<1>5. CASE ConfirmationStep
  BY <1>1, <1>5, ScanStepAttempts DEF ConfirmationStep, ConfirmationNext
<1>6. CASE UNCHANGED vars
  BY <1>1, <1>6 DEF vars, store
<1> QED BY <1>2, <1>3, <1>4, <1>5, <1>6 DEF Next

(* Of the transfers of a payment that were made, are under way or are to   *)
(* come, all but one are owed to a fault each.                             *)
THEOREM SendsInvariant == Spec => []SendsInv
<1>1. SettlementInv => TypeInv /\ FreshInv
  BY DEF SettlementInv
<1> QED BY <1>1, SendsInit, SendsStep, SettlementInvariant, PTL DEF Spec

LEMMA TransfersAndToCome ==
    ASSUME TypeInv, SendsInv, NEW p \in Payments
    PROVE  /\ Cardinality(Transfers(p)) + ToCome(p) <= 1 + faults
           /\ Cardinality(Transfers(p)) \in Nat /\ faults \in Nat
<1>1. /\ Cardinality(SentOf(p)) \in Nat
      /\ Cardinality(LeadingOn(p)) \in Nat
      /\ ToCome(p) \in Nat
      /\ faults \in Nat
  BY SendsAreFinite, LimitsAssumption DEF ToCome, TypeInv, TypeOK, StoreTypeOK
<1>2. Cardinality(SentOf(p)) + Cardinality(LeadingOn(p)) + ToCome(p) <= 1 + faults
  BY DEF SendsInv, SendsOf
<1>3. Transfers(p) \subseteq SentOf(p)
  BY DEF Transfers, SentOf, Sent
<1>4. Cardinality(Transfers(p)) \in Nat
      /\ Cardinality(Transfers(p)) <= Cardinality(SentOf(p))
  BY <1>3, SendsAreFinite, FS_Subset, FS_CardinalityType
<1> QED BY <1>1, <1>2, <1>4

(* A payment is sent once, and once more at most for each fault: retries   *)
(* by BullMQ and transfers that are dropped do not send it twice.          *)
THEOREM TransfersStayBounded == Spec => []TransfersBounded
<1>1. TypeInv /\ SendsInv => TransfersBounded
  BY TransfersAndToCome DEF TransfersBounded, ToCome
<1>2. SettlementInv => TypeInv
  BY DEF SettlementInv
<1> QED BY <1>1, <1>2, SendsInvariant, SettlementInvariant, PTL

(* A payment whose job is given up was sent once at most for each fault:   *)
(* while nothing fails payment.failed is then the truth.                   *)
THEOREM GivenUpStaysUnpaid == Spec => []GivenUpIsUnpaid
<1>1. TypeInv /\ SendsInv => GivenUpIsUnpaid
  BY TransfersAndToCome DEF GivenUpIsUnpaid, ToCome
<1>2. SettlementInv => TypeInv
  BY DEF SettlementInv
<1> QED BY <1>1, <1>2, SendsInvariant, SettlementInvariant, PTL

-----------------------------------------------------------------------------
(***************************************************************************)
(* The books of a payment, while nothing fails.                            *)
(***************************************************************************)
AfterRecord == {"set_broadcasted", "debit", "returned", "ended"}

(* What is recorded belongs to the run that has or had the job, and that   *)
(* run can only go on to enter the debit.                                  *)
CalmRecords ==
    \A r \in Runs :
        /\ attempt[r] \in Recorded => Holds(r) /\ pc[r] \in AfterRecord
        /\ pc[r] \in {"set_broadcasted", "debit"} => attempt[r] \in Recorded

(* A run whose debit is entered, and one between the release entry and the *)
(* event that tells of the failure.                                        *)
Entered(r) == attempt[r] \in Recorded /\ pc[r] \notin {"set_broadcasted", "debit"}
Releasing(r) == pc[r] \in {"unreserve", "emit_failed"}

CalmLedger ==
    \A p \in Payments :
        /\ ledger[p]["debit"] = IF \E r \in RunsOf(p) : Entered(r) THEN 1 ELSE 0
        /\ ledger[p]["release"] =
             events[p]["payment.failed"]
             + (IF \E r \in RunsOf(p) : Releasing(r) THEN 1 ELSE 0)

LedgerInv == faults = 0 => CalmRecords /\ CalmLedger

(* Initially there is nothing to enter.                                    *)
LEMMA LedgerInit == Init => LedgerInv
BY DEF Init, StoreInit, ExecutionInit, LedgerInv, CalmRecords, CalmLedger,
       Recorded, Entered, Releasing, RunsOf, EntryTypes, EventTypes

(* While nothing fails, a step of a run moves no other run, records its    *)
(* attempt in one place only and goes on from there to the debit.          *)
LEMMA CalmRunRecords ==
    ASSUME TypeInv, RunInv, CalmRecords, NEW r \in Runs,
           RunStep(r) \/ RunCrashes(r), faults = 0, faults' = 0
    PROVE  /\ \A s \in Runs : s # r => pc'[s] = pc[s]
           /\ \A s \in Runs : attempt'[s] \in Recorded <=>
                attempt[s] \in Recorded \/ (s = r /\ pc[r] = "record_tx")
           /\ pc[r] = "record_tx" \/ attempt[r] \in Recorded =>
                pc'[r] \in AfterRecord
           /\ pc'[r] \in {"set_broadcasted", "debit"} <=>
                pc[r] \in {"record_tx", "set_broadcasted"}
<1>0. ~ Throws
  BY DEF Throws
<1>00. attempt[r] \in Recorded => pc[r] \in AfterRecord
  BY DEF CalmRecords
<1> USE <1>0, <1>00 DEF TypeInv, TypeOK, StoreTypeOK, ExecutionTypeOK, Recorded,
                        AfterRecord, Goto
<1>1. CASE FetchIntent(r)
  BY <1>1 DEF FetchIntent, db
<1>2. CASE SetBroadcasting(r) \/ SetBroadcasted(r) \/ SetFailed(r)
  BY <1>2 DEF SetBroadcasting, SetBroadcasted, SetFailed, Statement, SetStatus
<1>3. CASE InsertAttempt(r)
  BY <1>3 DEF InsertAttempt, Statement, SetAttempt, RunInv, BeforeInsert
<1>4. CASE RefuseTransfer(r) \/ ReceiptArrives(r)
  BY <1>4 DEF RefuseTransfer, ReceiptArrives, store, db
<1>5. CASE WaitThrows(r) \/ SendTransfer(r)
  BY <1>5 DEF WaitThrows, SendTransfer, db
<1>6. CASE RecordTx(r)
  BY <1>6 DEF RecordTx, Statement, SetAttempt
<1>7. CASE DebitBalance(r) \/ ReleaseReserve(r)
  BY <1>7 DEF DebitBalance, ReleaseReserve, Statement, CreateLedgerEntry
<1>8. CASE FailAttempts(r)
  BY <1>8 DEF FailAttempts, Statement, FailPendingAttempts
<1>9. CASE Unreserve(r) \/ EmitFailed(r)
  BY <1>9 DEF Unreserve, EmitFailed, Statement, ReturnReserve, EmitWebhook
<1>10. CASE RunReturns(r) \/ RunThrows(r)
  BY <1>10 DEF RunReturns, RunThrows, db
<1>11. ~ RunCrashes(r)
  BY DEF RunCrashes
<1> QED
  BY <1>1, <1>2, <1>3, <1>4, <1>5, <1>6, <1>7, <1>8, <1>9, <1>10, <1>11 DEF RunStep

(* The entries and events it makes are those its place names.              *)
LEMMA CalmRunLedger ==
    ASSUME TypeInv, NEW r \in Runs, RunStep(r) \/ RunCrashes(r),
           faults = 0, faults' = 0, NEW q \in Payments
    PROVE  /\ ledger'[q]["debit"] = ledger[q]["debit"]
                + (IF q = PaymentOf(r) /\ pc[r] = "debit" THEN 1 ELSE 0)
           /\ ledger'[q]["release"] = ledger[q]["release"]
                + (IF q = PaymentOf(r) /\ pc[r] = "release" THEN 1 ELSE 0)
           /\ events'[q]["payment.failed"] = events[q]["payment.failed"]
                + (IF q = PaymentOf(r) /\ pc[r] = "emit_failed" THEN 1 ELSE 0)
           /\ pc[r] = "release" => pc'[r] = "unreserve"
           /\ pc[r] = "unreserve" => pc'[r] = "emit_failed"
           /\ pc[r] = "emit_failed" => pc'[r] = "threw"
           /\ Releasing(r)' => pc[r] \in {"release", "unreserve"}
<1>0. ~ Throws
  BY DEF Throws
<1>00. PaymentOf(r) \in Payments
  BY DEF Runs
<1> USE <1>0 DEF TypeInv, TypeOK, StoreTypeOK, ExecutionTypeOK, Goto, Releasing,
                 EntryTypes, EventTypes
<1>1. CASE FetchIntent(r) \/ WaitThrows(r) \/ SendTransfer(r)
  BY <1>1 DEF FetchIntent, WaitThrows, SendTransfer, db
<1>2. CASE SetBroadcasting(r) \/ SetBroadcasted(r) \/ SetFailed(r)
  BY <1>2 DEF SetBroadcasting, SetBroadcasted, SetFailed, Statement, SetStatus
<1>3. CASE InsertAttempt(r) \/ RecordTx(r)
  BY <1>3 DEF InsertAttempt, RecordTx, Statement, SetAttempt
<1>4. CASE RefuseTransfer(r) \/ ReceiptArrives(r)
  BY <1>4 DEF RefuseTransfer, ReceiptArrives, store, db
<1>5. CASE DebitBalance(r)
  BY <1>00, <1>5 DEF DebitBalance, Statement, CreateLedgerEntry
<1>6. CASE ReleaseReserve(r)
  BY <1>00, <1>6 DEF ReleaseReserve, Statement, CreateLedgerEntry
<1>7. CASE FailAttempts(r) \/ Unreserve(r)
  BY <1>7 DEF FailAttempts, Unreserve, Statement, FailPendingAttempts, ReturnReserve
<1>8. CASE EmitFailed(r)
  BY <1>00, <1>8 DEF EmitFailed, Statement, EmitWebhook
<1>9. CASE RunReturns(r) \/ RunThrows(r)
  BY <1>9 DEF RunReturns, RunThrows, db
<1>10. ~ RunCrashes(r)
  BY DEF RunCrashes
<1> QED
  BY <1>1, <1>2, <1>3, <1>4, <1>5, <1>6, <1>7, <1>8, <1>9, <1>10 DEF RunStep

(* A run keeps the job it has or had, unless it threw.                     *)
LEMMA CalmRunHolds ==
    ASSUME TypeInv, CalmRuns, NEW r \in Runs, RunStep(r) \/ RunCrashes(r),
           faults = 0, faults' = 0, NEW s \in Runs, Holds(s),
           s # r \/ pc[r] # "threw"
    PROVE  Holds(s)'
<1>0. PaymentOf(s) \in Payments /\ PaymentOf(r) \in Payments
  BY DEF Runs
<1>1. pc[r] \in Live /\ Owns(r)
  BY CalmRunStep DEF CalmRuns
<1> USE DEF TypeInv, TypeOK, StoreTypeOK
<1>2. CASE UNCHANGED jobs
  BY <1>2 DEF Holds, Owner, jobs
<1>3. CASE RunReturns(r)
  BY <1>0, <1>1, <1>3 DEF RunReturns, Holds, Owner
<1>4. CASE RunThrows(r)
  <2>1. pc[r] = "threw" /\ s # r
    BY <1>4 DEF RunThrows
  <2>2. PaymentOf(s) # PaymentOf(r)
    BY <1>1, <2>1 DEF Owns, Holds
  <2> QED BY <1>0, <1>1, <1>4, <2>2 DEF RunThrows, Holds, Owner
<1> QED BY <1>2, <1>3, <1>4, CalmRunStep DEF QuietMove, SendTransfer

(* A step of a run keeps the books of every payment.                       *)
LEMMA LedgerRunStep ==
    ASSUME TypeInv, RunInv, CalmRuns, CalmRecords, CalmLedger, NEW r \in Runs,
           RunStep(r) \/ RunCrashes(r), faults = 0, faults' = 0
    PROVE  CalmRecords' /\ CalmLedger'
<1>0. PaymentOf(r) \in Payments /\ \A s \in Runs : PaymentOf(s) \in Payments
  BY DEF Runs
<1>1. pc[r] \in Live /\ Owns(r) /\ Holds(r)
  BY CalmRunStep DEF CalmRuns, Owns, Holds
<1>2. /\ \A s \in Runs : s # r => pc'[s] = pc[s]
      /\ \A s \in Runs : attempt'[s] \in Recorded <=>
           attempt[s] \in Recorded \/ (s = r /\ pc[r] = "record_tx")
      /\ pc[r] = "record_tx" \/ attempt[r] \in Recorded => pc'[r] \in AfterRecord
      /\ pc'[r] \in {"set_broadcasted", "debit"} <=>
           pc[r] \in {"record_tx", "set_broadcasted"}
  BY CalmRunRecords
<1>3. CalmRecords'
  <2> SUFFICES ASSUME NEW s \in Runs
               PROVE  /\ attempt'[s] \in Recorded =>
                           Holds(s)' /\ pc'[s] \in AfterRecord
                      /\ pc'[s] \in {"set_broadcasted", "debit"} =>
                           attempt'[s] \in Recorded
    BY DEF CalmRecords, Recorded, AfterRecord
  <2>1. attempt'[s] \in Recorded => pc'[s] \in AfterRecord
    BY <1>2 DEF CalmRecords
  <2>2. pc'[s] \in {"set_broadcasted", "debit"} => attempt'[s] \in Recorded
    BY <1>2 DEF CalmRecords
  <2>3. ASSUME attempt'[s] \in Recorded
        PROVE  Holds(s)'
    <3>1. Holds(s) /\ (s = r => pc[r] # "threw")
      BY <1>1, <1>2, <2>3 DEF CalmRecords, AfterRecord
    <3> QED BY <3>1, CalmRunHolds
  <2> QED BY <2>1, <2>2, <2>3
<1>4. \A s \in Runs : Entered(s)' <=> Entered(s) \/ (s = r /\ pc[r] = "debit")
  BY <1>2 DEF Entered, CalmRecords, AfterRecord
<1>5. \A s \in RunsOf(PaymentOf(r)) :
        s # r => ~ Entered(s) /\ ~ Releasing(s)
  BY <1>1 DEF RunsOf, Entered, Releasing, CalmRecords, CalmRuns, Owns, Holds,
              Live, Catching
<1>6. /\ \A s \in Runs : s # r => (Releasing(s)' <=> Releasing(s))
      /\ Releasing(r)' <=> pc[r] \in {"release", "unreserve"}
  BY <1>2, <1>0, CalmRunLedger DEF Releasing
<1>7. ASSUME NEW q \in Payments
      PROVE  ledger'[q]["debit"] = IF \E s \in RunsOf(q) : Entered(s)' THEN 1 ELSE 0
  <2>1. ledger'[q]["debit"] = ledger[q]["debit"]
          + (IF q = PaymentOf(r) /\ pc[r] = "debit" THEN 1 ELSE 0)
    BY CalmRunLedger
  <2>2. ledger[q]["debit"] = IF \E s \in RunsOf(q) : Entered(s) THEN 1 ELSE 0
    BY DEF CalmLedger
  <2>3. CASE q = PaymentOf(r) /\ pc[r] = "debit"
    <3>1. ~ \E s \in RunsOf(q) : Entered(s)
      BY <1>5, <2>3 DEF Entered
    <3>2. r \in RunsOf(q) /\ Entered(r)'
      BY <1>4, <2>3 DEF RunsOf
    <3> QED BY <2>1, <2>2, <2>3, <3>1, <3>2
  <2>4. CASE ~ (q = PaymentOf(r) /\ pc[r] = "debit")
    <3>1. \A s \in RunsOf(q) : Entered(s)' <=> Entered(s)
      BY <1>4, <2>4 DEF RunsOf
    <3>2. ledger[q]["debit"] \in {0, 1}
      BY <2>2
    <3> QED BY <2>1, <2>2, <2>4, <3>1, <3>2
  <2> QED BY <2>3, <2>4
<1>8. ASSUME NEW q \in Payments
      PROVE  ledger'[q]["release"] = events'[q]["payment.failed"]
               + (IF \E s \in RunsOf(q) : Releasing(s)' THEN 1 ELSE 0)
  <2>1. /\ ledger'[q]["release"] = ledger[q]["release"]
             + (IF q = PaymentOf(r) /\ pc[r] = "release" THEN 1 ELSE 0)
        /\ events'[q]["payment.failed"] = events[q]["payment.failed"]
             + (IF q = PaymentOf(r) /\ pc[r] = "emit_failed" THEN 1 ELSE 0)
    BY CalmRunLedger
  <2>2. ledger[q]["release"] = events[q]["payment.failed"]
          + (IF \E s \in RunsOf(q) : Releasing(s) THEN 1 ELSE 0)
    BY DEF CalmLedger
  <2>3. events[q]["payment.failed"] \in Int
    BY DEF TypeInv, TypeOK, StoreTypeOK, EventTypes
  <2>4. CASE q = PaymentOf(r)
    <3>1. /\ (\E s \in RunsOf(q) : Releasing(s)) <=> Releasing(r)
          /\ (\E s \in RunsOf(q) : Releasing(s)') <=> Releasing(r)'
      BY <1>5, <1>6, <2>4 DEF RunsOf
    <3>2. /\ Releasing(r) <=> pc[r] \in {"unreserve", "emit_failed"}
          /\ Releasing(r)' <=> pc[r] \in {"release", "unreserve"}
      BY <1>6 DEF Releasing
    <3> HIDE DEF Releasing
    <3> QED BY <2>1, <2>2, <2>3, <2>4, <3>1, <3>2
  <2>5. CASE q # PaymentOf(r)
    <3>1. \A s \in RunsOf(q) : Releasing(s)' <=> Releasing(s)
      BY <1>6, <2>5 DEF RunsOf
    <3> QED BY <2>1, <2>2, <2>3, <2>5, <3>1
  <2> QED BY <2>4, <2>5
<1>9. \A q : RunsOf(q)' = RunsOf(q)
  BY DEF RunsOf
<1> QED BY <1>3, <1>7, <1>8, <1>9 DEF CalmLedger

(* A scan enters fees and tells of settlements.                            *)
LEMMA ScanStepLedger ==
    ASSUME TypeInv, NEW w \in Pollers, PollerStep(w) \/ PollerCrashes(w),
           NEW q \in Payments
    PROVE  /\ ledger'[q]["reserve"] = ledger[q]["reserve"]
           /\ ledger'[q]["debit"] = ledger[q]["debit"]
           /\ ledger'[q]["release"] = ledger[q]["release"]
           /\ events'[q]["payment.failed"] = events[q]["payment.failed"]
<1> USE DEF TypeInv, TypeOK, StoreTypeOK, EntryTypes, EventTypes
<1>1. CASE UNCHANGED db
  BY <1>1 DEF db
<1>2. CASE RecordFee(w)
  <2>1. PaymentOf(at[w]) \in Payments
    BY <1>2 DEF RecordFee, PollerStatement, InHand, Runs
  <2>2. CASE CreateLedgerEntry(PaymentOf(at[w]), "fee")
    BY <2>1, <2>2 DEF CreateLedgerEntry
  <2> QED BY <1>1, <1>2, <2>2 DEF RecordFee, PollerStatement, db
<1>3. CASE EmitSettled(w)
  <2>1. PaymentOf(at[w]) \in Payments
    BY <1>3 DEF EmitSettled, PollerLastStatement, InHand, Runs
  <2>2. CASE EmitWebhook(PaymentOf(at[w]), "payment.settled")
    BY <2>1, <2>2 DEF EmitWebhook
  <2> QED BY <1>1, <1>3, <2>2 DEF EmitSettled, PollerLastStatement
<1>4. CASE ~ (RecordFee(w) \/ EmitSettled(w))
  BY <1>4 DEF PollerStep, PollerCrashes, Scan, CheckConfirmed, CheckUnconfirmed,
     MarkConfirmed, Settle, Deduct, MoveToManualReview, PollerStatement,
     PollerLastStatement, SetAttempt, SetStatus, SpendReserve, store, db
<1> QED BY <1>2, <1>3, <1>4

(* What keeps the places of the runs, the jobs, the debits, the releases   *)
(* and which attempts are recorded keeps the books.                        *)
LEMMA LedgerFrame ==
    ASSUME LedgerInv, faults = 0, UNCHANGED <<pc, jobs>>,
           \A r \in Runs : (attempt'[r] \in Recorded) <=> (attempt[r] \in Recorded),
           \A q \in Payments :
               /\ ledger'[q]["debit"] = ledger[q]["debit"]
               /\ ledger'[q]["release"] = ledger[q]["release"]
               /\ events'[q]["payment.failed"] = events[q]["payment.failed"]
    PROVE  LedgerInv'
<1>1. \A r \in Runs : Holds(r)' <=> Holds(r)
  BY DEF Holds, Owner, jobs
<1>2. \A r \in Runs : (Entered(r)' <=> Entered(r)) /\ (Releasing(r)' <=> Releasing(r))
  BY DEF Entered, Releasing, Recorded
<1>3. \A q : RunsOf(q) \subseteq Runs /\ RunsOf(q)' = RunsOf(q)
  BY DEF RunsOf
<1>4. CalmRecords /\ CalmLedger
  BY DEF LedgerInv
<1>5. CalmRecords'
  BY <1>1, <1>4 DEF CalmRecords, Recorded, AfterRecord
<1>6. ASSUME NEW q \in Payments
      PROVE  /\ (\E r \in RunsOf(q) : Entered(r)') <=> (\E r \in RunsOf(q) : Entered(r))
             /\ (\E r \in RunsOf(q) : Releasing(r)') <=> (\E r \in RunsOf(q) : Releasing(r))
  BY <1>2, <1>3
<1>7. CalmLedger'
  BY <1>3, <1>4, <1>6 DEF CalmLedger
<1> QED BY <1>5, <1>7 DEF LedgerInv

(* Every step keeps the books, as long as nothing fails.                   *)
LEMMA LedgerStep ==
    ASSUME SettlementInv, CalmInv, LedgerInv, [Next]_vars
    PROVE  LedgerInv'
<1> SUFFICES ASSUME faults' = 0 PROVE LedgerInv'
  BY DEF LedgerInv
<1>0. /\ TypeInv /\ FreshInv /\ RunInv /\ ScanInv
      /\ faults = 0 /\ CalmRuns /\ CalmRecords /\ CalmLedger
  BY FaultsOnlyGrow DEF SettlementInv, CalmInv, LedgerInv
<1>00. \A r \in Runs : PaymentOf(r) \in Payments
  BY DEF Runs
<1> USE DEF TypeInv, TypeOK, StoreTypeOK, ExecutionTypeOK
<1>1. CASE ApiStep
  <2>1. PICK p \in Payments : CreateIntent(p) \/ EnqueueExecution(p)
    BY <1>1 DEF ApiStep
  <2>2. UNCHANGED <<pc, attempt, events>>
    BY <1>1, <2>1 DEF ApiStep, CreateIntent, EnqueueExecution, db
  <2>3. CASE CreateIntent(p)
    <3>1. \A q \in Payments : /\ ledger'[q]["debit"] = ledger[q]["debit"]
                              /\ ledger'[q]["release"] = ledger[q]["release"]
      BY <1>0, <2>3 DEF CreateIntent, EntryTypes
    <3> QED BY <1>0, <2>2, <2>3, <3>1, LedgerFrame DEF CreateIntent
  <2>4. CASE EnqueueExecution(p)
    <3>1. \A r \in Runs : Holds(r)' <=> Holds(r)
      BY <1>0, <1>00, <2>4 DEF EnqueueExecution, Holds, Owner
    <3>2. CalmRecords'
      BY <1>0, <2>2, <3>1 DEF CalmRecords
    <3>3. CalmLedger'
      BY <1>0, <2>2, <2>4 DEF CalmLedger, Entered, Releasing, RunsOf,
                              EnqueueExecution, db
    <3> QED BY <3>2, <3>3 DEF LedgerInv
  <2> QED BY <2>1, <2>3, <2>4
<1>2. CASE ChainStep
  BY <1>0, <1>2, LedgerFrame
     DEF ChainStep, FinalizeTx, DropTx, RevertTx, StickTx, ForgetTx, db
<1>3. CASE ExecutionStep
  <2>1. ASSUME NEW p \in Payments, StartRun(p)
        PROVE  LedgerInv'
    <3>1. /\ Owner(p) \in Runs /\ PaymentOf(Owner(p)) = p
          /\ queue[p] = "waiting" /\ pc[Owner(p)] = "idle"
      BY <1>0, <2>1, OwnerIsRun, OwnerIsFresh DEF StartRun
    <3>2. /\ \A s \in Runs : pc'[s] = IF s = Owner(p) THEN "fetch" ELSE pc[s]
          /\ \A q \in Payments : queue'[q] = IF q = p THEN "active" ELSE queue[q]
          /\ UNCHANGED <<db, made, stalled>>
      BY <1>0, <2>1 DEF StartRun, Goto
    <3>3. attempt[Owner(p)] = "none"
      BY <1>0, <3>1 DEF RunInv, BeforeInsert
    <3>4. \A s \in Runs : Holds(s) => Holds(s)'
      BY <1>00, <3>1, <3>2 DEF Holds, Owner
    <3>5. CalmRecords'
      BY <1>0, <3>2, <3>3, <3>4 DEF CalmRecords, AfterRecord, Recorded, db
    <3>6. \A s \in Runs : /\ Entered(s)' <=> Entered(s)
                          /\ Releasing(s)' <=> Releasing(s)
      BY <3>1, <3>2, <3>3 DEF Entered, Releasing, Recorded, db
    <3>7. \A q : RunsOf(q) \subseteq Runs /\ RunsOf(q)' = RunsOf(q)
      BY DEF RunsOf
    <3>8. CalmLedger'
      BY <1>0, <3>2, <3>6, <3>7 DEF CalmLedger, db
    <3> QED BY <3>5, <3>8 DEF LedgerInv
  <2>2. ASSUME NEW p \in Payments, StallJob(p)
        PROVE  FALSE
    <3>1. Owner(p) \in Runs
      BY <1>0, <2>2, OwnerIsRun DEF StallJob
    <3> QED BY <1>0, <2>2, <3>1 DEF StallJob, CalmRuns, Throws
  <2>3. ASSUME NEW r \in Runs, RunStep(r) \/ RunCrashes(r)
        PROVE  LedgerInv'
    BY <1>0, <2>3, LedgerRunStep DEF LedgerInv
  <2> QED BY <1>3, <2>1, <2>2, <2>3, ExecutionSteps
<1>4. CASE ConfirmationStep
  <2>1. PICK w \in Pollers : PollerStep(w) \/ PollerCrashes(w)
    BY <1>4 DEF ConfirmationStep, ConfirmationNext
  <2>2. UNCHANGED <<pc, jobs>>
    BY <1>4, <2>1, ScanStepAttempts DEF ConfirmationStep
  <2>3. \A r \in Runs : (attempt'[r] \in Recorded) <=> (attempt[r] \in Recorded)
    BY <1>0, <2>1, ScanStepAttempts, NoRunAssumption
       DEF ScanInv, InHand, Recorded, ConfirmationTypeOK
  <2> QED BY <1>0, <2>1, <2>2, <2>3, LedgerFrame, ScanStepLedger
<1>5. CASE UNCHANGED vars
  BY <1>0, <1>5, LedgerFrame DEF vars, store, db
<1> QED BY <1>1, <1>2, <1>3, <1>4, <1>5 DEF Next

-----------------------------------------------------------------------------
(***************************************************************************)
(* The scans' side of the books: what is confirmed is told.                *)
(***************************************************************************)
Closing == {"settle", "record_fee", "deduct", "emit_settled"}

(* A confirmed attempt was announced, or a scan has it in hand and will.   *)
ConfirmedTold ==
    \A r \in Runs :
        attempt[r] = "confirmed" =>
            \/ events[PaymentOf(r)]["payment.settled"] > 0
            \/ \E w \in Pollers : at[w] = r /\ phase[w] \in Closing

ToldInv == faults = 0 => ConfirmedTold

(* Initially nothing is confirmed.                                         *)
LEMMA ToldInit == Init => ToldInv
BY DEF Init, StoreInit, ToldInv, ConfirmedTold

(* No step but a scan's confirms or announces anything, or takes a         *)
(* recorded attempt back.                                                  *)
LEMMA OthersConfirmNothing ==
    ASSUME TypeInv, RunInv,
           ApiStep \/ ChainStep \/ ExecutionStep \/ UNCHANGED vars
    PROVE  /\ UNCHANGED pollerVars
           /\ \A r \in Runs :
                /\ attempt[r] \in Recorded => attempt'[r] = attempt[r]
                /\ attempt'[r] = "confirmed" => attempt[r] = "confirmed"
           /\ \A p \in Payments :
                events'[p]["payment.settled"] = events[p]["payment.settled"]
<1>1. CASE ApiStep
  BY <1>1 DEF ApiStep, CreateIntent, EnqueueExecution, db
<1>2. CASE ChainStep
  BY <1>2 DEF ChainStep, FinalizeTx, DropTx, RevertTx, StickTx, ForgetTx, db
<1>3. CASE ExecutionStep
  <2>1. UNCHANGED pollerVars
    BY <1>3 DEF ExecutionStep
  <2>2. ASSUME NEW r \in Runs, RunStep(r) \/ RunCrashes(r)
        PROVE  /\ \A s \in Runs :
                    /\ attempt[s] \in Recorded => attempt'[s] = attempt[s]
                    /\ attempt'[s] = "confirmed" => attempt[s] = "confirmed"
               /\ \A p \in Payments :
                    events'[p]["payment.settled"] = events[p]["payment.settled"]
    BY <2>2, RunStepAttempts, RunStepReports
  <2>3. ASSUME NEW p \in Payments, StartRun(p) \/ StallJob(p)
        PROVE  UNCHANGED <<attempt, events>>
    BY <2>3 DEF StartRun, StallJob, db
  <2> QED BY <1>3, <2>1, <2>2, <2>3, ExecutionSteps
<1>4. CASE UNCHANGED vars
  BY <1>4 DEF vars, store, db
<1> QED BY <1>1, <1>2, <1>3, <1>4

(* While nothing fails, a scan that confirms an attempt keeps it in hand   *)
(* until it has announced it, and no other scan moves.                     *)
LEMMA ScanStepCloses ==
    ASSUME TypeInv, NEW w \in Pollers, PollerStep(w) \/ PollerCrashes(w),
           faults = 0, faults' = 0
    PROVE  /\ \A v \in Pollers : v # w => phase'[v] = phase[v] /\ at'[v] = at[v]
           /\ phase[w] \in Closing \ {"emit_settled"} =>
                at'[w] = at[w] /\ phase'[w] \in Closing
           /\ phase[w] = "emit_settled" =>
                events'[PaymentOf(at[w])]["payment.settled"] > 0
           /\ \A p \in Payments :
                events[p]["payment.settled"] > 0 =>
                    events'[p]["payment.settled"] > 0
           /\ \A r \in Runs :
                attempt'[r] = "confirmed" =>
                    \/ attempt[r] = "confirmed"
                    \/ at'[w] = r /\ phase'[w] = "settle"
<1>0. ~ Throws /\ ~ PollerCrashes(w)
  BY DEF Throws, PollerCrashes
<1>1. \A p \in Payments : events[p]["payment.settled"] \in Nat
  BY DEF TypeInv, TypeOK, StoreTypeOK, EventTypes
<1> USE <1>0, <1>1 DEF TypeInv, TypeOK, StoreTypeOK, ConfirmationTypeOK, Closing
<1>2. CASE Scan(w)
  BY <1>2 DEF Scan, store, db
<1>3. ASSUME NEW r \in todo[w], CheckConfirmed(w, r) \/ CheckUnconfirmed(w, r)
      PROVE  /\ phase[w] = "checking" /\ UNCHANGED <<attempt, events>>
             /\ \A v \in Pollers : v # w => phase'[v] = phase[v] /\ at'[v] = at[v]
  BY <1>3 DEF CheckConfirmed, CheckUnconfirmed, Take, NextAttempt, store, db
<1>4. CASE MarkConfirmed(w)
  BY <1>4 DEF MarkConfirmed, PollerStatement, SetAttempt
<1>5. CASE Settle(w) \/ RecordFee(w) \/ Deduct(w)
  BY <1>5 DEF Settle, RecordFee, Deduct, PollerStatement, SetStatus,
              CreateLedgerEntry, SpendReserve, db
<1>6. CASE EmitSettled(w)
  <2>1. PaymentOf(at[w]) \in Payments
    BY <1>6 DEF EmitSettled, PollerLastStatement, InHand, Runs
  <2>2. /\ phase[w] = "emit_settled" /\ UNCHANGED attempt
        /\ \A v \in Pollers : v # w => phase'[v] = phase[v] /\ at'[v] = at[v]
    BY <1>6 DEF EmitSettled, PollerLastStatement, NextAttempt, EmitWebhook
  <2>3. \A p \in Payments : events'[p]["payment.settled"] =
          IF p = PaymentOf(at[w]) THEN events[p]["payment.settled"] + 1
          ELSE events[p]["payment.settled"]
    BY <1>6, <2>1 DEF EmitSettled, PollerLastStatement, EmitWebhook, EventTypes
  <2>4. events'[PaymentOf(at[w])]["payment.settled"] > 0
    BY <2>1, <2>3
  <2>5. ASSUME NEW p \in Payments, events[p]["payment.settled"] > 0
        PROVE  events'[p]["payment.settled"] > 0
    BY <2>3, <2>4, <2>5
  <2> QED BY <2>2, <2>4, <2>5
<1>7. CASE MoveToManualReview(w)
  BY <1>7 DEF MoveToManualReview, PollerLastStatement, NextAttempt, SetStatus
<1> QED BY <1>2, <1>3, <1>4, <1>5, <1>6, <1>7 DEF PollerStep

(* Every step keeps what is confirmed told or about to be.                 *)
LEMMA ToldStep ==
    ASSUME TypeInv, RunInv, ToldInv, [Next]_vars
    PROVE  ToldInv'
<1> SUFFICES ASSUME faults' = 0 PROVE ConfirmedTold'
  BY DEF ToldInv
<1>0. faults = 0 /\ ConfirmedTold
  BY FaultsOnlyGrow DEF ToldInv
<1>00. \A r \in Runs : PaymentOf(r) \in Payments
  BY DEF Runs
<1>1. CASE ApiStep \/ ChainStep \/ ExecutionStep \/ UNCHANGED vars
  <2>1. /\ UNCHANGED pollerVars
        /\ \A r \in Runs : attempt'[r] = "confirmed" => attempt[r] = "confirmed"
        /\ \A p \in Payments :
             events'[p]["payment.settled"] = events[p]["payment.settled"]
    BY <1>1, OthersConfirmNothing
  <2> QED BY <1>0, <1>00, <2>1 DEF ConfirmedTold, pollerVars
<1>2. CASE ConfirmationStep
  <2>1. PICK w \in Pollers : PollerStep(w) \/ PollerCrashes(w)
    BY <1>2 DEF ConfirmationStep, ConfirmationNext
  <2> SUFFICES ASSUME NEW r \in Runs, attempt'[r] = "confirmed"
               PROVE  \/ events'[PaymentOf(r)]["payment.settled"] > 0
                      \/ \E v \in Pollers : at'[v] = r /\ phase'[v] \in Closing
    BY DEF ConfirmedTold
  <2>3. CASE attempt[r] # "confirmed"
    <3>1. at'[w] = r /\ phase'[w] = "settle"
      BY <1>0, <2>1, <2>3, ScanStepCloses
    <3> QED BY <3>1 DEF Closing
  <2>4. CASE events[PaymentOf(r)]["payment.settled"] > 0
    BY <1>0, <1>00, <2>1, <2>4, ScanStepCloses
  <2>5. ASSUME NEW v \in Pollers, at[v] = r, phase[v] \in Closing
        PROVE  \/ events'[PaymentOf(r)]["payment.settled"] > 0
               \/ at'[v] = r /\ phase'[v] \in Closing
    <3>1. CASE v # w
      BY <1>0, <2>1, <2>5, <3>1, ScanStepCloses
    <3>2. CASE v = w
      BY <1>0, <2>1, <2>5, <3>2, ScanStepCloses
    <3> QED BY <3>1, <3>2
  <2> QED BY <1>0, <2>3, <2>4, <2>5 DEF ConfirmedTold
<1> QED BY <1>1, <1>2 DEF Next

(* While nothing fails, what is debited, released and announced of a       *)
(* payment is what its runs and the scans have been through.               *)
THEOREM CalmBooksInvariant == Spec => [](LedgerInv /\ ToldInv)
<1>1. Init => LedgerInv /\ ToldInv
  BY LedgerInit, ToldInit
<1>2. SettlementInv /\ CalmInv /\ LedgerInv /\ ToldInv /\ [Next]_vars =>
        LedgerInv' /\ ToldInv'
  BY LedgerStep, ToldStep DEF SettlementInv
<1> QED BY <1>1, <1>2, SettlementInvariant, CalmRunsInvariant, PTL DEF Spec
=============================================================================
