----------------------- MODULE WebhookDelivery_proofs -----------------------
(***************************************************************************)
(* Proofs about the delivery of webhooks, for any number of events, tries, *)
(* calls that overlap and faults.                                          *)
(***************************************************************************)
EXTENDS WebhookDelivery, FiniteSetTheorems, TLAPS

Answered == {"mark_delivered", "count_failure", "catch"}

(* The calls that hold an event, wait to post it, and are to record it as  *)
(* delivered.                                                              *)
Holding(e) == {w \in Pollers : e \in batch[w]}
Waiting(e) == Holding(e) \ UnderWay(e)
Marking(e) == {w \in Pollers : phase[w] = "mark_delivered" /\ e \in Current(w)}

(* What is behind a row: an attempt was posted, a delivery was accepted.   *)
RowsInv ==
    /\ \A e \in Events : /\ attempts[e] > 0 => posts[e] > 0
                         /\ accepted[e] > 0 => posts[e] > 0
    /\ \A w \in Pollers : \A e \in Current(w) :
         /\ phase[w] \in Answered => posts[e] > 0
         /\ phase[w] = "mark_delivered" => accepted[e] > 0
    /\ \A w \in Pollers : phase[w] = "sleeping" => batch[w] = {}

(* A batch leaves out no earlier event that was never posted.              *)
OrderInv ==
    \A w \in Pollers : \A f \in batch[w] : \A e \in (1 .. f - 1) \ Unreachable :
        posts[e] > 0 \/ e \in batch[w]

(* Who holds an event may still count an attempt at it.                    *)
AttemptsAt(e) ==
    attempts[e] + Cardinality(Holding(e)) <= MaxTries - 1 + Cardinality(Pollers) + faults

(* An event under way was posted and is to be counted.                     *)
PostsAt(e) ==
    /\ attempts[e] + Cardinality(UnderWay(e)) <= posts[e] + faults
    /\ posts[e] <= attempts[e] + Cardinality(UnderWay(e)) + faults

(* Until an event is recorded as delivered, who had it accepted is about   *)
(* to record it; then only those that wait to post it may post it again.   *)
AcceptedAt(e) ==
    IF delivered[e]
    THEN accepted[e] + Cardinality(Waiting(e)) <= Cardinality(Pollers) + faults
    ELSE accepted[e] <= Cardinality(Marking(e)) + faults

(* Who waits to post an event may still make a POST of it.                 *)
TriesAt(e) ==
    posts[e] + Cardinality(Waiting(e)) <= MaxTries - 1 + Cardinality(Pollers) + faults

DeliveryInv ==
    /\ TypeOK /\ DeliveredWasAccepted /\ RowsInv
    /\ PostedInOrder /\ OrderInv
    /\ \A e \in Events : AttemptsAt(e) /\ PostsAt(e) /\ TriesAt(e) /\ AcceptedAt(e)

-----------------------------------------------------------------------------
(* A set of pollers changes its size by what one of them does.             *)
Moved(w, S, T) ==
    /\ Cardinality(S) \in Nat /\ Cardinality(T) \in Nat
    /\ (w \in S <=> w \in T) => Cardinality(T) = Cardinality(S)
    /\ w \in S /\ w \notin T => Cardinality(T) = Cardinality(S) - 1
    /\ w \notin S /\ w \in T => Cardinality(T) = Cardinality(S) + 1

LEMMA OneMoves ==
    ASSUME NEW S \in SUBSET Pollers, NEW T \in SUBSET Pollers, NEW w \in Pollers,
           \A v \in Pollers \ {w} : v \in S <=> v \in T
    PROVE  Moved(w, S, T)
<1> USE DEF Moved
<1>1. IsFiniteSet(Pollers)
  BY WebhookAssumption
<1>2. IsFiniteSet(S) /\ IsFiniteSet(T)
  BY <1>1, FS_Subset
<1>3. Cardinality(S) \in Nat /\ Cardinality(T) \in Nat
  BY <1>2, FS_CardinalityType
<1>4. CASE w \in S <=> w \in T
  <2>1. S = T
    BY <1>4
  <2> QED BY <1>3, <1>4, <2>1
<1>5. CASE w \in S /\ w \notin T
  <2>1. T = S \ {w}
    BY <1>5
  <2>2. Cardinality(T) = Cardinality(S) - 1
    BY <1>2, <1>5, <2>1, FS_RemoveElement
  <2> QED BY <1>3, <1>5, <2>2
<1>6. CASE w \notin S /\ w \in T
  <2>1. T = S \cup {w}
    BY <1>6
  <2>2. Cardinality(T) = Cardinality(S) + 1
    BY <1>2, <1>6, <2>1, FS_AddElement
  <2> QED BY <1>3, <1>6, <2>2
<1> QED BY <1>4, <1>5, <1>6

(* Two sets of pollers without a common one are together no more than all. *)
LEMMA Disjoint ==
    ASSUME NEW S \in SUBSET Pollers, NEW T \in SUBSET Pollers, S \cap T = {}
    PROVE  Cardinality(S) + Cardinality(T) <= Cardinality(Pollers)
<1>1. IsFiniteSet(S) /\ IsFiniteSet(T) /\ IsFiniteSet(Pollers)
  BY WebhookAssumption, FS_Subset
<1>2. /\ IsFiniteSet(S \cup T)
      /\ Cardinality(S \cup T)
           = Cardinality(S) + Cardinality(T) - Cardinality(S \cap T)
  BY <1>1, FS_Union
<1>3. Cardinality(S \cap T) = 0
  BY FS_EmptySet
<1>4. S \cup T \in SUBSET Pollers
  OBVIOUS
<1>5. Cardinality(S \cup T) <= Cardinality(Pollers)
  BY <1>1, <1>4, FS_Subset
<1>6. Cardinality(S) \in Nat /\ Cardinality(T) \in Nat
  BY <1>1, FS_CardinalityType
<1> QED BY <1>2, <1>3, <1>5, <1>6

LEMMA SizeOfPollers ==
    /\ Cardinality(Pollers) \in Nat
    /\ \A S \in SUBSET Pollers :
         Cardinality(S) \in Nat /\ Cardinality(S) <= Cardinality(Pollers)
<1>1. IsFiniteSet(Pollers)
  BY WebhookAssumption
<1> QED BY <1>1, FS_Subset, FS_CardinalityType

(* A query that returns an event returns every earlier pending one.        *)
LEMMA QueryIsPrefix ==
    ASSUME TypeOK, NEW f \in Query, NEW e \in Pending, e < f
    PROVE  e \in Query
<1> DEFINE Upto(x) == {d \in Pending : d <= x}
<1>1. Pending \subseteq 1 .. MaxEvents /\ MaxEvents \in Nat
  BY WebhookAssumption DEF TypeOK, Pending
<1>2. IsFiniteSet(1 .. MaxEvents)
  BY <1>1, FS_Interval
<1>3. Upto(f) \in SUBSET (1 .. MaxEvents) /\ Upto(e) \in SUBSET (1 .. MaxEvents)
  BY <1>1
<1>4. f \in Pending /\ Cardinality(Upto(f)) <= Limit
  BY DEF Query
<1>5. e \in 1 .. MaxEvents /\ f \in 1 .. MaxEvents
  BY <1>1, <1>4
<1>6. Upto(e) \in SUBSET Upto(f)
  <2>1. ASSUME NEW d \in Pending, d <= e PROVE d <= f
    <3>1. d \in Int /\ e \in Int /\ f \in Int
      BY <1>1, <1>5
    <3> QED BY <2>1, <3>1
  <2> QED BY <2>1
<1>7. IsFiniteSet(Upto(f)) /\ IsFiniteSet(Upto(e))
  BY <1>2, <1>3, FS_Subset
<1>8. Cardinality(Upto(e)) <= Cardinality(Upto(f))
  BY <1>6, <1>7, FS_Subset
<1>9. Cardinality(Upto(e)) \in Nat /\ Cardinality(Upto(f)) \in Nat /\ Limit \in Nat
  BY <1>7, FS_CardinalityType, WebhookAssumption
<1>10. Cardinality(Upto(e)) <= Limit
  BY <1>4, <1>8, <1>9
<1> QED BY <1>10 DEF Query

-----------------------------------------------------------------------------
(* The step of a poller, by what it does at its current event.             *)
StepAt(w, e) ==
    Post(w, e) \/ UpdateDelivered(w, e) \/ UpdateFailed(w, e) \/ CatchError(w, e)

LEMMA CurrentIsHeld ==
    ASSUME TypeOK, NEW w \in Pollers, NEW e \in Current(w)
    PROVE  e \in batch[w] /\ e \in Events /\ Current(w) = {e}
BY WebhookAssumption DEF TypeOK, Current, Events

(* Every step leaves every variable in its type.                           *)
LEMMA TypeStep ==
    ASSUME TypeOK, [Next]_vars
    PROVE  TypeOK'
<1> USE WebhookAssumption DEF TypeOK, Phase, Goto, rows
<1>0. Throws => faults' \in 0 .. MaxFaults
  BY DEF Throws
<1>1. InsertEvent => TypeOK'
  BY DEF InsertEvent
<1>2. ASSUME NEW w \in Pollers, Poll(w) PROVE TypeOK'
  <2>1. Query \subseteq Events
    BY DEF Query, Pending, Events
  <2> QED BY <1>2, <2>1 DEF Poll
<1>3. ASSUME NEW w \in Pollers, NEW e \in Current(w), StepAt(w, e) PROVE TypeOK'
  <2>1. e \in Events
    BY CurrentIsHeld
  <2>2. CASE Post(w, e)
    <3>1. /\ posts[e] + 1 \in Nat /\ accepted[e] + 1 \in Nat
          /\ posts' = [posts EXCEPT ![e] = posts[e] + 1]
          /\ accepted' \in {accepted, [accepted EXCEPT ![e] = accepted[e] + 1]}
      BY <2>1, <2>2 DEF Post
    <3>2. posts' \in [Events -> Nat] /\ accepted' \in [Events -> Nat]
      BY <3>1
    <3>3. /\ phase' \in [Pollers -> Phase]
          /\ UNCHANGED <<created, delivered, attempts, batch, faults>>
      BY <2>2 DEF Post
    <3> QED BY <3>2, <3>3
  <2>3. CASE UpdateDelivered(w, e) \/ UpdateFailed(w, e) \/ CatchError(w, e)
    <3>1. /\ attempts[e] + 1 \in Nat
          /\ attempts' \in {attempts, [attempts EXCEPT ![e] = attempts[e] + 1]}
          /\ delivered' \in {delivered, [delivered EXCEPT ![e] = TRUE]}
          /\ UNCHANGED <<created, posts, accepted>>
      BY <2>1, <2>3 DEF UpdateDelivered, UpdateFailed, CatchError, Returns, Caught,
                        MarkDelivered, CountAttempt
    <3>2. attempts' \in [Events -> Nat] /\ delivered' \in [Events -> BOOLEAN]
      BY <3>1
    <3>3. /\ phase' \in [Pollers -> Phase]
          /\ batch' \in [Pollers -> SUBSET Events]
      BY <2>3 DEF UpdateDelivered, UpdateFailed, CatchError, Returns, Caught,
                  NextEvent, Abandon
    <3>4. faults' \in 0 .. MaxFaults
      BY <1>0, <2>3 DEF UpdateDelivered, UpdateFailed, CatchError, Returns, Caught,
                        Works
    <3> QED BY <3>1, <3>2, <3>3, <3>4
  <2> QED BY <1>3, <2>2, <2>3 DEF StepAt
<1>4. ASSUME NEW w \in Pollers, PollerCrashes(w) PROVE TypeOK'
  BY <1>0, <1>4 DEF PollerCrashes, Abandon
<1>5. UNCHANGED vars => TypeOK'
  BY DEF vars
<1> QED 
  BY <1>1, <1>2, <1>3, <1>4, <1>5 DEF Next, PollerStep, StepAt

(* A poller's step changes its own phase and batch only.                   *)
LEMMA OthersStay ==
    ASSUME TypeOK, NEW w \in Pollers,
           \/ Poll(w) \/ PollerCrashes(w)
           \/ \E e \in Current(w) : StepAt(w, e)
    PROVE  \A v \in Pollers \ {w} : phase'[v] = phase[v] /\ batch'[v] = batch[v]
BY DEF TypeOK, Goto, Abandon, NextEvent, Poll, StepAt, PollerCrashes, Post,
       UpdateDelivered, UpdateFailed, Caught, Returns, CatchError

(* So a step changes the size of each counted set by the poller alone.     *)
Counted(w, e) ==
    /\ Moved(w, Holding(e), Holding(e)')
    /\ Moved(w, UnderWay(e), UnderWay(e)')
    /\ Moved(w, Waiting(e), Waiting(e)')
    /\ Moved(w, Marking(e), Marking(e)')

LEMMA Sizes ==
    ASSUME TypeOK, TypeOK', NEW w \in Pollers, NEW e,
           \A v \in Pollers \ {w} : phase'[v] = phase[v] /\ batch'[v] = batch[v]
    PROVE  Counted(w, e)
<1>1. \A v \in Pollers \ {w} :
        /\ v \in Holding(e) <=> v \in Holding(e)'
        /\ v \in UnderWay(e) <=> v \in UnderWay(e)'
        /\ v \in Waiting(e) <=> v \in Waiting(e)'
        /\ v \in Marking(e) <=> v \in Marking(e)'
  BY DEF Holding, UnderWay, Waiting, Marking, Current
<1>2. /\ Holding(e) \in SUBSET Pollers /\ Holding(e)' \in SUBSET Pollers
      /\ UnderWay(e) \in SUBSET Pollers /\ UnderWay(e)' \in SUBSET Pollers
      /\ Waiting(e) \in SUBSET Pollers /\ Waiting(e)' \in SUBSET Pollers
      /\ Marking(e) \in SUBSET Pollers /\ Marking(e)' \in SUBSET Pollers
  BY DEF Holding, UnderWay, Waiting, Marking
<1>3. Moved(w, Holding(e), Holding(e)')
  BY <1>1, <1>2, OneMoves
<1>4. Moved(w, UnderWay(e), UnderWay(e)')
  BY <1>1, <1>2, OneMoves
<1>5. Moved(w, Waiting(e), Waiting(e)')
  BY <1>1, <1>2, OneMoves
<1>6. Moved(w, Marking(e), Marking(e)')
  BY <1>1, <1>2, OneMoves
<1> QED BY <1>3, <1>4, <1>5, <1>6 DEF Counted

-----------------------------------------------------------------------------
(* What the rows tell is backed by calls that were made.                   *)
LEMMA RowsStep ==
    ASSUME DeliveryInv, TypeOK', [Next]_vars
    PROVE  DeliveredWasAccepted' /\ RowsInv'
<1> USE DEF DeliveryInv, TypeOK, DeliveredWasAccepted, RowsInv, Goto, rows, Answered
<1>1. CASE InsertEvent
  BY <1>1 DEF InsertEvent, Current
<1>2. ASSUME NEW w \in Pollers, Poll(w)
      PROVE  DeliveredWasAccepted' /\ RowsInv'
  <2>1. /\ phase' = [phase EXCEPT ![w] = "post"]
        /\ UNCHANGED <<delivered, attempts, posts, accepted>>
    BY <1>2 DEF Poll
  <2>2. \A v \in Pollers \ {w} : Current(v)' = Current(v)
    BY <1>2, OthersStay DEF Current
  <2> QED BY <2>1, <2>2, <1>2, OthersStay
<1>3. ASSUME NEW w \in Pollers, NEW e \in Current(w), StepAt(w, e)
      PROVE  DeliveredWasAccepted' /\ RowsInv'
  <2>1. e \in Events /\ e \in batch[w] /\ Current(w) = {e}
    BY CurrentIsHeld
  <2>2. \A v \in Pollers \ {w} : Current(v)' = Current(v) /\ phase'[v] = phase[v]
    BY <1>3, OthersStay DEF Current
  <2>3. batch'[w] = batch[w] => Current(w)' = {e}
    BY <2>1 DEF Current
  <2>4. CASE Post(w, e)
    <3>1. /\ posts'[e] > 0 /\ \A d \in Events : d # e => posts'[d] = posts[d]
          /\ \A d \in Events : accepted'[d] >= accepted[d]
          /\ \A d \in Events : d # e => accepted'[d] = accepted[d]
          /\ phase'[w] = "mark_delivered" => accepted'[e] > 0
      BY <2>1, <2>4 DEF Post
    <3>2. phase'[w] # "sleeping" /\ UNCHANGED <<delivered, attempts, batch>>
      BY <2>4 DEF Post
    <3>3. DeliveredWasAccepted'
      BY <3>1, <3>2
    <3>4. \A d \in Events : /\ attempts'[d] > 0 => posts'[d] > 0
                            /\ accepted'[d] > 0 => posts'[d] > 0
      BY <3>1, <3>2
    <3>5. ASSUME NEW v \in Pollers, NEW d \in Current(v)'
          PROVE  /\ phase'[v] \in Answered => posts'[d] > 0
                 /\ phase'[v] = "mark_delivered" => accepted'[d] > 0
      <4>1. CASE v = w
        BY <2>3, <3>1, <3>2, <3>5, <4>1
      <4>2. CASE v # w
        <5>1. d \in Current(v) /\ d \in Events /\ phase'[v] = phase[v]
          BY <2>2, <3>5, <4>2, CurrentIsHeld
        <5> QED BY <3>1, <5>1
      <4> QED BY <4>1, <4>2
    <3>6. \A v \in Pollers : phase'[v] = "sleeping" => batch'[v] = {}
      BY <2>2, <3>2
    <3> QED BY <3>3, <3>4, <3>5, <3>6
  <2>5. CASE UpdateDelivered(w, e)
    BY <2>1, <2>2, <2>3, <2>5
       DEF UpdateDelivered, MarkDelivered, Returns, Caught, NextEvent
  <2>6. CASE UpdateFailed(w, e)
    BY <2>1, <2>2, <2>3, <2>6
       DEF UpdateFailed, CountAttempt, Returns, Caught, NextEvent
  <2>7. CASE CatchError(w, e)
    BY <2>1, <2>2, <2>3, <2>7
       DEF CatchError, CountAttempt, Returns, NextEvent, Abandon
  <2> QED BY <1>3, <2>4, <2>5, <2>6, <2>7 DEF StepAt
<1>4. ASSUME NEW w \in Pollers, PollerCrashes(w)
      PROVE  DeliveredWasAccepted' /\ RowsInv'
  <2>1. \A v \in Pollers \ {w} : Current(v)' = Current(v) /\ phase'[v] = phase[v]
    BY <1>4, OthersStay DEF Current
  <2> QED BY <1>4, <2>1 DEF PollerCrashes, Abandon
<1>5. CASE UNCHANGED vars
  BY <1>5 DEF vars, Current
<1> QED
  BY <1>1, <1>2, <1>3, <1>4, <1>5 DEF Next, PollerStep, StepAt

(* A batch is a prefix of what is pending, so that no event is posted      *)
(* before every earlier one was.                                           *)
LEMMA OrderStep ==
    ASSUME DeliveryInv, TypeOK', [Next]_vars
    PROVE  PostedInOrder' /\ OrderInv'
<1> USE DEF DeliveryInv, TypeOK, PostedInOrder, OrderInv, Events
<1>1. CASE InsertEvent
  BY <1>1 DEF InsertEvent
<1>2. ASSUME NEW w \in Pollers, Poll(w)
      PROVE  PostedInOrder' /\ OrderInv'
  <2>1. batch' = [batch EXCEPT ![w] = Query] /\ UNCHANGED posts
    BY <1>2 DEF Poll
  <2>2. ASSUME NEW f \in Query, NEW e \in (1 .. f - 1) \ Unreachable
        PROVE  posts[e] > 0 \/ e \in Query
    <3>1. f \in 1 .. created /\ e \in 1 .. created /\ e < f
      BY <2>2 DEF Query, Pending
    <3>2. e \in Events
      BY <3>1, WebhookAssumption
    <3>3. CASE e \in Pending
      BY <3>1, <3>3, QueryIsPrefix
    <3>4. CASE e \notin Pending
      <4>1. delivered[e] \/ attempts[e] >= MaxTries
        BY <3>1, <3>2, <3>4, WebhookAssumption DEF Pending
      <4>2. accepted[e] > 0 \/ attempts[e] > 0
        BY <3>2, <4>1, WebhookAssumption DEF DeliveredWasAccepted
      <4> QED BY <3>2, <4>2 DEF RowsInv
    <3> QED BY <3>3, <3>4
  <2> QED BY <2>1, <2>2
<1>3. ASSUME NEW w \in Pollers, NEW e \in Current(w), StepAt(w, e)
      PROVE  PostedInOrder' /\ OrderInv'
  <2>1. e \in Events /\ e \in batch[w]
    BY CurrentIsHeld
  <2>2. \A v \in Pollers \ {w} : batch'[v] = batch[v]
    BY <1>3, OthersStay
  <2>3. CASE Post(w, e)
    <3>1. \A d \in (1 .. e - 1) \ Unreachable : posts[d] > 0
      BY <2>1 DEF Current
    <3>2. UNCHANGED batch /\ posts' = [posts EXCEPT ![e] = @ + 1]
      BY <2>3 DEF Post
    <3>3. posts'[e] > 0 /\ \A d \in Events : d # e => posts'[d] = posts[d]
      BY <2>1, <3>2
    <3>4. PostedInOrder'
      <4>1. ASSUME NEW f \in Events, posts'[f] > 0,
                   NEW d \in (1 .. f - 1) \ Unreachable
            PROVE  posts'[d] > 0
        <5>1. d \in Events
          BY WebhookAssumption
        <5>2. f # e => posts[d] > 0
          BY <3>3, <4>1
        <5> QED BY <3>1, <3>3, <5>1, <5>2
      <4> QED BY <4>1
    <3>5. OrderInv'
      BY <3>2, <3>3, WebhookAssumption
    <3> QED BY <3>4, <3>5
  <2>4. ASSUME UpdateDelivered(w, e) \/ UpdateFailed(w, e) \/ CatchError(w, e)
        PROVE  PostedInOrder' /\ OrderInv'
    <3>1. posts[e] > 0
      BY <2>4 DEF RowsInv, Answered, UpdateDelivered, UpdateFailed, CatchError
    <3>2. /\ UNCHANGED posts
          /\ batch'[w] \in {batch[w], batch[w] \ {e}, {}}
      BY <2>4 DEF UpdateDelivered, UpdateFailed, CatchError, Returns, Caught,
                  NextEvent, Abandon
    <3> QED BY <2>2, <3>1, <3>2
  <2> QED BY <1>3, <2>3, <2>4 DEF StepAt
<1>4. ASSUME NEW w \in Pollers, PollerCrashes(w)
      PROVE  PostedInOrder' /\ OrderInv'
  BY <1>4 DEF PollerCrashes, Abandon
<1>5. CASE UNCHANGED vars
  BY <1>5 DEF vars
<1> QED
  BY <1>1, <1>2, <1>3, <1>4, <1>5 DEF Next, PollerStep, StepAt

-----------------------------------------------------------------------------
(* Where a poller stands in the counted sets, by its phase and batch.      *)
Place(w, d) ==
    /\ w \in Holding(d) <=> d \in batch[w]
    /\ w \in UnderWay(d) <=> phase[w] \in Answered /\ d \in Current(w)
    /\ w \in Waiting(d) <=> w \in Holding(d) /\ w \notin UnderWay(d)
    /\ w \in Marking(d) <=> phase[w] = "mark_delivered" /\ d \in Current(w)

LEMMA Places ==
    ASSUME NEW w \in Pollers, NEW d
    PROVE  Place(w, d) /\ Place(w, d)'
BY DEF Place, Holding, UnderWay, Waiting, Marking, Answered

(* What an update does, whichever it is and however it ends.               *)
LEMMA UpdateCases ==
    ASSUME DeliveryInv, NEW w \in Pollers, NEW e \in Current(w),
           UpdateDelivered(w, e) \/ UpdateFailed(w, e) \/ CatchError(w, e)
    PROVE  /\ phase[w] \in Answered
           /\ UNCHANGED <<posts, accepted>>
           /\ \/ /\ attempts' = [attempts EXCEPT ![e] = attempts[e] + 1]
                 /\ \/ /\ phase[w] = "mark_delivered"
                       /\ delivered' = [delivered EXCEPT ![e] = TRUE]
                    \/ phase[w] # "mark_delivered" /\ UNCHANGED delivered
              \/ /\ UNCHANGED <<attempts, delivered>>
                 /\ faults' = faults + 1
           /\ \/ /\ phase'[w] \notin Answered
                 /\ batch'[w] = batch[w] \ {e}
                 /\ UNCHANGED faults /\ attempts' # attempts
              \/ /\ phase'[w] = "catch" /\ phase[w] # "catch"
                 /\ UNCHANGED batch
                 /\ faults' = faults + 1
              \/ /\ phase'[w] \notin Answered
                 /\ batch'[w] = {} /\ phase[w] = "catch"
                 /\ faults' = faults + 1
<1> USE DEF DeliveryInv, TypeOK, Answered, Goto, rows, Throws, Works
<1>1. e \in Events
  BY CurrentIsHeld
<1>2. [attempts EXCEPT ![e] = attempts[e] + 1] # attempts
  BY <1>1
<1>3. CASE UpdateDelivered(w, e)
  BY <1>1, <1>2, <1>3 DEF UpdateDelivered, MarkDelivered, Returns, Caught, NextEvent
<1>4. CASE UpdateFailed(w, e)
  BY <1>1, <1>2, <1>4 DEF UpdateFailed, CountAttempt, Returns, Caught, NextEvent
<1>5. CASE CatchError(w, e)
  BY <1>1, <1>2, <1>5 DEF CatchError, CountAttempt, Returns, NextEvent, Abandon
<1> QED BY <1>3, <1>4, <1>5

(* The counts an event has after the step of a poller.                     *)
LEMMA CountsAfter ==
    ASSUME TypeOK, TypeOK', NEW w \in Pollers, NEW d \in Events,
           \/ Poll(w) \/ PollerCrashes(w)
           \/ \E e \in Current(w) : StepAt(w, e)
    PROVE  Counted(w, d) /\ Place(w, d) /\ Place(w, d)'
BY OthersStay, Sizes, Places

LEMMA NothingCounted ==
    ASSUME UNCHANGED <<phase, batch>>, NEW d
    PROVE  /\ Holding(d)' = Holding(d) /\ UnderWay(d)' = UnderWay(d)
           /\ Waiting(d)' = Waiting(d) /\ Marking(d)' = Marking(d)
BY DEF Holding, UnderWay, Waiting, Marking, Current

LEMMA CountsAreNat ==
    ASSUME NEW d
    PROVE  /\ Cardinality(Holding(d)) \in Nat /\ Cardinality(UnderWay(d)) \in Nat
           /\ Cardinality(Waiting(d)) \in Nat /\ Cardinality(Marking(d)) \in Nat
           /\ Cardinality(Holding(d)) <= Cardinality(Pollers)
           /\ Cardinality(Marking(d)) + Cardinality(Waiting(d)) <= Cardinality(Pollers)
<1>1. /\ Holding(d) \in SUBSET Pollers /\ UnderWay(d) \in SUBSET Pollers
      /\ Waiting(d) \in SUBSET Pollers /\ Marking(d) \in SUBSET Pollers
      /\ Marking(d) \cap Waiting(d) = {}
  BY DEF Holding, UnderWay, Waiting, Marking
<1> QED BY <1>1, SizeOfPollers, Disjoint

(* An event is taken up only while it has tries left, and by each poller   *)
(* once.                                                                   *)
LEMMA AttemptsStep ==
    ASSUME DeliveryInv, TypeOK', [Next]_vars, NEW d \in Events
    PROVE  AttemptsAt(d)'
<1> USE CountsAreNat, SizeOfPollers, WebhookAssumption
    DEF DeliveryInv, TypeOK, AttemptsAt
<1>1. CASE InsertEvent \/ UNCHANGED vars
  <2>1. UNCHANGED <<attempts, faults, phase, batch>>
    BY <1>1 DEF InsertEvent, vars, rows
  <2> QED BY <2>1, NothingCounted
<1>2. ASSUME NEW w \in Pollers, Poll(w)
      PROVE  AttemptsAt(d)'
  <2>1. UNCHANGED <<attempts, faults>>
    BY <1>2 DEF Poll, rows
  <2>2. w \notin Holding(d)
    BY <1>2 DEF Poll, Holding, RowsInv
  <2>3. CASE w \in Holding(d)'
    <3>1. d \in Query
      BY <1>2, <2>3 DEF Poll, Holding
    <3>2. attempts[d] < MaxTries
      BY <3>1 DEF Query, Pending
    <3>3. Cardinality(Holding(d)') \in Nat
          /\ Cardinality(Holding(d)') <= Cardinality(Pollers)
      <4>1. Holding(d)' \in SUBSET Pollers
        BY DEF Holding
      <4> QED BY <4>1
    <3> QED BY <2>1, <3>2, <3>3
  <2>4. CASE w \notin Holding(d)'
    BY <1>2, <2>1, <2>2, <2>4, CountsAfter DEF Counted, Moved
  <2> QED BY <2>3, <2>4
<1>3. ASSUME NEW w \in Pollers, NEW e \in Current(w), StepAt(w, e)
      PROVE  AttemptsAt(d)'
  <2>1. Counted(w, d) /\ Place(w, d) /\ Place(w, d)'
    BY <1>3, CountsAfter
  <2>2. e \in batch[w]
    BY CurrentIsHeld
  <2>3. CASE Post(w, e)
    BY <2>1, <2>3 DEF Post, rows, Counted, Moved, Place
  <2>4. ASSUME UpdateDelivered(w, e) \/ UpdateFailed(w, e) \/ CatchError(w, e)
        PROVE  AttemptsAt(d)'
    <3>1. /\ attempts'[d] \in {attempts[d], attempts[d] + 1}
          /\ d # e => attempts'[d] = attempts[d]
          /\ faults' \in {faults, faults + 1}
      BY <2>4, UpdateCases
    <3>2. CASE faults' = faults
      <4>1. batch'[w] = batch[w] \ {e}
        BY <2>4, <3>2, UpdateCases
      <4> QED BY <2>1, <2>2, <3>1, <3>2, <4>1 DEF Counted, Moved, Place
    <3>3. CASE faults' = faults + 1
      <4>1. d \in batch'[w] => d \in batch[w]
        BY <2>4, UpdateCases
      <4> QED BY <2>1, <3>1, <3>3, <4>1 DEF Counted, Moved, Place
    <3> QED BY <3>1, <3>2, <3>3
  <2> QED BY <1>3, <2>3, <2>4 DEF StepAt
<1>4. ASSUME NEW w \in Pollers, PollerCrashes(w)
      PROVE  AttemptsAt(d)'
  <2>1. Counted(w, d) /\ Place(w, d) /\ Place(w, d)'
    BY <1>4, CountsAfter
  <2>2. UNCHANGED attempts /\ faults' = faults + 1 /\ batch'[w] = {}
    BY <1>4 DEF PollerCrashes, Abandon, Throws, rows
  <2> QED BY <2>1, <2>2 DEF Counted, Moved, Place
<1> QED
  BY <1>1, <1>2, <1>3, <1>4 DEF Next, PollerStep, StepAt

(* A POST puts its event under way; what takes it off counts the attempt   *)
(* or is a fault.                                                          *)
LEMMA PostsStep ==
    ASSUME DeliveryInv, TypeOK', [Next]_vars, NEW d \in Events
    PROVE  PostsAt(d)'
<1> USE CountsAreNat DEF DeliveryInv, TypeOK, PostsAt, Answered
<1>1. CASE InsertEvent \/ UNCHANGED vars
  <2>1. UNCHANGED <<attempts, posts, faults, phase, batch>>
    BY <1>1 DEF InsertEvent, vars, rows
  <2> QED BY <2>1, NothingCounted
<1>2. ASSUME NEW w \in Pollers, Poll(w) PROVE PostsAt(d)'
  <2>1. Counted(w, d) /\ Place(w, d) /\ Place(w, d)'
    BY <1>2, CountsAfter
  <2>2. /\ UNCHANGED <<attempts, posts, faults>>
        /\ phase[w] \notin Answered /\ phase'[w] \notin Answered
    BY <1>2 DEF Poll, rows, Goto
  <2> QED BY <2>1, <2>2 DEF Counted, Moved, Place
<1>3. ASSUME NEW w \in Pollers, NEW e \in Current(w), StepAt(w, e)
      PROVE  PostsAt(d)'
  <2>1. Counted(w, d) /\ Place(w, d) /\ Place(w, d)'
    BY <1>3, CountsAfter
  <2>2. e \in Events /\ e \in batch[w] /\ Current(w) = {e}
    BY CurrentIsHeld
  <2>3. batch'[w] = batch[w] => Current(w)' = {e}
    BY <2>2 DEF Current
  <2>4. CASE Post(w, e)
    <3>1. /\ UNCHANGED <<attempts, faults, batch>>
          /\ phase[w] \notin Answered /\ phase'[w] \in Answered
      BY <2>4 DEF Post, rows, Goto
    <3>2. posts'[d] = IF d = e THEN posts[d] + 1 ELSE posts[d]
      BY <2>2, <2>4 DEF Post
    <3> QED BY <2>1, <2>3, <3>1, <3>2 DEF Counted, Moved, Place
  <2>5. ASSUME UpdateDelivered(w, e) \/ UpdateFailed(w, e) \/ CatchError(w, e)
        PROVE  PostsAt(d)'
    <3>1. /\ UNCHANGED posts
          /\ attempts'[d] \in {attempts[d], attempts[d] + 1}
          /\ d # e => attempts'[d] = attempts[d]
      BY <2>5, UpdateCases
    <3>2. w \in UnderWay(d) <=> d = e
      BY <2>1, <2>2, <2>5, UpdateCases DEF Place
    <3>3. CASE UNCHANGED faults
      <4>1. phase'[w] \notin Answered /\ attempts' = [attempts EXCEPT ![e] = attempts[e] + 1]
        BY <2>5, <3>3, UpdateCases
      <4> QED BY <2>1, <2>2, <3>1, <3>2, <3>3, <4>1 DEF Counted, Moved, Place
    <3>4. CASE faults' = faults + 1
      <4>1. \/ phase'[w] \notin Answered
            \/ phase'[w] = "catch" /\ UNCHANGED batch
        BY <2>5, UpdateCases
      <4>2. w \in UnderWay(d)' => d = e
        BY <2>1, <2>3, <4>1 DEF Place
      <4> QED BY <2>1, <3>1, <3>2, <3>4, <4>2 DEF Counted, Moved
    <3> QED BY <2>5, <3>3, <3>4, UpdateCases
  <2> QED BY <1>3, <2>4, <2>5 DEF StepAt
<1>4. ASSUME NEW w \in Pollers, PollerCrashes(w) PROVE PostsAt(d)'
  <2>1. Counted(w, d) /\ Place(w, d) /\ Place(w, d)'
    BY <1>4, CountsAfter
  <2>2. /\ UNCHANGED <<attempts, posts>> /\ faults' = faults + 1
        /\ phase'[w] \notin Answered
    BY <1>4 DEF PollerCrashes, Abandon, Throws, rows, Goto
  <2> QED BY <2>1, <2>2 DEF Counted, Moved, Place
<1> QED
  BY <1>1, <1>2, <1>3, <1>4 DEF Next, PollerStep, StepAt

(* An event is taken up only while it has tries left: those counted, those *)
(* under way and those a fault left uncounted were posted, and each other  *)
(* poller posts it once.                                                   *)
LEMMA TriesStep ==
    ASSUME DeliveryInv, TypeOK', [Next]_vars, NEW d \in Events
    PROVE  TriesAt(d)'
<1> USE CountsAreNat, SizeOfPollers, WebhookAssumption
    DEF DeliveryInv, TypeOK, TriesAt, Answered
<1>1. CASE InsertEvent \/ UNCHANGED vars
  <2>1. UNCHANGED <<posts, faults, phase, batch>>
    BY <1>1 DEF InsertEvent, vars, rows
  <2> QED BY <2>1, NothingCounted
<1>2. ASSUME NEW w \in Pollers, Poll(w) PROVE TriesAt(d)'
  <2>1. Counted(w, d) /\ Place(w, d) /\ Place(w, d)'
    BY <1>2, CountsAfter
  <2>2. /\ UNCHANGED <<attempts, posts, faults>>
        /\ phase[w] = "sleeping" /\ phase'[w] = "post" /\ batch'[w] = Query
    BY <1>2 DEF Poll, rows, Goto
  <2>3. CASE w \in Waiting(d)'
    <3>1. d \in Query
      BY <2>1, <2>2, <2>3 DEF Place
    <3>2. attempts[d] < MaxTries
      BY <3>1 DEF Query, Pending
    <3>3. posts[d] <= attempts[d] + Cardinality(UnderWay(d)) + faults
      BY DEF PostsAt
    <3>4. /\ UnderWay(d)' \in SUBSET Pollers /\ Waiting(d)' \in SUBSET Pollers
          /\ UnderWay(d)' \cap Waiting(d)' = {}
      BY DEF UnderWay, Waiting, Holding
    <3>5. Cardinality(UnderWay(d)') + Cardinality(Waiting(d)') <= Cardinality(Pollers)
      BY <3>4, Disjoint
    <3>6. Cardinality(UnderWay(d)') = Cardinality(UnderWay(d))
      BY <2>1, <2>2 DEF Counted, Moved, Place
    <3>7. Cardinality(Waiting(d)') \in Nat
      BY <2>1 DEF Counted, Moved
    <3> QED BY <2>2, <3>2, <3>3, <3>5, <3>6, <3>7
  <2>4. CASE w \notin Waiting(d)'
    <3>1. Cardinality(Waiting(d)') <= Cardinality(Waiting(d))
          /\ Cardinality(Waiting(d)') \in Nat
      BY <2>1, <2>4 DEF Counted, Moved
    <3> QED BY <2>2, <3>1
  <2> QED BY <2>3, <2>4
<1>3. ASSUME NEW w \in Pollers, NEW e \in Current(w), StepAt(w, e)
      PROVE  TriesAt(d)'
  <2>1. Counted(w, d) /\ Place(w, d) /\ Place(w, d)'
    BY <1>3, CountsAfter
  <2>2. e \in Events /\ e \in batch[w] /\ Current(w) = {e}
    BY CurrentIsHeld
  <2>3. batch'[w] = batch[w] => Current(w)' = {e}
    BY <2>2 DEF Current
  <2>4. CASE Post(w, e)
    <3>1. /\ UNCHANGED <<faults, batch>>
          /\ phase[w] = "post" /\ phase'[w] \in Answered
      BY <2>4 DEF Post, rows, Goto
    <3>2. posts'[d] = IF d = e THEN posts[d] + 1 ELSE posts[d]
      BY <2>2, <2>4 DEF Post
    <3> QED BY <2>1, <2>2, <2>3, <3>1, <3>2 DEF Counted, Moved, Place
  <2>5. ASSUME UpdateDelivered(w, e) \/ UpdateFailed(w, e) \/ CatchError(w, e)
        PROVE  TriesAt(d)'
    <3>1. UNCHANGED posts /\ faults' \in {faults, faults + 1}
      BY <2>5, UpdateCases
    <3>2. w \in UnderWay(d) <=> d = e
      BY <2>1, <2>2, <2>5, UpdateCases DEF Place
    <3>3. w \in Waiting(d)' => w \in Waiting(d)
      <4>1. \/ d \in batch'[w] => d \in batch[w] /\ d # e
            \/ phase'[w] = "catch" /\ UNCHANGED batch
        BY <2>5, UpdateCases
      <4> QED BY <2>1, <2>3, <3>2, <4>1 DEF Place
    <3>4. Cardinality(Waiting(d)') <= Cardinality(Waiting(d))
          /\ Cardinality(Waiting(d)') \in Nat
      BY <2>1, <3>3 DEF Counted, Moved
    <3> QED BY <3>1, <3>4
  <2> QED BY <1>3, <2>4, <2>5 DEF StepAt
<1>4. ASSUME NEW w \in Pollers, PollerCrashes(w) PROVE TriesAt(d)'
  <2>1. Counted(w, d) /\ Place(w, d) /\ Place(w, d)'
    BY <1>4, CountsAfter
  <2>2. /\ UNCHANGED posts /\ faults' = faults + 1 /\ batch'[w] = {}
    BY <1>4 DEF PollerCrashes, Abandon, Throws, rows, Goto
  <2> QED BY <2>1, <2>2 DEF Counted, Moved, Place
<1> QED
  BY <1>1, <1>2, <1>3, <1>4 DEF Next, PollerStep, StepAt

(* Who had an event accepted either records it or is a fault; who does not *)
(* hold it when it is recorded does not find it any more.                  *)
LEMMA AcceptedStep ==
    ASSUME DeliveryInv, TypeOK', [Next]_vars, NEW d \in Events
    PROVE  AcceptedAt(d)'
<1> USE CountsAreNat, SizeOfPollers
    DEF DeliveryInv, TypeOK, AcceptedAt, Answered
<1>1. CASE InsertEvent \/ UNCHANGED vars
  <2>1. UNCHANGED <<delivered, accepted, faults, phase, batch>>
    BY <1>1 DEF InsertEvent, vars, rows
  <2> QED BY <2>1, NothingCounted
<1>2. ASSUME NEW w \in Pollers, Poll(w) PROVE AcceptedAt(d)'
  <2>1. Counted(w, d) /\ Place(w, d) /\ Place(w, d)'
    BY <1>2, CountsAfter
  <2>2. /\ UNCHANGED <<delivered, accepted, faults>>
        /\ phase[w] = "sleeping" /\ phase'[w] = "post" /\ batch'[w] = Query
    BY <1>2 DEF Poll, rows, Goto
  <2>3. d \in Query => ~ delivered[d]
    BY DEF Query, Pending
  <2> QED BY <2>1, <2>2, <2>3 DEF Counted, Moved, Place
<1>3. ASSUME NEW w \in Pollers, NEW e \in Current(w), StepAt(w, e)
      PROVE  AcceptedAt(d)'
  <2>1. Counted(w, d) /\ Place(w, d) /\ Place(w, d)'
    BY <1>3, CountsAfter
  <2>2. e \in Events /\ e \in batch[w] /\ Current(w) = {e}
    BY CurrentIsHeld
  <2>3. batch'[w] = batch[w] => Current(w)' = {e}
    BY <2>2 DEF Current
  <2>4. CASE Post(w, e)
    <3>1. /\ UNCHANGED <<delivered, faults, batch>>
          /\ phase[w] = "post" /\ phase'[w] \in Answered
      BY <2>4 DEF Post, rows, Goto
    <3>2. accepted'[d] = IF d = e /\ phase'[w] = "mark_delivered"
                         THEN accepted[d] + 1 ELSE accepted[d]
      BY <2>2, <2>4 DEF Post, Goto
    <3> QED BY <2>1, <2>2, <2>3, <3>1, <3>2 DEF Counted, Moved, Place
  <2>5. ASSUME UpdateDelivered(w, e) \/ UpdateFailed(w, e) \/ CatchError(w, e)
        PROVE  AcceptedAt(d)'
    <3>1. /\ UNCHANGED accepted /\ faults' \in {faults, faults + 1}
          /\ d # e => delivered'[d] = delivered[d]
          /\ delivered[d] => delivered'[d]
      BY <2>2, <2>5, UpdateCases
    <3>2. /\ w \in UnderWay(d) <=> d = e
          /\ w \in Marking(d) <=> d = e /\ phase[w] = "mark_delivered"
          /\ w \notin Marking(d)'
      BY <2>1, <2>2, <2>5, UpdateCases DEF Place
    <3>3. w \in Waiting(d)' => w \in Waiting(d)
      <4>1. \/ d \in batch'[w] => d \in batch[w] /\ d # e
            \/ phase'[w] = "catch" /\ UNCHANGED batch
        BY <2>5, UpdateCases
      <4> QED BY <2>1, <2>3, <3>2, <4>1 DEF Place
    <3>4. w \in Marking(d) /\ ~ delivered'[d] => faults' = faults + 1
      BY <2>2, <2>5, <3>2, UpdateCases
    <3>5. Cardinality(Waiting(d)') <= Cardinality(Waiting(d))
      BY <2>1, <3>3 DEF Counted, Moved
    <3>6. Cardinality(Marking(d)) <= Cardinality(Marking(d)') + faults' - faults
          \/ delivered'[d]
      BY <2>1, <3>1, <3>2, <3>4 DEF Counted, Moved
    <3>7. Cardinality(Waiting(d)') \in Nat /\ Cardinality(Marking(d)') \in Nat
      BY <2>1 DEF Counted, Moved
    <3> QED BY <3>1, <3>5, <3>6, <3>7
  <2> QED BY <1>3, <2>4, <2>5 DEF StepAt
<1>4. ASSUME NEW w \in Pollers, PollerCrashes(w) PROVE AcceptedAt(d)'
  <2>1. Counted(w, d) /\ Place(w, d) /\ Place(w, d)'
    BY <1>4, CountsAfter
  <2>2. /\ UNCHANGED <<delivered, accepted>> /\ faults' = faults + 1
        /\ phase'[w] = "sleeping" /\ batch'[w] = {}
    BY <1>4 DEF PollerCrashes, Abandon, Throws, rows, Goto
  <2> QED BY <2>1, <2>2 DEF Counted, Moved, Place
<1> QED
  BY <1>1, <1>2, <1>3, <1>4 DEF Next, PollerStep, StepAt

-----------------------------------------------------------------------------
(* The invariant holds at first, and every step keeps it.                  *)
LEMMA DeliveryInit == Init => DeliveryInv
<1> SUFFICES ASSUME Init PROVE DeliveryInv
  OBVIOUS
<1> USE WebhookAssumption DEF Init
<1>1. \A w \in Pollers : Current(w) = {}
  BY DEF Current
<1>2. TypeOK
  BY DEF TypeOK, Phase
<1>3. DeliveredWasAccepted /\ RowsInv /\ PostedInOrder /\ OrderInv
  BY <1>1 DEF DeliveredWasAccepted, RowsInv, Answered, PostedInOrder, OrderInv
<1>4. ASSUME NEW e \in Events
      PROVE  AttemptsAt(e) /\ PostsAt(e) /\ TriesAt(e) /\ AcceptedAt(e)
  <2>1. /\ Holding(e) = {} /\ UnderWay(e) = {}
        /\ Waiting(e) = {} /\ Marking(e) = {}
    BY <1>1 DEF Holding, UnderWay, Waiting, Marking
  <2>2. Cardinality({}) = 0
    BY FS_EmptySet
  <2> QED
    BY <2>1, <2>2, SizeOfPollers DEF AttemptsAt, PostsAt, TriesAt, AcceptedAt
<1> QED BY <1>2, <1>3, <1>4 DEF DeliveryInv

LEMMA DeliveryStep == DeliveryInv /\ [Next]_vars => DeliveryInv'
<1> SUFFICES ASSUME DeliveryInv, [Next]_vars PROVE DeliveryInv'
  OBVIOUS
<1>1. TypeOK'
  BY TypeStep DEF DeliveryInv
<1>2. \A e \in Events : AttemptsAt(e)' /\ PostsAt(e)' /\ TriesAt(e)' /\ AcceptedAt(e)'
  BY <1>1, AttemptsStep, PostsStep, TriesStep, AcceptedStep
<1> QED BY <1>1, <1>2, RowsStep, OrderStep DEF DeliveryInv

THEOREM DeliveryInvariant == Spec => []DeliveryInv
BY DeliveryInit, DeliveryStep, PTL DEF Spec

(* Every variable stays in its type.                                       *)
THEOREM DeliveryTypeOK == Spec => []TypeOK
<1>1. DeliveryInv => TypeOK
  BY DEF DeliveryInv
<1> QED BY <1>1, DeliveryInvariant, PTL

(* What the table calls delivered was accepted by its merchant.            *)
THEOREM DeliveredIsAccepted == Spec => []DeliveredWasAccepted
<1>1. DeliveryInv => DeliveredWasAccepted
  BY DEF DeliveryInv
<1> QED BY <1>1, DeliveryInvariant, PTL

(* No merchant is called about an event before every earlier one was       *)
(* offered to its own.                                                     *)
THEOREM EventsPostedInOrder == Spec => []PostedInOrder
<1>1. DeliveryInv => PostedInOrder
  BY DEF DeliveryInv
<1> QED BY <1>1, DeliveryInvariant, PTL

(* An event is tried MaxTries times, and once more for each other call     *)
(* that overlaps and for each fault at the most.                           *)
THEOREM TriesAreBounded == Spec => []AttemptsBounded
<1>1. DeliveryInv => AttemptsBounded
  BY CountsAreNat, SizeOfPollers, WebhookAssumption
     DEF DeliveryInv, TypeOK, AttemptsAt, AttemptsBounded
<1> QED BY <1>1, DeliveryInvariant, PTL

(* The attempts counted and the POSTs made differ by those under way and   *)
(* by the faults at the most.                                              *)
THEOREM AttemptsTellPosts == Spec => []AttemptsMatchPosts
<1>1. DeliveryInv => AttemptsMatchPosts
  BY CountsAreNat DEF DeliveryInv, TypeOK, PostsAt, AttemptsMatchPosts
<1> QED BY <1>1, DeliveryInvariant, PTL

(* A merchant that answers in time takes an event once for each call that  *)
(* overlaps and for each fault at the most; one that answers too late, or  *)
(* with an error, as often as the event is posted, which is MaxTries times *)
(* and once more for each other call that overlaps and for each fault.     *)
THEOREM DuplicatesAreBounded == Spec => []DuplicatesBounded
<1>1. DeliveryInv => DuplicatesBounded
  <2>1. ASSUME DeliveryInv, NEW e \in Events
        PROVE  /\ accepted[e] <= Cardinality(Pollers) + faults
               /\ posts[e] < MaxTries + Cardinality(Pollers) + faults
    <3>1. accepted[e] \in Nat /\ posts[e] \in Nat /\ faults \in Nat
      BY <2>1 DEF DeliveryInv, TypeOK
    <3>2. delivered[e] => accepted[e] <= Cardinality(Pollers) + faults
      BY <2>1, <3>1, CountsAreNat, SizeOfPollers DEF DeliveryInv, AcceptedAt
    <3>3. ~ delivered[e] => accepted[e] <= Cardinality(Pollers) + faults
      BY <2>1, <3>1, CountsAreNat, SizeOfPollers DEF DeliveryInv, AcceptedAt
    <3>4. posts[e] < MaxTries + Cardinality(Pollers) + faults
      BY <2>1, <3>1, CountsAreNat, SizeOfPollers, WebhookAssumption
         DEF DeliveryInv, TriesAt
    <3> QED BY <3>2, <3>3, <3>4
  <2> QED BY <2>1 DEF DuplicatesBounded
<1> QED BY <1>1, DeliveryInvariant, PTL

=============================================================================
