--------------------------- MODULE WebhookDelivery ---------------------------
(***************************************************************************)
(* apps/worker-service/src/workers/webhook.worker.ts: every 5 seconds the  *)
(* interval starts deliverPendingWebhooks, whether or not the last call is *)
(* over, in every worker process.  A call queries a batch of undelivered   *)
(* events once and posts them one after the other.                         *)
(***************************************************************************)
EXTENDS Integers, FiniteSets

CONSTANTS
    MaxEvents,    \* bound: rows of webhook_events, numbered as created
    Unreachable,  \* events whose merchant has no webhook_url
    MaxTries,     \* the 5 of `attempts < 5`
    Limit,        \* the 20 of `LIMIT 20`
    Pollers,      \* calls that may overlap
    MaxFaults     \* bound: failed statements and crashes

Events == 1 .. MaxEvents

ASSUME WebhookAssumption ==
    /\ MaxEvents \in Nat
    /\ Unreachable \subseteq Events
    /\ MaxTries \in Nat \ {0}
    /\ Limit \in Nat \ {0}
    /\ IsFiniteSet(Pollers)
    /\ MaxFaults \in Nat

VARIABLES
    created,    \* how many events there are
    delivered,  \* event -> webhook_events.delivered
    attempts,   \* event -> webhook_events.attempts
    posts,      \* event -> POSTs made; the merchant may act upon any of them
    accepted,   \* event -> POSTs the merchant answered with 2xx in time
    phase,      \* poller -> what it does next with the oldest of its batch
    batch,      \* poller -> events left to post
    faults

rows == <<created, delivered, attempts>>
vars == <<rows, posts, accepted, phase, batch, faults>>

Phase == {"sleeping", "post", "mark_delivered", "count_failure", "catch"}

TypeOK ==
    /\ created \in 0 .. MaxEvents
    /\ delivered \in [Events -> BOOLEAN]
    /\ attempts \in [Events -> Nat]
    /\ posts \in [Events -> Nat]
    /\ accepted \in [Events -> Nat]
    /\ phase \in [Pollers -> Phase]
    /\ batch \in [Pollers -> SUBSET Events]
    /\ faults \in 0 .. MaxFaults

Init ==
    /\ created = 0
    /\ delivered = [e \in Events |-> FALSE]
    /\ attempts = [e \in Events |-> 0]
    /\ posts = [e \in Events |-> 0]
    /\ accepted = [e \in Events |-> 0]
    /\ phase = [w \in Pollers |-> "sleeping"]
    /\ batch = [w \in Pollers |-> {}]
    /\ faults = 0

Works == UNCHANGED faults
Throws == faults < MaxFaults /\ faults' = faults + 1
Goto(w, l) == phase' = [phase EXCEPT ![w] = l]

(* emitWebhook of the execution and confirmation workers adds a row.       *)
InsertEvent ==
    /\ created < MaxEvents
    /\ created' = created + 1
    /\ UNCHANGED <<delivered, attempts, posts, accepted, phase, batch, faults>>

(* Mutant: one try too many.                                               *)
PendingOnceMore == {e \in 1 .. created :
                      ~ delivered[e] /\ attempts[e] <= MaxTries /\ e \notin Unreachable}

(* Mutant: an event that failed is not tried again.                        *)
PendingUntried == {e \in 1 .. created :
                     ~ delivered[e] /\ attempts[e] = 0 /\ e \notin Unreachable}

(* Mutant: delivered events are not left out.                              *)
PendingAll == {e \in 1 .. created : attempts[e] < MaxTries /\ e \notin Unreachable}

Pending == {e \in 1 .. created :
              ~ delivered[e] /\ attempts[e] < MaxTries /\ e \notin Unreachable}

(* Mutant: the newest pending events.                                      *)
QueryNewest == {e \in Pending : Cardinality({d \in Pending : d >= e}) <= Limit}

(* The oldest pending events, as many as the limit allows.                 *)
Query == {e \in Pending : Cardinality({d \in Pending : d <= e}) <= Limit}

Poll(w) ==
    /\ phase[w] = "sleeping"
    /\ Pending # {}
    /\ batch' = [batch EXCEPT ![w] = Query]
    /\ Goto(w, "post")
    /\ UNCHANGED <<rows, posts, accepted, faults>>

(* A batch is worked off in the order of its query: the oldest is next.    *)
Current(w) == {e \in batch[w] : \A d \in batch[w] : e <= d}

(* The merchant answers with 2xx, with another status, or not within ten   *)
(* seconds (the fetch throws).  Only the first is acceptance; an event it  *)
(* answers with an error, or too late, it may have taken all the same.     *)
Post(w, e) ==
    /\ phase[w] = "post"
    /\ posts' = [posts EXCEPT ![e] = @ + 1]
    /\ \/ /\ accepted' = [accepted EXCEPT ![e] = @ + 1]
          /\ Goto(w, "mark_delivered")
       \/ /\ UNCHANGED accepted
          /\ Goto(w, "count_failure") \/ Goto(w, "catch")
    /\ UNCHANGED <<rows, batch, faults>>

(* Mutant: counts the tries left.                                          *)
CountDown(e) ==
    /\ attempts' = [attempts EXCEPT ![e] = @ - 1]
    /\ UNCHANGED <<created, delivered>>

CountAttempt(e) ==
    /\ attempts' = [attempts EXCEPT ![e] = @ + 1]
    /\ UNCHANGED <<created, delivered>>

MarkDelivered(e) ==
    /\ attempts' = [attempts EXCEPT ![e] = @ + 1]
    /\ delivered' = [delivered EXCEPT ![e] = TRUE]
    /\ UNCHANGED created

(* On to the next event of the batch, or asleep after the last.            *)
NextEvent(w, e) ==
    LET rest == batch[w] \ {e}
    IN  /\ batch' = [batch EXCEPT ![w] = rest]
        /\ Goto(w, IF rest = {} THEN "sleeping" ELSE "post")

(* When the UPDATE after an answer throws, with or without effect, the     *)
(* catch block counts the attempt (again).                                 *)
Caught(w) == Throws /\ Goto(w, "catch") /\ UNCHANGED batch
Returns(w, e) == Works /\ NextEvent(w, e)

UpdateDelivered(w, e) ==
    /\ phase[w] = "mark_delivered"
    /\ UNCHANGED <<posts, accepted>>
    /\ \/ MarkDelivered(e) /\ (Returns(w, e) \/ Caught(w))
       \/ UNCHANGED rows /\ Caught(w)

(* Mutant: every answer counts as delivery.                                *)
UpdateAnswered(w, e) ==
    /\ phase[w] = "count_failure"
    /\ UNCHANGED <<posts, accepted>>
    /\ \/ MarkDelivered(e) /\ (Returns(w, e) \/ Caught(w))
       \/ UNCHANGED rows /\ Caught(w)

UpdateFailed(w, e) ==
    /\ phase[w] = "count_failure"
    /\ UNCHANGED <<posts, accepted>>
    /\ \/ CountAttempt(e) /\ (Returns(w, e) \/ Caught(w))
       \/ UNCHANGED rows /\ Caught(w)

(* The rest of the batch is given up.                                      *)
Abandon(w) ==
    /\ Goto(w, "sleeping")
    /\ batch' = [batch EXCEPT ![w] = {}]

(* Mutant: a POST that throws is not counted.                              *)
CatchUncounted(w, e) ==
    /\ phase[w] = "catch"
    /\ NextEvent(w, e)
    /\ UNCHANGED <<rows, posts, accepted, faults>>

(* The UPDATE of the catch block.  When it throws, deliverPendingWebhooks  *)
(* does.                                                                   *)
CatchError(w, e) ==
    /\ phase[w] = "catch"
    /\ UNCHANGED <<posts, accepted>>
    /\ \/ CountAttempt(e) /\ Returns(w, e)
       \/ Throws /\ CountAttempt(e) /\ Abandon(w)
       \/ Throws /\ UNCHANGED rows /\ Abandon(w)

(* The process dies, or a graceful shutdown, which waits for no batch, ends *)
(* it; its successor starts with a query of its own.                       *)
PollerCrashes(w) ==
    /\ phase[w] # "sleeping"
    /\ Throws
    /\ Abandon(w)
    /\ UNCHANGED <<rows, posts, accepted>>

PollerStep(w) ==
    \/ Poll(w)
    \/ \E e \in Current(w) :
          Post(w, e) \/ UpdateDelivered(w, e) \/ UpdateFailed(w, e) \/ CatchError(w, e)

Next ==
    \/ InsertEvent
    \/ \E w \in Pollers : PollerStep(w) \/ PollerCrashes(w)

Spec == Init /\ [][Next]_vars

(* The interval keeps firing, and every await of a call ends: a POST after *)
(* 10 seconds at the latest.                                               *)
FairSpec == Spec /\ \A w \in Pollers : WF_vars(PollerStep(w))

-----------------------------------------------------------------------------
(* An event counts as delivered only if its merchant said so, however      *)
(* calls overlap, updates fail or processes die.                           *)
DeliveredWasAccepted == \A e \in Events : delivered[e] => accepted[e] > 0

(* Calls that overlap may each post an event they found pending, once; no  *)
(* event is picked up again when its tries are used up.                    *)
AttemptsBounded ==
    \A e \in Events : attempts[e] < MaxTries + Cardinality(Pollers) + faults

(* The counter tells the POSTs made, but for those under way and those a   *)
(* fault left uncounted or counted twice: the tries of an event are not    *)
(* used up without its merchant being called, nor is it called unboundedly.*)
UnderWay(e) ==
    {w \in Pollers : /\ phase[w] \in {"mark_delivered", "count_failure", "catch"}
                     /\ e \in Current(w)}
AttemptsMatchPosts ==
    \A e \in Events :
        /\ attempts[e] <= posts[e] + faults
        /\ posts[e] <= attempts[e] + Cardinality(UnderWay(e)) + faults

(* How often a merchant takes the same event.  One that answers with 2xx   *)
(* in time is called again only by calls that overlap, once each, and      *)
(* after faults, once each: what is recorded as delivered is not taken up  *)
(* again.  One that takes it and then answers too late, or with an error,  *)
(* takes it at every POST: as often as it has tries, and once more for     *)
(* each other call that overlaps and for each fault.                       *)
DuplicatesBounded ==
    \A e \in Events :
        /\ accepted[e] <= Cardinality(Pollers) + faults
        /\ posts[e] < MaxTries + Cardinality(Pollers) + faults

(* A merchant is called about an event only after it has at least been called   *)
(* about every earlier one, whatever failed, died or was given up between: *)
(* payment.settled does not come before the payment.failed of the try      *)
(* before it was offered.                                                  *)
PostedInOrder ==
    \A f \in Events : posts[f] > 0 =>
        \A e \in (1 .. f - 1) \ Unreachable : posts[e] > 0

(* Every event is delivered or has used up its tries some day: events that *)
(* fail, first in line as they are, do not keep later ones waiting.        *)
EventsConclude ==
    \A e \in Events \ Unreachable :
        e <= created ~> delivered[e] \/ attempts[e] >= MaxTries

=============================================================================
