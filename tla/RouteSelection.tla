--------------------------- MODULE RouteSelection ---------------------------
(***************************************************************************)
(* Which chain a quote recommends: metrics.collector.ts writes health      *)
(* snapshots of the chains, selectRoute of packages/routing-engine scores  *)
(* the chains by their latest snapshots and createQuote stores the result. *)
(* Fees are whole dollars (a Solana transfer costs less than one: 0),      *)
(* rates percentages and scores thousandths, so that the arithmetic is     *)
(* exact.                                                                  *)
(***************************************************************************)
EXTENDS Integers, Sequences, FiniteSetsExt

CONSTANTS
    Ethereum, Solana,
    Loads,        \* how busy a chain may be, in percent
    Down,         \* the load of a chain whose RPC endpoint fails
    Bodies,       \* the figures an operator may post of a chain
    Collectors,   \* calls of the collector's interval that may overlap
    MaxChanges,   \* bound: changes of load and snapshots posted by hand
    MaxFaults,    \* bound: failed INSERTs and crashes of the collector
    Nothing       \* no snapshot, no measurement, no quote, no such figure

ASSUME LoadsAssumption ==
    /\ Ethereum # Solana
    /\ Loads \subseteq {10 * n : n \in 1 .. 10}
    /\ Down \notin Loads
    /\ MaxChanges \in Nat
    /\ MaxFaults \in Nat

(* What an adapter reports of its chain.                                   *)
Measurements == [fee : Nat, seconds : Nat, errors : 0 .. 100, congestion : 0 .. 100]

ASSUME NothingAssumption == Nothing \notin Measurements

(* Each figure may be left out; an error rate is documented to be between  *)
(* 0 and 1.                                                                *)
ASSUME BodiesAssumption ==
    \A body \in Bodies : /\ body.fee \in Nat \cup {Nothing}
                         /\ body.seconds \in Nat \cup {Nothing}
                         /\ body.errors \in (0 .. 100) \cup {Nothing}

SupportedChains == <<Ethereum, Solana>>
Chains == {Ethereum, Solana}
Priorities == {"low_fee", "fast", "reliable"}
Unknown == 999    \* a fee or a time without a measurement

VARIABLES
    network,    \* chain -> its load at present
    snapshot,   \* chain -> its latest row of chain_health_snapshots
    step,       \* collector -> what it does next
    turn,       \* collector -> place in SupportedChains it has come to
    metrics,    \* collector -> what getHealthMetrics returned
    seen,       \* the snapshots a request for a quote has read, or Nothing
    quote,      \* the row stored for the last such request, with the chains
                \* unknown to it, or Nothing
    changes, faults

collecting == <<snapshot, step, turn, metrics>>
quoting == <<seen, quote>>
vars == <<network, collecting, quoting, changes, faults>>

-----------------------------------------------------------------------------
(* Metrics and snapshots.                                                  *)

Metrics(fee, seconds, errors, congestion) ==
    [fee |-> fee, seconds |-> seconds, errors |-> errors, congestion |-> congestion]

(* getHealthMetrics of the two adapters: fixed figures but for Ethereum's  *)
(* fee, which its congestion is derived from, and Solana's congestion.     *)
EthereumMetrics(load) ==
    IF load = Down THEN Metrics(10, 120, 50, 100)
    ELSE Metrics(load \div 10, 75, 1, load)
SolanaMetrics(load) ==
    IF load = Down THEN Metrics(0, 30, 50, 100) ELSE Metrics(0, 8, 2, load)
HealthMetrics(c) ==
    IF c = Ethereum THEN EthereumMetrics(network[c]) ELSE SolanaMetrics(network[c])

HealthStatus(m) ==
    IF m.errors > 30 \/ m.congestion > 80 THEN "unhealthy"
    ELSE IF m.errors > 10 \/ m.congestion > 50 THEN "degraded"
    ELSE "healthy"

Snapshot(m) == [fee |-> m.fee, seconds |-> m.seconds, errors |-> m.errors,
                health |-> HealthStatus(m)]
Fallback == [fee |-> Unknown, seconds |-> Unknown, errors |-> 100,
             health |-> "unhealthy"]

-----------------------------------------------------------------------------
(* Scores.                                                                 *)

Weight(fee, latency, reliability) ==
    [fee |-> fee, latency |-> latency, reliability |-> reliability]

(* In twentieths.                                                          *)
WEIGHTS == [p \in Priorities |->
    IF p = "low_fee" THEN Weight(12, 4, 4)
    ELSE IF p = "fast" THEN Weight(3, 13, 4)
    ELSE Weight(2, 3, 15)]

(* Mutant: what is not known costs nothing.                                *)
FreeUntilKnown(c) ==
    IF seen[c] = Nothing
    THEN [fee |-> 0, seconds |-> 0, reliability |-> 0]
    ELSE [fee |-> seen[c].fee, seconds |-> seen[c].seconds,
          reliability |-> 100 - seen[c].errors]

(* A chain without a snapshot counts as slow, dear and unreliable, but not *)
(* as unhealthy.                                                           *)
RouteMetrics(c) ==
    IF seen[c] = Nothing
    THEN [fee |-> Unknown, seconds |-> Unknown, reliability |-> 0]
    ELSE [fee |-> seen[c].fee, seconds |-> seen[c].seconds,
          reliability |-> 100 - seen[c].errors]
IsHealthy(c) == seen[c] = Nothing \/ seen[c].health # "unhealthy"

(* Normalised by the worst of all chains, disqualified ones included.      *)
MaxFee == Max({1} \cup {RouteMetrics(c).fee : c \in Chains})
MaxSeconds == Max({1} \cup {RouteMetrics(c).seconds : c \in Chains})

(* Mutant: the dearer and the slower the better.                           *)
DearestFirst(c, priority) ==
    LET w == WEIGHTS[priority]
        m == RouteMetrics(c)
        all == MaxFee * MaxSeconds
        sum == 100 * w.fee * m.fee * MaxSeconds
               + 100 * w.latency * m.seconds * MaxFee
               + w.reliability * m.reliability * all
    IN  (sum + all) \div (2 * all)

(* The weighted sum of the three scores, rounded to thousandths.           *)
FinalScore(c, priority) ==
    LET w == WEIGHTS[priority]
        m == RouteMetrics(c)
        all == MaxFee * MaxSeconds
        sum == 100 * w.fee * (MaxFee - m.fee) * MaxSeconds
               + 100 * w.latency * (MaxSeconds - m.seconds) * MaxFee
               + w.reliability * m.reliability * all
    IN  (sum + all) \div (2 * all)

(* A disqualified chain has the score -1.                                  *)
Score(viable, priority) ==
    [c \in Chains |-> IF c \in viable THEN FinalScore(c, priority) ELSE -1000]

(* Mutant: the first of the viable chains.                                 *)
FirstRoute(viable, score) ==
    CHOOSE c \in viable : viable = {c} \/ c = SupportedChains[1]

(* The best of the viable chains, the first of SupportedChains if they tie.*)
SelectBestRoute(viable, score) ==
    CHOOSE c \in viable :
        \A d \in viable \ {c} :
            \/ score[c] > score[d]
            \/ score[c] = score[d] /\ c = SupportedChains[1]

(* Mutant: the score is stored as it is.                                   *)
UnroundedRoutes(score) ==
    [c \in Chains |-> [fee |-> RouteMetrics(c).fee,
                       seconds |-> RouteMetrics(c).seconds,
                       reliability |-> RouteMetrics(c).reliability,
                       final |-> score[c]]]

(* What the response and the quotes table keep of each chain; the score is *)
(* rounded once more, to hundredths.                                       *)
CandidateRoutes(score) ==
    [c \in Chains |-> [fee |-> RouteMetrics(c).fee,
                       seconds |-> RouteMetrics(c).seconds,
                       reliability |-> RouteMetrics(c).reliability,
                       final |-> (score[c] + 5) \div 10]]

-----------------------------------------------------------------------------
Steps == {"asleep", "measure", "insert", "fallback"}
Health == {"healthy", "degraded", "unhealthy"}
Rows == [fee : Nat, seconds : Nat, errors : 0 .. 100, health : Health]
Candidates == [fee : Nat, seconds : Nat, reliability : 0 .. 100,
               final : -100 .. 100]

TypeOK ==
    /\ network \in [Chains -> Loads \cup {Down}]
    /\ snapshot \in [Chains -> Rows \cup {Nothing}]
    /\ step \in [Collectors -> Steps]
    /\ turn \in [Collectors -> 1 .. Len(SupportedChains)]
    /\ metrics \in [Collectors -> Measurements \cup {Nothing}]
    /\ \A k \in Collectors : step[k] = "insert" <=> metrics[k] # Nothing
    /\ seen # Nothing => seen \in [Chains -> Rows \cup {Nothing}]
    /\ quote # Nothing => /\ quote.chain \in Chains
                          /\ quote.unknown \subseteq Chains
                          /\ quote.candidates \in [Chains -> Candidates]
    /\ changes \in 0 .. MaxChanges
    /\ faults \in 0 .. MaxFaults

Init ==
    /\ network \in [Chains -> Loads \cup {Down}]
    /\ snapshot = [c \in Chains |-> Nothing]
    /\ step = [k \in Collectors |-> "asleep"]
    /\ turn = [k \in Collectors |-> 1]
    /\ metrics = [k \in Collectors |-> Nothing]
    /\ seen = Nothing
    /\ quote = Nothing
    /\ changes = 0
    /\ faults = 0

(* External.                                                               *)
LoadChanges(c) ==
    /\ changes < MaxChanges
    /\ changes' = changes + 1
    /\ \E load \in Loads \cup {Down} : network' = [network EXCEPT ![c] = load]
    /\ UNCHANGED <<collecting, quoting, faults>>

OrElse(figure, default) == IF figure # Nothing THEN figure ELSE default

(* POST /admin/chain-health: an operator inserts a snapshot with any       *)
(* status and figures; those left out of the body have defaults (1.83      *)
(* dollars count as 2, 0.02 as 0).                                         *)
PostChainHealth(c, health) ==
    /\ changes < MaxChanges
    /\ changes' = changes + 1
    /\ \E body \in Bodies :
         snapshot' = [snapshot EXCEPT ![c] =
             [fee |-> OrElse(body.fee, IF c = Ethereum THEN 2 ELSE 0),
              seconds |-> OrElse(body.seconds, IF c = Ethereum THEN 75 ELSE 8),
              errors |-> OrElse(body.errors, 1),
              health |-> health]]
    /\ UNCHANGED <<network, step, turn, metrics, quoting, faults>>

Works == UNCHANGED faults
Throws == faults < MaxFaults /\ faults' = faults + 1
Goto(k, s) == step' = [step EXCEPT ![k] = s]
Current(k) == SupportedChains[turn[k]]

(* Mutant: a call is over after one chain.                                 *)
NoNextChain(k) == Goto(k, "asleep") /\ UNCHANGED turn

(* On to the next chain, or the end of the call.                           *)
NextChain(k) ==
    IF turn[k] < Len(SupportedChains)
    THEN Goto(k, "measure") /\ turn' = [turn EXCEPT ![k] = @ + 1]
    ELSE Goto(k, "asleep") /\ turn' = [turn EXCEPT ![k] = 1]

StartCollection(k) ==
    /\ step[k] = "asleep"
    /\ Goto(k, "measure")
    /\ turn' = [turn EXCEPT ![k] = 1]
    /\ UNCHANGED <<network, snapshot, metrics, quoting, changes, faults>>

Measure(k) ==
    /\ step[k] = "measure"
    /\ metrics' = [metrics EXCEPT ![k] = HealthMetrics(Current(k))]
    /\ Goto(k, "insert")
    /\ UNCHANGED <<network, snapshot, turn, quoting, changes, faults>>

(* Rows are stamped when inserted, so the latest is the one inserted last, *)
(* whenever it was measured.                                               *)
InsertSnapshot(k) ==
    LET Insert == snapshot' = [snapshot EXCEPT ![Current(k)] = Snapshot(metrics[k])]
    IN  /\ step[k] = "insert"
        /\ metrics' = [metrics EXCEPT ![k] = Nothing]
        /\ \/ Works /\ Insert /\ NextChain(k)
           \/ /\ Throws
              /\ Insert \/ UNCHANGED snapshot
              /\ Goto(k, "fallback")
              /\ UNCHANGED turn
        /\ UNCHANGED <<network, quoting, changes>>

(* The catch block.  Nobody catches what it throws: the process dies and   *)
(* its successor starts an interval of its own.                            *)
InsertFallback(k) ==
    LET Insert == snapshot' = [snapshot EXCEPT ![Current(k)] = Fallback]
    IN  /\ step[k] = "fallback"
        /\ \/ Works /\ Insert /\ NextChain(k)
           \/ /\ Throws
              /\ Insert \/ UNCHANGED snapshot
              /\ Goto(k, "asleep")
              /\ UNCHANGED turn
        /\ UNCHANGED <<network, metrics, quoting, changes>>

(* createQuote calls selectRoute, which reads the snapshots first ...      *)
ReadSnapshots ==
    /\ seen = Nothing
    /\ seen' = snapshot
    /\ quote' = Nothing
    /\ UNCHANGED <<network, collecting, changes, faults>>

(* ... and then the wallets, whatever they hold by then: `funded` are the  *)
(* chains whose wallet has the amount.  Without a viable chain there is no *)
(* quote.                                                                  *)
CreateQuote ==
    /\ seen # Nothing
    /\ seen' = Nothing
    /\ \E priority \in Priorities, funded \in SUBSET Chains,
          destinations \in SUBSET Chains \ {{}} :
         LET viable == {c \in destinations \cap funded : IsHealthy(c)}
             score == Score(viable, priority)
         IN  quote' = IF viable = {} THEN Nothing
                      ELSE [chain |-> SelectBestRoute(viable, score),
                            unknown |-> {c \in Chains : seen[c] = Nothing},
                            candidates |-> CandidateRoutes(score)]
    /\ UNCHANGED <<network, collecting, changes, faults>>

CollectorStep(k) ==
    StartCollection(k) \/ Measure(k) \/ InsertSnapshot(k) \/ InsertFallback(k)

Next ==
    \/ \E c \in Chains :
         LoadChanges(c) \/ \E health \in Health : PostChainHealth(c, health)
    \/ \E k \in Collectors : CollectorStep(k)
    \/ ReadSnapshots
    \/ CreateQuote

Spec == Init /\ [][Next]_vars

(* The interval keeps firing, and every call of an adapter or of the       *)
(* database ends.  Requests for quotes are up to the merchants.            *)
FairSpec == Spec /\ \A k \in Collectors : WF_vars(CollectorStep(k))

-----------------------------------------------------------------------------
(* The score a merchant is shown for the recommended chain is the highest, *)
(* though it was selected by another rounding of it.                       *)
RecommendedIsBest ==
    quote # Nothing =>
        \A c \in Chains :
            quote.candidates[c].final <= quote.candidates[quote.chain].final

Viable(c) == quote.candidates[c].final >= 0
AtLeastAsGood(a, b) ==
    a.fee <= b.fee /\ a.seconds <= b.seconds /\ a.reliability >= b.reliability

(* Whatever the priority, and however the worst chain stretches the scale, *)
(* a chain is not recommended over one that is no dearer, no slower and no *)
(* less reliable, unless they tie.                                         *)
NotDominated ==
    quote # Nothing =>
        \A c \in Chains :
            LET best == quote.candidates[quote.chain]
            IN  Viable(c) /\ AtLeastAsGood(quote.candidates[c], best) =>
                    quote.candidates[c].final = best.final

(* A chain without a snapshot is the last resort, although it is not       *)
(* disqualified: it is recommended over a viable chain with one only if    *)
(* that chain's posted fee or time exceeds what stands for an unknown one, *)
(* or if it never answers and has no other merit.                          *)
UnknownIsLastResort ==
    quote # Nothing /\ quote.chain \in quote.unknown =>
        \A c \in Chains \ quote.unknown :
            LET route == quote.candidates[c]
            IN  Viable(c) =>
                    \/ route.fee > Unknown \/ route.seconds > Unknown
                    \/ route.reliability = 0 /\ route.final = 0

(* Once the load of a chain stays as it is, its latest snapshot comes to   *)
(* say so for good, whatever went wrong in the database, whichever old     *)
(* measurement was inserted late and whatever an operator posted: neither  *)
(* an outage goes unnoticed nor is a chain kept out by a failed INSERT.    *)
SnapshotsCatchUp ==
    \A c \in Chains :
        <>[](snapshot[c] # Nothing
             /\ snapshot[c].health = HealthStatus(HealthMetrics(c)))
=============================================================================
