------------------------ MODULE RouteSelection_proofs ------------------------
(***************************************************************************)
(* Proofs about the choice of a route, for any loads, posted figures and   *)
(* number of collectors.                                                   *)
(***************************************************************************)
EXTENDS RouteSelection, TLAPS

(***************************************************************************)
(* Arithmetic of the scores.                                               *)
(***************************************************************************)

(* Rounding keeps the order.                                               *)
LEMMA DivMonotonic ==
    ASSUME NEW a \in Int, NEW b \in Int, NEW d \in Nat, d > 0, a <= b
    PROVE  a \div d \in Int /\ b \div d \in Int /\ a \div d <= b \div d
<1> DEFINE q == a \div d
           p == b \div d
<1>1. /\ q \in Int /\ d * q <= a /\ a < d * (q + 1)
      /\ p \in Int /\ d * p <= b /\ b < d * (p + 1)
  OBVIOUS
<1> HIDE DEF q, p
<1>2. ASSUME q > p PROVE FALSE
  <2>1. PICK n \in Nat : q = p + 1 + n
    <3>1. q - p - 1 \in Nat /\ q = p + 1 + (q - p - 1)
      BY <1>1, <1>2
    <3> QED BY <3>1
  <2>2. d * q = d * (p + 1) + d * n
    BY <1>1, <2>1
  <2>3. d * n >= 0
    BY <2>1
  <2> QED BY <1>1, <2>2, <2>3
<1>3. q <= p
  BY <1>1, <1>2
<1> QED BY <1>1, <1>3 DEF q, p

LEMMA DivBounds ==
    ASSUME NEW a \in Int, NEW d \in Nat, d > 0, NEW lo \in Int, NEW hi \in Int,
           d * lo <= a, a < d * (hi + 1)
    PROVE  a \div d \in lo .. hi
<1> DEFINE q == a \div d
<1>1. q \in Int /\ d * q <= a /\ a < d * (q + 1)
  OBVIOUS
<1> HIDE DEF q
<1>2. ASSUME q < lo PROVE FALSE
  <2>1. PICK n \in Nat : lo = q + 1 + n
    <3>1. lo - q - 1 \in Nat /\ lo = q + 1 + (lo - q - 1)
      BY <1>1, <1>2
    <3> QED BY <3>1
  <2>2. d * lo = d * (q + 1) + d * n
    BY <1>1, <2>1
  <2>3. d * n >= 0
    BY <2>1
  <2> QED BY <1>1, <2>2, <2>3
<1>3. ASSUME q > hi PROVE FALSE
  <2>1. PICK n \in Nat : q = hi + 1 + n
    <3>1. q - hi - 1 \in Nat /\ q = hi + 1 + (q - hi - 1)
      BY <1>1, <1>3
    <3> QED BY <3>1
  <2>2. d * q = d * (hi + 1) + d * n
    BY <1>1, <2>1
  <2>3. d * n >= 0
    BY <2>1
  <2> QED BY <1>1, <2>2, <2>3
<1>4. q \in lo .. hi
  BY <1>1, <1>2, <1>3
<1> QED BY <1>4 DEF q

(* The larger of two factors gives the larger product.                     *)
LEMMA TimesMonotonic ==
    ASSUME NEW a \in Int, NEW b \in Int, NEW d \in Nat, a <= b
    PROVE  a * d \in Int /\ b * d \in Int /\ a * d <= b * d
<1>1. PICK n \in Nat : b = a + n
  <2>1. b - a \in Nat /\ b = a + (b - a)
    OBVIOUS
  <2> QED BY <2>1
<1>2. b * d = a * d + n * d
  BY <1>1
<1>3. n * d \in Nat
  BY <1>1
<1> QED BY <1>2, <1>3

-----------------------------------------------------------------------------
(***************************************************************************)
(* What is known of a chain when a route is selected.                      *)
(***************************************************************************)

(* What a request for a quote has read of the chains.                      *)
SeenInv == seen \in [Chains -> Rows \cup {Nothing}]

LEMMA RouteMetricsType ==
    ASSUME SeenInv, NEW c \in Chains
    PROVE  /\ RouteMetrics(c).fee \in Nat
           /\ RouteMetrics(c).seconds \in Nat
           /\ RouteMetrics(c).reliability \in 0 .. 100
<1>1. CASE seen[c] = Nothing
  BY <1>1 DEF RouteMetrics, Unknown
<1>2. CASE seen[c] # Nothing
  <2>1. seen[c] \in Rows
    BY <1>2 DEF SeenInv
  <2>2. /\ seen[c].fee \in Nat /\ seen[c].seconds \in Nat
        /\ seen[c].errors \in 0 .. 100
    BY <2>1 DEF Rows
  <2>3. RouteMetrics(c) = [fee |-> seen[c].fee, seconds |-> seen[c].seconds,
                           reliability |-> 100 - seen[c].errors]
    BY <1>2 DEF RouteMetrics
  <2> QED BY <2>2, <2>3
<1> QED BY <1>1, <1>2

(* The scale is one that every figure fits on.                             *)
LEMMA MaxOfThree ==
    ASSUME NEW a \in Nat, NEW b \in Nat
    PROVE  /\ Max({1, a, b}) \in {1, a, b}
           /\ 1 <= Max({1, a, b}) /\ a <= Max({1, a, b}) /\ b <= Max({1, a, b})
<1> DEFINE S == {1, a, b}
<1>1. \E m \in S : \A x \in S : m >= x
  <2>1. CASE a <= 1 /\ b <= 1
    BY <2>1
  <2>2. CASE a > 1 /\ b <= a
    BY <2>2
  <2>3. CASE b > 1 /\ b >= a
    BY <2>3
  <2> QED BY <2>1, <2>2, <2>3
<1>2. Max(S) \in S /\ \A x \in S : Max(S) >= x
  BY <1>1 DEF Max
<1> QED BY <1>2

LEMMA ScaleFits ==
    ASSUME SeenInv
    PROVE  /\ MaxFee \in Nat /\ MaxFee >= 1
           /\ MaxFee \in {1} \cup {RouteMetrics(c).fee : c \in Chains}
           /\ MaxSeconds \in Nat /\ MaxSeconds >= 1
           /\ MaxSeconds \in {1} \cup {RouteMetrics(c).seconds : c \in Chains}
           /\ \A c \in Chains : /\ RouteMetrics(c).fee <= MaxFee
                                /\ RouteMetrics(c).seconds <= MaxSeconds
<1> DEFINE f(c) == RouteMetrics(c).fee
           s(c) == RouteMetrics(c).seconds
<1>1. \A c \in Chains : f(c) \in Nat /\ s(c) \in Nat
  BY RouteMetricsType
<1>2. /\ {1} \cup {f(c) : c \in Chains} = {1, f(Ethereum), f(Solana)}
      /\ {1} \cup {s(c) : c \in Chains} = {1, s(Ethereum), s(Solana)}
      /\ Ethereum \in Chains /\ Solana \in Chains
  BY DEF Chains
<1>3. /\ MaxFee = Max({1} \cup {f(c) : c \in Chains})
      /\ MaxSeconds = Max({1} \cup {s(c) : c \in Chains})
  BY DEF MaxFee, MaxSeconds
<1> HIDE DEF f, s
<1>4. /\ f(Ethereum) \in Nat /\ f(Solana) \in Nat
      /\ s(Ethereum) \in Nat /\ s(Solana) \in Nat
  BY <1>1, <1>2
<1>5. /\ MaxFee \in {1, f(Ethereum), f(Solana)}
      /\ 1 <= MaxFee /\ f(Ethereum) <= MaxFee /\ f(Solana) <= MaxFee
  <2>1. MaxFee = Max({1, f(Ethereum), f(Solana)})
    BY <1>2, <1>3
  <2> QED BY <1>4, <2>1, MaxOfThree
<1>6. /\ MaxSeconds \in {1, s(Ethereum), s(Solana)}
      /\ 1 <= MaxSeconds /\ s(Ethereum) <= MaxSeconds /\ s(Solana) <= MaxSeconds
  <2>1. MaxSeconds = Max({1, s(Ethereum), s(Solana)})
    BY <1>2, <1>3
  <2> QED BY <1>4, <2>1, MaxOfThree
<1>7. \A c \in Chains : f(c) <= MaxFee /\ s(c) <= MaxSeconds
  BY <1>5, <1>6 DEF Chains
<1>8. /\ MaxFee \in Nat /\ MaxFee \in {1} \cup {f(c) : c \in Chains}
      /\ MaxSeconds \in Nat /\ MaxSeconds \in {1} \cup {s(c) : c \in Chains}
  BY <1>2, <1>4, <1>5, <1>6
<1> QED BY <1>5, <1>6, <1>7, <1>8 DEF f, s

LEMMA FiguresFit ==
    ASSUME SeenInv, NEW c \in Chains
    PROVE  /\ MaxFee \in Nat /\ MaxFee >= 1 /\ MaxSeconds \in Nat /\ MaxSeconds >= 1
           /\ RouteMetrics(c).fee \in 0 .. MaxFee
           /\ RouteMetrics(c).seconds \in 0 .. MaxSeconds
           /\ RouteMetrics(c).reliability \in 0 .. 100
<1>1. PICK F \in Nat, S \in Nat : F = MaxFee /\ S = MaxSeconds /\ F >= 1 /\ S >= 1
  BY ScaleFits
<1>2. PICK x \in Nat, y \in Nat : x = RouteMetrics(c).fee /\ y = RouteMetrics(c).seconds
  BY RouteMetricsType
<1>3. x <= F /\ y <= S
  BY <1>1, <1>2, ScaleFits
<1> QED BY <1>1, <1>2, <1>3, RouteMetricsType

-----------------------------------------------------------------------------
(***************************************************************************)
(* The scores: what a chain gets, and what orders two of them.             *)
(***************************************************************************)

(* The sum FinalScore rounds, for figures m on the scale F, S.             *)
Points(w, F, S, m) ==
    100 * w.fee * (F - m.fee) * S + 100 * w.latency * (S - m.seconds) * F
        + w.reliability * m.reliability * (F * S)

LEMMA WeightsAddUp ==
    ASSUME NEW p \in Priorities
    PROVE  /\ WEIGHTS[p].fee \in Nat /\ WEIGHTS[p].latency \in Nat
           /\ WEIGHTS[p].reliability \in Nat /\ WEIGHTS[p].reliability >= 4
           /\ WEIGHTS[p].fee + WEIGHTS[p].latency + WEIGHTS[p].reliability = 20
<1>1. CASE p = "low_fee"
  BY <1>1 DEF WEIGHTS, Weight, Priorities
<1>2. CASE p = "fast"
  BY <1>2 DEF WEIGHTS, Weight, Priorities
<1>3. CASE p = "reliable"
  BY <1>3 DEF WEIGHTS, Weight, Priorities
<1> QED BY <1>1, <1>2, <1>3 DEF Priorities

LEMMA FinalScoreIs ==
    ASSUME NEW c, NEW p
    PROVE  FinalScore(c, p) =
             (Points(WEIGHTS[p], MaxFee, MaxSeconds, RouteMetrics(c)) + MaxFee * MaxSeconds)
                \div (2 * (MaxFee * MaxSeconds))
BY DEF FinalScore, Points

LEMMA ScaleIsPositive ==
    ASSUME NEW F \in Nat, NEW S \in Nat, F >= 1, S >= 1
    PROVE  F * S \in Nat /\ F * S >= 1
<1>1. F * S \in Nat
  OBVIOUS
<1>2. 1 * S <= F * S
  BY TimesMonotonic
<1> QED BY <1>1, <1>2

(* One of the three terms: a weight times how far a figure is from the     *)
(* worst, stretched to the scale of the other.                             *)
LEMMA TermBounds ==
    ASSUME NEW k \in Nat, NEW F \in Nat, NEW S \in Nat, NEW x \in 0 .. F
    PROVE  /\ 100 * k * (F - x) * S \in Nat
           /\ 100 * k * (F - x) * S <= 100 * k * (F * S)
<1> DEFINE h == 100 * k
<1>1. h \in Nat /\ F - x \in Nat /\ F * S \in Nat /\ x * S \in Nat
  OBVIOUS
<1>2. h * (F - x) * S = h * ((F - x) * S)
  BY <1>1
<1>3. (F - x) * S = F * S - x * S
  BY <1>1
<1>4. (F - x) * S \in Nat /\ (F - x) * S <= F * S
  BY <1>1, <1>3
<1> HIDE DEF h
<1>5. ((F - x) * S) * h <= (F * S) * h /\ ((F - x) * S) * h \in Nat
  BY <1>1, <1>4, TimesMonotonic
<1>6. h * (F - x) * S <= h * (F * S) /\ h * (F - x) * S \in Nat
  BY <1>1, <1>2, <1>4, <1>5
<1> QED BY <1>6 DEF h

(* A score is between 0 and 1000 thousandths.                              *)
LEMMA ScoreBounds ==
    ASSUME SeenInv, NEW c \in Chains, NEW p \in Priorities
    PROVE  FinalScore(c, p) \in 0 .. 1000
<1>1. PICK w, F, S, m : w = WEIGHTS[p] /\ F = MaxFee /\ S = MaxSeconds
                        /\ m = RouteMetrics(c)
  OBVIOUS
<1>2. /\ F \in Nat /\ S \in Nat /\ F >= 1 /\ S >= 1
      /\ m.fee \in 0 .. F /\ m.seconds \in 0 .. S /\ m.reliability \in 0 .. 100
  BY <1>1, FiguresFit
<1>3. /\ w.fee \in Nat /\ w.latency \in Nat /\ w.reliability \in Nat
      /\ w.fee + w.latency + w.reliability = 20
  BY <1>1, WeightsAddUp
<1>4. PICK all \in Nat : all = F * S /\ all = S * F /\ all >= 1
  BY <1>2, ScaleIsPositive
<1>5. PICK a \in Nat : a = 100 * w.fee * (F - m.fee) * S /\ a <= 100 * w.fee * all
  BY <1>2, <1>3, <1>4, TermBounds
<1>6. PICK b \in Nat : b = 100 * w.latency * (S - m.seconds) * F
                       /\ b <= 100 * w.latency * all
  BY <1>2, <1>3, <1>4, TermBounds
<1>7. PICK d \in Nat : d = w.reliability * m.reliability * all
                       /\ d <= 100 * w.reliability * all
  <2>1. m.reliability \in Nat /\ m.reliability <= 100
    BY <1>2
  <2>2. m.reliability * w.reliability <= 100 * w.reliability
    BY <1>3, <2>1, TimesMonotonic
  <2>3. PICK x, y \in Nat : x = w.reliability * m.reliability /\ y = 100 * w.reliability
                            /\ x <= y
    BY <1>3, <2>1, <2>2
  <2>4. x * all \in Nat /\ x * all <= y * all
    BY <1>4, <2>3, TimesMonotonic
  <2> QED BY <2>3, <2>4
<1>8. a + b + d <= 2000 * all
  <2>1. 100 * w.fee * all + 100 * w.latency * all + 100 * w.reliability * all
          = (100 * (w.fee + w.latency + w.reliability)) * all
    BY <1>3, <1>4
  <2>2. 100 * (w.fee + w.latency + w.reliability) = 2000
    BY <1>3
  <2>3. 100 * w.fee * all \in Nat /\ 100 * w.latency * all \in Nat
        /\ 100 * w.reliability * all \in Nat
    BY <1>3, <1>4
  <2> QED BY <1>5, <1>6, <1>7, <2>1, <2>2, <2>3
<1>9. FinalScore(c, p) = (a + b + d + all) \div (2 * all)
  BY <1>1, <1>4, <1>5, <1>6, <1>7, FinalScoreIs DEF Points
<1>10. (a + b + d + all) \div (2 * all) \in 0 .. 1000
  <2>1. /\ a + b + d + all \in Int /\ 2 * all \in Nat /\ 2 * all > 0
        /\ (2 * all) * 0 <= a + b + d + all
        /\ a + b + d + all < (2 * all) * (1000 + 1)
    BY <1>4, <1>5, <1>6, <1>7, <1>8
  <2> QED BY <2>1, DivBounds
<1> QED BY <1>9, <1>10

(* No worse in anything, no lower score: whatever the weights, and however *)
(* far the worst chain stretches the scale.                                *)
LEMMA ScoreMonotonic ==
    ASSUME SeenInv, NEW c \in Chains, NEW e \in Chains, NEW p \in Priorities,
           RouteMetrics(c).fee <= RouteMetrics(e).fee,
           RouteMetrics(c).seconds <= RouteMetrics(e).seconds,
           RouteMetrics(c).reliability >= RouteMetrics(e).reliability
    PROVE  FinalScore(c, p) >= FinalScore(e, p)
<1>1. PICK w, F, S, m, n : w = WEIGHTS[p] /\ F = MaxFee /\ S = MaxSeconds
                           /\ m = RouteMetrics(c) /\ n = RouteMetrics(e)
  OBVIOUS
<1>2. /\ F \in Nat /\ S \in Nat /\ F >= 1 /\ S >= 1
      /\ m.fee \in 0 .. F /\ m.seconds \in 0 .. S /\ m.reliability \in 0 .. 100
      /\ n.fee \in 0 .. F /\ n.seconds \in 0 .. S /\ n.reliability \in 0 .. 100
      /\ m.fee <= n.fee /\ m.seconds <= n.seconds /\ m.reliability >= n.reliability
  BY <1>1, FiguresFit
<1>3. w.fee \in Nat /\ w.latency \in Nat /\ w.reliability \in Nat
  BY <1>1, WeightsAddUp
<1>4. PICK all \in Nat : all = F * S /\ all >= 1
  BY <1>2, ScaleIsPositive
<1>5. ASSUME NEW k \in Nat, NEW T \in Nat, NEW x \in Int, NEW y \in Int, x <= y
      PROVE  /\ 100 * k * x * T \in Int /\ 100 * k * y * T \in Int
             /\ 100 * k * x * T <= 100 * k * y * T
  <2>1. x * (100 * k) <= y * (100 * k)
    BY <1>5, TimesMonotonic
  <2>2. PICK u, v \in Int : u = 100 * k * x /\ v = 100 * k * y /\ u <= v
    BY <2>1
  <2>3. u * T <= v * T
    BY <2>2, TimesMonotonic
  <2> QED BY <2>2, <2>3
<1>6. PICK a, a2 \in Int : /\ a = 100 * w.fee * (F - m.fee) * S
                           /\ a2 = 100 * w.fee * (F - n.fee) * S
                           /\ a2 <= a
  <2>1. PICK k \in Nat, x \in Int, y \in Int :
          k = w.fee /\ x = F - n.fee /\ y = F - m.fee /\ x <= y
    BY <1>2, <1>3
  <2>2. /\ 100 * k * x * S \in Int /\ 100 * k * y * S \in Int
        /\ 100 * k * x * S <= 100 * k * y * S
    BY <1>2, <1>5, <2>1
  <2> QED BY <2>1, <2>2
<1>7. PICK b, b2 \in Int : /\ b = 100 * w.latency * (S - m.seconds) * F
                           /\ b2 = 100 * w.latency * (S - n.seconds) * F
                           /\ b2 <= b
  <2>1. PICK k \in Nat, x \in Int, y \in Int :
          k = w.latency /\ x = S - n.seconds /\ y = S - m.seconds /\ x <= y
    BY <1>2, <1>3
  <2>2. /\ 100 * k * x * F \in Int /\ 100 * k * y * F \in Int
        /\ 100 * k * x * F <= 100 * k * y * F
    BY <1>2, <1>5, <2>1
  <2> QED BY <2>1, <2>2
<1>8. PICK d, d2 \in Int : /\ d = w.reliability * m.reliability * all
                           /\ d2 = w.reliability * n.reliability * all
                           /\ d2 <= d
  <2>0. PICK k \in Nat, x \in Int, y \in Int :
          k = w.reliability /\ x = n.reliability /\ y = m.reliability /\ x <= y
    <3>1. w.reliability \in Nat
      BY <1>3
    <3>2. n.reliability \in Int /\ m.reliability \in Int
      BY <1>2
    <3>3. n.reliability <= m.reliability
      BY <1>2, <3>2
    <3> QED BY <3>1, <3>2, <3>3
  <2>1. x * k \in Int /\ y * k \in Int /\ x * k <= y * k
    BY <2>0, TimesMonotonic
  <2>2. PICK u, v \in Int : u = w.reliability * n.reliability
                            /\ v = w.reliability * m.reliability /\ u <= v
    BY <2>0, <2>1
  <2>3. u * all <= v * all
    BY <1>4, <2>2, TimesMonotonic
  <2> QED BY <1>4, <2>2, <2>3
<1>9. /\ FinalScore(c, p) = (a + b + d + all) \div (2 * all)
      /\ FinalScore(e, p) = (a2 + b2 + d2 + all) \div (2 * all)
  BY <1>1, <1>4, <1>6, <1>7, <1>8, FinalScoreIs DEF Points
<1>10. /\ a + b + d + all \in Int /\ a2 + b2 + d2 + all \in Int
       /\ a2 + b2 + d2 + all <= a + b + d + all
       /\ 2 * all \in Nat /\ 2 * all > 0
  BY <1>4, <1>6, <1>7, <1>8
<1> QED BY <1>9, <1>10, DivMonotonic

(* A chain nothing is known of has no points unless another is worse.      *)
LEMMA UnknownScoresNothing ==
    ASSUME SeenInv, NEW c \in Chains, seen[c] = Nothing, NEW p \in Priorities,
           \A d \in Chains : /\ RouteMetrics(d).fee <= Unknown
                             /\ RouteMetrics(d).seconds <= Unknown
    PROVE  FinalScore(c, p) = 0
<1>1. PICK w, F, S, m : w = WEIGHTS[p] /\ F = MaxFee /\ S = MaxSeconds
                        /\ m = RouteMetrics(c)
  OBVIOUS
<1>2. m.fee = Unknown /\ m.seconds = Unknown /\ m.reliability = 0
  BY <1>1 DEF RouteMetrics
<1>3. F = Unknown /\ S = Unknown
  <2>1. F \in Nat /\ S \in Nat /\ m.fee <= F /\ m.seconds <= S
    BY <1>1, ScaleFits
  <2>2. F <= Unknown /\ S <= Unknown
    <3>1. \A n \in {1} \cup {RouteMetrics(d).fee : d \in Chains} : n <= Unknown
      BY DEF Unknown
    <3>2. \A n \in {1} \cup {RouteMetrics(d).seconds : d \in Chains} : n <= Unknown
      BY DEF Unknown
    <3>3. /\ F \in {1} \cup {RouteMetrics(d).fee : d \in Chains}
          /\ S \in {1} \cup {RouteMetrics(d).seconds : d \in Chains}
      BY <1>1, ScaleFits
    <3> QED BY <3>1, <3>2, <3>3
  <2> QED BY <1>2, <2>1, <2>2 DEF Unknown
<1>4. w.fee \in Nat /\ w.latency \in Nat /\ w.reliability \in Nat
  BY <1>1, WeightsAddUp
<1>5. /\ F - m.fee = 0 /\ S - m.seconds = 0 /\ F * S \in Nat /\ F * S >= 1
      /\ F \in Nat /\ S \in Nat
  BY <1>2, <1>3 DEF Unknown
<1>6. Points(w, F, S, m) = 100 * w.fee * 0 * S + 100 * w.latency * 0 * F
                             + w.reliability * 0 * (F * S)
  BY <1>2, <1>5 DEF Points
<1>7. Points(w, F, S, m) = 0
  BY <1>4, <1>5, <1>6
<1>8. PICK all \in Nat : all = F * S /\ all >= 1
  BY <1>5
<1>9. (0 + all) \div (2 * all) \in 0 .. 0
  <2>1. (2 * all) * 0 <= 0 + all /\ 0 + all < (2 * all) * (0 + 1)
    BY <1>8
  <2> QED BY <1>8, <2>1, DivBounds
<1>10. FinalScore(c, p) = (0 + all) \div (2 * all)
  BY <1>1, <1>7, <1>8, FinalScoreIs
<1> QED BY <1>9, <1>10

(* A chain that ever answers has some.                                     *)
LEMMA ReliableScores ==
    ASSUME SeenInv, NEW c \in Chains, NEW p \in Priorities,
           RouteMetrics(c).reliability >= 1
    PROVE  FinalScore(c, p) > 0
<1>1. PICK w, F, S, m : w = WEIGHTS[p] /\ F = MaxFee /\ S = MaxSeconds
                        /\ m = RouteMetrics(c)
  OBVIOUS
<1>2. /\ F \in Nat /\ S \in Nat /\ F >= 1 /\ S >= 1
      /\ m.fee \in 0 .. F /\ m.seconds \in 0 .. S
      /\ m.reliability \in 0 .. 100 /\ m.reliability >= 1
  BY <1>1, FiguresFit
<1>3. /\ w.fee \in Nat /\ w.latency \in Nat
      /\ w.reliability \in Nat /\ w.reliability >= 4
  BY <1>1, WeightsAddUp
<1>4. PICK all \in Nat : all = F * S /\ all = S * F /\ all >= 1
  BY <1>2, ScaleIsPositive
<1>5. PICK a \in Nat : a = 100 * w.fee * (F - m.fee) * S
  BY <1>2, <1>3, TermBounds
<1>6. PICK b \in Nat : b = 100 * w.latency * (S - m.seconds) * F
  BY <1>2, <1>3, TermBounds
<1>7. PICK d \in Nat : d = w.reliability * m.reliability * all /\ d >= all
  <2>1. PICK k \in Nat, x \in Nat : k = w.reliability /\ x = m.reliability
                                    /\ k >= 1 /\ x >= 1
    <3>1. w.reliability \in Nat /\ w.reliability >= 1
      BY <1>3
    <3>2. m.reliability \in Nat /\ m.reliability >= 1
      BY <1>2
    <3> QED BY <3>1, <3>2
  <2>2. k * x \in Nat /\ k * x >= 1
    BY <2>1, ScaleIsPositive
  <2>3. 1 * all <= (k * x) * all /\ (k * x) * all \in Int
    BY <1>4, <2>2, TimesMonotonic
  <2> QED BY <1>4, <2>1, <2>3
<1>8. FinalScore(c, p) = (a + b + d + all) \div (2 * all)
  BY <1>1, <1>4, <1>5, <1>6, <1>7, FinalScoreIs DEF Points
<1>9. /\ 2 * all \in Int /\ a + b + d + all \in Int /\ 2 * all <= a + b + d + all
      /\ 2 * all \in Nat /\ 2 * all > 0
  BY <1>4, <1>5, <1>6, <1>7
<1>10. (2 * all) \div (2 * all) <= (a + b + d + all) \div (2 * all)
       /\ (a + b + d + all) \div (2 * all) \in Int
  BY <1>9, DivMonotonic
<1>11. (2 * all) \div (2 * all) \in 1 .. 1
  <2>1. (2 * all) * 1 <= 2 * all /\ 2 * all < (2 * all) * (1 + 1)
    BY <1>4
  <2> QED BY <1>9, <2>1, DivBounds
<1> QED BY <1>8, <1>10, <1>11

-----------------------------------------------------------------------------
(***************************************************************************)
(* The choice.                                                             *)
(***************************************************************************)

(* The recommended chain is viable, and none of the viable ones scores     *)
(* higher.                                                                 *)
LEMMA BestExists ==
    ASSUME NEW viable \in SUBSET Chains, viable # {}, NEW score,
           \A c \in viable : score[c] \in Int
    PROVE  LET best == SelectBestRoute(viable, score)
           IN  best \in viable /\ \A c \in viable : score[c] <= score[best]
<1> DEFINE Best(c) == \A d \in viable \ {c} :
                         \/ score[c] > score[d]
                         \/ score[c] = score[d] /\ c = SupportedChains[1]
<1>0. SupportedChains[1] = Ethereum
  BY DEF SupportedChains
<1>1. \E c \in viable : Best(c)
  <2>1. CASE \E e : viable = {e}
    BY <2>1
  <2>2. CASE viable = {Ethereum, Solana}
    <3>1. CASE score[Ethereum] >= score[Solana]
      <4>1. Best(Ethereum)
        BY <1>0, <2>2, <3>1, LoadsAssumption
      <4> QED BY <2>2, <4>1
    <3>2. CASE score[Solana] > score[Ethereum]
      <4>1. Best(Solana)
        BY <2>2, <3>2
      <4> QED BY <2>2, <4>1
    <3> QED BY <2>2, <3>1, <3>2
  <2>3. viable = {Ethereum} \/ viable = {Solana} \/ viable = {Ethereum, Solana}
    BY DEF Chains
  <2> QED BY <2>1, <2>2, <2>3
<1>2. PICK best : best = SelectBestRoute(viable, score)
  OBVIOUS
<1>3. best \in viable /\ Best(best)
  BY <1>1, <1>2 DEF SelectBestRoute
<1>4. \A c \in viable : score[c] <= score[best]
  BY <1>3
<1> QED BY <1>2, <1>3, <1>4

LEMMA ScoresOf ==
    ASSUME SeenInv, NEW p \in Priorities, NEW viable \in SUBSET Chains, NEW c \in Chains
    PROVE  /\ c \in viable => /\ Score(viable, p)[c] = FinalScore(c, p)
                              /\ Score(viable, p)[c] \in Nat
                              /\ Score(viable, p)[c] <= 1000
           /\ c \notin viable => Score(viable, p)[c] = -1000
<1>1. FinalScore(c, p) \in Nat /\ FinalScore(c, p) <= 1000
  BY ScoreBounds
<1> QED BY <1>1 DEF Score

(* The second rounding keeps the order, too, and tells a viable chain from *)
(* a disqualified one.                                                     *)
LEMMA HundredthsOf ==
    ASSUME NEW a \in Int, NEW b \in Int, a <= b, b <= 1000, a >= -1000
    PROVE  /\ (a + 5) \div 10 \in -100 .. 100 /\ (b + 5) \div 10 \in -100 .. 100
           /\ (a + 5) \div 10 <= (b + 5) \div 10
           /\ a = -1000 => (a + 5) \div 10 < 0
OBVIOUS

(* What holds of every quote: its recommendation is the best there is, is  *)
(* not dominated, and is a guess only if what is known is no better.       *)
GoodQuote(q) ==
    LET best == q.candidates[q.chain]
    IN  /\ q.chain \in Chains
        /\ q.candidates \in [Chains -> Candidates]
        /\ \A c \in Chains : q.candidates[c].final <= best.final
        /\ \A c \in Chains :
             q.candidates[c].final >= 0 /\ AtLeastAsGood(q.candidates[c], best) =>
                 q.candidates[c].final = best.final
        /\ q.unknown \subseteq Chains
        /\ q.chain \in q.unknown =>
             \A c \in Chains \ q.unknown :
                 q.candidates[c].final >= 0 =>
                     \/ q.candidates[c].fee > Unknown
                     \/ q.candidates[c].seconds > Unknown
                     \/ q.candidates[c].reliability = 0 /\ q.candidates[c].final = 0

LEMMA SelectionIsGood ==
    ASSUME SeenInv, NEW p \in Priorities, NEW viable \in SUBSET Chains, viable # {}
    PROVE  GoodQuote([chain |-> SelectBestRoute(viable, Score(viable, p)),
                      unknown |-> {c \in Chains : seen[c] = Nothing},
                      candidates |-> CandidateRoutes(Score(viable, p))])
<1>1. PICK score : score = Score(viable, p)
  OBVIOUS
<1>2. PICK best : best = SelectBestRoute(viable, score)
  OBVIOUS
<1>3. PICK can : can = CandidateRoutes(score)
  OBVIOUS
<1>4. \A c \in Chains : /\ c \in viable => /\ score[c] = FinalScore(c, p)
                                           /\ score[c] \in Nat /\ score[c] <= 1000
                        /\ c \notin viable => score[c] = -1000
  BY <1>1, ScoresOf
<1>5. best \in viable /\ \A c \in viable : score[c] <= score[best]
  <2>1. \A c \in viable : score[c] \in Nat
    BY <1>4
  <2>2. \A c \in viable : score[c] \in Int
    BY <2>1
  <2> QED BY <1>2, <2>2, BestExists
<1>6. \A c \in Chains : /\ score[c] \in Int /\ score[c] <= score[best]
                        /\ score[best] <= 1000 /\ score[c] >= -1000
  <2> SUFFICES ASSUME NEW c \in Chains
               PROVE  /\ score[c] \in Int /\ score[c] <= score[best]
                      /\ score[best] <= 1000 /\ score[c] >= -1000
    OBVIOUS
  <2>1. score[best] \in Nat /\ score[best] <= 1000
    BY <1>4, <1>5
  <2>2. CASE c \in viable
    <3>1. score[c] \in Nat /\ score[c] <= score[best]
      BY <1>4, <1>5, <2>2
    <3> QED BY <2>1, <3>1
  <2>3. CASE c \notin viable
    <3>1. score[c] = -1000
      BY <1>4, <2>3
    <3> QED BY <2>1, <3>1
  <2> QED BY <2>2, <2>3
<1>7. /\ DOMAIN can = Chains
      /\ \A c \in Chains :
           can[c] = [fee |-> RouteMetrics(c).fee, seconds |-> RouteMetrics(c).seconds,
                     reliability |-> RouteMetrics(c).reliability,
                     final |-> (score[c] + 5) \div 10]
  BY <1>3 DEF CandidateRoutes
<1>8. \A c \in Chains : /\ can[c].fee = RouteMetrics(c).fee
                        /\ can[c].seconds = RouteMetrics(c).seconds
                        /\ can[c].reliability = RouteMetrics(c).reliability
                        /\ can[c].final = (score[c] + 5) \div 10
  BY <1>7
<1>9. \A c \in Chains : /\ can[c].final \in -100 .. 100
                        /\ can[c].final <= can[best].final
                        /\ can[c].final >= 0 => c \in viable
  <2> SUFFICES ASSUME NEW c \in Chains
               PROVE  /\ can[c].final \in -100 .. 100
                      /\ can[c].final <= can[best].final
                      /\ can[c].final >= 0 => c \in viable
    OBVIOUS
  <2>1. PICK a \in Int, b \in Int : /\ a = score[c] /\ b = score[best]
                                    /\ a <= b /\ b <= 1000 /\ a >= -1000
    BY <1>5, <1>6
  <2>2. can[c].final = (a + 5) \div 10 /\ can[best].final = (b + 5) \div 10
    BY <1>5, <1>8, <2>1
  <2>3. /\ can[c].final \in -100 .. 100 /\ can[c].final <= can[best].final
        /\ a = -1000 => can[c].final < 0
    BY <2>1, <2>2, HundredthsOf
  <2> QED BY <1>4, <2>1, <2>3
<1>10. can \in [Chains -> Candidates]
  <2>1. ASSUME NEW c \in Chains PROVE can[c] \in Candidates
    <3>1. /\ RouteMetrics(c).fee \in Nat /\ RouteMetrics(c).seconds \in Nat
          /\ RouteMetrics(c).reliability \in 0 .. 100
      BY RouteMetricsType
    <3>2. (score[c] + 5) \div 10 \in -100 .. 100
      BY <1>8, <1>9
    <3> QED BY <1>7, <3>1, <3>2 DEF Candidates
  <2>2. can = [c \in Chains |-> can[c]]
    BY <1>3 DEF CandidateRoutes
  <2> QED BY <2>1, <2>2
<1>11. ASSUME NEW c \in Chains, can[c].final >= 0, AtLeastAsGood(can[c], can[best])
       PROVE  can[c].final = can[best].final
  <2>1. c \in viable
    BY <1>9, <1>11
  <2>2. FinalScore(c, p) >= FinalScore(best, p)
    <3>1. /\ RouteMetrics(c).fee <= RouteMetrics(best).fee
          /\ RouteMetrics(c).seconds <= RouteMetrics(best).seconds
          /\ RouteMetrics(c).reliability >= RouteMetrics(best).reliability
      BY <1>5, <1>8, <1>11 DEF AtLeastAsGood
    <3> QED BY <1>5, <3>1, ScoreMonotonic
  <2>3. score[c] = score[best]
    <3>1. score[c] >= score[best]
      BY <1>4, <1>5, <2>1, <2>2
    <3> QED BY <1>5, <1>6, <3>1
  <2> QED BY <1>5, <1>8, <2>3
<1>12. ASSUME seen[best] = Nothing, NEW c \in Chains, seen[c] # Nothing,
              can[c].final >= 0, can[c].fee <= Unknown, can[c].seconds <= Unknown
       PROVE  can[c].reliability = 0 /\ can[c].final = 0
  <2>1. c \in viable /\ best \in Chains /\ c # best
    BY <1>5, <1>9, <1>12
  <2>2. \A d \in Chains : d = best \/ d = c
    BY <2>1 DEF Chains
  <2>3. \A d \in Chains : RouteMetrics(d).fee <= Unknown /\ RouteMetrics(d).seconds <= Unknown
    <3>1. RouteMetrics(c).fee <= Unknown /\ RouteMetrics(c).seconds <= Unknown
      BY <1>8, <1>12
    <3>2. RouteMetrics(best).fee <= Unknown /\ RouteMetrics(best).seconds <= Unknown
      BY <1>12 DEF RouteMetrics, Unknown
    <3> QED BY <2>2, <3>1, <3>2
  <2>4. score[best] = 0
    BY <1>4, <1>5, <1>12, <2>1, <2>3, UnknownScoresNothing
  <2>5. score[c] = 0 /\ FinalScore(c, p) = 0
    <3>1. score[c] \in Nat /\ score[c] <= 0
      BY <1>4, <1>5, <2>1, <2>4
    <3> QED BY <1>4, <2>1, <3>1
  <2>6. RouteMetrics(c).reliability = 0
    <3>1. RouteMetrics(c).reliability \in Nat
      BY RouteMetricsType
    <3>2. ~(RouteMetrics(c).reliability >= 1)
      BY <2>5, ReliableScores
    <3> QED BY <3>1, <3>2
  <2>7. can[c].final = 0
    BY <1>8, <2>5
  <2> QED BY <1>8, <2>6, <2>7
<1>13. PICK q : q = [chain |-> best, unknown |-> {c \in Chains : seen[c] = Nothing},
                     candidates |-> can]
  OBVIOUS
<1>14. /\ q.chain = best /\ q.candidates = can /\ best \in Chains
       /\ q.unknown = {c \in Chains : seen[c] = Nothing}
  BY <1>5, <1>13
<1>15. ASSUME q.chain \in q.unknown, NEW c \in Chains \ q.unknown,
              q.candidates[c].final >= 0
       PROVE  \/ q.candidates[c].fee > Unknown
              \/ q.candidates[c].seconds > Unknown
              \/ q.candidates[c].reliability = 0 /\ q.candidates[c].final = 0
  <2>1. /\ seen[best] = Nothing /\ c \in Chains /\ seen[c] # Nothing
        /\ can[c].final >= 0
    BY <1>14, <1>15
  <2>2. can[c].fee \in Nat /\ can[c].seconds \in Nat
    BY <1>8, <2>1, RouteMetricsType
  <2>3. CASE can[c].fee <= Unknown /\ can[c].seconds <= Unknown
    BY <1>12, <1>14, <2>1, <2>3
  <2>4. CASE ~(can[c].fee <= Unknown /\ can[c].seconds <= Unknown)
    BY <1>14, <2>2, <2>4 DEF Unknown
  <2> QED BY <2>3, <2>4
<1>16. GoodQuote(q)
  BY <1>9, <1>10, <1>11, <1>14, <1>15 DEF GoodQuote
<1> QED BY <1>1, <1>2, <1>3, <1>13, <1>16

-----------------------------------------------------------------------------
(***************************************************************************)
(* The invariant of the whole: rows are rows, whoever wrote them, and      *)
(* every stored quote is good.                                             *)
(***************************************************************************)
RouteInv == TypeOK /\ (quote # Nothing => GoodQuote(quote))

LEMMA RouteStart == Init => RouteInv
<1> SUFFICES ASSUME Init PROVE RouteInv
  OBVIOUS
<1>1. Len(SupportedChains) = 2
  BY DEF SupportedChains
<1>2. TypeOK
  BY <1>1, LoadsAssumption DEF Init, TypeOK, Steps
<1>3. quote = Nothing
  BY DEF Init
<1> QED BY <1>2, <1>3 DEF RouteInv

(* An adapter reports figures in their ranges.                             *)
LEMMA MeasurementsType ==
    ASSUME TypeOK, NEW c \in Chains
    PROVE  HealthMetrics(c) \in Measurements /\ HealthMetrics(c) # Nothing
<1>1. PICK load : load = network[c] /\ load \in Loads \cup {Down}
  BY DEF TypeOK
<1>2. \A l \in Loads : \E n \in 1 .. 10 : l = 10 * n
  BY LoadsAssumption
<1>3. ASSUME load # Down
      PROVE  load \in 0 .. 100 /\ load \div 10 \in 0 .. 10
  <2>1. PICK n \in 1 .. 10 : load = 10 * n
    BY <1>1, <1>2, <1>3
  <2> QED BY <2>1
<1>4. EthereumMetrics(load) \in Measurements
  <2>1. CASE load = Down
    BY <2>1 DEF EthereumMetrics, Metrics, Measurements
  <2>2. CASE load # Down
    <3>1. PICK fee \in 0 .. 10 : fee = load \div 10
      BY <1>3, <2>2
    <3>2. EthereumMetrics(load) = [fee |-> fee, seconds |-> 75, errors |-> 1,
                                   congestion |-> load]
      BY <2>2, <3>1 DEF EthereumMetrics, Metrics
    <3> QED BY <1>3, <2>2, <3>2 DEF Measurements
  <2> QED BY <2>1, <2>2
<1>5. SolanaMetrics(load) \in Measurements
  <2>1. CASE load = Down
    BY <2>1 DEF SolanaMetrics, Metrics, Measurements
  <2>2. CASE load # Down
    <3>1. SolanaMetrics(load) = [fee |-> 0, seconds |-> 8, errors |-> 2,
                                 congestion |-> load]
      BY <2>2 DEF SolanaMetrics, Metrics
    <3> QED BY <1>3, <2>2, <3>1 DEF Measurements
  <2> QED BY <2>1, <2>2
<1> QED BY <1>1, <1>4, <1>5, NothingAssumption DEF HealthMetrics

(* What each of the writers inserts is a row.                              *)
LEMMA SnapshotType ==
    ASSUME NEW m \in Measurements
    PROVE  Snapshot(m) \in Rows
<1>1. m.fee \in Nat /\ m.seconds \in Nat /\ m.errors \in 0 .. 100
  BY DEF Measurements
<1>2. HealthStatus(m) \in Health
  BY DEF HealthStatus, Health
<1> QED BY <1>1, <1>2 DEF Snapshot, Rows

LEMMA FallbackType == Fallback \in Rows
BY DEF Fallback, Rows, Unknown, Health

LEMMA PostedType ==
    ASSUME NEW c \in Chains, NEW health \in Health, NEW body \in Bodies
    PROVE  [fee |-> OrElse(body.fee, IF c = Ethereum THEN 2 ELSE 0),
            seconds |-> OrElse(body.seconds, IF c = Ethereum THEN 75 ELSE 8),
            errors |-> OrElse(body.errors, 1),
            health |-> health] \in Rows
<1>1. PICK f, s, e : /\ f = OrElse(body.fee, IF c = Ethereum THEN 2 ELSE 0)
                     /\ s = OrElse(body.seconds, IF c = Ethereum THEN 75 ELSE 8)
                     /\ e = OrElse(body.errors, 1)
  OBVIOUS
<1>2. f \in Nat
  BY <1>1, BodiesAssumption DEF OrElse
<1>3. s \in Nat
  BY <1>1, BodiesAssumption DEF OrElse
<1>4. e \in 0 .. 100
  BY <1>1, BodiesAssumption DEF OrElse
<1>5. [fee |-> f, seconds |-> s, errors |-> e, health |-> health] \in Rows
  BY <1>2, <1>3, <1>4 DEF Rows
<1> QED BY <1>1, <1>5

-----------------------------------------------------------------------------
LEMMA TurnsAreTwo == Len(SupportedChains) = 2 /\ 1 .. Len(SupportedChains) = 1 .. 2
                     /\ \A n \in 1 .. 2 : SupportedChains[n] \in Chains
BY DEF SupportedChains, Chains

(* A new row of one chain.                                                 *)
LEMMA RowsStay ==
    ASSUME TypeOK, NEW c \in Chains, NEW row \in Rows,
           snapshot' = [snapshot EXCEPT ![c] = row] \/ UNCHANGED snapshot
    PROVE  snapshot' \in [Chains -> Rows \cup {Nothing}]
<1>1. snapshot \in [Chains -> Rows \cup {Nothing}]
  BY DEF TypeOK
<1> QED BY <1>1

(* A collector that moves on stays where a collector can be.               *)
LEMMA CollectorMoves ==
    ASSUME TypeOK, NEW k \in Collectors, NEW s \in Steps, NEW n \in 1 .. 2, NEW m,
           m \in Measurements \cup {Nothing}, s = "insert" <=> m # Nothing,
           step' = [step EXCEPT ![k] = s],
           turn' = [turn EXCEPT ![k] = n],
           metrics' = [metrics EXCEPT ![k] = m]
    PROVE  /\ step' \in [Collectors -> Steps]
           /\ turn' \in [Collectors -> 1 .. Len(SupportedChains)]
           /\ metrics' \in [Collectors -> Measurements \cup {Nothing}]
           /\ \A j \in Collectors : step'[j] = "insert" <=> metrics'[j] # Nothing
<1>1. /\ step \in [Collectors -> Steps] /\ turn \in [Collectors -> 1 .. 2]
      /\ metrics \in [Collectors -> Measurements \cup {Nothing}]
      /\ \A j \in Collectors : step[j] = "insert" <=> metrics[j] # Nothing
  BY TurnsAreTwo DEF TypeOK
<1>2. /\ step' \in [Collectors -> Steps] /\ turn' \in [Collectors -> 1 .. 2]
      /\ metrics' \in [Collectors -> Measurements \cup {Nothing}]
  BY <1>1
<1>3. \A j \in Collectors : step'[j] = "insert" <=> metrics'[j] # Nothing
  BY <1>1
<1> QED BY <1>2, <1>3, TurnsAreTwo

(* What is put together when a collector moves.                            *)
LEMMA CollectorKeepsInv ==
    ASSUME RouteInv, UNCHANGED <<network, quoting, changes>>,
           faults' \in 0 .. MaxFaults,
           NEW k \in Collectors, NEW m, m \in Measurements \cup {Nothing},
           metrics' = [metrics EXCEPT ![k] = m],
           \E s \in Steps, n \in 1 .. 2 :
              /\ s = "insert" <=> m # Nothing
              /\ step' = [step EXCEPT ![k] = s]
              /\ turn' = [turn EXCEPT ![k] = n],
           NEW row \in Rows, NEW c \in Chains,
           snapshot' = [snapshot EXCEPT ![c] = row] \/ UNCHANGED snapshot
    PROVE  RouteInv'
<1>1. TypeOK /\ (quote # Nothing => GoodQuote(quote))
  BY DEF RouteInv
<1>2. /\ step' \in [Collectors -> Steps]
      /\ turn' \in [Collectors -> 1 .. Len(SupportedChains)]
      /\ metrics' \in [Collectors -> Measurements \cup {Nothing}]
      /\ \A j \in Collectors : step'[j] = "insert" <=> metrics'[j] # Nothing
  BY <1>1, CollectorMoves
<1>3. snapshot' \in [Chains -> Rows \cup {Nothing}]
  BY <1>1, RowsStay
<1>4. UNCHANGED <<network, seen, quote, changes>>
  BY DEF quoting
<1>5. TypeOK'
  BY <1>1, <1>2, <1>3, <1>4 DEF TypeOK
<1> QED BY <1>1, <1>4, <1>5 DEF RouteInv, GoodQuote, AtLeastAsGood

LEMMA CollectorInv ==
    ASSUME RouteInv, NEW k \in Collectors, CollectorStep(k)
    PROVE  RouteInv'
<1>1. /\ TypeOK /\ step \in [Collectors -> Steps]
      /\ turn \in [Collectors -> 1 .. 2] /\ turn[k] \in 1 .. 2
      /\ metrics \in [Collectors -> Measurements \cup {Nothing}]
      /\ step[k] = "insert" <=> metrics[k] # Nothing
      /\ faults \in 0 .. MaxFaults
  BY TurnsAreTwo DEF RouteInv, TypeOK
<1>2. Current(k) \in Chains
  BY <1>1, TurnsAreTwo DEF Current
<1>3. turn = [turn EXCEPT ![k] = turn[k]] /\ metrics = [metrics EXCEPT ![k] = metrics[k]]
  BY <1>1
<1>4. Works \/ Throws => faults' \in 0 .. MaxFaults
  BY <1>1, LoadsAssumption DEF Works, Throws
<1>5. NextChain(k) => \E s \in Steps, n \in 1 .. 2 :
                        /\ s # "insert"
                        /\ step' = [step EXCEPT ![k] = s]
                        /\ turn' = [turn EXCEPT ![k] = n]
  <2>1. CASE turn[k] = 1
    BY <1>1, <2>1, TurnsAreTwo DEF NextChain, Goto, Steps
  <2>2. CASE turn[k] = 2
    BY <1>1, <2>2, TurnsAreTwo DEF NextChain, Goto, Steps
  <2> QED BY <1>1, <2>1, <2>2
<1>6. ASSUME NEW s \in Steps, Goto(k, s), s # "insert", UNCHANGED turn
      PROVE  \E t \in Steps, n \in 1 .. 2 :
               /\ t # "insert"
               /\ step' = [step EXCEPT ![k] = t]
               /\ turn' = [turn EXCEPT ![k] = n]
  BY <1>1, <1>3, <1>6 DEF Goto
<1>7. CASE StartCollection(k)
  <2>1. metrics[k] = Nothing /\ UNCHANGED <<network, quoting, changes, snapshot, faults>>
    BY <1>1, <1>7 DEF StartCollection
  <2>2. metrics' = [metrics EXCEPT ![k] = Nothing]
    BY <1>3, <1>7, <2>1 DEF StartCollection
  <2>3. \E s \in Steps, n \in 1 .. 2 : /\ s # "insert"
                                       /\ step' = [step EXCEPT ![k] = s]
                                       /\ turn' = [turn EXCEPT ![k] = n]
    BY <1>7 DEF StartCollection, Goto, Steps
  <2> QED BY <1>1, <1>2, <2>1, <2>2, <2>3, FallbackType, CollectorKeepsInv
<1>8. CASE Measure(k)
  <2>1. PICK m : m = HealthMetrics(Current(k))
    OBVIOUS
  <2>2. m \in Measurements /\ m # Nothing
    BY <1>1, <1>2, <2>1, MeasurementsType
  <2>3. /\ metrics' = [metrics EXCEPT ![k] = m]
        /\ UNCHANGED <<network, quoting, changes, snapshot, faults, turn>>
        /\ step' = [step EXCEPT ![k] = "insert"]
    BY <1>8, <2>1 DEF Measure, Goto
  <2>4. \E s \in Steps, n \in 1 .. 2 : /\ s = "insert" <=> m # Nothing
                                       /\ step' = [step EXCEPT ![k] = s]
                                       /\ turn' = [turn EXCEPT ![k] = n]
    BY <1>1, <1>3, <2>2, <2>3 DEF Steps
  <2> QED BY <1>1, <1>2, <2>2, <2>3, <2>4, FallbackType, CollectorKeepsInv
<1>9. CASE InsertSnapshot(k)
  <2>1. metrics[k] \in Measurements
    BY <1>1, <1>9 DEF InsertSnapshot
  <2>2. PICK row \in Rows : row = Snapshot(metrics[k])
    BY <2>1, SnapshotType
  <2>3. /\ metrics' = [metrics EXCEPT ![k] = Nothing]
        /\ snapshot' = [snapshot EXCEPT ![Current(k)] = row] \/ UNCHANGED snapshot
        /\ UNCHANGED <<network, quoting, changes>>
        /\ faults' \in 0 .. MaxFaults
    BY <1>4, <1>9, <2>2 DEF InsertSnapshot
  <2>4. \E s \in Steps, n \in 1 .. 2 : /\ s # "insert"
                                       /\ step' = [step EXCEPT ![k] = s]
                                       /\ turn' = [turn EXCEPT ![k] = n]
    BY <1>5, <1>6, <1>9 DEF InsertSnapshot, Steps
  <2> QED BY <1>2, <2>2, <2>3, <2>4, CollectorKeepsInv
<1>10. CASE InsertFallback(k)
  <2>1. metrics[k] = Nothing /\ UNCHANGED metrics
    BY <1>1, <1>10 DEF InsertFallback
  <2>2. PICK row \in Rows : row = Fallback
    BY FallbackType
  <2>3. /\ metrics' = [metrics EXCEPT ![k] = Nothing]
        /\ snapshot' = [snapshot EXCEPT ![Current(k)] = row] \/ UNCHANGED snapshot
        /\ UNCHANGED <<network, quoting, changes>>
        /\ faults' \in 0 .. MaxFaults
    BY <1>3, <1>4, <1>10, <2>1, <2>2 DEF InsertFallback
  <2>4. \E s \in Steps, n \in 1 .. 2 : /\ s # "insert"
                                       /\ step' = [step EXCEPT ![k] = s]
                                       /\ turn' = [turn EXCEPT ![k] = n]
    BY <1>5, <1>6, <1>10 DEF InsertFallback, Steps
  <2> QED BY <1>2, <2>2, <2>3, <2>4, CollectorKeepsInv
<1> QED BY <1>7, <1>8, <1>9, <1>10 DEF CollectorStep

(* Everything that leaves the collectors alone.                            *)
LEMMA OtherInv ==
    ASSUME RouteInv,
           \/ \E c \in Chains : LoadChanges(c) \/ \E h \in Health : PostChainHealth(c, h)
           \/ ReadSnapshots \/ CreateQuote \/ UNCHANGED vars
    PROVE  RouteInv'
<1>1. TypeOK /\ (quote # Nothing => GoodQuote(quote))
  BY DEF RouteInv
<1>2. ASSUME UNCHANGED <<quoting>>, TypeOK'
      PROVE  RouteInv'
  BY <1>1, <1>2 DEF RouteInv, GoodQuote, AtLeastAsGood, quoting
<1>3. changes < MaxChanges /\ changes' = changes + 1 => changes' \in 0 .. MaxChanges
  BY <1>1, LoadsAssumption DEF TypeOK
<1>4. ASSUME NEW c \in Chains, LoadChanges(c)
      PROVE  RouteInv'
  <2>1. network' \in [Chains -> Loads \cup {Down}] /\ changes' \in 0 .. MaxChanges
        /\ UNCHANGED <<snapshot, step, turn, metrics, seen, quote, faults>>
    BY <1>1, <1>3, <1>4 DEF LoadChanges, TypeOK, collecting, quoting
  <2>2. TypeOK'
    BY <1>1, <2>1 DEF TypeOK
  <2> QED BY <1>2, <2>1, <2>2 DEF quoting
<1>5. ASSUME NEW c \in Chains, NEW h \in Health, PostChainHealth(c, h)
      PROVE  RouteInv'
  <2>1. PICK row \in Rows : snapshot' = [snapshot EXCEPT ![c] = row]
    <3>1. PICK body \in Bodies :
            snapshot' = [snapshot EXCEPT ![c] =
                [fee |-> OrElse(body.fee, IF c = Ethereum THEN 2 ELSE 0),
                 seconds |-> OrElse(body.seconds, IF c = Ethereum THEN 75 ELSE 8),
                 errors |-> OrElse(body.errors, 1),
                 health |-> h]]
      BY <1>5 DEF PostChainHealth
    <3> QED BY <3>1, PostedType
  <2>2. snapshot' \in [Chains -> Rows \cup {Nothing}]
    BY <1>1, <2>1, RowsStay
  <2>3. changes' \in 0 .. MaxChanges
        /\ UNCHANGED <<network, step, turn, metrics, seen, quote, faults>>
    BY <1>3, <1>5 DEF PostChainHealth, quoting
  <2>4. TypeOK'
    BY <1>1, <2>2, <2>3 DEF TypeOK
  <2> QED BY <1>2, <2>3, <2>4 DEF quoting
<1>6. CASE ReadSnapshots
  <2>1. /\ seen' = snapshot /\ quote' = Nothing
        /\ UNCHANGED <<network, snapshot, step, turn, metrics, changes, faults>>
    BY <1>6 DEF ReadSnapshots, collecting
  <2>2. TypeOK'
    BY <1>1, <2>1 DEF TypeOK
  <2> QED BY <2>1, <2>2 DEF RouteInv
<1>7. CASE CreateQuote
  <2>1. /\ seen' = Nothing /\ SeenInv
        /\ UNCHANGED <<network, snapshot, step, turn, metrics, changes, faults>>
    BY <1>1, <1>7 DEF CreateQuote, collecting, TypeOK, SeenInv
  <2>2. quote' = Nothing \/ GoodQuote(quote')
    <3>1. PICK priority \in Priorities, funded \in SUBSET Chains,
               destinations \in SUBSET Chains :
            LET viable == {c \in destinations \cap funded : IsHealthy(c)}
                score == Score(viable, priority)
            IN  quote' = IF viable = {} THEN Nothing
                         ELSE [chain |-> SelectBestRoute(viable, score),
                               unknown |-> {c \in Chains : seen[c] = Nothing},
                               candidates |-> CandidateRoutes(score)]
      BY <1>7 DEF CreateQuote
    <3>2. PICK viable : viable = {c \in destinations \cap funded : IsHealthy(c)}
      OBVIOUS
    <3>3. viable \in SUBSET Chains
      BY <3>2
    <3>4. CASE viable = {}
      BY <3>1, <3>2, <3>4
    <3>5. CASE viable # {}
      <4>1. quote' = [chain |-> SelectBestRoute(viable, Score(viable, priority)),
                      unknown |-> {c \in Chains : seen[c] = Nothing},
                      candidates |-> CandidateRoutes(Score(viable, priority))]
        BY <3>1, <3>2, <3>5
      <4> QED BY <2>1, <3>3, <3>5, <4>1, SelectionIsGood
    <3> QED BY <3>4, <3>5
  <2>3. quote' # Nothing => /\ quote'.chain \in Chains
                            /\ quote'.unknown \subseteq Chains
                            /\ quote'.candidates \in [Chains -> Candidates]
    BY <2>2 DEF GoodQuote
  <2>4. TypeOK'
    BY <1>1, <2>1, <2>3 DEF TypeOK
  <2> QED BY <2>2, <2>4 DEF RouteInv, GoodQuote, AtLeastAsGood
<1>8. CASE UNCHANGED vars
  <2>1. UNCHANGED <<network, snapshot, step, turn, metrics, seen, quote, changes, faults>>
    BY <1>8 DEF vars, collecting, quoting
  <2>2. TypeOK'
    BY <1>1, <2>1 DEF TypeOK
  <2> QED BY <1>2, <2>1, <2>2 DEF quoting
<1> QED BY <1>4, <1>5, <1>6, <1>7, <1>8

(* Every stored quote recommends the best of the viable chains, a          *)
(* dominated one never, and an unknown one only for want of a better, in   *)
(* every state and whatever figures were posted (metrics.collector.ts,     *)
(* admin.ts, routing-engine).                                              *)
THEOREM RouteInvariant == Spec => []RouteInv
<1>1. RouteInv /\ [Next]_vars => RouteInv'
  BY CollectorInv, OtherInv DEF Next
<1> QED BY <1>1, RouteStart, PTL DEF Spec

(* Every variable keeps its type: rows, figures and scores stay in range.  *)
THEOREM RouteTypes == Spec => []TypeOK
<1>1. RouteInv => TypeOK
  BY DEF RouteInv
<1> QED BY <1>1, RouteInvariant, PTL

(* The recommended chain has the highest of the stored scores, for every   *)
(* load and every order of snapshots, though those are rounded twice.      *)
THEOREM RecommendationIsBest == Spec => []RecommendedIsBest
<1>1. RouteInv => RecommendedIsBest
  BY DEF RouteInv, GoodQuote, RecommendedIsBest
<1> QED BY <1>1, RouteInvariant, PTL

(* No priority, and no other chain's figures, make selectRoute prefer a    *)
(* chain that is worse in something and better in nothing.                 *)
THEOREM RecommendationIsNotDominated == Spec => []NotDominated
<1>1. RouteInv => NotDominated
  BY DEF RouteInv, GoodQuote, NotDominated, Viable
<1> QED BY <1>1, RouteInvariant, PTL

(* A chain without a snapshot is recommended over a viable one with a      *)
(* snapshot only if that was posted with a fee or a time beyond what an    *)
(* unknown chain counts as, or never answers and scores nothing.           *)
THEOREM UnknownComesLast == Spec => []UnknownIsLastResort
<1>1. RouteInv => UnknownIsLastResort
  BY DEF RouteInv, GoodQuote, UnknownIsLastResort, Viable
<1> QED BY <1>1, RouteInvariant, PTL
=============================================================================
