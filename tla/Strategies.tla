----------------------------- MODULE Strategies -----------------------------
(***************************************************************************)
(* The strategies, pure functions of a history: each aligns the bars of    *)
(* its universe on the days they share, replays its state machine over     *)
(* them from the first, and turns the state after every bar into target    *)
(* weights.  Targets is the last of them, Weights all of them.             *)
(*                                                                         *)
(* A plan is what a spec says: strategy, universe (risk assets, then the   *)
(* haven; for pairs A, then B), params in tenths.  A history maps a symbol *)
(* to its bars by day; a bar has its adjusted close, high and low, whole   *)
(* numbers.  For ratio a "price" is its logarithm.  A weight is a pair,    *)
(* numerator and denominator, of the gross leverage.                       *)
(***************************************************************************)
EXTENDS Indicators, SequencesExt

-----------------------------------------------------------------------------
(* Parse: what a plan must be for its strategy to be built.                *)

Known(params, names) == DOMAIN params = names
Whole(v, least) == v % 10 = 0 /\ v >= 10 * least
Count(v) == v \div 10                   \* a whole number of bars

SleevesUniverse(universe) ==
  Len(universe) >= 2 /\ IsInjective(universe)

PairsParse(plan) ==
  /\ Len(plan.universe) = 2 /\ IsInjective(plan.universe)
  /\ Known(plan.params, {"hedge_ratio", "lookback", "entry_z", "exit_z", "max_hold_days"})
  /\ Whole(plan.params.lookback, 2) /\ Whole(plan.params.max_hold_days, 1)
  /\ plan.params.exit_z >= 0 /\ plan.params.entry_z > plan.params.exit_z

RatioParse(plan) ==
  /\ SleevesUniverse(plan.universe)
  /\ Known(plan.params, {"lookback", "entry_z", "exit_z", "max_hold_days"})
  /\ Whole(plan.params.lookback, 2) /\ Whole(plan.params.max_hold_days, 1)
  /\ plan.params.entry_z > 0 /\ plan.params.exit_z > -plan.params.entry_z

TrendParse(plan) ==
  /\ SleevesUniverse(plan.universe)
  /\ Known(plan.params, {"lookback", "band"})
  /\ Whole(plan.params.lookback, 2)
  /\ plan.params.band >= 0 /\ plan.params.band < 10

\* A faulty variant of DonchianParse: the lookbacks may be in any order.
DonchianParseAny(plan) ==
  /\ SleevesUniverse(plan.universe)
  /\ Known(plan.params, {"entry_lookback", "exit_lookback"})
  /\ Whole(plan.params.entry_lookback, 2) /\ Whole(plan.params.exit_lookback, 2)

DonchianParse(plan) ==
  /\ SleevesUniverse(plan.universe)
  /\ Known(plan.params, {"entry_lookback", "exit_lookback"})
  /\ Whole(plan.params.entry_lookback, 2) /\ Whole(plan.params.exit_lookback, 2)
  /\ plan.params.exit_lookback < plan.params.entry_lookback

RSI2Parse(plan) ==
  /\ SleevesUniverse(plan.universe)
  /\ Known(plan.params, {"trend_lookback", "rsi_entry", "rsi_exit", "max_hold_days"})
  /\ Whole(plan.params.trend_lookback, 2) /\ Whole(plan.params.max_hold_days, 1)
  /\ 0 <= plan.params.rsi_entry /\ plan.params.rsi_entry < plan.params.rsi_exit
  /\ plan.params.rsi_exit <= 1000

MomentumParse(plan) ==
  /\ SleevesUniverse(plan.universe)
  /\ Known(plan.params, {"lookback", "top_k", "rebalance_days"})
  /\ Whole(plan.params.lookback, 1) /\ Whole(plan.params.rebalance_days, 1)
  /\ Whole(plan.params.top_k, 1)
  /\ Count(plan.params.top_k) <= Len(plan.universe) - 1

TSMomentumParse(plan) ==
  /\ SleevesUniverse(plan.universe)
  /\ Known(plan.params, {"lookback", "rebalance_days"})
  /\ Whole(plan.params.lookback, 1) /\ Whole(plan.params.rebalance_days, 1)

RiskParityParse(plan) ==
  /\ SleevesUniverse(plan.universe)
  /\ Known(plan.params, {"trend_lookback", "vol_lookback", "rebalance_days"})
  /\ Whole(plan.params.trend_lookback, 2) /\ Whole(plan.params.vol_lookback, 2)
  /\ Whole(plan.params.rebalance_days, 1)

\* New: a strategy that is not registered is refused.
Parse(plan) ==
  \/ plan.strategy = "pairs_zscore" /\ PairsParse(plan)
  \/ plan.strategy = "ratio_reversion" /\ RatioParse(plan)
  \/ plan.strategy = "sma_trend" /\ TrendParse(plan)
  \/ plan.strategy = "donchian_breakout" /\ DonchianParse(plan)
  \/ plan.strategy = "rsi2_reversion" /\ RSI2Parse(plan)
  \/ plan.strategy = "dual_momentum" /\ MomentumParse(plan)
  \/ plan.strategy = "time_series_momentum" /\ TSMomentumParse(plan)
  \/ plan.strategy = "risk_parity_trend" /\ RiskParityParse(plan)

-----------------------------------------------------------------------------
(* Alignment: an inner join on the day. *)

Shared(universe, hist) ==
  {d \in DOMAIN hist[universe[1]] : \A s \in Range(universe) : d \in DOMAIN hist[s]}

\* The same function, evaluated once for all its arguments.
Tabled(f) == CHOOSE g \in {f} : g = f

InOrder(days) ==
  [i \in 1..Cardinality(days) |->
     CHOOSE d \in days : Cardinality({earlier \in days : earlier < d}) = i - 1]

\* The shared days, oldest first, and the bars of every symbol on them.
Align(universe, hist) ==
  LET dates == Tabled(InOrder(Shared(universe, hist)))
  IN [dates |-> dates,
      bars |-> [s \in Range(universe) |-> Tabled([t \in 1..Len(dates) |-> hist[s][dates[t]]])]]

Closes(bars) == Tabled([t \in DOMAIN bars |-> bars[t].close])
Highs(bars) == Tabled([t \in DOMAIN bars |-> bars[t].high])
Lows(bars) == Tabled([t \in DOMAIN bars |-> bars[t].low])

Haven(universe) == Last(universe)
Risk(universe) == Range(Front(universe))

-----------------------------------------------------------------------------
(* The state machines: one step per aligned bar, exits before entries and
   never both.  in is the position (+1, -1, or 0 for flat or the haven),
   held the bars since its entry.                                          *)

Flat == [in |-> 0, held |-> 0]
Enter(side) == [in |-> side, held |-> 0]
Hold(p) == [p EXCEPT !.held = p.held + 1]

PairsLeaves(p, z, pr) ==
  CASE p.in = 1 -> ZAtLeast(z, -pr.exit_z)
    [] p.in = -1 -> ZAtMost(z, pr.exit_z)
    [] OTHER -> FALSE

\* A faulty variant of PairsStep: the hold is counted one bar too long.
PairsStepLate(p, z, pr) ==
  IF ~Defined(z) THEN Flat
  ELSE IF p.in # 0
  THEN IF PairsLeaves(p, z, pr) \/ p.held > Count(pr.max_hold_days) THEN Flat ELSE Hold(p)
  ELSE IF ZAtMost(z, -pr.entry_z) THEN Enter(1)
  ELSE IF ZAtLeast(z, pr.entry_z) THEN Enter(-1) ELSE Flat

\* A faulty variant of PairsStep: a bar that exits may enter the other side.
PairsStepThrough(p, z, pr) ==
  IF ~Defined(z) THEN Flat
  ELSE IF p.in # 0 /\ ~PairsLeaves(p, z, pr) /\ p.held < Count(pr.max_hold_days)
  THEN Hold(p)
  ELSE IF ZAtMost(z, -pr.entry_z) THEN Enter(1)
  ELSE IF ZAtLeast(z, pr.entry_z) THEN Enter(-1) ELSE Flat

PairsStep(p, z, pr) ==
  IF ~Defined(z) THEN Flat
  ELSE IF p.in # 0
  THEN IF PairsLeaves(p, z, pr) \/ p.held >= Count(pr.max_hold_days) THEN Flat ELSE Hold(p)
  ELSE IF ZAtMost(z, -pr.entry_z) THEN Enter(1)
  ELSE IF ZAtLeast(z, pr.entry_z) THEN Enter(-1) ELSE Flat

RatioLeaves(z, pr) == ZAtLeast(z, pr.exit_z)
RatioStep(p, z, pr) ==
  IF ~Defined(z) THEN Flat
  ELSE IF p.in = 1
  THEN IF RatioLeaves(z, pr) \/ p.held >= Count(pr.max_hold_days) THEN Flat ELSE Hold(p)
  ELSE IF ZAtMost(z, -pr.entry_z) THEN Enter(1) ELSE Flat

TrendLeaves(price, sma, pr) == 10 * price * sma.den < sma.num * (10 - pr.band)
TrendStep(p, price, sma, pr) ==
  IF ~Defined(sma) THEN Flat
  ELSE IF p.in = 1 THEN IF TrendLeaves(price, sma, pr) THEN Flat ELSE Hold(p)
  ELSE IF 10 * price * sma.den > sma.num * (10 + pr.band) THEN Enter(1) ELSE Flat

\* An exit channel that is not defined is zero, below every close.
DonchianLeaves(close, lower) == close < lower.num
DonchianStep(p, close, upper, lower) ==
  IF ~Defined(upper) THEN Flat
  ELSE IF p.in = 1 THEN IF DonchianLeaves(close, lower) THEN Flat ELSE Hold(p)
  ELSE IF close > upper.num THEN Enter(1) ELSE Flat

RSI2Leaves(price, rsi, sma, pr) ==
  ~AtMost(rsi, pr.rsi_exit) \/ price * sma.den < sma.num
RSI2Step(p, price, rsi, sma, pr) ==
  IF ~(Defined(rsi) /\ Defined(sma)) THEN Flat
  ELSE IF p.in = 1
  THEN IF RSI2Leaves(price, rsi, sma, pr) \/ p.held >= Count(pr.max_hold_days)
       THEN Flat ELSE Hold(p)
  ELSE IF price * sma.den > sma.num /\ ~AtLeast(rsi, pr.rsi_entry) THEN Enter(1) ELSE Flat

-----------------------------------------------------------------------------
(* The rebalancing strategies: every rebalance_days bars from the first bar
   the window is full at, W bars after the first.                          *)

Rebalances(t, W, every) == t > W /\ (t - 1 - W) % every = 0

\* The risk assets that beat the haven, best first, ties in universe order.
Pick(universe, ret, topK) ==
  LET k == Len(universe)
      ahead == {i \in 1..k - 1 : Ahead(ret[universe[i]], ret[universe[k]])}
      Before(i, j) == \/ Ahead(ret[universe[i]], ret[universe[j]])
                      \/ ~Ahead(ret[universe[j]], ret[universe[i]]) /\ i < j
  IN {universe[i] : i \in {i \in ahead : Cardinality({j \in ahead : Before(j, i)} \ {i}) < topK}}

\* The last rebalance up to bar t; 0 when there was none.
LastRebalance(t, warmup, every) ==
  Max({0} \cup {i \in 1..t : Rebalances(i, warmup, every)})

-----------------------------------------------------------------------------
(* Signals: position p of the pair, or of sleeve s, taken over aligned bar t. *)

\* The series a z-score is of: the spread of the pair, the ratio to the haven.
PairsSpread(pr, al, a, b) ==
  Tabled([t \in 1..Len(al.dates) |-> 10 * al.bars[a][t].close - pr.hedge_ratio * al.bars[b][t].close])
RatioSeries(al, s, haven) ==
  Tabled([t \in 1..Len(al.dates) |-> al.bars[s][t].close - al.bars[haven][t].close])

PairsAt(pr, al, a, b, p, t) ==
  PairsStep(p, ZScore(PairsSpread(pr, al, a, b), t, Count(pr.lookback)), pr)

RatioAt(pr, al, s, haven, p, t) ==
  RatioStep(p, ZScore(RatioSeries(al, s, haven), t, Count(pr.lookback)), pr)

TrendAt(pr, al, s, p, t) ==
  TrendStep(p, al.bars[s][t].close, SMA(Closes(al.bars[s]), t, Count(pr.lookback)), pr)

DonchianAt(pr, al, s, p, t) ==
  DonchianStep(p, al.bars[s][t].close,
               DonchianUpper(Highs(al.bars[s]), t, Count(pr.entry_lookback)),
               DonchianLower(Lows(al.bars[s]), t, Count(pr.exit_lookback)))

RSI2At(pr, al, s, p, t) ==
  RSI2Step(p, al.bars[s][t].close, WilderRSI(Closes(al.bars[s]), t),
           SMA(Closes(al.bars[s]), t, Count(pr.trend_lookback)), pr)

TSMomentumAt(pr, al, s, p, t) ==
  IF ~Rebalances(t, Count(pr.lookback), Count(pr.rebalance_days)) THEN p
  ELSE IF AtMost(RollingReturn(Closes(al.bars[s]), t, Count(pr.lookback)), 10)
  THEN Flat ELSE Enter(1)

\* Of the strategies that keep a position from bar to bar.
PositionAt(plan, al, s, p, t) ==
  LET pr == plan.params
      haven == Haven(plan.universe)
  IN CASE plan.strategy = "pairs_zscore" -> PairsAt(pr, al, s, haven, p, t)
       [] plan.strategy = "ratio_reversion" -> RatioAt(pr, al, s, haven, p, t)
       [] plan.strategy = "sma_trend" -> TrendAt(pr, al, s, p, t)
       [] plan.strategy = "donchian_breakout" -> DonchianAt(pr, al, s, p, t)
       [] plan.strategy = "rsi2_reversion" -> RSI2At(pr, al, s, p, t)
       [] plan.strategy = "time_series_momentum" -> TSMomentumAt(pr, al, s, p, t)

\* The replay of every bar: the position after each of them, flat before the first.
Positions(plan, al, s) ==
  LET after[t \in 0..Len(al.dates)] ==
        IF t = 0 THEN Flat ELSE PositionAt(plan, al, s, after[t - 1], t)
  IN Tabled(after)

-----------------------------------------------------------------------------
(* Weights: one per aligned bar, by symbol. *)

\* The notional of a unit of the spread, leg by leg: one A against hedge_ratio B.
PairsLegs(plan, al, t) ==
  <<10 * al.bars[plan.universe[1]][t].close,
    plan.params.hedge_ratio * al.bars[plan.universe[2]][t].close>>
PairsGross(plan, al, t) == PairsLegs(plan, al, t)[1] + PairsLegs(plan, al, t)[2]

\* Signals refuses a position whose gross notional is not above zero.
Replayable(plan, al) ==
  plan.strategy = "pairs_zscore" =>
    \A t \in 1..Len(al.dates) :
      Positions(plan, al, plan.universe[1])[t].in # 0 => PairsGross(plan, al, t) > 0

PairsWeights(plan, al) ==
  LET a == plan.universe[1]
      b == plan.universe[2]
      pos == Positions(plan, al, a)
  IN [t \in 1..Len(al.dates) |->
        [s \in {a, b} |-> IF pos[t].in = 0 THEN <<0, 1>>
                          ELSE <<IF s = a THEN pos[t].in * PairsLegs(plan, al, t)[1]
                                 ELSE -pos[t].in * PairsLegs(plan, al, t)[2],
                                 PairsGross(plan, al, t)>>]]

\* Each sleeve is an equal share, in its risk asset or in the haven.
SleeveWeights(plan, al) ==
  LET risk == Risk(plan.universe)
      k == Cardinality(risk)
      pos == [s \in risk |-> Positions(plan, al, s)]
      in(t) == {s \in risk : pos[s][t].in = 1}
  IN [t \in 1..Len(al.dates) |->
        [s \in Range(plan.universe) |->
           IF s \notin risk THEN <<k - Cardinality(in(t)), k>>
           ELSE <<IF s \in in(t) THEN 1 ELSE 0, k>>]]

MomentumWeights(plan, al) ==
  LET pr == plan.params
      n == Len(al.dates)
      L == Count(pr.lookback)
      topK == Count(pr.top_k)
      ret(t) == [s \in Range(plan.universe) |-> RollingReturn(Closes(al.bars[s]), t, L)]
      chosen(t) == LET at == LastRebalance(t, L, Count(pr.rebalance_days))
                   IN IF at = 0 THEN {} ELSE Pick(plan.universe, ret(at), topK)
  IN [t \in 1..n |->
        [s \in Range(plan.universe) |->
           IF s \notin Risk(plan.universe) THEN <<topK - Cardinality(chosen(t)), topK>>
           ELSE <<IF s \in chosen(t) THEN 1 ELSE 0, topK>>]]

(* The active sleeves' budget, split by inverse volatility: the split is kept
   as the volatilities it is made of.                                      *)
RiskParityWeights(plan, al) ==
  LET pr == plan.params
      risk == Risk(plan.universe)
      k == Cardinality(risk)
      T == Count(pr.trend_lookback)
      V == Count(pr.vol_lookback)
      W == IF V > T THEN V ELSE T
      px == [s \in risk |-> Closes(al.bars[s])]
      vol(t) == [s \in risk |-> RealisedVol(px[s], t, V)]
      active(t) == {s \in risk : /\ Defined(SMA(px[s], t, T))
                                 /\ px[s][t] * T > SMA(px[s], t, T).num
                                 /\ VolPositive(vol(t)[s])}
      at(t) == LastRebalance(t, W, Count(pr.rebalance_days))
      live(t) == IF at(t) = 0 THEN {} ELSE active(at(t))
  IN [t \in 1..Len(al.dates) |->
        [s \in Range(plan.universe) |->
           IF s \notin risk THEN <<k - Cardinality(live(t)), k>>
           ELSE IF s \notin live(t) THEN <<0, k>>
           ELSE <<Cardinality(live(t)), k, vol(at(t))[s],
                  [other \in live(t) |-> vol(at(t))[other]]>>]]

Weights(plan, al) ==
  CASE plan.strategy = "pairs_zscore" -> PairsWeights(plan, al)
    [] plan.strategy = "dual_momentum" -> MomentumWeights(plan, al)
    [] plan.strategy = "risk_parity_trend" -> RiskParityWeights(plan, al)
    [] OTHER -> SleeveWeights(plan, al)

\* Targets, as of the last aligned bar; hist shares a day.
Targets(plan, hist) ==
  LET al == Align(plan.universe, hist) IN Weights(plan, al)[Len(al.dates)]
=============================================================================
