---------------------------- MODULE MCLiveReplay ----------------------------
(***************************************************************************)
(* Small specs of every strategy, and markets in which each of them enters,*)
(* leaves, stops on time and rebalances within five days.                   *)
(***************************************************************************)
EXTENDS LiveReplay

Plan(strategy, universe, params, fill, from) ==
  [strategy |-> strategy, universe |-> universe, params |-> params, fill |-> fill, from |-> from]

AB == <<"A", "B">>
ABH == <<"A", "B", "H">>

Pairs(entry, exit) ==
  Plan("pairs_zscore", AB, [hedge_ratio |-> 10, lookback |-> 30, entry_z |-> entry,
                            exit_z |-> exit, max_hold_days |-> 10], "next_open", 2)
Ratio(entry, exit) ==
  Plan("ratio_reversion", AB, [lookback |-> 20, entry_z |-> entry, exit_z |-> exit,
                               max_hold_days |-> 10], "same_close", 1)
Donchian(entry, exit) ==
  Plan("donchian_breakout", AB, [entry_lookback |-> entry, exit_lookback |-> exit],
       "same_close", 1)

MCPlans ==
  { Pairs(10, 5), Ratio(7, 0), Donchian(30, 20),
    Plan("sma_trend", AB, [lookback |-> 20, band |-> 1], "next_open", 1),
    Plan("rsi2_reversion", AB, [trend_lookback |-> 20, rsi_entry |-> 600, rsi_exit |-> 800,
                                max_hold_days |-> 10], "same_close", 2),
    Plan("dual_momentum", ABH, [lookback |-> 10, top_k |-> 10, rebalance_days |-> 20],
         "next_open", 1),
    Plan("time_series_momentum", AB, [lookback |-> 10, rebalance_days |-> 20],
         "same_close", 1),
    Plan("risk_parity_trend", ABH, [trend_lookback |-> 20, vol_lookback |-> 20,
                                    rebalance_days |-> 20], "next_open", 3),
    \* Refused by Parse.
    Pairs(5, 8), Ratio(10, -15), Donchian(20, 30), Pairs(10, 10),
    Plan("sma_trend", <<"A", "A">>, [lookback |-> 20, band |-> 1], "next_open", 1),
    Plan("dual_momentum", AB, [lookback |-> 10, top_k |-> 20, rebalance_days |-> 20],
         "next_open", 1) }

Bar(close, half) == [close |-> close, high |-> close + half, low |-> close - half]
Two(a, b) == ("A" :> Bar(a, 1)) @@ ("B" :> Bar(b, 0))
Three(a, b) == ("A" :> Bar(a, 0)) @@ ("B" :> Bar(b, 0)) @@ ("H" :> Bar(10, 0))

MCMarkets ==
  [strategy \in {p.strategy : p \in MCPlans} |->
     CASE strategy = "pairs_zscore" -> {Two(8, 10), Two(10, 10), Two(12, 10)}
       [] strategy = "ratio_reversion" -> {Two(8, 10), Two(10, 10), Two(10, 8)}
       [] strategy = "rsi2_reversion" -> {Two(8, 10), Two(10, 10), Two(12, 10)}
       [] strategy \in {"sma_trend", "donchian_breakout",
                        "time_series_momentum"} -> {Two(5, 10), Two(10, 10), Two(15, 10)}
       [] strategy = "risk_parity_trend" -> {Three(10, 10), Three(12, 14)}
       [] OTHER -> {Three(10, 10), Three(12, 12), Three(8, 12)}]

\* Enough for an entry, its time stop and the bar after, or for two rebalances.
MCLastDays ==
  [strategy \in DOMAIN MCMarkets |->
     IF strategy \in {"ratio_reversion", "sma_trend", "dual_momentum", "time_series_momentum"}
     THEN 4 ELSE 5]
=============================================================================
