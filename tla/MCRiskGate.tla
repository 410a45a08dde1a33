----------------------------- MODULE MCRiskGate -----------------------------
(* A small book for RiskGate: three symbols, of which a day may trade two. *)
EXTENDS RiskGate

ThreePrices == <<1, 2, 1>>
SmallHoldings == {-2, 0, 1}
SmallDeltas == {-3, 0, 2}
=============================================================================
