----------------------------- MODULE MCDailyRun -----------------------------
(* Small days for DailyRun. *)
EXTENDS DailyRun, TLC

\* One target book, long in the first symbol and short in the second, or flat.
LongShort == {<<1, -1>>, <<0, 0>>}
OneShare == {<<1>>}

Symmetry == Permutations(Runs)
=============================================================================
