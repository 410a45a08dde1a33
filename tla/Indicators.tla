----------------------------- MODULE Indicators -----------------------------
(***************************************************************************)
(* The rolling calculations of package indicator and the z-scores of the   *)
(* strategies, in exact arithmetic.  A series is a function over 1..n,     *)
(* oldest first; bar t of the code is bar t + 1 here.                      *)
(*                                                                         *)
(* A value is a fraction, and Undefined where the code's flag is false.    *)
(* Thresholds are whole numbers of tenths.                                 *)
(***************************************************************************)
EXTENDS Integers, Sequences, FiniteSetsExt

Undefined == [num |-> 0, den |-> 0]
Defined(v) == v.den > 0

AtLeast(v, tenths) == 10 * v.num >= tenths * v.den
AtMost(v, tenths) == 10 * v.num <= tenths * v.den

AbsVal(i) == IF i < 0 THEN -i ELSE i
SignedSquare(i) == i * AbsVal(i)

Window(t, L) == (t - L + 1)..t
SumOver(x, bars) == SumFunction([i \in bars |-> x[i]])

-----------------------------------------------------------------------------
(* The z-score against the trailing window, sample standard deviation.  It
   is kept as its signed square, which is a fraction: with d = L x_t - sum
   and ss = L sumsq - sum^2, z |z| = d |d| (L - 1) / (L ss).               *)

\* A faulty variant of ZScore: the window ends at the newest bar of the series.
ZScoreOfWhole(x, t, L) ==
  LET n == CHOOSE i \in DOMAIN x : i + 1 \notin DOMAIN x
      win == Window(n, L)
      sum == SumOver(x, win)
      ss == L * SumOver([i \in DOMAIN x |-> x[i] * x[i]], win) - sum * sum
      d == L * x[t] - sum
  IN IF n < L \/ ss = 0 THEN Undefined
     ELSE [num |-> SignedSquare(d) * (L - 1), den |-> L * ss]

ZScore(x, t, L) ==
  LET win == Window(t, L)
      sum == SumOver(x, win)
      ss == L * SumOver([i \in DOMAIN x |-> x[i] * x[i]], win) - sum * sum
      d == L * x[t] - sum
  IN IF t < L \/ ss = 0 THEN Undefined
     ELSE [num |-> SignedSquare(d) * (L - 1), den |-> L * ss]

\* z >= tenths / 10, z <= tenths / 10, on the signed squares.
ZAtLeast(z, tenths) == 100 * z.num >= SignedSquare(tenths) * z.den
ZAtMost(z, tenths) == 100 * z.num <= SignedSquare(tenths) * z.den

-----------------------------------------------------------------------------
SMA(px, t, L) ==
  IF t < L THEN Undefined ELSE [num |-> SumOver(px, Window(t, L)), den |-> L]

\* The return over L bars, plus one: p_t / p_{t-L}.
RollingReturn(px, t, L) ==
  IF t <= L THEN Undefined ELSE [num |-> px[t], den |-> px[t - L]]

Ahead(r, s) == r.num * s.den > s.num * r.den

\* The L bars before bar t, which is not one of them.
Prior(x, t, L) == {x[i] : i \in Window(t - 1, L)}

DonchianUpper(high, t, L) ==
  IF t <= L THEN Undefined ELSE [num |-> Max(Prior(high, t, L)), den |-> 1]

DonchianLower(low, t, L) ==
  IF t <= L THEN Undefined ELSE [num |-> Min(Prior(low, t, L)), den |-> 1]

(* The volatility of the L daily returns ending at t: what it is computed
   from.  It is above zero when two of those returns differ.               *)
NoVol == <<>>
RealisedVol(px, t, L) == IF t <= L THEN NoVol ELSE [i \in 0..L |-> px[t - L + i]]
VolPositive(vol) ==
  \E i, j \in DOMAIN vol \ {0} : vol[i] * vol[j - 1] # vol[j] * vol[i - 1]

(* Wilder's averages over N = 2 changes, scaled to whole numbers:
   2^(t-2) gain_t, so that (gain + up) / 2 adds 2^(t-3) up.                *)
RSIPeriod == 2
Up(px, i) == IF px[i] > px[i - 1] THEN px[i] - px[i - 1] ELSE 0
Down(px, i) == IF px[i] < px[i - 1] THEN px[i - 1] - px[i] ELSE 0
Scale(i) ==
  LET power[k \in 0..i] == IF k <= RSIPeriod + 1 THEN 1 ELSE 2 * power[k - 1] IN power[i]

WilderRSI(px, t) ==
  IF t <= RSIPeriod THEN Undefined
  ELSE LET gain == SumOver([i \in 2..t |-> Scale(i) * Up(px, i)], 2..t)
           loss == SumOver([i \in 2..t |-> Scale(i) * Down(px, i)], 2..t)
       IN IF loss = 0 THEN [num |-> IF gain > 0 THEN 100 ELSE 50, den |-> 1]
          ELSE [num |-> 100 * gain, den |-> gain + loss]
=============================================================================
