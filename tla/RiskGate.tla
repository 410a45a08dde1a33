------------------------------ MODULE RiskGate ------------------------------
(***************************************************************************)
(* RuleGate.Check (package risk): the rules of the gate on one day's       *)
(* intents, one per symbol as the runner makes them, visited in order, and *)
(* then the scaling of what survived to the gross leverage cap.            *)
(*                                                                         *)
(* Quantities are counted in units of 1/Unit of a share, Unit = 2^Depth:   *)
(* a factor f of the code is f/Unit here, and Depth halvings (40 in the    *)
(* code) bring the bisection to its last unit.  A price stands for quote's *)
(* both sides; the notional cap and the leverage cap are in the prices'    *)
(* currency.  Equity is positive, as the drawdown switch sees to.          *)
(***************************************************************************)
EXTENDS Integers, FiniteSets, Functions

CONSTANTS
  NSymbols,   \* symbols, numbered in the order their intents come in
  Holdings,   \* positions a symbol may have, signed, in shares
  Deltas,     \* what an intent may ask for, signed; 0 for no intent
  Price,      \* a share's price, by symbol
  MaxLeg,     \* max_notional_per_leg_usd
  Caps,       \* gross leverage times equity
  MaxOrders,  \* max_orders_per_day
  Depth       \* halvings of the bisection

Symbols == 1 .. NSymbols
Unit == 2 ^ Depth

ASSUME GateConstantsOK ==
  /\ NSymbols \in Nat \ {0} /\ Holdings \subseteq Int /\ Deltas \subseteq Int
  /\ Price \in [Symbols -> Nat \ {0}] /\ MaxLeg \in Nat \ {0} /\ Caps \subseteq Nat \ {0}
  /\ MaxOrders \in Nat \ {0} /\ Depth \in Nat /\ Unit \in Nat \ {0}

VARIABLES
  held, delta, quote,  \* the state and the intents: positions, legs, quotes
  losing, killed, cap, \*   the daily limit and the kill switch, the leverage cap
  phase, visit,        \* where Check is, and the intent it visits
  left,                \* ordersLeft
  alive,               \* the intents that passed the rules so far
  lo, hi,              \* the bisection's bounds
  quantity             \* Decision.Qty in units, 0 when refused

inputs   == <<held, delta, quote, losing, killed, cap>>
gateVars == <<inputs, phase, visit, left, alive, lo, hi, quantity>>

Abs(n) == IF n < 0 THEN -n ELSE n

\* closes: a trade the other way that does not pass through zero closes.
ClosesWhole(h, d) == h # 0 /\ (h > 0) # (d > 0) /\ Abs(d) <= Abs(h)

\* A faulty variant of Whole: a flip counts as a close.
WholeOrFlip(s) == held[s] # 0 /\ (held[s] > 0) # (delta[s] > 0)

Whole(s) == ClosesWhole(held[s], delta[s])

Toward(s, q) == IF delta[s] < 0 THEN -q ELSE q

\* The book, in units, after every surviving close in full and f units of every
\* share of the other survivors.
After(f) ==
  [s \in Symbols |-> held[s] * Unit +
     (IF s \notin alive THEN 0 ELSE IF Whole(s) THEN delta[s] * Unit ELSE delta[s] * f)]

\* Gross notional of a book; a position without a quote cannot be counted.
Counted == {s \in Symbols : quote[s] # "none"}
GrossOf(book) == SumFunctionOnSet([s \in Symbols |-> Abs(book[s]) * Price[s]], Counted)

\* A faulty variant of Gross: what is already held is not counted.
GrossOfOrders(f) == GrossOf([s \in Symbols |-> IF s \in alive THEN delta[s] * f ELSE 0])

Gross(f) == GrossOf(After(f))
Room == cap * Unit

-----------------------------------------------------------------------------
GateInit ==
  /\ held \in [Symbols -> Holdings] /\ delta \in [Symbols -> Deltas]
  /\ quote \in [Symbols -> {"fresh", "stale", "none"}]
  /\ \A s \in Symbols : quote[s] = "none" => delta[s] = 0
  /\ losing \in BOOLEAN /\ killed \in BOOLEAN /\ cap \in Caps
  /\ phase = "kill" /\ visit = 1 /\ left = MaxOrders /\ alive = {}
  /\ lo = 0 /\ hi = Unit /\ quantity = [s \in Symbols |-> 0]

\* Kill first: it refuses everything.
Kill ==
  /\ phase = "kill"
  /\ phase' = IF killed THEN "done" ELSE "rules"
  /\ UNCHANGED <<inputs, visit, left, alive, lo, hi, quantity>>

\* A faulty variant of Passes: the daily limit lets every reduction through.
PassesLoosely(s) ==
  /\ quote[s] = "fresh" /\ Abs(delta[s]) * Price[s] <= MaxLeg
  /\ losing => WholeOrFlip(s)
  /\ left > 0

\* The rules on one intent, the first it fails refusing it.
Passes(s) ==
  /\ quote[s] = "fresh"
  /\ Abs(delta[s]) * Price[s] <= MaxLeg
  /\ losing => Whole(s)
  /\ left > 0

Rule ==
  /\ phase = "rules" /\ visit <= NSymbols
  /\ visit' = visit + 1
  /\ \/ /\ delta[visit] # 0 /\ Passes(visit)
        /\ alive' = alive \union {visit} /\ left' = left - 1
     \/ /\ ~(delta[visit] # 0 /\ Passes(visit))
        /\ UNCHANGED <<alive, left>>
  /\ UNCHANGED <<inputs, phase, lo, hi, quantity>>

\* A faulty variant of Allowed: closes are scaled.
AllowedScaled(f) ==
  [s \in Symbols |-> IF s \in alive THEN Abs(delta[s]) * f ELSE 0]

\* What the intents may trade at factor f: closes in full, the rest scaled.
Allowed(f) ==
  [s \in Symbols |-> IF s \notin alive THEN 0
                     ELSE IF Whole(s) THEN Abs(delta[s]) * Unit ELSE Abs(delta[s]) * f]

Settle(f) == phase' = "done" /\ quantity' = Allowed(f)

\* The two ends: it all fits, or the book is at the cap without the openers.
Ends ==
  /\ phase = "rules" /\ visit > NSymbols
  /\ IF Gross(Unit) <= Room THEN Settle(Unit)
     ELSE IF Gross(0) >= Room THEN Settle(0)
     ELSE phase' = "bisect" /\ UNCHANGED quantity
  /\ UNCHANGED <<inputs, visit, left, alive, lo, hi>>

Bisect ==
  /\ phase = "bisect" /\ hi - lo > 1
  /\ LET mid == (lo + hi) \div 2
     IN  IF Gross(mid) <= Room THEN lo' = mid /\ UNCHANGED hi ELSE hi' = mid /\ UNCHANGED lo
  /\ UNCHANGED <<inputs, phase, visit, left, alive, quantity>>

Found ==
  /\ phase = "bisect" /\ hi - lo <= 1
  /\ Settle(lo)
  /\ UNCHANGED <<inputs, visit, left, alive, lo, hi>>

GateNext == Kill \/ Rule \/ Ends \/ Bisect \/ Found

GateSpec == GateInit /\ [][GateNext]_gateVars

-----------------------------------------------------------------------------
(* Properties *)

GateTypeOK ==
  /\ held \in [Symbols -> Int] /\ delta \in [Symbols -> Int]
  /\ quote \in [Symbols -> {"fresh", "stale", "none"}]
  /\ losing \in BOOLEAN /\ killed \in BOOLEAN /\ cap \in Nat
  /\ phase \in {"kill", "rules", "bisect", "done"}
  /\ visit \in 1 .. NSymbols + 1 /\ left \in 0 .. MaxOrders
  /\ alive \subseteq 1 .. visit - 1
  /\ lo \in 0 .. Unit /\ hi \in 0 .. Unit /\ lo < hi
  /\ quantity \in [Symbols -> Nat]

\* The book once the allowed intents have traded.
Traded == [s \in Symbols |-> held[s] * Unit + Toward(s, quantity[s])]
Settled == phase = "done"

\* The gate never lets the book grow past the leverage cap: it fits, or nothing
\* but whole closes were let through.
FitsUnderCap ==
  Settled => GrossOf(Traded) <= Room \/ \A s \in Symbols : quantity[s] > 0 => Whole(s)

\* A close with a quote, under the leg cap and within the day's orders goes
\* through in full, on a losing day and in a book over its leverage.
ClosesGoThrough ==
  Settled /\ ~killed =>
    \A s \in Symbols :
      /\ Whole(s) /\ quote[s] = "fresh" /\ Abs(delta[s]) * Price[s] <= MaxLeg
      /\ Cardinality({t \in Symbols : t < s /\ delta[t] # 0}) < MaxOrders
      => quantity[s] = Abs(delta[s]) * Unit

\* On a losing day, and once the switch is tripped, no position grows or turns.
LosingDayOnlyReduces ==
  Settled /\ (losing \/ killed) =>
    \A s \in Symbols : /\ Abs(Traded[s]) <= Abs(held[s] * Unit)
                       /\ Traded[s] > 0 => held[s] > 0
                       /\ Traded[s] < 0 => held[s] < 0

\* What DailyRun's Verdicts take for granted: never more than was asked for, nor
\* more orders than the day's limit.
WithinContract ==
  Settled => /\ \A s \in Symbols : quantity[s] <= Abs(delta[s]) * Unit
             /\ Cardinality({s \in Symbols : quantity[s] > 0}) <= MaxOrders

\* Both: what the run may count on of a gate that is asked once for a whole day,
\* however the legs, the day's limit and the leverage fall together.
GateContract == ClosesGoThrough /\ WithinContract
=============================================================================
