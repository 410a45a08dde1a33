--------------------------- MODULE AccountProofs ---------------------------
(***************************************************************************)
(* What an order may do to an account: the promises of the gate that lets  *)
(* it out and of the paper book that fills it, each for any prices,        *)
(* quantities and limits.                                                  *)
(***************************************************************************)
EXTENDS RiskGate, PaperBook, FiniteSetTheorems, TLAPS

-----------------------------------------------------------------------------
(* The gate, for any number of symbols and any depth of the bisection.

   Nothing is used of GrossOf but that it is a function of the book: the cap
   holds because the factor the gate settles on is one it has probed, and the
   book after the orders is the book it probed.                             *)

\* Multiplying by a quantity of units keeps types and signs.
LEMMA Times ==
  ASSUME NEW d \in Int, NEW f \in Nat
  PROVE  /\ d * f \in Int /\ (-d) * f = -(d * f)
         /\ d >= 0 => d * f >= 0
OBVIOUS

\* Units keep the order of two positions of one sign.
LEMMA FewerUnits ==
  ASSUME NEW a \in Nat, NEW b \in Nat, a <= b, NEW u \in Nat \ {0}
  PROVE  /\ a * u \in Nat /\ b * u \in Nat /\ a * u <= b * u
         /\ b > 0 => b * u > 0
<1>1. b * u = a * u + (b - a) * u
  OBVIOUS
<1>2. (b - a) * u >= 0 /\ a * u \in Nat /\ b * u \in Nat
  BY Times
<1>3. b > 0 => b * u = u + (b - 1) * u /\ (b - 1) * u >= 0
  BY Times
<1> QED
  BY <1>1, <1>2, <1>3

\* A position in units is on the side of the position in shares.
LEMMA SameSide ==
  ASSUME NEW h \in Int, NEW u \in Nat
  PROVE  /\ h * u \in Int /\ Abs(h * u) <= Abs(h * u)
         /\ h * u > 0 => h > 0
         /\ h * u < 0 => h < 0
<1>1. CASE h >= 0
  BY <1>1, Times DEF Abs
<1>2. CASE h < 0
  <2>1. -h >= 0 /\ -h \in Int
    BY <1>2
  <2>2. (-h) * u >= 0 /\ (-h) * u = -(h * u) /\ h * u \in Int
    BY <2>1, Times
  <2> QED
    BY <1>2, <2>2 DEF Abs
<1> QED
  BY <1>1, <1>2

\* A whole close leaves a position no larger and never on the other side.
LEMMA CloseReduces ==
  ASSUME NEW h \in Int, NEW d \in Int, ClosesWhole(h, d), NEW u \in Nat \ {0}
  PROVE  LET rest == h * u + d * u
         IN  /\ rest \in Int /\ h * u \in Int /\ Abs(rest) <= Abs(h * u)
             /\ rest > 0 => h > 0
             /\ rest < 0 => h < 0
<1>1. h * u + d * u = (h + d) * u /\ h * u \in Int /\ (h + d) * u \in Int
  BY Times
<1>2. CASE h > 0
  <2>1. h + d \in Nat /\ h + d <= h
    BY <1>2 DEF ClosesWhole, Abs
  <2>2. (h + d) * u \in Nat /\ h * u \in Nat /\ (h + d) * u <= h * u
    BY <1>2, <2>1, FewerUnits
  <2> QED
    BY <1>1, <1>2, <2>2 DEF Abs
<1>3. CASE h < 0
  <2>1. -(h + d) \in Nat /\ -h \in Nat /\ -(h + d) <= -h
    BY <1>3 DEF ClosesWhole, Abs
  <2>2. (-(h + d)) * u \in Nat /\ (-h) * u \in Nat /\ (-(h + d)) * u <= (-h) * u
    BY <2>1, FewerUnits
  <2>3. (-(h + d)) * u = -((h + d) * u) /\ (-h) * u = -(h * u)
    BY Times
  <2> QED
    BY <1>1, <1>3, <2>2, <2>3 DEF Abs
<1> QED
  BY <1>2, <1>3 DEF ClosesWhole

\* What is sent for an intent at factor f moves the book by its delta, f times.
LEMMA Sent ==
  ASSUME GateTypeOK, NEW s \in Symbols, NEW f \in Nat
  PROVE  /\ Abs(delta[s]) * f \in Nat
         /\ Toward(s, Abs(delta[s]) * f) = delta[s] * f
<1>1. delta[s] \in Int /\ -delta[s] \in Int
  BY DEF GateTypeOK
<1>2. CASE delta[s] < 0
  <2>1. Abs(delta[s]) = -delta[s] /\ (-delta[s]) >= 0
    BY <1>1, <1>2 DEF Abs
  <2>2. (-delta[s]) * f \in Nat /\ (-delta[s]) * f = -(delta[s] * f) /\ delta[s] * f \in Int
    BY <1>1, <2>1, Times
  <2> QED
    BY <1>2, <2>1, <2>2 DEF Toward
<1>3. CASE ~(delta[s] < 0)
  <2>1. Abs(delta[s]) = delta[s] /\ delta[s] >= 0
    BY <1>1, <1>3 DEF Abs
  <2> QED
    BY <1>1, <1>3, <2>1, Times DEF Toward
<1> QED
  BY <1>2, <1>3

\* The book after the orders the gate settles on at f is the one it probed at f.
LEMMA Probed ==
  ASSUME GateTypeOK, NEW f \in 0 .. Unit, Settle(f), UNCHANGED <<inputs, alive>>
  PROVE  /\ quantity' \in [Symbols -> Nat]
         /\ (GrossOf(Traded) <= Room)' <=> Gross(f) <= Room
<1>1. f \in Nat /\ Unit \in Nat
  BY GateConstantsOK
<1>2. ASSUME NEW s \in Symbols
      PROVE  /\ Allowed(f)[s] \in Nat
             /\ held[s] * Unit + Toward(s, Allowed(f)[s]) = After(f)[s]
  <2>1. CASE s \notin alive
    BY <2>1 DEF Allowed, After, Toward
  <2>2. CASE s \in alive /\ Whole(s)
    BY <1>1, <2>2, Sent DEF Allowed, After
  <2>3. CASE s \in alive /\ ~Whole(s)
    BY <1>1, <2>3, Sent DEF Allowed, After
  <2> QED
    BY <2>1, <2>2, <2>3
<1>3. quantity' = Allowed(f) /\ held' = held /\ delta' = delta /\ quote' = quote /\ cap' = cap
  BY DEF Settle, inputs
<1>4. quantity' \in [Symbols -> Nat]
  BY <1>2, <1>3 DEF Allowed
<1>5. Traded' = After(f)
  BY <1>2, <1>3 DEF Traded, After, Toward
<1>6. Counted' = Counted /\ Room' = Room
  BY <1>3 DEF Counted, Room
<1> QED
  BY <1>4, <1>5, <1>6 DEF Gross, GrossOf

-----------------------------------------------------------------------------
\* The types, and what ties the phases together: what the rules let through, and
\* what is known of the bisection's lower bound.
GateInv ==
  /\ GateTypeOK
  /\ phase \in {"rules", "bisect"} => ~killed
  /\ losing => \A s \in alive : Whole(s)
  /\ phase # "done" => quantity = [s \in Symbols |-> 0]
  /\ phase \in {"kill", "rules"} => lo = 0
  /\ phase = "bisect" => lo = 0 \/ Gross(lo) <= Room
  /\ FitsUnderCap
  /\ LosingDayOnlyReduces

LEMMA GateStart == GateInit => GateInv
<1> SUFFICES ASSUME GateInit PROVE GateInv
  OBVIOUS
<1>1. held \in [Symbols -> Int] /\ delta \in [Symbols -> Int] /\ cap \in Nat
  BY GateConstantsOK DEF GateInit
<1>2. lo \in 0 .. Unit /\ hi \in 0 .. Unit /\ lo < hi
  BY GateConstantsOK DEF GateInit
<1>3. visit \in 1 .. NSymbols + 1 /\ left \in 0 .. MaxOrders /\ alive \subseteq 1 .. visit - 1
  BY GateConstantsOK DEF GateInit
<1>4. GateTypeOK
  BY <1>1, <1>2, <1>3 DEF GateInit, GateTypeOK
<1> QED
  BY <1>4 DEF GateInit, GateInv, FitsUnderCap, LosingDayOnlyReduces, Settled

\* Settling at a factor keeps the invariant, if the factor is 0 or fits.
LEMMA SettleStep ==
  ASSUME GateInv, ~killed, NEW f \in 0 .. Unit, Settle(f), f = 0 \/ Gross(f) <= Room,
         UNCHANGED <<inputs, visit, left, alive, lo, hi>>
  PROVE  GateInv'
<1>1. /\ quantity' \in [Symbols -> Nat]
      /\ (GrossOf(Traded) <= Room)' <=> Gross(f) <= Room
  BY Probed DEF GateInv
<1>2. GateTypeOK'
  BY <1>1 DEF GateInv, GateTypeOK, Settle, inputs
<1>3. \A s \in Symbols : Whole(s)' = Whole(s)
  BY DEF Whole, inputs
<1>4. FitsUnderCap'
  <2>1. CASE Gross(f) <= Room
    BY <1>1, <2>1 DEF FitsUnderCap
  <2>2. CASE f = 0
    <3>1. \A s \in Symbols : delta[s] \in Int /\ Abs(delta[s]) \in Int
      BY DEF GateInv, GateTypeOK, Abs
    <3>2. \A s \in Symbols : quantity'[s] > 0 => Whole(s)
      BY <2>2, <3>1 DEF Settle, Allowed
    <3> QED
      BY <1>3, <3>2 DEF FitsUnderCap
  <2> QED
    BY <2>1, <2>2
<1>5. losing' => \A s \in alive' : Whole(s)'
  BY <1>3 DEF GateInv, inputs, GateTypeOK, Whole
<1>6. LosingDayOnlyReduces'
  <2> SUFFICES ASSUME losing, NEW s \in Symbols
               PROVE  (/\ Abs(Traded[s]) <= Abs(held[s] * Unit)
                       /\ Traded[s] > 0 => held[s] > 0
                       /\ Traded[s] < 0 => held[s] < 0)'
    BY DEF LosingDayOnlyReduces, inputs
  <2>1. /\ held[s] \in Int /\ delta[s] \in Int /\ Unit \in Nat \ {0}
        /\ held'[s] = held[s] /\ held[s] * Unit \in Int
    BY GateConstantsOK, Times DEF GateInv, GateTypeOK, inputs
  <2>2. CASE s \in alive
    <3>1. ClosesWhole(held[s], delta[s])
      BY <2>2 DEF GateInv, Whole
    <3>2. Traded'[s] = held[s] * Unit + delta[s] * Unit
      BY <2>1, <2>2, <3>1, Sent DEF Traded, Settle, Allowed, Whole, inputs, GateInv, Toward
    <3> QED
      BY <2>1, <3>1, <3>2, CloseReduces
  <2>3. CASE s \notin alive
    <3>1. Traded'[s] = held[s] * Unit
      BY <2>1, <2>3 DEF Traded, Settle, Allowed, inputs, Toward
    <3> QED
      BY <2>1, <3>1, SameSide
  <2> QED
    BY <2>2, <2>3
<1> QED
  BY <1>2, <1>4, <1>5, <1>6 DEF GateInv, Settle, inputs

LEMMA GateStep == GateInv /\ [GateNext]_gateVars => GateInv'
<1> SUFFICES ASSUME GateInv, [GateNext]_gateVars PROVE GateInv'
  OBVIOUS
<1>1. CASE Kill
  <2>1. GateTypeOK' /\ phase # "done" /\ phase' \in {"rules", "done"} /\ (phase' = "rules" => ~killed)
    BY <1>1 DEF Kill, inputs, GateInv, GateTypeOK
  <2>2. quantity' = [s \in Symbols |-> 0]
    BY <1>1, <2>1 DEF Kill, GateInv
  <2>3. FitsUnderCap'
    BY <2>2 DEF FitsUnderCap
  <2>4. losing' => \A s \in alive' : Whole(s)'
    BY <1>1 DEF Kill, inputs, GateInv, Whole
  <2>5. LosingDayOnlyReduces'
    <3> SUFFICES ASSUME NEW s \in Symbols
                 PROVE  (/\ Abs(Traded[s]) <= Abs(held[s] * Unit)
                         /\ Traded[s] > 0 => held[s] > 0
                         /\ Traded[s] < 0 => held[s] < 0)'
      BY DEF LosingDayOnlyReduces
    <3>1. /\ held'[s] = held[s] /\ held[s] \in Int /\ Unit \in Nat
          /\ held[s] * Unit \in Int /\ -held[s] \in Int
      BY <1>1, GateConstantsOK, Times DEF Kill, inputs, GateInv, GateTypeOK
    <3>2. Traded'[s] = held[s] * Unit
      BY <2>2, <3>1 DEF Traded, Toward
    <3> QED
      BY <3>1, <3>2, SameSide
  <2> QED
    BY <1>1, <2>1, <2>2, <2>3, <2>4, <2>5 DEF Kill, inputs, GateInv
<1>2. CASE Rule
  <2>1. /\ phase = "rules" /\ phase' = "rules" /\ inputs' = inputs /\ lo' = lo /\ hi' = hi
        /\ quantity' = quantity /\ visit \in 1 .. NSymbols /\ visit' = visit + 1
    BY <1>2 DEF Rule, inputs, GateInv, GateTypeOK
  <2>2. \/ /\ Passes(visit) /\ alive' = alive \union {visit} /\ left' = left - 1
        \/ alive' = alive /\ left' = left
    BY <1>2 DEF Rule
  <2>3. left' \in 0 .. MaxOrders
    <3>1. left \in 0 .. MaxOrders /\ MaxOrders \in Nat
      BY GateConstantsOK DEF GateInv, GateTypeOK
    <3>2. Passes(visit) => left > 0
      BY DEF Passes
    <3> QED
      BY ONLY <2>2, <3>1, <3>2
  <2>4. alive' \subseteq 1 .. visit' - 1
    <3>1. visit \in Nat \ {0} /\ visit' - 1 = visit /\ alive \subseteq 1 .. visit - 1
      BY <2>1, GateConstantsOK DEF GateInv, GateTypeOK
    <3>2. 1 .. visit - 1 \subseteq 1 .. visit /\ visit \in 1 .. visit
      BY ONLY <3>1
    <3> QED
      BY ONLY <2>2, <3>1, <3>2
  <2>5. GateTypeOK'
    BY <2>1, <2>3, <2>4, GateConstantsOK DEF GateInv, GateTypeOK, inputs
  <2>6. losing' => \A s \in alive' : Whole(s)'
    BY <2>1, <2>2 DEF GateInv, inputs, Whole, Passes
  <2> QED
    BY <2>1, <2>5, <2>6 DEF GateInv, inputs, FitsUnderCap, LosingDayOnlyReduces, Settled
<1>3. CASE Ends
  <2>0. Unit \in 0 .. Unit /\ 0 \in 0 .. Unit
    BY GateConstantsOK
  <2>1. CASE Gross(Unit) <= Room
    BY <1>3, <2>0, <2>1, SettleStep DEF Ends, GateInv
  <2>2. CASE ~(Gross(Unit) <= Room) /\ Gross(0) >= Room
    BY <1>3, <2>0, <2>2, SettleStep DEF Ends, GateInv
  <2>3. CASE ~(Gross(Unit) <= Room) /\ ~(Gross(0) >= Room)
    <3>1. /\ phase = "rules" /\ phase' = "bisect" /\ UNCHANGED <<inputs, visit, left, alive, lo, hi, quantity>>
      BY <1>3, <2>3 DEF Ends
    <3>2. GateTypeOK'
      BY <3>1 DEF GateInv, GateTypeOK, inputs
    <3>3. losing' => \A s \in alive' : Whole(s)'
      BY <3>1 DEF GateInv, Whole, inputs
    <3> QED
      BY <3>1, <3>2, <3>3 DEF GateInv, inputs, FitsUnderCap, LosingDayOnlyReduces, Settled
  <2> QED
    BY <2>1, <2>2, <2>3
<1>4. CASE Bisect
  <2> DEFINE mid == (lo + hi) \div 2
  <2>1. /\ phase = "bisect" /\ UNCHANGED <<inputs, phase, visit, left, alive, quantity>>
        /\ \/ Gross(mid) <= Room /\ lo' = mid /\ hi' = hi
           \/ lo' = lo /\ hi' = mid
    BY <1>4 DEF Bisect
  <2>2. lo \in 0 .. Unit /\ hi \in 0 .. Unit /\ lo < hi /\ hi - lo > 1
    BY <1>4 DEF Bisect, GateInv, GateTypeOK
  <2>3. mid \in 0 .. Unit /\ lo < mid /\ mid < hi
    BY <2>2, GateConstantsOK
  <2>5. Gross(mid) <= Room /\ lo' = mid => (Gross(lo) <= Room)'
    <3> HIDE DEF mid
    <3> QED
      BY <2>1 DEF Gross, GrossOf, After, Counted, Room, Whole, inputs
  <2>6. Gross(lo) <= Room /\ lo' = lo => (Gross(lo) <= Room)'
    BY <2>1 DEF Gross, GrossOf, After, Counted, Room, Whole, inputs
  <2>7. GateTypeOK'
    BY <2>1, <2>2, <2>3 DEF GateInv, GateTypeOK, inputs
  <2> QED
    BY <2>1, <2>5, <2>6, <2>7 DEF GateInv, inputs, FitsUnderCap, LosingDayOnlyReduces, Settled, Whole
<1>5. CASE Found
  <2>1. lo \in 0 .. Unit /\ (lo = 0 \/ Gross(lo) <= Room) /\ ~killed
    BY <1>5 DEF Found, GateInv, GateTypeOK
  <2> QED
    BY <1>5, <2>1, SettleStep DEF Found
<1>6. CASE UNCHANGED gateVars
  <2>1. GateTypeOK' /\ FitsUnderCap' /\ LosingDayOnlyReduces' /\ (Gross(lo) <= Room)' = (Gross(lo) <= Room)
    BY <1>6 DEF gateVars, inputs, GateInv, GateTypeOK, Whole, FitsUnderCap, Settled, LosingDayOnlyReduces,
                Gross, GrossOf, After, Counted, Room, Traded, Toward
  <2> QED
    BY <1>6, <2>1 DEF gateVars, inputs, GateInv, Whole
<1> QED
  BY <1>1, <1>2, <1>3, <1>4, <1>5, <1>6 DEF GateNext

THEOREM GateInvariant == GateSpec => []GateInv
<1> QED
  BY GateStart, GateStep, PTL DEF GateSpec

-----------------------------------------------------------------------------
\* The gate keeps its types: a bisection never crosses its bounds, and no
\* quantity it allows is negative.
THEOREM GateTypeCorrect == GateSpec => []GateTypeOK
<1>1. GateInv => GateTypeOK
  BY DEF GateInv
<1> QED
  BY GateInvariant, <1>1, PTL

\* risk.scale: after the gate either the book fits under the leverage cap or
\* nothing but whole closes were let through.
THEOREM CapHolds == GateSpec => []FitsUnderCap
<1>1. GateInv => FitsUnderCap
  BY DEF GateInv
<1> QED
  BY GateInvariant, <1>1, PTL

\* RuleGate.Check on a losing day, and Kill: what goes through makes no position
\* larger and turns none around.
THEOREM LosingDayHolds == GateSpec => []LosingDayOnlyReduces
<1>1. GateInv => LosingDayOnlyReduces
  BY DEF GateInv
<1> QED
  BY GateInvariant, <1>1, PTL
-----------------------------------------------------------------------------
\* The intents before s that may have taken one of the day's orders.
Before(s) == {t \in Symbols : t < s /\ delta[t] # 0}

\* What a close needs to be let through, whatever the rest of the book does.
Due(s) == /\ Whole(s) /\ delta[s] # 0 /\ quote[s] = "fresh"
          /\ Abs(delta[s]) * Price[s] <= MaxLeg
          /\ Cardinality(Before(s)) < MaxOrders

\* The contract made inductive: every survivor has taken one of the day's orders,
\* and no close that was due has been passed over.
ContractInv ==
  /\ left + Cardinality(alive) = MaxOrders
  /\ \A s \in alive : delta[s] # 0
  /\ \A s \in 1 .. visit - 1 : phase # "kill" /\ Due(s) => s \in alive
  /\ phase = "kill" => visit = 1
  /\ phase = "bisect" => visit = NSymbols + 1
  /\ GateContract

\* The survivors are finitely many, among the intents visited.
LEMMA Survivors ==
  ASSUME GateTypeOK
  PROVE  alive \subseteq Symbols /\ IsFiniteSet(alive) /\ Cardinality(alive) \in Nat
<1>1. NSymbols \in Nat /\ visit \in 1 .. NSymbols + 1 /\ alive \subseteq 1 .. visit - 1
  BY GateConstantsOK DEF GateTypeOK
<1>2. 1 .. visit - 1 \subseteq Symbols
  BY <1>1 DEF Symbols
<1>3. IsFiniteSet(Symbols)
  BY <1>1, FS_Interval DEF Symbols
<1> QED
  BY <1>1, <1>2, <1>3, FS_Subset, FS_CardinalityType

\* Less of a factor is less of a quantity.
LEMMA LessOfIt ==
  ASSUME NEW a \in Nat, NEW f \in Nat, NEW u \in Nat, f <= u
  PROVE  a * f \in Nat /\ a * u \in Nat /\ a * f <= a * u
<1>1. u - f \in Nat /\ a * u = a * f + a * (u - f)
  OBVIOUS
<1>2. a * f \in Nat /\ a * u \in Nat /\ a * (u - f) \in Nat
  BY <1>1, Times
<1> QED
  BY <1>1, <1>2

LEMMA ContractStart == GateInit => ContractInv
<1> SUFFICES ASSUME GateInit PROVE ContractInv
  OBVIOUS
<1>1. left = MaxOrders /\ MaxOrders \in Nat /\ alive = {} /\ Cardinality({}) = 0
  BY GateConstantsOK, FS_EmptySet DEF GateInit
<1>2. phase = "kill" /\ visit = 1
  BY DEF GateInit
<1>3. GateContract
  BY <1>2 DEF GateContract, ClosesGoThrough, WithinContract, Settled
<1> QED
  BY <1>1, <1>2, <1>3 DEF ContractInv

\* Settling, at whatever factor: the closes that were due survived and trade in
\* full, and nothing trades that did not survive.
LEMMA SettleKeepsContract ==
  ASSUME GateTypeOK, ContractInv, visit = NSymbols + 1, phase # "kill",
         NEW f \in 0 .. Unit, Settle(f), UNCHANGED <<inputs, visit, left, alive>>
  PROVE  ContractInv'
<1>1. /\ quantity' = Allowed(f) /\ phase' = "done" /\ held' = held /\ delta' = delta
      /\ quote' = quote /\ alive' = alive /\ visit' = visit /\ left' = left
  BY DEF Settle, inputs
<1>2. NSymbols \in Nat /\ visit - 1 = NSymbols /\ Unit \in Nat /\ f \in Nat /\ f <= Unit /\ MaxOrders \in Nat
  BY GateConstantsOK
<1>3. ASSUME NEW s \in Symbols PROVE Abs(delta[s]) \in Nat
  BY <1>3 DEF GateTypeOK, Abs
<1>4. ClosesGoThrough'
  <2> SUFFICES ASSUME NEW s \in Symbols, Whole(s), quote[s] = "fresh",
                      Abs(delta[s]) * Price[s] <= MaxLeg, Cardinality(Before(s)) < MaxOrders
               PROVE  Allowed(f)[s] = Abs(delta[s]) * Unit
    BY <1>1 DEF ClosesGoThrough, Whole, Before
  <2>1. CASE delta[s] = 0
    <3>1. s \notin alive /\ Abs(delta[s]) = 0
      BY <2>1 DEF ContractInv, Abs
    <3> QED
      BY <1>2, <3>1 DEF Allowed
  <2>2. CASE delta[s] # 0
    <3>1. s \in 1 .. visit - 1 /\ Due(s)
      BY <1>2, <2>2 DEF Due, Symbols
    <3>2. s \in alive
      BY <3>1 DEF ContractInv
    <3> QED
      BY <3>2 DEF Allowed
  <2> QED
    BY <2>1, <2>2
<1>5. WithinContract'
  <2>1. ASSUME NEW s \in Symbols
        PROVE  Allowed(f)[s] <= Abs(delta[s]) * Unit /\ (Allowed(f)[s] > 0 => s \in alive)
    <3>1. /\ Abs(delta[s]) * f \in Nat /\ Abs(delta[s]) * Unit \in Nat
          /\ Abs(delta[s]) * f <= Abs(delta[s]) * Unit
      BY <1>2, <1>3, LessOfIt
    <3> QED
      BY <3>1 DEF Allowed
  <2>2. {s \in Symbols : Allowed(f)[s] > 0} \subseteq alive
    BY <2>1
  <2>3. IsFiniteSet(alive) /\ Cardinality(alive) \in Nat /\ Cardinality(alive) <= MaxOrders
    <3>1. left \in Nat /\ left + Cardinality(alive) = MaxOrders
      BY DEF ContractInv, GateTypeOK
    <3> QED
      BY <1>2, <3>1, Survivors
  <2>4. Cardinality({s \in Symbols : Allowed(f)[s] > 0}) <= MaxOrders
    <3>1. /\ Cardinality({s \in Symbols : Allowed(f)[s] > 0}) <= Cardinality(alive)
          /\ IsFiniteSet({s \in Symbols : Allowed(f)[s] > 0})
      BY <2>2, <2>3, FS_Subset
    <3> QED
      BY <1>2, <2>3, <3>1, FS_CardinalityType
  <2> QED
    BY <1>1, <2>1, <2>4 DEF WithinContract
<1>6. \A s \in 1 .. visit - 1 : Due(s)' => s \in alive'
  BY <1>1 DEF ContractInv, Due, Whole, Before
<1> QED
  BY <1>1, <1>2, <1>4, <1>5, <1>6 DEF ContractInv, GateContract

\* A close that is due finds an order left: those before it took at most one each.
LEMMA AnOrderIsLeft ==
  ASSUME GateTypeOK, ContractInv, visit \in Symbols, Due(visit)
  PROVE  left > 0
<1>1. alive \subseteq Before(visit) /\ IsFiniteSet(Before(visit))
  <2>1. NSymbols \in Nat /\ IsFiniteSet(Symbols)
    BY GateConstantsOK, FS_Interval DEF Symbols
  <2>2. \A s \in alive : s \in Symbols /\ s < visit /\ delta[s] # 0
    BY <2>1, Survivors DEF ContractInv, GateTypeOK, Symbols
  <2> QED
    BY <2>1, <2>2, FS_Subset DEF Before
<1>2. /\ Cardinality(alive) <= Cardinality(Before(visit)) /\ Cardinality(alive) \in Nat
      /\ Cardinality(Before(visit)) \in Nat /\ Cardinality(Before(visit)) < MaxOrders
  BY <1>1, FS_Subset, FS_CardinalityType, Survivors DEF Due
<1>3. left \in Int /\ left + Cardinality(alive) = MaxOrders /\ MaxOrders \in Nat
  BY GateConstantsOK DEF ContractInv, GateTypeOK
<1> QED
  BY <1>2, <1>3

LEMMA ContractStep == GateInv /\ ContractInv /\ [GateNext]_gateVars => ContractInv'
<1> SUFFICES ASSUME GateInv, GateTypeOK, ContractInv, [GateNext]_gateVars PROVE ContractInv'
  BY DEF GateInv
<1>0. NSymbols \in Nat /\ visit \in 1 .. NSymbols + 1 /\ phase \in {"kill", "rules", "bisect", "done"}
  BY GateConstantsOK DEF GateTypeOK
<1>1. CASE Kill
  <2>1. /\ phase = "kill" /\ visit = 1 /\ visit' = visit /\ left' = left /\ alive' = alive /\ quantity' = quantity
        /\ delta' = delta /\ killed' = killed
        /\ phase' = IF killed THEN "done" ELSE "rules"
    BY <1>1 DEF Kill, inputs, ContractInv
  <2>2. quantity' = [s \in Symbols |-> 0]
    BY <2>1 DEF GateInv
  <2>3. ClosesGoThrough'
    BY <2>1 DEF ClosesGoThrough, Settled
  <2>4. WithinContract'
    <3>1. \A s \in Symbols : Abs(delta[s]) * Unit >= 0
      BY GateConstantsOK, Times DEF GateTypeOK, Abs
    <3>2. {s \in Symbols : quantity'[s] > 0} = {} /\ Cardinality({}) = 0 /\ MaxOrders \in Nat
      BY <2>2, FS_EmptySet, GateConstantsOK
    <3> QED
      BY <2>1, <2>2, <3>1, <3>2 DEF WithinContract
  <2> QED
    BY <2>1, <2>3, <2>4 DEF ContractInv, GateContract
<1>2. CASE Rule
  <2>1. /\ phase = "rules" /\ phase' = "rules" /\ visit' = visit + 1 /\ visit \in Symbols
        /\ held' = held /\ delta' = delta /\ quote' = quote /\ losing' = losing
    BY <1>0, <1>2 DEF Rule, inputs, Symbols
  <2>2. \A s \in Symbols : Due(s)' = Due(s)
    BY <2>1 DEF Due, Whole, Before
  <2>3. GateContract'
    BY <2>1 DEF GateContract, ClosesGoThrough, WithinContract, Settled
  <2>4. CASE delta[visit] # 0 /\ Passes(visit)
    <3>1. alive' = alive \union {visit} /\ left' = left - 1
      BY <1>2, <2>4 DEF Rule
    <3>2. visit \notin alive
      BY <1>0 DEF GateTypeOK
    <3>3. Cardinality(alive') = Cardinality(alive) + 1
      BY <3>1, <3>2, Survivors, FS_AddElement
    <3>4. left' + Cardinality(alive') = MaxOrders
      BY <3>1, <3>3, Survivors, GateConstantsOK DEF ContractInv, GateTypeOK
    <3>5. \A s \in 1 .. visit' - 1 : Due(s)' => s \in alive'
      BY <1>0, <2>1, <2>2, <3>1 DEF ContractInv, Symbols
    <3> QED
      BY <2>1, <2>3, <2>4, <3>1, <3>4, <3>5 DEF ContractInv
  <2>5. CASE ~(delta[visit] # 0 /\ Passes(visit))
    <3>1. alive' = alive /\ left' = left
      BY <1>2, <2>5 DEF Rule
    <3>2. ~Due(visit)
      BY <2>1, <2>5, AnOrderIsLeft DEF Due, Passes
    <3>3. \A s \in 1 .. visit' - 1 : s = visit \/ s \in 1 .. visit - 1
      BY <1>0, <2>1
    <3>4. \A s \in 1 .. visit' - 1 : Due(s)' => s \in alive'
      BY <1>0, <2>1, <2>2, <3>1, <3>2, <3>3 DEF ContractInv, Symbols
    <3> QED
      BY <2>1, <2>3, <3>1, <3>4 DEF ContractInv
  <2> QED
    BY <2>4, <2>5
<1>3. CASE Ends
  <2>0. phase = "rules" /\ visit = NSymbols + 1 /\ Unit \in 0 .. Unit /\ 0 \in 0 .. Unit
        /\ UNCHANGED <<inputs, visit, left, alive>>
    BY <1>0, <1>3, GateConstantsOK DEF Ends
  <2>1. CASE Settle(Unit) \/ Settle(0)
    BY <2>0, <2>1, SettleKeepsContract
  <2>2. CASE phase' = "bisect"
    <3>1. held' = held /\ delta' = delta /\ quote' = quote
      BY <2>0 DEF inputs
    <3>2. \A s \in 1 .. visit - 1 : Due(s)' = Due(s)
      BY <3>1 DEF Due, Whole, Before
    <3>3. GateContract'
      BY <2>2 DEF GateContract, ClosesGoThrough, WithinContract, Settled
    <3> QED
      BY <2>0, <2>2, <3>1, <3>2, <3>3 DEF ContractInv
  <2> QED
    BY <1>3, <2>1, <2>2 DEF Ends
<1>4. CASE Bisect
  <2>1. /\ phase = "bisect" /\ phase' = phase /\ visit' = visit /\ left' = left /\ alive' = alive
        /\ held' = held /\ delta' = delta /\ quote' = quote
    BY <1>4 DEF Bisect, inputs
  <2>2. \A s \in 1 .. visit - 1 : Due(s)' = Due(s)
    BY <2>1 DEF Due, Whole, Before
  <2>3. GateContract'
    BY <2>1 DEF GateContract, ClosesGoThrough, WithinContract, Settled
  <2> QED
    BY <2>1, <2>2, <2>3 DEF ContractInv
<1>5. CASE Found
  <2>1. /\ phase = "bisect" /\ visit = NSymbols + 1 /\ Settle(lo) /\ lo \in 0 .. Unit
        /\ UNCHANGED <<inputs, visit, left, alive>>
    BY <1>5 DEF Found, ContractInv, GateTypeOK
  <2> QED
    BY <2>1, SettleKeepsContract
<1>6. CASE UNCHANGED gateVars
  BY <1>6 DEF gateVars, inputs, ContractInv, GateContract, ClosesGoThrough, WithinContract, Settled,
              Due, Whole, Before
<1> QED
  BY <1>1, <1>2, <1>3, <1>4, <1>5, <1>6 DEF GateNext

\* RuleGate.Check, asked once for a whole day: a close with a quote, under the leg
\* cap and within the day's orders goes through in full whatever the other intents,
\* the daily limit and the leverage do, and what is let through is never more than
\* was asked for nor more orders than the day's limit.
THEOREM ContractHolds == GateSpec => []GateContract
<1>1. ContractInv => GateContract
  BY DEF ContractInv
<1>2. GateInit => ContractInv
  BY ContractStart
<1>3. GateInv /\ ContractInv /\ [GateNext]_gateVars => ContractInv'
  BY ContractStep
<1> QED
  BY GateInvariant, <1>1, <1>2, <1>3, PTL DEF GateSpec

-----------------------------------------------------------------------------
(* The paper book, for any days. *)

\* The product of two amounts is one.
LEMMA Product == \A a, b \in Nat : a * b \in Nat
OBVIOUS

\* An order pays a positive price, and a quantity of shares.
LEMMA PriceType ==
  ASSUME BookTypeOK, NEW side \in Side, NEW q \in Quantities, NEW limit \in Limits \union {0}
  PROVE  /\ Market(side) \in Nat \ {0} /\ Better(side, limit) \in Nat \ {0} /\ limit \in Nat
         /\ q \in Nat \ {0} /\ q * Better(side, limit) \in Nat
         /\ side = "sell" => q * Better(side, limit) >= Commission
<1>1. price \in Nat \ {0} /\ Slippage \in Nat /\ Slippage < price /\ limit \in Nat /\ q \in Nat \ {0}
  BY BookConstantsOK DEF BookTypeOK
<1>2. Market(side) \in Nat \ {0}
  BY <1>1 DEF Market, Side
<1>3. Better(side, limit) \in Nat \ {0}
  BY <1>1, <1>2 DEF Better
<1>4. side = "sell" => Better(side, limit) >= Commission /\ Commission \in Nat
  BY <1>1, <1>2, BookConstantsOK DEF Better, Market, BookTypeOK
<1>5. q * Better(side, limit) = Better(side, limit) + (q - 1) * Better(side, limit)
      /\ (q - 1) * Better(side, limit) \in Nat
  <2>1. q - 1 \in Nat
    BY <1>1
  <2> QED
    BY <1>1, <1>3, <2>1, Product
<1>6. q * Better(side, limit) \in Nat
  BY <1>1, <1>3, Product
<1> HIDE DEF Better
<1> QED
  BY <1>1, <1>2, <1>3, <1>4, <1>5, <1>6

\* What the three outcomes of an order leave behind.
LEMMA PlaceEffect ==
  ASSUME BookTypeOK, NEW side \in Side, NEW q \in Quantities, NEW limit \in Limits \union {0},
         Place(side, q, limit)
  PROVE  /\ cash' \in Int /\ qty' \in Int /\ resting' \subseteq Order
         /\ NoMargin => NoMargin'
<1>1. /\ Better(side, limit) \in Nat \ {0} /\ q \in Nat \ {0}
      /\ q * Better(side, limit) \in Nat /\ cash \in Int /\ qty \in Int
      /\ side = "sell" => q * Better(side, limit) >= Commission
      /\ Commission \in Nat
  BY PriceType, BookConstantsOK DEF BookTypeOK
<1> DEFINE at == Better(side, limit)
<1>2. CASE Fill(side, q, limit)
  <2>1. CASE side = "buy"
    <3>1. cash' = cash - q * at - Commission /\ qty' = qty + q /\ cash >= q * at + Commission
      BY <1>2, <2>1 DEF Fill, Pay, Signed, Affordable
    <3> QED
      BY <1>1, <1>2, <3>1 DEF Fill, BookTypeOK, NoMargin
  <2>2. CASE side = "sell"
    <3>1. cash' = cash - (-q) * at - Commission /\ qty' = qty + -q
      BY <1>2, <2>2 DEF Fill, Pay, Signed
    <3>2. (-q) * at = -(q * at)
      BY <1>1
    <3>3. resting' = resting
      BY <1>2 DEF Fill
    <3> HIDE DEF at
    <3>4. cash' = cash + (q * at - Commission) /\ q * at >= Commission /\ q * at \in Nat
      BY <1>1, <2>2, <3>1, <3>2 DEF at
    <3> QED
      BY <1>1, <3>1, <3>3, <3>4 DEF BookTypeOK, NoMargin
  <2> QED
    BY <2>1, <2>2 DEF Side
<1>3. CASE Rest(side, q, limit)
  <2>1. [n |-> placed, side |-> side, qty |-> q, limit |-> limit] \in Order
    BY <1>3 DEF Rest, Order, BookTypeOK
  <2> QED
    BY <1>1, <1>3, <2>1 DEF Rest, BookTypeOK, NoMargin
<1>4. CASE Reject(side, q, limit)
  BY <1>1, <1>4 DEF Reject, BookTypeOK, NoMargin
<1> QED
  BY <1>2, <1>3, <1>4 DEF Place

-----------------------------------------------------------------------------
\* A mark writes one row, of today, and keeps its opening.
LEMMA MarkEffect ==
  ASSUME BookTypeOK, MarkRow
  PROVE  /\ history' \in [Calendar -> Row] /\ Worth \in Int /\ history'[day].marked
         /\ \A d \in Calendar \ {day} : history'[d] = history[d]
         /\ history[day].marked => history'[day].opening = history[day].opening
<1>1. price \in Int
  BY BookConstantsOK DEF BookTypeOK
<1>2. Worth \in Int
  BY <1>1 DEF BookTypeOK, Worth
<1>3. day \in Calendar /\ history \in [Calendar -> Row] /\ history[day].opening \in Int
  BY DEF BookTypeOK, Row
<1> QED
  BY <1>2, <1>3 DEF MarkRow, Row

BookInv == BookTypeOK /\ NoMargin

THEOREM BookInvariant == BookSpec => []BookInv
<1>1. BookInit => BookInv
  <2> SUFFICES ASSUME BookInit PROVE BookInv
    OBVIOUS
  <2>1. NoRow \in Row /\ Marked = {}
    BY DEF BookInit, NoRow, Row, Marked
  <2> QED
    BY <2>1, BookConstantsOK DEF BookInit, BookInv, BookTypeOK, NoMargin, Calendar
<1>2. BookInv /\ [BookNext]_bookVars => BookInv'
  <2> SUFFICES ASSUME BookTypeOK, NoMargin, [BookNext]_bookVars PROVE BookTypeOK' /\ NoMargin'
    BY DEF BookInv
  <2>1. ASSUME MarkRow, gate' \in {"idle", "read"},
               UNCHANGED <<cash, qty, resting, placed, price, day>>
        PROVE  BookTypeOK' /\ NoMargin'
    <3>3. \A d \in Marked' : d <= day'
      BY <2>1, MarkEffect DEF BookTypeOK, Marked, Calendar
    <3>4. history' \in [Calendar -> Row]
      BY <2>1, MarkEffect
    <3> QED
      BY <2>1, <3>3, <3>4 DEF BookTypeOK, NoMargin
  <2>2. CASE Look
    BY <2>1, <2>2 DEF Look, BookTypeOK
  <2>3. CASE ReadAccount
    BY <2>1, <2>3 DEF ReadAccount
  <2>4. CASE EndRun
    <3>1. gate' \in {"idle", "read"}
      BY <2>4 DEF EndRun
    <3>2. CASE UNCHANGED history
      BY <2>4, <3>1, <3>2 DEF EndRun, BookTypeOK, NoMargin, Marked
    <3> QED
      BY <2>1, <2>4, <3>1, <3>2 DEF EndRun
  <2>5. ASSUME NEW side \in Side, NEW q \in Quantities, NEW limit \in Limits \union {0},
               Place(side, q, limit)
        PROVE  BookTypeOK' /\ NoMargin'
    <3>1. UNCHANGED <<history, price, day, gate>> /\ placed' = placed + 1
      BY <2>5 DEF Place
    <3> QED
      BY <2>5, <3>1, PlaceEffect DEF BookTypeOK, Marked
  <2>6. CASE (\E o \in resting : Cancel(o)) \/ Refill
    BY <2>6 DEF Cancel, Refill, BookTypeOK, NoMargin, Marked
  <2>7. CASE Midnight
    BY <2>7, BookConstantsOK DEF Midnight, BookTypeOK, NoMargin, Marked, Calendar
  <2>8. CASE UNCHANGED bookVars
    BY <2>8 DEF bookVars, BookTypeOK, NoMargin, Marked
  <2> QED
    BY <2>2, <2>3, <2>4, <2>5, <2>6, <2>7, <2>8 DEF BookNext
<1> QED
  BY <1>1, <1>2, PTL DEF BookSpec

\* There is no margin, for any prices, quantities, limits and days.
THEOREM NoMarginAlways == BookSpec => []NoMargin
BY BookInvariant, PTL DEF BookInv

\* The start of day stands still, for any prices, quantities, limits and days.
THEOREM StartOfDayStands == BookSpec => StartOfDayFixed
<1>1. BookInv /\ [BookNext]_bookVars =>
        (day' = day /\ history[day].marked => StartOfDay(day)' = StartOfDay(day))
  <2> SUFFICES ASSUME BookTypeOK, [BookNext]_bookVars, day' = day, history[day].marked
               PROVE  StartOfDay(day)' = StartOfDay(day)
    BY DEF BookInv
  <2>1. ASSUME history'[day].marked, history'[day].opening = history[day].opening
        PROVE  StartOfDay(day)' = StartOfDay(day)
    BY <2>1 DEF StartOfDay
  <2>2. CASE MarkRow
    BY <2>1, <2>2, MarkEffect
  <2>3. CASE UNCHANGED history
    BY <2>1, <2>3
  <2> QED
    BY <2>2, <2>3 DEF BookNext, Look, ReadAccount, EndRun, Place, Cancel, Refill,
       Midnight, bookVars
<1>2. [BookNext]_bookVars /\ BookInv =>
        [day' = day /\ history[day].marked => StartOfDay(day)' = StartOfDay(day)]_bookVars
  BY <1>1
<1> QED
  BY <1>2, BookInvariant, PTL DEF BookSpec, StartOfDayFixed

\* The row of losing days stands still within a day, for any limit and calendar.
THEOREM RowStands == BookSpec => RowFixedForTheDay
<1>1. BookInv /\ [BookNext]_bookVars =>
        (day' = day => DailyLimitHits(day)' = DailyLimitHits(day))
  <2> SUFFICES ASSUME BookTypeOK, [BookNext]_bookVars, day' = day
               PROVE  DailyLimitHits(day)' = DailyLimitHits(day)
    BY DEF BookInv
  <2>1. \A d \in Calendar : d < day => history'[d] = history[d]
    <3>1. CASE MarkRow
      BY <3>1, MarkEffect DEF BookTypeOK, Calendar
    <3>2. CASE UNCHANGED history
      BY <3>2
    <3> QED
      BY <3>1, <3>2 DEF BookNext, Look, ReadAccount, EndRun, Place, Cancel, Refill,
         Midnight, bookVars
  <2>2. \A d \in Calendar : d < day => (d \in Marked' <=> d \in Marked)
    BY <2>1 DEF Marked
  <2>3. Marked \subseteq Calendar /\ Marked' \subseteq Calendar
    BY DEF Marked
  <2>4. ASSUME NEW e \in Calendar, e < day
        PROVE  (\A f \in Marked' : e <= f /\ f < day => LimitHit(history'[f]))
                 <=> (\A f \in Marked : e <= f /\ f < day => LimitHit(history[f]))
    BY <2>1, <2>2, <2>3 DEF LimitHit
  <2>5. {e \in Marked' : e < day /\ \A f \in Marked' : e <= f /\ f < day => LimitHit(history'[f])}
          = {e \in Marked : e < day /\ \A f \in Marked : e <= f /\ f < day => LimitHit(history[f])}
    BY <2>2, <2>3, <2>4
  <2> QED
    BY <2>5 DEF DailyLimitHits, HitsAmong
<1>2. [BookNext]_bookVars /\ BookInv =>
        [day' = day => DailyLimitHits(day)' = DailyLimitHits(day)]_bookVars
  BY <1>1
<1> QED
  BY <1>2, BookInvariant, PTL DEF BookSpec, RowFixedForTheDay

\* What the gate reads of the days behind a run stands still within a day, for
\* any calendar, prices and limits, however runs, looks, trades and refills mix.
THEOREM GateReadsStandStill == BookSpec => GateReadsStand
BY StartOfDayStands, RowStands DEF GateReadsStand

-----------------------------------------------------------------------------
(* What a fill costs.                                                      *)

\* Products of sums, and of what is at most something.
LEMMA Sums == \A a, b, c \in Int : (a + b) * c = a * c + b * c /\ (-a) * c = -(a * c) /\ a * c \in Int
OBVIOUS

LEMMA AtMost ==
  ASSUME NEW q \in Nat, NEW d \in Nat, NEW e \in Nat, d <= e
  PROVE  q * d \in Nat /\ q * d <= q * e
<1>1. e - d \in Nat
  OBVIOUS
<1>2. q * (e - d) \in Nat /\ q * d \in Nat /\ q * e \in Nat
  BY <1>1, Product
<1>3. q * e = q * d + q * (e - d)
  OBVIOUS
<1> HIDE DEF Nat
<1> QED BY <1>2, <1>3

\* An order that fills at once pays within the slippage of the price, never on
\* the near side of it.
LEMMA NearThePrice ==
  ASSUME BookTypeOK, NEW side \in Side, NEW limit \in Limits \union {0},
         limit = 0 \/ Marketable(side, limit)
  PROVE  /\ side = "buy" => Better(side, limit) - price \in 0 .. Slippage
         /\ side = "sell" => price - Better(side, limit) \in 0 .. Slippage
  BY BookConstantsOK DEF BookTypeOK, Marketable, Better, Market, Side

\* A fill costs its slippage and commission, for any prices, quantities and limits.
THEOREM FillsCost == BookSpec => FillsCostOnlyCosts
<1> DEFINE Costs ==
      qty' # qty => LET traded == IF qty' > qty THEN qty' - qty ELSE qty - qty'
                    IN  Worth' <= Worth /\ Worth' >= Worth - traded * Slippage - Commission
<1>1. BookTypeOK /\ [BookNext]_bookVars => [Costs]_bookVars
  <2> SUFFICES ASSUME BookTypeOK, [BookNext]_bookVars PROVE Costs
    OBVIOUS
  <2>1. ASSUME NEW side \in Side, NEW q \in Quantities, NEW limit \in Limits \union {0},
               Place(side, q, limit), Fill(side, q, limit)
        PROVE  Costs
    <3> DEFINE at == Better(side, limit)
               move == IF side = "buy" THEN q ELSE -q
               off == IF side = "buy" THEN at - price ELSE price - at
    <3>1. /\ price' = price /\ qty' = qty + move /\ cash' = cash - move * at - Commission
          /\ limit = 0 \/ Marketable(side, limit)
      BY <2>1 DEF Place, Fill, Pay, Signed
    <3>2. /\ price \in Nat /\ qty \in Int /\ cash \in Int /\ q \in Nat \ {0} /\ at \in Nat
          /\ Slippage \in Nat /\ Commission \in Nat
      BY PriceType, BookConstantsOK DEF BookTypeOK
    <3>3. off \in 0 .. Slippage
      BY <3>1, NearThePrice DEF Side
    <3> HIDE DEF at
    <3>4. /\ (qty + move) * price = qty * price + move * price
          /\ move * price - move * at = -(q * off) /\ move * price \in Int /\ move * at \in Int /\ qty * price \in Int
      <4>1. CASE side = "buy"
        <5>1. move = q /\ off = at - price
          BY <4>1
        <5>2. q * at = q * price + q * (at - price)
          BY <3>2
        <5>3. q * at \in Int /\ q * price \in Int /\ qty * price \in Int /\ q * (at - price) \in Int
              /\ (qty + q) * price = qty * price + q * price
          BY <3>2, Sums
        <5> QED BY <5>1, <5>2, <5>3
      <4>2. CASE side # "buy"
        <5>1. move = -q /\ off = price - at
          BY <4>2
        <5>2. q * price = q * at + q * (price - at)
          BY <3>2
        <5>3. (-q) * at = -(q * at) /\ (-q) * price = -(q * price) /\ q * at \in Int /\ q * price \in Int
              /\ qty * price \in Int /\ q * (price - at) \in Int /\ (qty + (-q)) * price = qty * price + (-q) * price
          BY <3>2, Sums
        <5> QED BY <5>1, <5>2, <5>3
      <4> QED BY <4>1, <4>2
    <3>5. q * off \in Nat /\ q * off <= q * Slippage /\ q * Slippage \in Nat
      BY <3>2, <3>3, AtMost, Product
    <3>6. Worth' = Worth - q * off - Commission
      <4>1. Worth' = cash - move * at - Commission + (qty + move) * price
        BY <3>1 DEF Worth
      <4> DEFINE paid == move * at  gained == move * price  had == qty * price  spent == q * off
      <4>2. /\ (qty + move) * price = had + gained /\ gained - paid = -spent
            /\ gained \in Int /\ paid \in Int /\ had \in Int /\ spent \in Int
        BY <3>4, <3>5
      <4>3. Worth' = cash - paid - Commission + (qty + move) * price /\ Worth = cash + had
        BY <4>1 DEF Worth
      <4> HIDE DEF paid, gained, had, spent, move
      <4>4. Worth' = Worth - spent - Commission
        BY <3>2, <4>2, <4>3
      <4> QED BY <4>4 DEF spent
    <3>7. (IF qty' > qty THEN qty' - qty ELSE qty - qty') = q
      BY <3>1, <3>2
    <3>8. Worth \in Int
      BY <3>2, <3>4 DEF Worth
    <3> HIDE DEF off, move
    <3> QED BY <3>2, <3>5, <3>6, <3>7, <3>8
  <2>2. ASSUME NEW side \in Side, NEW q \in Quantities, NEW limit \in Limits \union {0},
               Place(side, q, limit)
        PROVE  Costs
    <3>1. CASE Fill(side, q, limit)
      BY <2>1, <2>2, <3>1
    <3>2. CASE Rest(side, q, limit) \/ Reject(side, q, limit)
      BY <3>2 DEF Rest, Reject
    <3> QED BY <2>2, <3>1, <3>2 DEF Place
  <2>3. CASE Look \/ ReadAccount \/ EndRun \/ Refill \/ Midnight \/ (\E o \in resting : Cancel(o))
             \/ UNCHANGED bookVars
    BY <2>3 DEF Look, ReadAccount, EndRun, Refill, Midnight, Cancel, bookVars
  <2> QED BY <2>2, <2>3 DEF BookNext
<1>2. BookInv => BookTypeOK
  BY DEF BookInv
<1> QED BY <1>1, <1>2, BookInvariant, PTL DEF BookSpec, FillsCostOnlyCosts
=============================================================================
