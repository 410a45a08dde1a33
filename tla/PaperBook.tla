----------------------------- MODULE PaperBook -----------------------------
(***************************************************************************)
(* The paper book (package broker/paper) in one symbol: cash, a position,  *)
(* resting limits, and the equity history the risk gate's account rules    *)
(* are measured from.  Every operation is one SQLite transaction under one *)
(* mutex, so each is one action and a crash falls between two of them;     *)
(* reopening the file changes nothing.                                     *)
(*                                                                         *)
(* Prices move when the bars on disk are refilled; a day is a UTC day.     *)
(* The book is marked by whoever asks for its equity: the daily run twice, *)
(* and the app whenever it is looked at, weekends included.                *)
(***************************************************************************)
EXTENDS Integers, FiniteSets

CONSTANTS
  Days,          \* bound: the modelled days are 1 .. Days
  TradingDays,   \* those of them the exchange is open
  Prices,        \* what a share may cost
  Quantities,    \* what an order may ask for
  Limits,        \* limit prices an order may carry; a market order has 0
  MaxPlaced,     \* bound: orders placed
  StartingCash,
  Slippage,      \* what a market order pays beyond the price, a share
  Commission,    \* charged once per filled order; the server's book has none
  LossPct        \* daily_loss_limit, in percent

Calendar == 1 .. Days

ASSUME BookConstantsOK ==
  /\ Days \in Nat \ {0} /\ TradingDays \subseteq Calendar
  /\ Prices \subseteq Nat \ {0} /\ Prices # {}
  /\ Quantities \subseteq Nat \ {0}
  /\ Limits \subseteq Nat /\ MaxPlaced \in Nat
  /\ StartingCash \in Nat \ {0}
  /\ Slippage \in Nat /\ Commission \in Nat
  /\ \A p \in Prices : Slippage + Commission < p
  /\ LossPct \in 1 .. 100

VARIABLES
  cash, qty,   \* the book: money, and shares held (negative when short)
  resting,     \* open limit orders
  placed,      \* next_order: orders placed so far
  history,     \* equity_history: one row per day that was marked
  price,       \* what the quotes say a share costs
  day,         \* the UTC day
  gate         \* the daily run: idle, or on with what it read of the account

bookVars == <<cash, qty, resting, placed, history, price, day, gate>>

Side == {"buy", "sell"}
Order == [n : Nat, side : Side, qty : Quantities, limit : Limits \ {0}]
Row == [marked : BOOLEAN, opening : Int, equity : Int]
NoRow == [marked |-> FALSE, opening |-> 0, equity |-> 0]

Worth == cash + qty * price

-----------------------------------------------------------------------------
(* What the gate asks of the book *)

Marked == {d \in Calendar : history[d].marked}
Latest(D) == CHOOSE d \in D : \A e \in D : e <= d

\* The first mark of the day, else the last of an earlier day, else the cash
\* the book opened with.
StartOfDay(d) ==
  LET earlier == {e \in Marked : e < d}
  IN  IF history[d].marked THEN history[d].opening
      ELSE IF earlier # {} THEN history[Latest(earlier)].equity ELSE StartingCash

\* DailyLimitHit: is to a loss of the daily limit, measured from?
Lost(from, to) == from > 0 /\ (from - to) * 100 >= LossPct * from

LimitHit(row) == Lost(row.opening, row.equity)

\* The rows before a day, newest first, up to one that did not lose the limit.
HitsAmong(D, d) ==
  {e \in D : e < d /\ \A f \in D : e <= f /\ f < d => LimitHit(history[f])}
DailyLimitHits(d) == Cardinality(HitsAmong(Marked, d))

-----------------------------------------------------------------------------
BookInit ==
  /\ cash = StartingCash /\ qty = 0 /\ resting = {} /\ placed = 0
  /\ history = [d \in Calendar |-> NoRow]
  /\ price \in Prices /\ day = 1 /\ gate = "idle"

\* A faulty variant of MarkRow: the opening follows the latest mark.
MarkAfresh ==
  history' = [history EXCEPT ![day] = [marked |-> TRUE, opening |-> Worth, equity |-> Worth]]

\* mark: the first of a day opens its row, later ones overwrite its equity.
MarkRow ==
  history' = [history EXCEPT ![day] =
                [marked |-> TRUE, equity |-> Worth,
                 opening |-> IF history[day].marked THEN history[day].opening ELSE Worth]]

\* Snapshot: the app is looked at.
Look ==
  /\ MarkRow
  /\ UNCHANGED <<cash, qty, resting, placed, price, day, gate>>

\* The run reads the account, which marks the book; what it asks of the
\* history comes after (module DailyRun's Gather and Kill).
ReadAccount ==
  /\ day \in TradingDays /\ gate = "idle"
  /\ MarkRow
  /\ gate' = "read"
  /\ UNCHANGED <<cash, qty, resting, placed, price, day>>

\* The run is over, and marked the book once more unless it was cut off.
EndRun ==
  /\ gate = "read"
  /\ MarkRow \/ UNCHANGED history
  /\ gate' = "idle"
  /\ UNCHANGED <<cash, qty, resting, placed, price, day>>

\* What a side pays at the market, and whether a limit is marketable.
Market(side) == IF side = "buy" THEN price + Slippage ELSE price - Slippage
Marketable(side, limit) == IF side = "buy" THEN limit >= price ELSE limit <= price
Better(side, limit) ==
  LET m == Market(side)
  IN  IF limit = 0 THEN m
      ELSE IF side = "buy" THEN (IF limit < m THEN limit ELSE m)
      ELSE (IF limit > m THEN limit ELSE m)

Signed(side, q) == IF side = "buy" THEN q ELSE -q

\* Faulty variants of Affordable and Pay: no check, and a sell that costs money.
Unchecked(side, q, at) == TRUE
PayAlways(side, q, at) == cash - q * at - Commission

\* There is no margin: a buy needs the cash; a sell needs nothing.
Affordable(side, q, at) == side = "buy" => cash >= q * at + Commission

Pay(side, q, at) == cash - Signed(side, q) * at - Commission

\* An order is filled at once or rests; a limit rests when it is not marketable.
Fill(side, q, limit) ==
  LET at == Better(side, limit)
  IN  /\ limit = 0 \/ Marketable(side, limit)
      /\ Affordable(side, q, at)
      /\ qty' = qty + Signed(side, q)
      /\ cash' = Pay(side, q, at)
      /\ UNCHANGED resting

Rest(side, q, limit) ==
  /\ limit # 0 /\ ~Marketable(side, limit)
  /\ Affordable(side, q, limit)
  /\ resting' = resting \union {[n |-> placed, side |-> side, qty |-> q, limit |-> limit]}
  /\ UNCHANGED <<cash, qty>>

\* A refused order leaves its row in the orders table and nothing else: there is
\* no quote, or not the cash.
Reject(side, q, limit) ==
  /\ \E quoted \in BOOLEAN : quoted =>
       ~Affordable(side, q, IF limit = 0 \/ Marketable(side, limit)
                              THEN Better(side, limit) ELSE limit)
  /\ UNCHANGED <<cash, qty, resting>>

\* Only a run sends orders.
Place(side, q, limit) ==
  /\ gate = "read"
  /\ placed < MaxPlaced /\ placed' = placed + 1
  /\ Fill(side, q, limit) \/ Rest(side, q, limit) \/ Reject(side, q, limit)
  /\ UNCHANGED <<history, price, day, gate>>

\* Only a resting order can be cancelled; nothing else ever closes one.
Cancel(o) ==
  /\ resting' = resting \ {o}
  /\ UNCHANGED <<cash, qty, placed, history, price, day, gate>>

\* The bars are refilled, and a share costs something else.
Refill ==
  /\ \E p \in Prices \ {price} : price' = p
  /\ UNCHANGED <<cash, qty, resting, placed, history, day, gate>>

Midnight ==
  /\ day < Days /\ gate = "idle"
  /\ day' = day + 1
  /\ UNCHANGED <<cash, qty, resting, placed, history, price, gate>>

BookNext ==
  \/ Look \/ ReadAccount \/ EndRun \/ Refill \/ Midnight
  \/ \E side \in Side, q \in Quantities, limit \in Limits \union {0} : Place(side, q, limit)
  \/ \E o \in resting : Cancel(o)

BookSpec == BookInit /\ [][BookNext]_bookVars

-----------------------------------------------------------------------------
(* Properties *)

\* The book keeps its types, and knows no day that has not come.
BookTypeOK ==
  /\ cash \in Int /\ qty \in Int /\ placed \in Nat
  /\ resting \subseteq Order
  /\ history \in [Calendar -> Row] /\ \A d \in Marked : d <= day
  /\ price \in Prices /\ day \in Calendar
  /\ gate \in {"idle", "read"}

\* There is no margin: whatever was bought, shorted and bought back, cash is
\* never below zero.
NoMargin == cash >= 0

\* A fill costs the book its slippage and commission and nothing else: what leaves the cash
\* enters the position, opening, closing and through zero alike.
FillsCostOnlyCosts ==
  [][qty' # qty => LET traded == IF qty' > qty THEN qty' - qty ELSE qty - qty'
                   IN  Worth' <= Worth /\ Worth' >= Worth - traded * Slippage - Commission]_bookVars

\* The start of day the gate measures the loss from does not move while the day
\* lasts, once the day was marked.
StartOfDayFixed ==
  [][day' = day /\ history[day].marked => StartOfDay(day)' = StartOfDay(day)]_bookVars

\* The row of losing days the gate counts is the same all day, however often the
\* book is marked: it is made of the days before.
RowFixedForTheDay ==
  [][day' = day => DailyLimitHits(day)' = DailyLimitHits(day)]_bookVars

\* Both: two runs of a day, or a run and a look at the book, are never told of
\* different days behind them.
GateReadsStand == StartOfDayFixed /\ RowFixedForTheDay
=============================================================================
