------------------------------ MODULE Rotation ------------------------------
(***************************************************************************)
(* The live rotation: rotation.Cycler.Run with the strategy it asks        *)
(* (xlksata) and the book it keeps in rotation.json, against a broker that *)
(* fills, cancels and answers in its own time.  One process runs one cycle *)
(* at a time; its reads of the broker are separate calls, so the broker    *)
(* may move between any two of them.                                       *)
(*                                                                         *)
(* A lot is Lot shares of the risk symbol; profit and premium are per      *)
(* share of a lot; a share of the parking symbol costs one.  A quote has   *)
(* no spread.  A call is known by its strike, and NoCall is none.          *)
(***************************************************************************)
EXTENDS Integers, Sequences, FiniteSets, FiniteSetsExt

CONSTANTS
  Lot,                     \* shares in the lot
  Prices,                  \* what a share may be quoted and filled at
  Contracts,               \* what the chain may offer: [strike, limit]
  Asks,                    \* what a call may cost to buy back
  QuickPct, RecoveryPct,   \* the targets, in per cent of the entry price
  BufferPct,               \* FundingBuffer
  LookBack,                \* days Settle looks back for an order
  OrdersPerDay,            \* the gate's MaxOrdersPerDay
  Funds,                   \* [cash, park] the account may begin with
  MaxOrders, MaxDays,      \* bounds: orders ever sent, days,
  MaxFaults                \*   and orders sent without being recorded

NoCall == 0
Strikes == {c.strike : c \in Contracts}

ASSUME RotationConstantsOK ==
  /\ {Lot, OrdersPerDay} \subseteq Nat \ {0}
  /\ Prices \subseteq Nat \ {0} /\ Asks \subseteq Nat \ {0}
  /\ Contracts \subseteq [strike : Nat \ {0}, limit : Nat \ {0}]
  /\ {QuickPct, RecoveryPct, BufferPct, LookBack, MaxOrders, MaxDays, MaxFaults} \subseteq Nat
  /\ QuickPct <= RecoveryPct
  /\ Funds \subseteq [cash : Nat, park : Nat]

VARIABLES
  shares, park, cash,      \* the account
  short,                   \* short[k]: calls written at strike k
  orders,                  \* the orders the broker accepted and nobody has settled, by id
  day,
  file,                    \* rotation.json
  pc, book, seen, intent,  \* the cycle: where it is, its copy of the book, what it
                           \*   has read, and the order it means to send
  placed,                  \* how many orders the broker accepted
  sent,                    \* history: orders the broker accepted today
  real,                    \* history: what the lot cost and its calls brought in
  astray,                  \* history: orders whose fate the file never learned
  slipped                  \* history: such an order filled between two reads of a cycle

account == <<shares, park, cash, short>>
cycle == <<pc, book, seen, intent>>
history == <<sent, real, astray, slipped>>
rotationVars == <<account, placed, orders, day, file, cycle, history>>

Lots == {"buyLot", "sellLot"}
Parks == {"buyPark", "sellPark"}
Calls == {"writeCall", "buyCall"}

Flat == [mode |-> "flat", entry |-> 0, pnl |-> 0, call |-> NoCall]
NoRead == [cash |-> 0, shares |-> 0, park |-> 0, working |-> FALSE, short |-> {}]
Order(kind, qty, k, limit) == [kind |-> kind, qty |-> qty, strike |-> k, limit |-> limit]
NoIntent == Order("none", 0, NoCall, 0)

Ids == DOMAIN orders
Working(i) == orders[i].state = "working"
AtWork == {i \in Ids : Working(i)}
Open(st) == st.mode # "flat"

-----------------------------------------------------------------------------
(* Settle: the fate of the order the book waits for, folded into its state. *)

ApplyEntry(price) == [Flat EXCEPT !.mode = "held", !.entry = price]

\* A faulty variant of Applied: a premium is what was asked for, not what was got.
AppliedAtLimit(st, o) ==
  CASE o.kind = "buyLot"    -> ApplyEntry(o.price)
    [] o.kind = "sellLot"   -> Flat
    [] o.kind = "writeCall" -> [st EXCEPT !.call = o.strike, !.pnl = @ + o.limit]
    [] o.kind = "buyCall"   -> [st EXCEPT !.call = NoCall, !.pnl = @ - o.limit]
    [] o.kind \in Parks     -> st

Applied(st, o) ==
  CASE o.kind = "buyLot"    -> ApplyEntry(o.price)
    [] o.kind = "sellLot"   -> Flat
    [] o.kind = "writeCall" -> [st EXCEPT !.call = o.strike, !.pnl = @ + o.price]
    [] o.kind = "buyCall"   -> [st EXCEPT !.call = NoCall, !.pnl = @ - o.price]
    [] o.kind \in Parks     -> st

\* The broker's list begins LookBack days ago.
Found(i) == orders[i].day + LookBack >= day

Settled(b) ==
  IF b.pending = 0 \/ (Found(b.pending) /\ Working(b.pending)) THEN b
  ELSE [b EXCEPT !.pending = 0,
                 !.state = IF Found(b.pending) /\ orders[b.pending].state = "filled"
                           THEN Applied(@, orders[b.pending]) ELSE @]

-----------------------------------------------------------------------------
(* Decide: what the strategy wants of the book it is shown. *)

\* reconcile: a call that is gone was assigned with the shares, or left them.
CallGone(st) == st.call # NoCall /\ seen.short = {}

Reconciles(st) ==
  /\ Cardinality(seen.short) <= 1
  /\ seen.short \subseteq {st.call}
  /\ IF CallGone(st) THEN seen.shares \in {0, Lot}
     ELSE seen.shares = IF Open(st) THEN Lot ELSE 0

Reconciled(st) ==
  IF ~CallGone(st) THEN st
  ELSE IF seen.shares = 0 THEN Flat ELSE [st EXCEPT !.call = NoCall]

Plan(st, in) == [next |-> st, intent |-> in]

CeilDiv(a, b) == (a + b - 1) \div b

\* entry: buy the lot, or sell what it takes of the parking symbol.
Entry(st, p) ==
  LET cost == Lot * p
      wanted == CeilDiv(cost * (100 + BufferPct) - seen.cash * 100, 100)
      qty == IF wanted > seen.park THEN seen.park ELSE wanted
  IN  IF Open(st) THEN Plan(st, NoIntent)
      ELSE IF seen.cash >= cost THEN Plan(st, Order("buyLot", Lot, NoCall, 0))
      ELSE IF qty <= 0 \/ seen.cash + qty < cost THEN Plan(st, NoIntent)
      ELSE Plan(st, Order("sellPark", qty, NoCall, 0))

\* sweep: idle cash goes to the parking symbol, less the buffer.
Sweep(st) ==
  LET qty == (seen.cash * 100) \div (100 + BufferPct)
  IN  Plan(st, IF qty < 1 THEN NoIntent ELSE Order("buyPark", qty, NoCall, 0))

Reaches(gain, st, pct) == 100 * gain >= pct * st.entry

Combined(st, p, ask) == p - st.entry + st.pnl - (IF st.call = NoCall THEN 0 ELSE ask)

\* A faulty variant of Qualifies: no assignment test.
QualifiesByStrike(c, st) == c.strike >= st.entry

\* SelectCall's tests that are about the lot; the chain is asked only when the
\* book that was loaded is in recovery without a call.
Qualifies(c, st) ==
  /\ c.strike >= st.entry
  /\ Reaches(c.strike - st.entry + st.pnl + c.limit, st, RecoveryPct)

Candidates(st, offered) ==
  IF book.state.mode = "recovery" /\ book.state.call = NoCall
  THEN {c \in offered : Qualifies(c, st)} ELSE {}

\* A faulty variant of Recover: the shares first.
RecoverSharesFirst(st, p, ask, offered) ==
  IF Reaches(Combined(st, p, ask), st, RecoveryPct)
  THEN {Plan(st, Order("sellLot", Lot, NoCall, 0))}
  ELSE IF st.call # NoCall \/ Candidates(st, offered) = {} THEN {Plan(st, NoIntent)}
  ELSE {Plan(st, Order("writeCall", 1, c.strike, c.limit)) : c \in Candidates(st, offered)}

\* recover: the target, the call first; else a call; else hold.
Recover(st, p, ask, offered) ==
  IF Reaches(Combined(st, p, ask), st, RecoveryPct)
  THEN {Plan(st, IF st.call = NoCall THEN Order("sellLot", Lot, NoCall, 0)
                 ELSE Order("buyCall", 1, st.call, ask))}
  ELSE IF st.call # NoCall \/ Candidates(st, offered) = {} THEN {Plan(st, NoIntent)}
  ELSE {Plan(st, Order("writeCall", 1, c.strike, c.limit)) : c \in Candidates(st, offered)}

Review(st, p, ask, offered) ==
  CASE st.mode = "flat"     -> {Sweep(st)}
    [] st.mode = "recovery" -> Recover(st, p, ask, offered)
    [] st.mode = "held"     ->
         IF Reaches(p - st.entry, st, QuickPct)
         THEN {Plan(st, Order("sellLot", Lot, NoCall, 0))}
         ELSE Recover([st EXCEPT !.mode = "recovery"], p, ask, offered)

Manage(st, p, ask, offered) ==
  CASE st.mode = "flat"     -> {Sweep(st)}
    [] st.mode = "recovery" -> Recover(st, p, ask, offered)
    [] st.mode = "held"     -> {Plan(st, NoIntent)}

\* A faulty variant of StillWorking: only the count.
StillWorkingCounted == seen.working

\* A pending order is a working one, whatever the count said.
StillWorking == seen.working \/ book.pending # 0

Plans(phase, st, p, ask, offered) ==
  IF StillWorking THEN {Plan(st, NoIntent)}
  ELSE CASE phase = "entry"  -> {Entry(st, p)}
         [] phase = "review" -> Review(st, p, ask, offered)
         [] phase = "manage" -> Manage(st, p, ask, offered)

-----------------------------------------------------------------------------
(* A cycle. *)

Init ==
  /\ \E f \in Funds : cash = f.cash /\ park = f.park
  /\ shares = 0 /\ short = [k \in Strikes |-> 0]
  /\ orders = <<>> /\ placed = 0 /\ day = 1
  /\ file = [state |-> Flat, pending |-> 0, day |-> 1, ordersToday |-> 0]
  /\ pc = "idle" /\ book = file
  /\ seen = NoRead /\ intent = NoIntent
  /\ sent = 0 /\ real = [entry |-> 0, option |-> 0]
  /\ astray = {} /\ slipped = FALSE

Ends == pc' = "idle" /\ seen' = NoRead /\ intent' = NoIntent

\* Load, Settle, and Save if there was an order to ask about.  Nobody asks about
\* it again once it is settled.
Begin ==
  /\ pc = "idle" /\ pc' = "account"
  /\ book' = Settled(file) /\ file' = book'
  /\ IF file.pending # book'.pending
     THEN orders' = [i \in Ids \ {file.pending} |-> orders[i]]
     ELSE UNCHANGED orders
  /\ astray' = astray \union
       {i \in {file.pending} \cap Ids : ~Found(i) /\ orders[i].done > 0}
  /\ UNCHANGED <<account, placed, day, seen, intent, sent, real, slipped>>

\* Marks.Roll: a new day begins its count of orders afresh.
Roll(b) == IF b.day = day THEN b ELSE [b EXCEPT !.day = day, !.ordersToday = 0]

\* The snapshot, one call after another.  Buying power is the cash no working
\* buy has a claim on.
Claim(i) ==
  LET o == orders[i] left == o.qty - o.done
  IN  CASE o.kind = "buyLot"  -> left * Max(Prices)
        [] o.kind = "buyPark" -> left
        [] o.kind = "buyCall" -> left * o.limit * Lot
        [] OTHER -> 0
BuyingPower == cash - MapThenSumSet(Claim, AtWork)

ReadAccount ==
  /\ pc = "account" /\ pc' = "working"
  /\ book' = Roll(book)
  /\ seen' = [seen EXCEPT !.cash = BuyingPower, !.shares = shares, !.park = park]
  /\ UNCHANGED <<account, placed, orders, day, file, intent, history>>

ReadWorking ==
  /\ pc = "working" /\ pc' = "calls"
  /\ seen' = [seen EXCEPT !.working = AtWork # {}]
  /\ UNCHANGED <<account, placed, orders, day, file, book, intent, history>>

ReadCalls ==
  /\ pc = "calls" /\ pc' = "decide"
  /\ seen' = [seen EXCEPT !.short = {k \in Strikes : short[k] > 0}]
  /\ UNCHANGED <<account, placed, orders, day, file, book, intent, history>>

\* The gate refuses over the day's limit; a losing day, the notional cap and the
\* missing confirmation are its other reasons.
Allows == book.ordersToday < OrdersPerDay

\* Decide, Save, and the gate's answer to the intent.
Decide ==
  /\ pc = "decide" /\ seen.cash >= 0 /\ Reconciles(book.state)
  /\ \E phase \in {"entry", "review", "manage"}, p \in Prices, ask \in Asks, offered \in SUBSET Contracts :
     \E plan \in Plans(phase, Reconciled(book.state), p, ask, offered) :
       /\ book' = [book EXCEPT !.state = plan.next]
       /\ file' = book'
       /\ \/ Ends
          \/ /\ plan.intent # NoIntent /\ Allows
             /\ pc' = "place" /\ intent' = plan.intent /\ seen' = NoRead
  /\ UNCHANGED <<account, placed, orders, day, history>>

\* validate and reconcile halt the cycle; what was rolled is not saved.
Halts ==
  /\ pc = "decide" /\ (seen.cash < 0 \/ ~Reconciles(book.state))
  /\ book' = file /\ Ends
  /\ UNCHANGED <<account, placed, orders, day, file, history>>

\* Review, then place.  The broker accepts the order, and its answer comes back
\* or is lost.
Place ==
  /\ pc = "place" /\ placed < MaxOrders
  /\ placed' = placed + 1 /\ sent' = sent + 1
  /\ orders' = [i \in Ids \union {placed'} |->
       IF i \in Ids THEN orders[i]
       ELSE [kind |-> intent.kind, qty |-> intent.qty, strike |-> intent.strike,
             limit |-> intent.limit, state |-> "working", done |-> 0, price |-> 0, day |-> day]]
  /\ \/ pc' = "record" /\ UNCHANGED <<book, seen, intent, astray>>
     \/ /\ Cardinality(astray) < MaxFaults
        /\ astray' = astray \union {placed'}
        /\ book' = file /\ Ends
  /\ UNCHANGED <<account, day, file, real, slipped>>

\* The order is counted, becomes the pending one, and the book is saved.
Record ==
  /\ pc = "record"
  /\ book' = [book EXCEPT !.pending = placed, !.ordersToday = @ + 1]
  /\ file' = book' /\ Ends
  /\ UNCHANGED <<account, placed, orders, day, history>>

\* A read, a review or a save fails, or the process dies.
Abandon ==
  /\ pc # "idle"
  /\ \/ pc # "record" /\ UNCHANGED astray
     \/ /\ pc = "record" /\ Cardinality(astray) < MaxFaults
        /\ astray' = astray \union {placed}
  /\ book' = file /\ Ends
  /\ UNCHANGED <<account, placed, orders, day, file, sent, real, slipped>>

-----------------------------------------------------------------------------
(* The broker. *)

\* Whose fill the file will not be told of, if it comes now.
Unknown(i) == i # file.pending /\ ~(pc = "record" /\ i = placed)

FillPrices(o) ==
  CASE o.kind \in Lots   -> IF o.done > 0 THEN {o.price} ELSE Prices
    [] o.kind \in Parks  -> {1}
    [] o.kind = "writeCall" -> {o.limit, o.limit + 1}
    [] o.kind = "buyCall" -> {o.limit}

\* n more of order i are filled at price q.
Fill(i, n, q) ==
  LET o == orders[i] IN
  /\ Working(i)
  /\ orders' = [orders EXCEPT ![i].done = @ + n, ![i].price = q,
                   ![i].state = IF o.done + n = o.qty THEN "filled" ELSE @]
  /\ slipped' = (slipped \/ (pc = "working" /\ Unknown(i)))
  /\ CASE o.kind = "buyLot" ->
            /\ shares' = shares + n /\ cash' = cash - n * q
            /\ real' = [entry |-> q, option |-> 0] /\ UNCHANGED <<park, short>>
       [] o.kind = "sellLot" ->
            /\ shares' = shares - n /\ cash' = cash + n * q
            /\ UNCHANGED <<park, short, real>>
       [] o.kind = "buyPark" ->
            /\ park' = park + n /\ cash' = cash - n * q
            /\ UNCHANGED <<shares, short, real>>
       [] o.kind = "sellPark" ->
            /\ park' = park - n /\ cash' = cash + n * q
            /\ UNCHANGED <<shares, short, real>>
       [] o.kind = "writeCall" ->
            /\ short' = [short EXCEPT ![o.strike] = @ + n] /\ cash' = cash + n * q * Lot
            /\ real' = [real EXCEPT !.option = @ + q] /\ UNCHANGED <<shares, park>>
       [] o.kind = "buyCall" ->
            /\ short' = [short EXCEPT ![o.strike] = @ - n] /\ cash' = cash - n * q * Lot
            /\ real' = [real EXCEPT !.option = @ - q] /\ UNCHANGED <<shares, park>>
  /\ UNCHANGED <<placed, day, file, cycle, sent, astray>>

\* A lot may be filled in part; the rest of an order is filled or not at all.
Fills ==
  \E i \in Ids : \E q \in FillPrices(orders[i]) :
    \/ Fill(i, orders[i].qty - orders[i].done, q)
    \/ orders[i].kind \in Lots /\ \E n \in 1 .. orders[i].qty - orders[i].done - 1 : Fill(i, n, q)

\* Rejected after all, or cancelled.
Cancel ==
  /\ \E i \in Ids : Working(i) /\ orders' = [orders EXCEPT ![i].state = "cancelled"]
  /\ UNCHANGED <<account, placed, day, file, cycle, history>>

\* Orders are good for the day.  A call that is out overnight stays out, runs
\* out, or is assigned: the shares go at its strike.
Night ==
  /\ pc = "idle" /\ day < MaxDays
  /\ day' = day + 1 /\ sent' = 0
  /\ orders' = [i \in Ids |-> IF Working(i) THEN [orders[i] EXCEPT !.state = "cancelled"]
                               ELSE orders[i]]
  /\ \/ UNCHANGED <<shares, cash, short>>
     \/ \E k \in Strikes :
          /\ short[k] > 0 /\ short' = [short EXCEPT ![k] = @ - 1]
          /\ \/ UNCHANGED <<shares, cash>>
             \/ shares' = shares - Lot /\ cash' = cash + k * Lot
  /\ UNCHANGED <<park, placed, file, cycle, real, astray, slipped>>

Cycle ==
  \/ Begin \/ ReadAccount \/ ReadWorking \/ ReadCalls
  \/ Decide \/ Halts \/ Place \/ Record \/ Abandon

Next == Cycle \/ Fills \/ Cancel \/ Night

Spec == Init /\ [][Next]_rotationVars

-----------------------------------------------------------------------------
\* "There is never a second lot", whatever is lost or dies: the account holds a
\* lot at most, unless an order the book never recorded was filled after a cycle
\* looked at the shares and before it looked for working orders.
NoSecondLot == ~slipped => shares <= Lot

\* "No option is ever sold without the shares behind it", and "the shares are
\* never sold out from under" one: there is one call at most, out or asked for, and
\* then the whole lot is behind it and no order is selling any of it.  The same
\* exception.
Out == {k \in Strikes : short[k] > 0}
AtWorkOf(kind) == {i \in AtWork : orders[i].kind = kind}
CallsAreCovered ==
  ~slipped =>
    /\ \A k \in Out : short[k] = 1
    /\ Cardinality(Out) + Cardinality(AtWorkOf("writeCall")) <= 1
    /\ Out # {} \/ AtWorkOf("writeCall") # {} => shares >= Lot /\ AtWorkOf("sellLot") = {}

\* What the strategy measures its targets by is what happened, and what the gate
\* counts is what was sent: while the file has a lot, its entry price and option
\* cash are those of the broker's fills, but for a fill it is yet to record or
\* to settle, and its orders of the day are those the broker accepted, through
\* restarts, failed cycles and the change of day.
Unsettled == pc = "record" \/ (file.pending # 0 /\ orders[file.pending].state = "filled")
BookTellsTheTruth ==
  astray = {} =>
    /\ Open(file.state) /\ ~Unsettled
         => file.state.entry = real.entry /\ file.state.pnl = real.option
    /\ pc # "record" => sent = IF file.day = day THEN file.ordersToday ELSE 0

\* The assignment test: if the call that is out is assigned, the lot's shares
\* and all its calls together have made the recovery target.
AssignmentReachesTarget ==
  astray = {} => \A k \in Strikes : short[k] > 0 =>
    100 * (k - real.entry + real.option) >= RecoveryPct * real.entry

\* "The lot is always exactly 100 shares, there is never a second lot"
LotIsTheOnlyOne == shares <= Lot
=============================================================================
