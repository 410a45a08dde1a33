--------------------------- MODULE RotationProofs ---------------------------
(***************************************************************************)
(* The live rotation's promises for any lot, prices, chain, funds and      *)
(* limits, and for any number of days, orders and faults.                  *)
(*                                                                         *)
(* The argument follows one cycle.  At most one order works at a time,     *)
(* because a cycle that sends one has seen none at work, and only a cycle  *)
(* sends.  From that read on, the account stands still: what the cycle has *)
(* read, in three calls, is what there is when its order goes out, unless  *)
(* a fill slipped between the first two.  Each order then fits the         *)
(* position it is sent at, and its fills keep the position in order; the   *)
(* file follows through the one order it waits for.                        *)
(***************************************************************************)
EXTENDS Rotation, FiniteSetTheorems, TLAPS

Kinds == Lots \union Parks \union Calls

\* Quantities of the parking symbol are left open: what is bought of it comes of the
\* buying power, a sum over the orders at work.
OrderOK(o) ==
  /\ o \in [kind : Kinds, qty : {o.qty}, strike : Strikes \union {NoCall}, limit : Nat,
            state : {"working", "filled", "cancelled"}, done : {o.done}, price : Nat, day : Nat]
  /\ o.kind \in Lots => o.qty = Lot /\ o.done \in 0 .. Lot
  /\ o.kind \in Calls => o.qty = 1 /\ o.done \in 0 .. 1 /\ o.strike \in Strikes
  /\ o.kind \notin Parks => (o.state = "filled" <=> o.done = o.qty)

State == [mode : {"flat", "held", "recovery"}, entry : Nat, pnl : Int, call : Strikes \union {NoCall}]
Book == [state : State, pending : Nat, day : Nat, ordersToday : Nat]

\* The types of what the properties are about.
Typed ==
  /\ shares \in Int /\ short \in [Strikes -> Int]
  /\ placed \in Nat /\ day \in Nat /\ sent \in Nat /\ slipped \in BOOLEAN
  /\ Ids \subseteq 1 .. placed /\ orders = [i \in Ids |-> orders[i]]
  /\ \A i \in Ids : OrderOK(orders[i])
  /\ file \in Book /\ book \in Book
  /\ pc \in {"idle", "account", "working", "calls", "decide", "place", "record"}
  /\ seen \in [cash : {seen.cash}, shares : Int, park : {seen.park}, working : BOOLEAN,
               short : SUBSET Strikes]
  /\ intent \in [kind : Kinds \union {"none"}, qty : {intent.qty},
                 strike : Strikes \union {NoCall}, limit : Nat]
  /\ real \in [entry : Nat, option : Int]

\* The order whose fate the file waits for, or is about to.
Awaited(i) == i = file.pending \/ (pc = "record" /\ i = placed)

\* A cycle's copy of the book is the file's, but for the count of the day.
OneBook ==
  /\ book.state = file.state /\ book.pending = file.pending
  /\ file.state.mode # "recovery" => file.state.call = NoCall
  /\ file.pending # 0 => file.pending \in Ids
  /\ pc \in {"place", "record"} => file.pending = 0
  /\ pc = "record" => placed \in Ids
  /\ \A i \in Ids : Awaited(i) /\ orders[i].kind = "writeCall" =>
       file.state.mode = "recovery" /\ file.state.call = NoCall

\* One order works at a time.
OneOrder == \A i, j \in AtWork : i = j

Asleep == ~seen.working /\ file.pending = 0

\* What a cycle that may send an order has read still stands.
ReadsStand ==
  /\ pc = "working" /\ file.pending = 0 /\ ~slipped => seen.shares = shares
  /\ pc \in {"calls", "decide"} /\ Asleep => AtWork = {} /\ (~slipped => seen.shares = shares)
  /\ pc = "decide" /\ Asleep => seen.short = Out
  /\ pc = "decide" /\ astray = {} =>
       \A k \in Out \ seen.short : \E i \in Ids : orders[i].kind = "writeCall"

\* The target that a call, if assigned, must reach, at gain per share of the lot.
TargetAt(strike, entry, gain) == 100 * (strike - entry + gain) >= RecoveryPct * entry

\* What an order is sent for, of the state that is saved with it.
Fits(o, st) ==
  /\ o.kind \in Lots => o.qty = Lot
  /\ o.kind \in Calls => o.qty = 1 /\ o.strike \in Strikes
  /\ o.kind = "buyLot" => ~Open(st)
  /\ o.kind = "sellLot" => Open(st) /\ st.call = NoCall
  /\ o.kind = "writeCall" => /\ st.mode = "recovery" /\ st.call = NoCall
                             /\ TargetAt(o.strike, st.entry, st.pnl + o.limit)
  /\ o.kind = "buyCall" => st.call = o.strike

IntentStands ==
  pc = "place" =>
    /\ AtWork = {} /\ intent.kind # "none" /\ Fits(intent, file.state)
    /\ Out = {file.state.call} \ {NoCall}
    /\ ~slipped => shares = IF Open(file.state) THEN Lot ELSE 0

Position ==
  ~slipped =>
    /\ shares <= Lot
    /\ \A k \in Out : short[k] = 1 /\ shares = Lot
    /\ \A k, l \in Out : k = l
    /\ \A i \in AtWork :
         /\ orders[i].kind = "buyLot" => Out = {} /\ shares = orders[i].done
         /\ orders[i].kind = "sellLot" => Out = {} /\ shares = Lot - orders[i].done
         /\ orders[i].kind = "writeCall" => Out = {} /\ shares = Lot

Gained(o) ==
  IF o.state # "filled" THEN 0
  ELSE IF o.kind = "writeCall" THEN o.price ELSE IF o.kind = "buyCall" THEN -o.price ELSE 0

\* An order the file will be told of.
AwaitedOK(o) ==
  /\ o.kind = "buyLot" => /\ ~Open(file.state)
                          /\ o.done > 0 => real.entry = o.price /\ real.option = 0
  /\ o.kind = "sellLot" => file.state.call = NoCall
  /\ o.kind = "writeCall" =>
       /\ file.state.mode = "recovery" /\ file.state.call = NoCall
       /\ TargetAt(o.strike, file.state.entry, file.state.pnl + o.limit)
  /\ o.kind = "buyCall" => /\ file.state.call \in {NoCall, o.strike}
                           /\ o.state = "filled" => Out = {}
  /\ Open(file.state) => real.option = file.state.pnl + Gained(o)

Truth ==
  astray = {} =>
    /\ ~slipped
    /\ \A i \in Ids : Awaited(i)
    /\ \A i \in Ids : AwaitedOK(orders[i])
    /\ Open(file.state) => /\ real.entry = file.state.entry
                           /\ Ids = {} => real.option = file.state.pnl
    /\ \A k \in Out :
         /\ \/ k = file.state.call
            \/ \E i \in Ids : orders[i].kind = "writeCall" /\ orders[i].state = "filled" /\ orders[i].strike = k
         /\ TargetAt(k, real.entry, real.option)

Count ==
  /\ file.day <= day
  /\ pc = "account" => book = file
  /\ pc \in {"working", "calls", "decide"} =>
       /\ book.day = day
       /\ book.ordersToday = IF file.day = day THEN file.ordersToday ELSE 0
  /\ pc \in {"place", "record"} => file = book /\ file.day = day
  /\ astray = {} =>
       sent = IF pc = "record" THEN file.ordersToday + 1
              ELSE IF file.day = day THEN file.ordersToday ELSE 0

RotationInv == Typed /\ OneBook /\ OneOrder /\ ReadsStand /\ IntentStands /\ Position /\ Truth /\ Count
-----------------------------------------------------------------------------
LEMMA InvStarts == ASSUME RotationConstantsOK, Init PROVE RotationInv
<1>1. PICK f \in Funds : cash = f.cash /\ park = f.park
  BY DEF Init
<1>2. /\ shares = 0 /\ short = [k \in Strikes |-> 0] /\ orders = <<>> /\ placed = 0 /\ day = 1
      /\ file = [state |-> Flat, pending |-> 0, day |-> 1, ordersToday |-> 0]
      /\ pc = "idle" /\ book = file /\ seen = NoRead /\ intent = NoIntent
      /\ sent = 0 /\ real = [entry |-> 0, option |-> 0] /\ astray = {} /\ slipped = FALSE
  BY DEF Init
<1>3. Ids = {} /\ AtWork = {} /\ Out = {} /\ Lot \in Nat \ {0}
  BY <1>2 DEF Ids, AtWork, Out, RotationConstantsOK
<1>4. Flat \in State
  BY DEF Flat, State
<1>5. Typed
  <2>1. file \in Book /\ book \in Book
    BY <1>2, <1>4 DEF Book
  <2>2. orders = [i \in Ids |-> orders[i]]
    BY <1>2, <1>3
  <2>3. seen \in [cash : {seen.cash}, shares : Int, park : {seen.park}, working : BOOLEAN,
                  short : SUBSET Strikes]
    BY <1>2 DEF NoRead
  <2>4. intent \in [kind : Kinds \union {"none"}, qty : {intent.qty},
                    strike : Strikes \union {NoCall}, limit : Nat]
    BY <1>2 DEF NoIntent, Order
  <2>5. short \in [Strikes -> Int] /\ real \in [entry : Nat, option : Int]
    BY <1>2
  <2>6. \A i \in Ids : OrderOK(orders[i])
    BY <1>3
  <2> HIDE DEF RotationConstantsOK
  <2> QED BY <1>2, <1>3, <2>1, <2>2, <2>3, <2>4, <2>5, <2>6 DEF Typed
<1>6. OneBook /\ OneOrder /\ ReadsStand /\ IntentStands /\ Position /\ Truth /\ Count
  BY <1>2, <1>3 DEF OneBook, OneOrder, ReadsStand, IntentStands, Position, Truth, Count, Flat, Open
<1> QED BY <1>5, <1>6 DEF RotationInv

\* What a filled order makes of the state.
LEMMA AppliedState ==
  ASSUME NEW st \in State, NEW o, OrderOK(o), o.kind = "writeCall" => st.mode = "recovery",
         st.mode # "recovery" => st.call = NoCall
  PROVE  /\ Applied(st, o) \in State
         /\ Applied(st, o).mode # "recovery" => Applied(st, o).call = NoCall
         /\ o.kind = "buyLot" => /\ Applied(st, o).entry = o.price /\ Applied(st, o).pnl = 0
                                  /\ Applied(st, o).call = NoCall
         /\ o.kind = "sellLot" => Applied(st, o) = Flat
         /\ o.kind = "writeCall" => Applied(st, o) = [st EXCEPT !.call = o.strike, !.pnl = @ + o.price]
         /\ o.kind = "buyCall" => Applied(st, o) = [st EXCEPT !.call = NoCall, !.pnl = @ - o.price]
         /\ o.kind \in Parks => Applied(st, o) = st
<1>1. /\ o.kind \in Kinds /\ o.price \in Nat /\ o.strike \in Strikes \union {NoCall}
      /\ st.pnl \in Int /\ st.pnl + o.price \in Int /\ st.pnl - o.price \in Int
  BY DEF OrderOK, State
<1> USE DEF Applied, State
<1>2. CASE o.kind = "buyLot"
  <2>1. Applied(st, o) = [Flat EXCEPT !.mode = "held", !.entry = o.price]
    BY <1>2 DEF ApplyEntry, Parks
  <2>2. Flat \in State /\ Flat.pnl = 0 /\ Flat.call = NoCall
    BY DEF Flat
  <2> QED BY <1>1, <1>2, <2>1, <2>2 DEF Parks
<1>3. CASE o.kind = "sellLot"
  BY <1>1, <1>3 DEF Flat, Parks
<1>4. CASE o.kind = "writeCall"
  BY <1>1, <1>4 DEF Parks
<1>5. CASE o.kind = "buyCall"
  BY <1>1, <1>5 DEF Parks
<1>6. CASE o.kind \in Parks
  BY <1>1, <1>6 DEF Parks
<1> QED BY <1>1, <1>2, <1>3, <1>4, <1>5, <1>6 DEF Kinds, Lots, Calls

\* What Settle makes of the file's book.
LEMMA SettledBook ==
  ASSUME RotationInv
  PROVE  LET b == Settled(file)
         IN  /\ b \in Book /\ b.day = file.day /\ b.ordersToday = file.ordersToday
             /\ b.state.mode # "recovery" => b.state.call = NoCall
             /\ b.pending = file.pending => b = file
             /\ b.pending # file.pending =>
                  /\ b.pending = 0 /\ file.pending \in Ids
                  /\ IF Found(file.pending) /\ orders[file.pending].state = "filled"
                     THEN b.state = Applied(file.state, orders[file.pending])
                     ELSE b.state = file.state
<1> DEFINE p == file.pending
           o == orders[p]
<1>1. file \in Book /\ (p # 0 => p \in Ids) /\ (file.state.mode # "recovery" => file.state.call = NoCall)
  BY DEF RotationInv, Typed, OneBook
<1>2. CASE Settled(file) = file
  BY <1>1, <1>2 DEF Settled
<1>3. CASE p # 0 /\ ~(Found(p) /\ Working(p))
  <2>1. p \in Ids /\ OrderOK(o) /\ Awaited(p)
    BY <1>1, <1>3 DEF RotationInv, Typed, Awaited
  <2> DEFINE st == IF Found(p) /\ o.state = "filled" THEN Applied(file.state, o) ELSE file.state
  <2>2. file.state \in State /\ (o.kind = "writeCall" => file.state.mode = "recovery")
    BY <1>1, <2>1 DEF RotationInv, OneBook, Book
  <2>3. st \in State /\ (st.mode # "recovery" => st.call = NoCall)
    BY <1>1, <2>1, <2>2, AppliedState
  <2>4. Settled(file) = [file EXCEPT !.pending = 0, !.state = st]
    BY <1>3 DEF Settled
  <2>5. Found(p) /\ o.state = "filled" => st = Applied(file.state, o)
    OBVIOUS
  <2>6. ~(Found(p) /\ o.state = "filled") => st = file.state
    OBVIOUS
  <2> HIDE DEF st
  <2>7. /\ [file EXCEPT !.pending = 0, !.state = st] \in Book
        /\ [file EXCEPT !.pending = 0, !.state = st].day = file.day
        /\ [file EXCEPT !.pending = 0, !.state = st].ordersToday = file.ordersToday
        /\ [file EXCEPT !.pending = 0, !.state = st].pending = 0
        /\ [file EXCEPT !.pending = 0, !.state = st].state = st
    BY <1>1, <2>3 DEF Book
  <2> QED BY <1>3, <2>1, <2>3, <2>4, <2>5, <2>6, <2>7
<1> QED BY <1>1, <1>2, <1>3 DEF Settled

-----------------------------------------------------------------------------
(* Begin. *)

\* The order that was settled is gone, and it was the only one if none is astray.
LEMMA BeginOrders ==
  ASSUME RotationInv, Begin
  PROVE  /\ Ids' \subseteq Ids /\ \A i \in Ids' : orders'[i] = orders[i]
         /\ orders' = [i \in Ids' |-> orders'[i]]
         /\ AtWork' \subseteq AtWork
         /\ file'.pending = file.pending => file' = file /\ orders' = orders /\ Ids' = Ids
         /\ file'.pending # file.pending =>
              /\ file'.pending = 0 /\ Ids' = Ids \ {file.pending} /\ file.pending \in Ids
              /\ astray' = {} => Ids' = {}
<1>1. /\ file' = Settled(file) /\ orders = [i \in Ids |-> orders[i]]
      /\ IF file.pending # file'.pending THEN orders' = [i \in Ids \ {file.pending} |-> orders[i]]
         ELSE orders' = orders
  BY DEF Begin, RotationInv, Typed
<1>2. CASE file'.pending = file.pending
  BY <1>1, <1>2, SettledBook DEF Ids, AtWork, Working
<1>3. CASE file'.pending # file.pending
  <2>1. file'.pending = 0 /\ file.pending \in Ids
    BY <1>1, <1>3, SettledBook
  <2>2. /\ orders' = [i \in Ids \ {file.pending} |-> orders[i]] /\ Ids' = Ids \ {file.pending}
    BY <1>1, <1>3 DEF Ids
  <2>3. \A i \in Ids' : orders'[i] = orders[i]
    BY <2>2
  <2>4. AtWork' \subseteq AtWork
    BY <2>2, <2>3 DEF AtWork, Working
  <2>5. ASSUME astray' = {} PROVE Ids' = {}
    <3>1. astray = {} /\ pc = "idle"
      BY <2>5 DEF Begin
    <3>2. \A i \in Ids : i = file.pending
      BY <3>1 DEF RotationInv, Truth, Awaited
    <3> QED BY <2>2, <3>2
  <2> QED BY <1>3, <2>1, <2>2, <2>3, <2>4, <2>5
<1> QED BY <1>2, <1>3

\* An order that is settled leaves the state telling the truth.
LEMMA SettledTruth ==
  ASSUME RotationConstantsOK, RotationInv, Begin, file'.pending # file.pending, astray' = {}
  PROVE  /\ Open(file'.state) => real.entry = file'.state.entry /\ real.option = file'.state.pnl
         /\ \A k \in Out : k = file'.state.call
<1> DEFINE p == file.pending
           o == orders[p]
<1>1. /\ astray = {} /\ pc = "idle" /\ p \in Ids
      /\ ~(~Found(p) /\ o.done > 0)
  <2>1. p \in Ids
    BY BeginOrders
  <2>2. astray' = astray \union {i \in {p} \cap Ids : ~Found(i) /\ orders[i].done > 0} /\ pc = "idle"
    BY DEF Begin
  <2> QED BY <2>1, <2>2
<1>2. /\ OrderOK(o) /\ AwaitedOK(o) /\ file.state \in State
      /\ Open(file.state) => real.entry = file.state.entry
      /\ real.entry \in Nat /\ real.option \in Int /\ Lot \in Nat \ {0}
      /\ (file.state.mode # "recovery" => file.state.call = NoCall)
      /\ (o.kind = "writeCall" => file.state.mode = "recovery")
  BY <1>1 DEF RotationInv, Truth, Typed, OneBook, Book, AwaitedOK, RotationConstantsOK
<1>3. \A k \in Out : \/ k = file.state.call
                     \/ o.kind = "writeCall" /\ o.state = "filled" /\ o.strike = k
  BY <1>1 DEF RotationInv, Truth, Awaited
<1>4. /\ IF Found(p) /\ o.state = "filled" THEN file'.state = Applied(file.state, o)
         ELSE file'.state = file.state
  BY SettledBook DEF Begin
<1>5. Flat.call = NoCall /\ ~Open(Flat) /\ NoCall \notin Strikes
  BY DEF Flat, Open, NoCall, Strikes, RotationConstantsOK
<1>6. Out \subseteq Strikes
  BY DEF Out
<1> HIDE DEF o
<1>7. CASE ~(Found(p) /\ o.state = "filled")
  <2>1. o.state # "filled" \/ o.kind \in Parks
    BY <1>1, <1>2, <1>7 DEF OrderOK, Kinds, Lots, Calls, o
  <2>2. Gained(o) = 0
    BY <2>1 DEF Gained, Parks
  <2>3. \A k \in Out : k = file.state.call
    BY <1>3, <2>1 DEF Parks
  <2> QED BY <1>2, <1>4, <1>7, <2>2, <2>3 DEF AwaitedOK, State
<1>8. CASE Found(p) /\ o.state = "filled"
  <2>1. file'.state = Applied(file.state, o) /\ o.kind \in Kinds
    BY <1>2, <1>4, <1>8 DEF OrderOK
  <2>2. CASE o.kind = "buyLot"
    <3>1. o.done > 0
      BY <1>2, <1>8, <2>2 DEF OrderOK, Lots, Parks
    <3>2. Out = {}
      BY <1>2, <1>3, <1>5, <1>6, <2>2 DEF AwaitedOK, Open
    <3>3. Applied(file.state, o).entry = o.price /\ Applied(file.state, o).pnl = 0
      BY <1>2, <2>2, AppliedState, Zenon
    <3> QED BY <1>2, <2>1, <2>2, <3>1, <3>2, <3>3 DEF AwaitedOK
  <2>3. CASE o.kind = "sellLot"
    <3>1. Out = {}
      BY <1>2, <1>3, <1>5, <1>6, <2>3 DEF AwaitedOK
    <3> QED BY <1>2, <1>5, <2>1, <2>3, <3>1, AppliedState
  <2>4. CASE o.kind = "writeCall"
    <3>1. file'.state = [file.state EXCEPT !.call = o.strike, !.pnl = @ + o.price]
      BY <1>2, <2>1, <2>4, AppliedState
    <3>2. Gained(o) = o.price /\ Open(file.state) /\ o.price \in Nat
      BY <1>2, <1>8, <2>4 DEF Gained, Open, AwaitedOK, OrderOK
    <3>3. \A k \in Out : k = o.strike
      BY <1>2, <1>3, <1>5, <1>6, <2>4 DEF AwaitedOK
    <3> QED BY <1>2, <3>1, <3>2, <3>3 DEF State, AwaitedOK
  <2>5. CASE o.kind = "buyCall"
    <3>1. file'.state = [file.state EXCEPT !.call = NoCall, !.pnl = @ - o.price]
      BY <1>2, <2>1, <2>5, AppliedState
    <3>2. Gained(o) = -o.price /\ o.price \in Nat /\ Out = {}
      BY <1>2, <1>8, <2>5 DEF Gained, AwaitedOK, OrderOK
    <3>3. Open(file'.state) = Open(file.state)
      BY <1>2, <3>1 DEF Open, State
    <3> QED BY <1>2, <3>1, <3>2, <3>3 DEF State, AwaitedOK
  <2>6. CASE o.kind \in Parks
    <3>1. file'.state = file.state /\ Gained(o) = 0
      BY <1>2, <2>1, <2>6, AppliedState DEF Gained, Parks
    <3>2. \A k \in Out : k = file.state.call
      BY <1>3, <2>6 DEF Parks
    <3> QED BY <1>2, <3>1, <3>2 DEF AwaitedOK, State
  <2> QED BY <2>1, <2>2, <2>3, <2>4, <2>5, <2>6 DEF Kinds, Lots, Calls
<1> QED BY <1>7, <1>8

LEMMA BeginKeeps == ASSUME RotationConstantsOK, RotationInv, Begin PROVE RotationInv'
<1>1. /\ pc = "idle" /\ pc' = "account" /\ file' = Settled(file) /\ book' = file'
      /\ UNCHANGED <<account, placed, day, seen, intent, sent, real, slipped>>
  BY DEF Begin
<1>2. /\ shares' = shares /\ short' = short /\ placed' = placed /\ day' = day /\ seen' = seen
      /\ intent' = intent /\ sent' = sent /\ real' = real /\ slipped' = slipped /\ Out' = Out
  BY <1>1 DEF account, Out
<1>3. /\ Ids' \subseteq Ids /\ \A i \in Ids' : orders'[i] = orders[i]
      /\ orders' = [i \in Ids' |-> orders'[i]] /\ AtWork' \subseteq AtWork
  BY BeginOrders
<1>4. Typed'
  BY <1>1, <1>2, <1>3, SettledBook DEF RotationInv, Typed
<1>5. OneBook'
  <2>1. file'.state.mode # "recovery" => file'.state.call = NoCall
    BY <1>1, SettledBook
  <2>2. CASE file'.pending = file.pending
    BY <1>1, <1>2, <2>1, <2>2, BeginOrders DEF RotationInv, OneBook, Awaited
  <2>3. CASE file'.pending # file.pending
    <3>1. file'.pending = 0 /\ 0 \notin Ids'
      BY <1>3, <2>3, BeginOrders DEF RotationInv, Typed
    <3> QED BY <1>1, <2>1, <3>1 DEF OneBook, Awaited
  <2> QED BY <2>2, <2>3
<1>6. OneOrder'
  BY <1>3 DEF RotationInv, OneOrder
<1>7. ReadsStand' /\ IntentStands'
  BY <1>1 DEF ReadsStand, IntentStands
<1>8. Position'
  BY <1>2, <1>3 DEF RotationInv, Position, AtWork
<1>9. Truth'
  <2> SUFFICES ASSUME astray' = {} PROVE Truth'
    BY DEF Truth
  <2>1. astray = {} /\ ~slipped
    BY DEF Begin, RotationInv, Truth
  <2>2. CASE file'.pending = file.pending
    BY <1>1, <1>2, <2>1, <2>2, BeginOrders DEF RotationInv, Truth, AwaitedOK, Awaited
  <2>3. CASE file'.pending # file.pending
    <3>1. Ids' = {}
      BY <2>3, BeginOrders
    <3>2. \A k \in Out : TargetAt(k, real.entry, real.option)
      BY <2>1 DEF RotationInv, Truth
    <3> QED BY <1>2, <2>1, <2>3, <3>1, <3>2, SettledTruth DEF Truth
  <2> QED BY <2>2, <2>3
<1>10. Count'
  BY <1>1, <1>2, SettledBook DEF RotationInv, Count, Begin
<1> QED BY <1>4, <1>5, <1>6, <1>7, <1>8, <1>9, <1>10 DEF RotationInv

-----------------------------------------------------------------------------
(* The reads, and the ends of a cycle. *)

LEMMA ReadsKeep ==
  ASSUME RotationConstantsOK, RotationInv, ReadAccount \/ ReadWorking \/ ReadCalls
  PROVE  RotationInv'
<1>1. /\ UNCHANGED <<account, placed, orders, day, file, intent, history>>
      /\ pc \in {"account", "working", "calls"} /\ pc' \in {"working", "calls", "decide"}
      /\ book' = book \/ (pc = "account" /\ pc' = "working" /\ book' = Roll(book))
  BY DEF ReadAccount, ReadWorking, ReadCalls
<1>2. /\ shares' = shares /\ short' = short /\ placed' = placed /\ day' = day /\ file' = file
      /\ intent' = intent /\ sent' = sent /\ real' = real /\ astray' = astray /\ slipped' = slipped
      /\ orders' = orders /\ Ids' = Ids /\ AtWork' = AtWork /\ Out' = Out
  BY <1>1 DEF account, history, Ids, AtWork, Working, Out
<1>3. /\ Typed /\ OneBook /\ OneOrder /\ ReadsStand /\ Position /\ Truth /\ Count
      /\ book \in Book /\ day \in Nat /\ shares \in Int /\ AtWork \subseteq Ids /\ Out \subseteq Strikes
  BY DEF RotationInv, Typed, AtWork, Out
<1>4. /\ book' \in Book /\ book'.state = book.state /\ book'.pending = book.pending
      /\ pc' = "working" => /\ book'.day = day
                            /\ book'.ordersToday = IF file.day = day THEN file.ordersToday ELSE 0
  <2>1. CASE book' = book /\ pc # "account"
    BY <1>1, <1>3, <2>1 DEF ReadAccount, ReadWorking, ReadCalls
  <2>2. CASE pc = "account"
    <3>1. book' = Roll(book) /\ book = file
      BY <1>3, <2>2 DEF ReadAccount, ReadWorking, ReadCalls, Count
    <3> QED BY <1>3, <3>1 DEF Roll, Book
  <2> QED BY <1>1, <2>1, <2>2
<1>5. /\ seen' \in [cash : {seen'.cash}, shares : Int, park : {seen'.park}, working : BOOLEAN,
                    short : SUBSET Strikes]
      /\ pc' = "working" => seen'.shares = shares
      /\ pc' = "calls" => seen'.working = (AtWork # {}) /\ seen'.shares = seen.shares /\ pc = "working"
      /\ pc' = "decide" => /\ seen'.short = Out /\ seen'.shares = seen.shares
                           /\ seen'.working = seen.working /\ pc = "calls"
  <2>1. CASE ReadAccount
    BY <1>3, <2>1 DEF ReadAccount, Typed
  <2>2. CASE ReadWorking
    BY <1>3, <2>2 DEF ReadWorking, Typed
  <2>3. CASE ReadCalls
    BY <1>3, <2>3 DEF ReadCalls, Typed, Out
  <2> QED BY <2>1, <2>2, <2>3
<1>6. Typed'
  BY <1>1, <1>2, <1>3, <1>4, <1>5 DEF Typed
<1>7. OneBook' /\ OneOrder' /\ IntentStands' /\ Position'
  BY <1>1, <1>2, <1>3, <1>4 DEF OneBook, OneOrder, IntentStands, Position, Awaited
<1>8. ReadsStand'
  BY <1>1, <1>2, <1>3, <1>5 DEF ReadsStand, Asleep
<1>9. Truth'
  BY <1>1, <1>2, <1>3 DEF Truth, Awaited, AwaitedOK
<1>10. Count'
  <2>1. CASE pc = "account"
    BY <1>1, <1>2, <1>3, <1>4, <2>1 DEF Count, ReadAccount, ReadWorking, ReadCalls
  <2>2. CASE pc # "account"
    BY <1>1, <1>2, <1>3, <2>2 DEF Count
  <2> QED BY <2>1, <2>2
<1> QED BY <1>6, <1>7, <1>8, <1>9, <1>10 DEF RotationInv

\* A cycle that gives up, halted by what it read or by a failure.
LEMMA GivingUpKeeps ==
  ASSUME RotationConstantsOK, RotationInv, Halts \/ Abandon
  PROVE  RotationInv'
<1>1. /\ UNCHANGED <<account, placed, orders, day, file, sent, real, slipped>>
      /\ pc' = "idle" /\ book' = file /\ seen' = NoRead /\ intent' = NoIntent
      /\ astray' = {} => astray = {} /\ pc # "record"
  BY DEF Halts, Abandon, Ends, history
<1>2. /\ shares' = shares /\ short' = short /\ placed' = placed /\ day' = day /\ file' = file
      /\ sent' = sent /\ real' = real /\ slipped' = slipped
      /\ orders' = orders /\ Ids' = Ids /\ AtWork' = AtWork /\ Out' = Out
  BY <1>1 DEF account, Ids, AtWork, Working, Out
<1>3. Typed /\ OneBook /\ OneOrder /\ Position /\ Truth /\ Count
  BY DEF RotationInv
<1>4. Typed'
  <2>1. seen' \in [cash : {seen'.cash}, shares : Int, park : {seen'.park}, working : BOOLEAN,
                   short : SUBSET Strikes]
    BY <1>1 DEF NoRead
  <2>2. intent' \in [kind : Kinds \union {"none"}, qty : {intent'.qty},
                     strike : Strikes \union {NoCall}, limit : Nat]
    BY <1>1 DEF NoIntent, Order
  <2> QED BY <1>1, <1>2, <1>3, <2>1, <2>2 DEF Typed
<1>5. OneBook' /\ OneOrder' /\ ReadsStand' /\ IntentStands' /\ Position'
  BY <1>1, <1>2, <1>3 DEF OneBook, OneOrder, ReadsStand, IntentStands, Position, Awaited
<1>6. Truth'
  BY <1>1, <1>2, <1>3 DEF Truth, Awaited, AwaitedOK
<1>7. Count'
  BY <1>1, <1>2, <1>3 DEF Count
<1> QED BY <1>4, <1>5, <1>6, <1>7 DEF RotationInv

LEMMA RecordKeeps == ASSUME RotationConstantsOK, RotationInv, Record PROVE RotationInv'
<1>1. /\ UNCHANGED <<account, placed, orders, day, history>>
      /\ pc = "record" /\ pc' = "idle" /\ seen' = NoRead /\ intent' = NoIntent
      /\ book' = [book EXCEPT !.pending = placed, !.ordersToday = @ + 1] /\ file' = book'
  BY DEF Record, Ends
<1>2. /\ shares' = shares /\ short' = short /\ placed' = placed /\ day' = day /\ astray' = astray
      /\ sent' = sent /\ real' = real /\ slipped' = slipped
      /\ orders' = orders /\ Ids' = Ids /\ AtWork' = AtWork /\ Out' = Out
  BY <1>1 DEF account, Ids, AtWork, Working, Out, history
<1>3. /\ Typed /\ OneBook /\ OneOrder /\ Position /\ Truth /\ Count
      /\ file \in Book /\ book = file /\ file.pending = 0 /\ placed \in Ids /\ file.day = day
      /\ placed \in Nat
  BY <1>1 DEF RotationInv, Typed, OneBook, Count
<1>4. /\ file' \in Book /\ file'.state = file.state /\ file'.pending = placed
      /\ file'.day = file.day /\ file'.ordersToday = file.ordersToday + 1
  <2>1. file' = [file EXCEPT !.pending = placed, !.ordersToday = file.ordersToday + 1]
    BY <1>1, <1>3
  <2>2. file.ordersToday + 1 \in Nat
    BY <1>3 DEF Book
  <2> QED BY <1>3, <2>1, <2>2 DEF Book
<1>5. Typed'
  <2>1. seen' \in [cash : {seen'.cash}, shares : Int, park : {seen'.park}, working : BOOLEAN,
                   short : SUBSET Strikes]
    BY <1>1 DEF NoRead
  <2>2. intent' \in [kind : Kinds \union {"none"}, qty : {intent'.qty},
                     strike : Strikes \union {NoCall}, limit : Nat]
    BY <1>1 DEF NoIntent, Order
  <2> QED BY <1>1, <1>2, <1>3, <1>4, <2>1, <2>2 DEF Typed
<1>6. \A i \in Ids : Awaited(i)' <=> i = placed
  BY <1>1, <1>2, <1>4 DEF Awaited
<1>7. OneBook'
  BY <1>1, <1>2, <1>3, <1>4, <1>6 DEF OneBook, Awaited
<1>8. OneOrder' /\ ReadsStand' /\ IntentStands' /\ Position'
  BY <1>1, <1>2, <1>3 DEF OneOrder, ReadsStand, IntentStands, Position
<1>9. Truth'
  <2>1. \A i \in Ids : i # 0
    BY <1>3 DEF Typed
  <2> QED BY <1>1, <1>2, <1>3, <1>4, <1>6, <2>1 DEF Truth, Awaited, AwaitedOK
<1>10. Count'
  BY <1>1, <1>2, <1>3, <1>4 DEF Count
<1> QED BY <1>5, <1>7, <1>8, <1>9, <1>10 DEF RotationInv

LEMMA PlaceKeeps == ASSUME RotationConstantsOK, RotationInv, Place PROVE RotationInv'
<1> DEFINE new == [kind |-> intent.kind, qty |-> intent.qty, strike |-> intent.strike,
                   limit |-> intent.limit, state |-> "working", done |-> 0, price |-> 0, day |-> day]
<1>1. /\ pc = "place" /\ placed' = placed + 1 /\ sent' = sent + 1
      /\ UNCHANGED <<account, day, file, real, slipped>>
      /\ orders' = [i \in Ids \union {placed'} |-> IF i \in Ids THEN orders[i] ELSE new]
      /\ \/ pc' = "record" /\ UNCHANGED <<book, seen, intent, astray>>
         \/ /\ pc' = "idle" /\ book' = file /\ seen' = NoRead /\ intent' = NoIntent
            /\ astray' # {}
  BY DEF Place, Ends
<1>2. /\ shares' = shares /\ short' = short /\ day' = day /\ file' = file
      /\ real' = real /\ slipped' = slipped /\ Out' = Out
  BY <1>1 DEF account, Out
<1>3. /\ Typed /\ OneBook /\ OneOrder /\ Position /\ Truth /\ Count
      /\ AtWork = {} /\ Fits(intent, file.state) /\ intent.kind # "none" /\ Out = {file.state.call} \ {NoCall}
      /\ ~slipped => shares = IF Open(file.state) THEN Lot ELSE 0
      /\ file.pending = 0 /\ book = file /\ file.day = day
      /\ placed \in Nat /\ day \in Nat /\ Lot \in Nat \ {0} /\ file.state \in State
  BY <1>1 DEF RotationInv, IntentStands, Typed, OneBook, Count, Book, RotationConstantsOK
<1>4. OrderOK(new) /\ new.state = "working" /\ new.done = 0
  BY <1>3 DEF OrderOK, Fits, Typed, Kinds, Lots, Parks, Calls
<1>5. placed' \notin Ids /\ Ids' = Ids \union {placed'}
  BY <1>1, <1>3 DEF Typed, Ids
<1> HIDE DEF new
<1>6. /\ orders' = [i \in Ids' |-> orders'[i]] /\ orders'[placed'] = new
      /\ \A i \in Ids : orders'[i] = orders[i]
  BY <1>1, <1>5
<1>7. AtWork' = {placed'}
  BY <1>3, <1>4, <1>5, <1>6 DEF AtWork, Working
<1>8. Typed'
  <2>1. \A i \in Ids' : OrderOK(orders'[i])
    BY <1>3, <1>4, <1>5, <1>6 DEF Typed
  <2>2. Ids' \subseteq 1 .. placed'
    BY <1>1, <1>3, <1>5 DEF Typed
  <2>3. seen' \in [cash : {seen'.cash}, shares : Int, park : {seen'.park}, working : BOOLEAN,
                   short : SUBSET Strikes]
    <3>1. CASE seen' = seen
      BY <1>3, <3>1 DEF Typed
    <3>2. CASE seen' = NoRead
      BY <3>2 DEF NoRead
    <3> QED BY <1>1, <3>1, <3>2
  <2>4. intent' \in [kind : Kinds \union {"none"}, qty : {intent'.qty},
                     strike : Strikes \union {NoCall}, limit : Nat]
    BY <1>1, <1>3 DEF Typed, NoIntent, Order
  <2>5. book' \in Book /\ file' \in Book /\ sent' \in Nat /\ placed' \in Nat
    BY <1>1, <1>2, <1>3 DEF Typed
  <2>6. /\ shares' \in Int /\ short' \in [Strikes -> Int] /\ day' \in Nat /\ slipped' \in BOOLEAN
        /\ real' \in [entry : Nat, option : Int] /\ pc' \in {"idle", "record"}
    BY <1>1, <1>2, <1>3 DEF Typed
  <2>7. orders' = [i \in Ids' |-> orders'[i]]
    BY <1>6
  <2> QED BY <2>1, <2>2, <2>3, <2>4, <2>5, <2>6, <2>7 DEF Typed
<1>9. OneBook'
  <2>1. book' = file
    BY <1>1, <1>3
  <2>2. new.kind = "writeCall" => file.state.mode = "recovery" /\ file.state.call = NoCall
    BY <1>3 DEF Fits, new
  <2>3. \A i \in Ids' : Awaited(i)' => i = placed'
    BY <1>1, <1>2, <1>3, <1>5 DEF Awaited, Typed
  <2> QED BY <1>1, <1>2, <1>3, <1>5, <1>6, <2>1, <2>2, <2>3 DEF OneBook
<1>10. OneOrder' /\ ReadsStand' /\ IntentStands'
  BY <1>1, <1>7 DEF OneOrder, ReadsStand, IntentStands
<1>11. Position'
  <2> SUFFICES ASSUME ~slipped PROVE Position'
    BY <1>2 DEF Position
  <2>1. /\ new.kind = "buyLot" => Out = {} /\ shares = 0
        /\ new.kind = "sellLot" => Out = {} /\ shares = Lot
        /\ new.kind = "writeCall" => Out = {} /\ shares = Lot
    BY <1>3 DEF Fits, Open, new, OneBook
  <2> QED BY <1>2, <1>3, <1>4, <1>6, <1>7, <2>1 DEF Position
<1>12. Truth'
  <2> SUFFICES ASSUME astray' = {} PROVE Truth'
    BY DEF Truth
  <2>1. astray = {} /\ pc' = "record"
    BY <1>1
  <2>2. Ids = {}
    <3>1. \A i \in Ids : i = 0
      BY <1>1, <1>3, <2>1 DEF Truth, Awaited
    <3> QED BY <1>3, <3>1 DEF Typed
  <2>3. Ids' = {placed'} /\ Awaited(placed)'
    BY <1>5, <2>1, <2>2 DEF Awaited
  <2>4. Gained(new) = 0
    BY <1>4 DEF Gained
  <2>5. Open(file.state) => real.entry = file.state.entry /\ real.option = file.state.pnl
    BY <1>3, <2>1, <2>2 DEF Truth
  <2>6. /\ new.kind = "buyLot" => ~Open(file.state)
        /\ new.kind = "sellLot" => file.state.call = NoCall
        /\ new.kind = "writeCall" =>
             /\ file.state.mode = "recovery" /\ file.state.call = NoCall
             /\ TargetAt(new.strike, file.state.entry, file.state.pnl + new.limit)
        /\ new.kind = "buyCall" => file.state.call = new.strike
    BY <1>3 DEF Fits, new
  <2>7. AwaitedOK(orders[placed])'
    <3>1. real.option \in Int /\ file.state.pnl \in Int
      BY <1>3 DEF Typed, State
    <3> QED BY <1>2, <1>4, <1>6, <2>4, <2>5, <2>6, <3>1 DEF AwaitedOK
  <2>8. \A k \in Out : k = file.state.call /\ TargetAt(k, real.entry, real.option)
    BY <1>3, <2>1, <2>2 DEF Truth
  <2>9. ~slipped
    BY <1>3, <2>1 DEF Truth
  <2> QED BY <1>2, <2>3, <2>5, <2>7, <2>8, <2>9 DEF Truth
<1>13. Count'
  BY <1>1, <1>2, <1>3 DEF Count
<1> QED BY <1>8, <1>9, <1>10, <1>11, <1>12, <1>13 DEF RotationInv

-----------------------------------------------------------------------------
(* The broker. *)

\* Orders that end without another fill are what they were, but for that.
EndsUnfilled ==
  /\ Ids' = Ids /\ orders' = [i \in Ids |-> orders'[i]]
  /\ \A i \in Ids : \/ orders'[i] = orders[i]
                    \/ Working(i) /\ orders'[i] = [orders[i] EXCEPT !.state = "cancelled"]

LEMMA StillOrders ==
  ASSUME Typed, EndsUnfilled
  PROVE  /\ AtWork' \subseteq AtWork /\ \A i \in AtWork' : orders'[i] = orders[i]
         /\ \A i \in Ids :
              /\ OrderOK(orders'[i])
              /\ orders'[i].kind = orders[i].kind /\ orders'[i].strike = orders[i].strike
              /\ orders'[i].limit = orders[i].limit /\ orders'[i].done = orders[i].done
              /\ orders'[i].price = orders[i].price
              /\ orders'[i].state = "filled" <=> orders[i].state = "filled"
              /\ Gained(orders'[i]) = Gained(orders[i])
<1>1. ASSUME NEW i \in Ids
      PROVE  /\ OrderOK(orders'[i])
             /\ orders'[i].kind = orders[i].kind /\ orders'[i].strike = orders[i].strike
             /\ orders'[i].limit = orders[i].limit /\ orders'[i].done = orders[i].done
             /\ orders'[i].price = orders[i].price
             /\ orders'[i].state = "filled" <=> orders[i].state = "filled"
             /\ orders'[i].state = "working" => orders'[i] = orders[i]
  <2>1. OrderOK(orders[i])
    BY DEF Typed
  <2>2. CASE orders'[i] = orders[i]
    BY <2>1, <2>2
  <2>3. CASE orders[i].state = "working" /\ orders'[i] = [orders[i] EXCEPT !.state = "cancelled"]
    BY <2>1, <2>3 DEF OrderOK
  <2> QED BY <2>2, <2>3 DEF EndsUnfilled, Working
<1>2. \A i \in Ids : Gained(orders'[i]) = Gained(orders[i])
  BY <1>1 DEF Gained
<1>3. AtWork' \subseteq AtWork /\ \A i \in AtWork' : orders'[i] = orders[i]
  BY <1>1 DEF EndsUnfilled, AtWork, Working
<1> QED BY <1>1, <1>2, <1>3

LEMMA CancelKeeps == ASSUME RotationConstantsOK, RotationInv, Cancel PROVE RotationInv'
<1>1. /\ Typed /\ OneBook /\ OneOrder /\ ReadsStand /\ IntentStands /\ Position /\ Truth /\ Count
      /\ orders = [i \in Ids |-> orders[i]]
  BY DEF RotationInv, Typed
<1>2. /\ UNCHANGED <<account, placed, day, file, cycle, history>>
      /\ shares' = shares /\ short' = short /\ placed' = placed /\ day' = day /\ file' = file
      /\ pc' = pc /\ book' = book /\ seen' = seen /\ intent' = intent
      /\ sent' = sent /\ real' = real /\ astray' = astray /\ slipped' = slipped /\ Out' = Out
  BY DEF Cancel, account, cycle, history, Out
<1>3. EndsUnfilled
  <2>1. PICK i \in Ids : Working(i) /\ orders' = [orders EXCEPT ![i].state = "cancelled"]
    BY DEF Cancel
  <2>2. orders' = [orders EXCEPT ![i] = [orders[i] EXCEPT !.state = "cancelled"]]
    BY <2>1
  <2> QED BY <1>1, <2>1, <2>2 DEF EndsUnfilled, Ids
<1>4. Ids' = Ids /\ orders' = [i \in Ids' |-> orders'[i]]
  BY <1>3 DEF EndsUnfilled
<1>5. Typed'
  BY <1>1, <1>2, <1>3, <1>4, StillOrders DEF Typed
<1>6. OneBook' /\ OneOrder' /\ IntentStands' /\ Position'
  <2>1. OneBook'
    BY <1>1, <1>2, <1>3, <1>4, StillOrders DEF OneBook, Awaited
  <2>2. OneOrder' /\ IntentStands'
    BY <1>1, <1>2, <1>3, StillOrders DEF OneOrder, IntentStands
  <2>3. Position'
    BY <1>1, <1>2, <1>3, StillOrders DEF Position
  <2> QED BY <2>1, <2>2, <2>3
<1>7. ReadsStand'
  BY <1>1, <1>2, <1>3, <1>4, StillOrders DEF ReadsStand, Asleep
<1>8. Truth'
  BY <1>1, <1>2, <1>3, <1>4, StillOrders DEF Truth, Awaited, AwaitedOK
<1>9. Count'
  BY <1>1, <1>2 DEF Count
<1> QED BY <1>5, <1>6, <1>7, <1>8, <1>9 DEF RotationInv

LEMMA NightKeeps == ASSUME RotationConstantsOK, RotationInv, Night PROVE RotationInv'
<1>1. /\ Typed /\ OneBook /\ OneOrder /\ Position /\ Truth /\ Count
      /\ orders = [i \in Ids |-> orders[i]] /\ short \in [Strikes -> Int] /\ shares \in Int
      /\ day \in Nat /\ file \in Book /\ Lot \in Nat
  BY DEF RotationInv, Typed, RotationConstantsOK
<1>2. /\ pc = "idle" /\ pc' = pc /\ day' = day + 1 /\ sent' = 0
      /\ placed' = placed /\ file' = file /\ book' = book /\ seen' = seen /\ intent' = intent
      /\ real' = real /\ astray' = astray /\ slipped' = slipped
  BY DEF Night, cycle
<1>3. EndsUnfilled
  BY DEF Night, EndsUnfilled, Ids
<1>4. Ids' = Ids /\ orders' = [i \in Ids' |-> orders'[i]] /\ AtWork' = {}
  <2>1. \A i \in Ids : orders'[i].state # "working"
    <3>1. orders' = [i \in Ids |-> IF Working(i) THEN [orders[i] EXCEPT !.state = "cancelled"]
                                   ELSE orders[i]]
      BY DEF Night
    <3> QED BY <1>1, <3>1 DEF Working, Typed, OrderOK
  <2> QED BY <1>3, <2>1 DEF EndsUnfilled, AtWork, Working
<1>5. /\ shares' \in Int /\ short' \in [Strikes -> Int]
      /\ \A k \in Out' : k \in Out /\ short'[k] <= short[k]
      /\ \/ shares' = shares
         \/ /\ \E k \in Out : short' = [short EXCEPT ![k] = @ - 1]
            /\ shares' = shares - Lot
  <2>1. CASE UNCHANGED <<shares, cash, short>>
    BY <1>1, <2>1 DEF Out
  <2>2. ASSUME NEW k \in Strikes, short[k] > 0, short' = [short EXCEPT ![k] = @ - 1],
               \/ UNCHANGED <<shares, cash>>
               \/ shares' = shares - Lot /\ cash' = cash + k * Lot
        PROVE  <1>5!:
    <3>1. shares' \in Int /\ short' \in [Strikes -> Int]
      BY <1>1, <2>2
    <3>2. \A l \in Out' : l \in Out /\ short'[l] <= short[l]
      BY <1>1, <2>2 DEF Out
    <3>3. k \in Out
      BY <2>2 DEF Out
    <3> QED BY <2>2, <3>1, <3>2, <3>3
  <2> QED BY <2>1, <2>2 DEF Night
<1>6. Typed'
  BY <1>1, <1>2, <1>3, <1>4, <1>5, StillOrders DEF Typed
<1>7. OneBook' /\ OneOrder' /\ ReadsStand' /\ IntentStands'
  BY <1>1, <1>2, <1>3, <1>4, StillOrders DEF OneBook, OneOrder, ReadsStand, IntentStands, Awaited
<1>8. Position'
  <2> SUFFICES ASSUME ~slipped PROVE Position'
    BY <1>2 DEF Position
  <2>1. \A k \in Out' : short'[k] = 1
    BY <1>1, <1>5 DEF Position, Out
  <2>2. CASE shares' = shares
    BY <1>1, <1>4, <1>5, <2>1, <2>2 DEF Position
  <2>3. CASE shares' # shares
    <3>1. PICK k \in Out : short' = [short EXCEPT ![k] = @ - 1]
      BY <1>5, <2>3
    <3>2. k \in Strikes /\ short[k] = 1 /\ shares = Lot /\ shares' = 0 /\ short'[k] = 0
      BY <1>1, <1>5, <2>3, <3>1 DEF Position, Out
    <3>3. Out' = {}
      BY <1>1, <1>5, <3>2 DEF Position, Out
    <3> QED BY <1>1, <1>4, <3>2, <3>3 DEF Position
  <2> QED BY <2>2, <2>3
<1>9. Truth'
  <2>1. Out = {} => Out' = {}
    BY <1>5
  <2> QED BY <1>1, <1>2, <1>3, <1>4, <1>5, <2>1, StillOrders DEF Truth, Awaited, AwaitedOK
<1>10. Count'
  BY <1>1, <1>2 DEF Count, Book
<1> QED BY <1>6, <1>7, <1>8, <1>9, <1>10 DEF RotationInv

\* What a fill makes of its order: the only one at work.
LEMMA FilledOrder ==
  ASSUME RotationConstantsOK, RotationInv, NEW i \in Ids, NEW q \in FillPrices(orders[i]), NEW n,
         \/ n = orders[i].qty - orders[i].done
         \/ orders[i].kind \in Lots /\ n \in 1 .. orders[i].qty - orders[i].done - 1,
         Fill(i, n, q)
  PROVE  LET o == orders[i]
             f == orders'[i]
         IN  /\ AtWork = {i} /\ AtWork' \subseteq {i} /\ Ids' = Ids
             /\ orders' = [j \in Ids |-> orders'[j]]
             /\ \A j \in Ids \ {i} : orders'[j] = orders[j]
             /\ OrderOK(f) /\ f.kind = o.kind /\ f.strike = o.strike /\ f.limit = o.limit
             /\ f.price = q /\ q \in Nat
             /\ o.kind \in Lots => n \in 1 .. Lot - o.done /\ f.done = o.done + n /\ o.done \in 0 .. Lot
             /\ o.kind \in Calls => n = 1 /\ f.state = "filled" /\ AtWork' = {}
             /\ o.kind = "writeCall" => q >= o.limit
             /\ o.kind \in Kinds /\ o.state = "working"
<1> DEFINE o == orders[i]
           f == [o EXCEPT !.done = @ + n, !.price = q, !.state = IF o.done + n = o.qty THEN "filled" ELSE @]
<1>1. /\ OrderOK(o) /\ o.state = "working" /\ orders = [j \in Ids |-> orders[j]] /\ Lot \in Nat \ {0}
      /\ Prices \subseteq Nat
  BY DEF RotationInv, Typed, Fill, Working, RotationConstantsOK
<1>2. orders' = [orders EXCEPT ![i] = f]
  BY DEF Fill
<1>3. AtWork = {i}
  BY <1>1 DEF RotationInv, OneOrder, AtWork, Working
<1>4. q \in Nat /\ (o.kind = "writeCall" => q >= o.limit)
  <2>1. o.kind \in Kinds /\ o.limit \in Nat /\ o.price \in Nat /\ q \in FillPrices(o)
    BY <1>1 DEF OrderOK
  <2> QED BY <1>1, <2>1 DEF FillPrices, Kinds, Lots, Parks, Calls
<1>5. /\ Ids' = Ids /\ orders' = [j \in Ids |-> orders'[j]] /\ orders'[i] = f
      /\ \A j \in Ids \ {i} : orders'[j] = orders[j]
  <2> HIDE DEF f
  <2> QED BY <1>1, <1>2 DEF Ids
<1>6. /\ o.kind \in Lots => n \in 1 .. Lot - o.done /\ o.done \in 0 .. Lot
      /\ o.kind \in Calls => n = 1 /\ o.done = 0
      /\ o.kind \in Kinds
  BY <1>1 DEF OrderOK, Kinds, Lots, Parks, Calls
<1>7. /\ f.kind = o.kind /\ f.strike = o.strike /\ f.limit = o.limit /\ f.qty = o.qty /\ f.day = o.day
      /\ f.price = q /\ f.done = o.done + n
      /\ f.state = IF o.done + n = o.qty THEN "filled" ELSE "working"
      /\ f \in [kind : Kinds, qty : {o.qty}, strike : Strikes \union {NoCall}, limit : Nat,
                state : {"working", "filled", "cancelled"}, done : {o.done + n}, price : Nat, day : Nat]
  BY <1>1, <1>4 DEF OrderOK
<1> HIDE DEF f
<1>8. OrderOK(f) /\ (f.kind \in Calls => f.state = "filled")
  BY <1>1, <1>6, <1>7 DEF OrderOK, Kinds, Lots, Parks, Calls
<1>9. AtWork' \subseteq {i} /\ (o.kind \in Calls => AtWork' = {})
  BY <1>3, <1>5, <1>7, <1>8 DEF AtWork, Working
<1> QED BY <1>1, <1>3, <1>4, <1>5, <1>6, <1>7, <1>8, <1>9

\* What it makes of the account.
LEMMA FilledAccount ==
  ASSUME RotationConstantsOK, RotationInv, NEW i \in Ids, NEW n, NEW q, Fill(i, n, q),
         orders[i].kind \in Kinds,
         orders[i].kind \in Lots => n \in Nat, orders[i].kind \in Calls => n = 1, q \in Nat
  PROVE  LET o == orders[i]
         IN  /\ shares' \in Int /\ short' \in [Strikes -> Int] /\ real' \in [entry : Nat, option : Int]
             /\ o.kind = "buyLot" => /\ shares' = shares + n /\ Out' = Out
                                     /\ real'.entry = q /\ real'.option = 0
             /\ o.kind = "sellLot" => shares' = shares - n /\ Out' = Out /\ real' = real
             /\ o.kind \in Parks => shares' = shares /\ short' = short /\ Out' = Out /\ real' = real
             /\ o.kind \in Lots => short' = short
             /\ o.kind = "writeCall" => /\ shares' = shares /\ short' = [short EXCEPT ![o.strike] = @ + 1]
                                        /\ real'.entry = real.entry /\ real'.option = real.option + q
             /\ o.kind = "buyCall" => /\ shares' = shares /\ short' = [short EXCEPT ![o.strike] = @ - 1]
                                      /\ real'.entry = real.entry /\ real'.option = real.option - q
<1> DEFINE o == orders[i]
<1>1. /\ shares \in Int /\ short \in [Strikes -> Int] /\ real \in [entry : Nat, option : Int]
  BY DEF RotationInv, Typed
<1>2. CASE o.kind = "buyLot"
  BY <1>1, <1>2 DEF Fill, Out, Lots, Parks, Calls
<1>3. CASE o.kind = "sellLot"
  BY <1>1, <1>3 DEF Fill, Out, Lots, Parks, Calls
<1>4. CASE o.kind \in Parks
  BY <1>1, <1>4 DEF Fill, Out, Lots, Parks, Calls
<1>5. CASE o.kind = "writeCall"
  <2>1. /\ short' = [short EXCEPT ![o.strike] = @ + 1] /\ real' = [real EXCEPT !.option = @ + q]
        /\ shares' = shares
    BY <1>5 DEF Fill, Lots, Parks, Calls
  <2>2. short' \in [Strikes -> Int]
    <3>1. o.strike \in Strikes
      BY <1>5 DEF RotationInv, Typed, OrderOK, Calls
    <3> QED BY <1>1, <2>1, <3>1
  <2>3. /\ real' \in [entry : Nat, option : Int] /\ real'.entry = real.entry
        /\ real'.option = real.option + q
    BY <1>1, <2>1
  <2> QED BY <1>1, <1>5, <2>1, <2>2, <2>3 DEF Lots, Parks
<1>6. CASE o.kind = "buyCall"
  <2>1. /\ short' = [short EXCEPT ![o.strike] = @ - 1] /\ real' = [real EXCEPT !.option = @ - q]
        /\ shares' = shares
    BY <1>6 DEF Fill, Lots, Parks, Calls
  <2>2. short' \in [Strikes -> Int]
    <3>1. o.strike \in Strikes
      BY <1>6 DEF RotationInv, Typed, OrderOK, Calls
    <3> QED BY <1>1, <2>1, <3>1
  <2>3. /\ real' \in [entry : Nat, option : Int] /\ real'.entry = real.entry
        /\ real'.option = real.option - q
    BY <1>1, <2>1
  <2> QED BY <1>1, <1>6, <2>1, <2>2, <2>3 DEF Lots, Parks
<1> QED BY <1>2, <1>3, <1>4, <1>5, <1>6 DEF Kinds, Lots, Calls

LEMMA FillsKeep == ASSUME RotationConstantsOK, RotationInv, Fills PROVE RotationInv'
<1>0. PICK i \in Ids : \E q \in FillPrices(orders[i]) :
        \/ Fill(i, orders[i].qty - orders[i].done, q)
        \/ orders[i].kind \in Lots /\ \E n \in 1 .. orders[i].qty - orders[i].done - 1 : Fill(i, n, q)
  BY DEF Fills
<1>1. PICK q \in FillPrices(orders[i]), n \in {orders[i].qty - orders[i].done} \union
                (IF orders[i].kind \in Lots THEN 1 .. orders[i].qty - orders[i].done - 1 ELSE {}) :
        Fill(i, n, q)
  BY <1>0
<1> DEFINE o == orders[i]
           f == orders'[i]
<1>2. /\ AtWork = {i} /\ AtWork' \subseteq {i} /\ Ids' = Ids
      /\ orders' = [j \in Ids |-> orders'[j]] /\ \A j \in Ids \ {i} : orders'[j] = orders[j]
      /\ OrderOK(f) /\ f.kind = o.kind /\ f.strike = o.strike /\ f.limit = o.limit
      /\ f.price = q /\ q \in Nat
      /\ o.kind \in Lots => n \in 1 .. Lot - o.done /\ f.done = o.done + n /\ o.done \in 0 .. Lot
      /\ o.kind \in Calls => n = 1 /\ f.state = "filled" /\ AtWork' = {}
      /\ o.kind = "writeCall" => q >= o.limit
      /\ o.kind \in Kinds /\ o.state = "working"
  BY <1>1, FilledOrder
<1>3. Lot \in Nat \ {0} /\ o.done \in {o.done} /\ (o.kind \in Lots => n \in Nat)
  BY <1>2 DEF RotationConstantsOK
<1>4. /\ shares' \in Int /\ short' \in [Strikes -> Int] /\ real' \in [entry : Nat, option : Int]
      /\ o.kind = "buyLot" => /\ shares' = shares + n /\ Out' = Out
                              /\ real'.entry = q /\ real'.option = 0
      /\ o.kind = "sellLot" => shares' = shares - n /\ Out' = Out /\ real' = real
      /\ o.kind \in Parks => shares' = shares /\ short' = short /\ Out' = Out /\ real' = real
      /\ o.kind \in Lots => short' = short
      /\ o.kind = "writeCall" => /\ shares' = shares /\ short' = [short EXCEPT ![o.strike] = @ + 1]
                                 /\ real'.entry = real.entry /\ real'.option = real.option + q
      /\ o.kind = "buyCall" => /\ shares' = shares /\ short' = [short EXCEPT ![o.strike] = @ - 1]
                               /\ real'.entry = real.entry /\ real'.option = real.option - q
  BY <1>1, <1>2, <1>3, FilledAccount
<1>5. /\ placed' = placed /\ day' = day /\ file' = file /\ pc' = pc /\ book' = book /\ seen' = seen
      /\ intent' = intent /\ sent' = sent /\ astray' = astray
      /\ slipped' = (slipped \/ (pc = "working" /\ Unknown(i)))
  BY <1>1 DEF Fill, cycle
<1>6. /\ Typed /\ OneBook /\ OneOrder /\ ReadsStand /\ IntentStands /\ Position /\ Truth /\ Count
      /\ i \in Ids /\ i # 0 /\ AtWork # {} /\ short \in [Strikes -> Int] /\ shares \in Int
      /\ slipped \in BOOLEAN /\ NoCall \notin Strikes /\ OrderOK(o)
      /\ real.entry \in Nat /\ real.option \in Int /\ file.state \in State
  BY <1>2 DEF RotationInv, Typed, Book, NoCall, Strikes, RotationConstantsOK
<1> HIDE DEF o, f
<1>7. /\ o.kind = "writeCall" => \A k \in Out' : k \in Out \/ k = o.strike
      /\ o.kind # "writeCall" => Out' \subseteq Out
  <2>1. CASE o.kind = "writeCall"
    BY <1>4, <1>6, <2>1 DEF Out
  <2>2. CASE o.kind = "buyCall"
    BY <1>4, <1>6, <2>2 DEF Out
  <2> QED BY <1>2, <1>4, <2>1, <2>2 DEF Kinds, Lots, Calls
<1>8. Typed'
  <2>1. \A j \in Ids' : OrderOK(orders'[j])
    BY <1>2, <1>6 DEF Typed, f
  <2>2. orders' = [j \in Ids' |-> orders'[j]] /\ slipped' \in BOOLEAN
    BY <1>2, <1>5, <1>6
  <2> QED BY <1>2, <1>4, <1>5, <1>6, <2>1, <2>2 DEF Typed
<1>9. OneBook'
  <2>1. \A j \in Ids : orders'[j].kind = orders[j].kind
    BY <1>2 DEF o, f
  <2> QED BY <1>2, <1>5, <1>6, <2>1 DEF OneBook, Awaited
<1>10. OneOrder' /\ IntentStands' /\ Count'
  BY <1>2, <1>5, <1>6 DEF OneOrder, IntentStands, Count
<1>11. ReadsStand'
  <2>1. pc # "working" \/ file.pending # 0 \/ slipped'
    BY <1>5, <1>6 DEF Unknown
  <2>2. ~(pc \in {"calls", "decide"} /\ Asleep)
    BY <1>6 DEF ReadsStand
  <2>3. ASSUME pc = "decide", astray = {}, NEW k \in Out' \ seen.short
        PROVE  \E j \in Ids' : orders'[j].kind = "writeCall"
    <3>1. CASE k \in Out
      <4>1. PICK j \in Ids : orders[j].kind = "writeCall"
        BY <1>6, <2>3, <3>1 DEF ReadsStand
      <4> QED BY <1>2, <4>1 DEF o, f
    <3>2. CASE k \notin Out
      BY <1>2, <1>6, <1>7, <3>2 DEF o, f
    <3> QED BY <3>1, <3>2
  <2> QED BY <1>5, <2>1, <2>2, <2>3 DEF ReadsStand, Asleep
<1>12. Position'
  <2> SUFFICES ASSUME ~slipped' PROVE Position'
    BY DEF Position
  <2>1. /\ ~slipped /\ shares <= Lot
        /\ \A k \in Out : short[k] = 1 /\ shares = Lot
        /\ \A k, l \in Out : k = l
        /\ o.kind = "buyLot" => Out = {} /\ shares = o.done
        /\ o.kind = "sellLot" => Out = {} /\ shares = Lot - o.done
        /\ o.kind = "writeCall" => Out = {} /\ shares = Lot
    BY <1>2, <1>5, <1>6 DEF Position, o
  <2>2. CASE o.kind = "buyLot"
    <3>1. shares' = o.done + n /\ shares' <= Lot /\ f.done = shares' /\ Out' = {}
      BY <1>2, <1>3, <1>4, <2>1, <2>2 DEF Lots
    <3> QED BY <1>2, <2>2, <3>1 DEF Position, f
  <2>3. CASE o.kind = "sellLot"
    <3>1. shares' = Lot - (o.done + n) /\ shares' <= Lot /\ shares' = Lot - f.done /\ Out' = {}
      BY <1>2, <1>3, <1>4, <2>1, <2>3 DEF Lots
    <3> QED BY <1>2, <2>3, <3>1 DEF Position, f
  <2>4. CASE o.kind = "writeCall"
    <3>1. o.strike \in Strikes /\ short[o.strike] <= 0
      BY <1>6, <2>1, <2>4 DEF OrderOK, Calls, Out
    <3>2. \A k \in Out' : k = o.strike /\ short'[k] = 1
      BY <1>4, <1>6, <1>7, <2>1, <2>4, <3>1 DEF Out
    <3> QED BY <1>2, <1>3, <1>4, <2>1, <2>4, <3>2 DEF Position, Calls
  <2>5. CASE o.kind = "buyCall"
    <3>1. \A k \in Out' : k \in Out /\ short'[k] = 1
      BY <1>4, <1>6, <1>7, <2>1, <2>5 DEF Out
    <3> QED BY <1>2, <1>4, <2>1, <2>5, <3>1 DEF Position, Calls
  <2>6. CASE o.kind \in Parks
    <3>1. \A j \in AtWork' : orders'[j].kind \in Parks
      BY <1>2, <2>6 DEF f
    <3> QED BY <1>4, <2>1, <2>6, <3>1 DEF Position, Parks
  <2> QED BY <1>2, <2>2, <2>3, <2>4, <2>5, <2>6 DEF Kinds, Lots, Calls
<1>13. Truth'
  <2> SUFFICES ASSUME astray = {} PROVE Truth'
    BY <1>5 DEF Truth
  <2>1. /\ ~slipped /\ Awaited(i) /\ AwaitedOK(o)
        /\ Open(file.state) => real.entry = file.state.entry
        /\ \A k \in Out : TargetAt(k, real.entry, real.option)
    BY <1>6 DEF Truth, o
  <2>2. ~slipped'
    BY <1>5, <2>1 DEF Unknown, Awaited
  <2>3. Ids = {i}
    BY <1>6 DEF Truth, Awaited, OneBook, Typed
  <2>4. Awaited(i)' /\ Ids' = {i}
    BY <1>2, <1>5, <2>1, <2>3 DEF Awaited
  <2>5. \A k \in Out : k = file.state.call
    BY <1>2, <1>6, <2>3 DEF Truth, o
  <2>6. /\ o.kind = "buyLot" => Out = {}
        /\ o.kind = "writeCall" => Out = {}
        /\ Gained(o) = 0
    BY <1>2, <1>6, <2>1 DEF Position, Gained, o
  <2>7. /\ AwaitedOK(orders[i])'
        /\ Open(file.state) => real'.entry = file.state.entry
        /\ \A k \in Out' :
             /\ k = file.state.call \/ (f.kind = "writeCall" /\ f.state = "filled" /\ f.strike = k)
             /\ TargetAt(k, real'.entry, real'.option)
    <3>1. CASE o.kind = "buyLot"
      BY <1>2, <1>4, <1>5, <2>1, <2>6, <3>1 DEF AwaitedOK, f
    <3>2. CASE o.kind = "sellLot"
      <4>1. Gained(f) = 0
        BY <1>2, <3>2 DEF Gained
      <4> QED BY <1>2, <1>4, <1>5, <2>1, <2>5, <2>6, <3>2, <4>1 DEF AwaitedOK, f
    <3>3. CASE o.kind = "writeCall"
      <4>1. Gained(f) = q /\ Open(file.state)
        BY <1>2, <2>1, <3>3 DEF Gained, Calls, AwaitedOK, Open
      <4>2. real'.entry = file.state.entry /\ real'.option = file.state.pnl + q
        BY <1>4, <1>6, <2>1, <2>6, <3>3, <4>1 DEF AwaitedOK, State, f
      <4>3. TargetAt(o.strike, real'.entry, real'.option)
        <5>1. /\ o.strike \in Nat /\ o.limit \in Nat /\ q >= o.limit /\ q \in Nat
              /\ file.state.pnl \in Int /\ file.state.entry \in Nat /\ RecoveryPct \in Nat
          BY <1>2, <1>6, <3>3 DEF OrderOK, Calls, State, Strikes, RotationConstantsOK
        <5>2. 100 * (o.strike - file.state.entry + (file.state.pnl + o.limit))
                >= RecoveryPct * file.state.entry
          BY <2>1, <3>3 DEF AwaitedOK, TargetAt
        <5>3. RecoveryPct * file.state.entry \in Int
          BY <5>1
        <5> QED BY <4>2, <5>1, <5>2, <5>3 DEF TargetAt
      <4>4. \A k \in Out' : k = o.strike
        BY <1>7, <2>6, <3>3
      <4>5. AwaitedOK(orders[i])'
        BY <1>2, <1>5, <2>1, <3>3, <4>1, <4>2 DEF AwaitedOK, f
      <4> QED BY <1>2, <3>3, <4>2, <4>3, <4>4, <4>5 DEF Calls
    <3>4. CASE o.kind = "buyCall"
      <4>1. Gained(f) = -q
        BY <1>2, <3>4 DEF Gained, Calls
      <4>2. \A k \in Out : k = o.strike /\ short[k] = 1
        BY <1>6, <2>1, <2>5, <3>4 DEF AwaitedOK, Position, Out
      <4>3. Out' = {}
        BY <1>4, <1>6, <1>7, <3>4, <4>2 DEF Out
      <4> QED BY <1>2, <1>4, <1>5, <1>6, <2>1, <2>6, <3>4, <4>1, <4>3 DEF AwaitedOK, State, f
    <3>5. CASE o.kind \in Parks
      <4>1. Gained(f) = 0
        BY <1>2, <3>5 DEF Gained, Parks
      <4> QED BY <1>2, <1>4, <1>5, <2>1, <2>5, <2>6, <3>5, <4>1 DEF AwaitedOK, Parks, f
    <3> QED BY <1>2, <3>1, <3>2, <3>3, <3>4, <3>5 DEF Kinds, Lots, Calls
  <2> QED BY <1>5, <2>2, <2>4, <2>7 DEF Truth, f
<1> QED BY <1>8, <1>9, <1>10, <1>11, <1>12, <1>13 DEF RotationInv

-----------------------------------------------------------------------------
(* Decide. *)

\* A plan for the state r: it keeps what was paid and got, and an order it means to
\* send fits the state it is saved with.
Planned(pl, r) ==
  /\ pl.next \in State /\ pl.next.entry = r.entry /\ pl.next.pnl = r.pnl /\ pl.next.call = r.call
  /\ pl.next.mode = r.mode \/ (pl.next.mode = "recovery" /\ r.mode = "held")
  /\ pl.intent = NoIntent \/
       /\ Asleep /\ pl.intent.kind # "none" /\ Fits(pl.intent, pl.next)
       /\ pl.intent \in [kind : Kinds \union {"none"}, qty : {pl.intent.qty},
                         strike : Strikes \union {NoCall}, limit : Nat]

LEMMA Sends ==
  ASSUME NEW st \in State, NEW r \in State, st.entry = r.entry, st.pnl = r.pnl, st.call = r.call,
         st.mode = r.mode \/ (st.mode = "recovery" /\ r.mode = "held"), Asleep,
         NEW kind \in Kinds, NEW qty, NEW k \in Strikes \union {NoCall}, NEW limit \in Nat,
         Fits(Order(kind, qty, k, limit), st)
  PROVE  Planned(Plan(st, Order(kind, qty, k, limit)), r)
<1>1. /\ Order(kind, qty, k, limit).kind = kind /\ Order(kind, qty, k, limit).qty = qty
      /\ Order(kind, qty, k, limit).strike = k /\ Order(kind, qty, k, limit).limit = limit
      /\ Order(kind, qty, k, limit) \in [kind : Kinds \union {"none"}, qty : {qty},
                                         strike : Strikes \union {NoCall}, limit : Nat]
  BY DEF Order
<1>2. Plan(st, Order(kind, qty, k, limit)).next = st
      /\ Plan(st, Order(kind, qty, k, limit)).intent = Order(kind, qty, k, limit)
  BY DEF Plan
<1>3. kind # "none"
  BY DEF Kinds, Lots, Parks, Calls
<1> QED BY <1>1, <1>2, <1>3 DEF Planned

LEMMA Rests ==
  ASSUME NEW st \in State, NEW r \in State, st.entry = r.entry, st.pnl = r.pnl, st.call = r.call,
         st.mode = r.mode \/ (st.mode = "recovery" /\ r.mode = "held")
  PROVE  Planned(Plan(st, NoIntent), r)
  BY DEF Planned, Plan

LEMMA RecoverPlans ==
  ASSUME RotationConstantsOK, NEW st \in State, NEW r \in State, Asleep, st.mode = "recovery",
         st.entry = r.entry, st.pnl = r.pnl, st.call = r.call, r.mode \in {"held", "recovery"},
         NEW p \in Prices, NEW ask \in Asks, NEW offered \in SUBSET Contracts,
         NEW pl \in Recover(st, p, ask, offered)
  PROVE  Planned(pl, r)
<1>1. /\ ask \in Nat /\ st.call \in Strikes \union {NoCall} /\ {"sellLot", "buyCall", "writeCall"} \subseteq Kinds
      /\ NoCall \in Strikes \union {NoCall} /\ 0 \in Nat
  BY DEF RotationConstantsOK, State, Kinds, Lots, Calls
<1>2. CASE pl = Plan(st, NoIntent)
  BY <1>2, Rests
<1>3. CASE st.call = NoCall /\ pl = Plan(st, Order("sellLot", Lot, NoCall, 0))
  <2>1. Fits(Order("sellLot", Lot, NoCall, 0), st)
    BY <1>3 DEF Fits, Order, Lots, Calls, Open
  <2> QED BY <1>1, <1>3, <2>1, Sends
<1>4. CASE st.call # NoCall /\ pl = Plan(st, Order("buyCall", 1, st.call, ask))
  <2>1. Fits(Order("buyCall", 1, st.call, ask), st)
    BY <1>1, <1>4 DEF Fits, Order, Lots, Calls
  <2> QED BY <1>1, <1>4, <2>1, Sends
<1>5. ASSUME NEW c \in Candidates(st, offered), st.call = NoCall,
             pl = Plan(st, Order("writeCall", 1, c.strike, c.limit))
      PROVE  Planned(pl, r)
  <2>1. c \in Contracts /\ Qualifies(c, st)
    BY <1>5 DEF Candidates
  <2>2. c.strike \in Strikes /\ c.strike \in Nat /\ c.limit \in Nat
    BY <2>1 DEF Strikes, RotationConstantsOK
  <2>3. TargetAt(c.strike, st.entry, st.pnl + c.limit)
    <3>1. 100 * (c.strike - st.entry + st.pnl + c.limit) >= RecoveryPct * st.entry
      BY <2>1 DEF Qualifies, Reaches
    <3>2. st.entry \in Nat /\ st.pnl \in Int
      BY DEF State
    <3> QED BY <2>2, <3>1, <3>2 DEF TargetAt
  <2>4. Fits(Order("writeCall", 1, c.strike, c.limit), st)
    BY <1>5, <2>2, <2>3 DEF Fits, Order, Lots, Calls
  <2> QED BY <1>1, <1>5, <2>2, <2>4, Sends
<1> QED BY <1>2, <1>3, <1>4, <1>5 DEF Recover

LEMMA PlansFit ==
  ASSUME RotationConstantsOK, RotationInv, NEW r \in State, r.mode = "held" => r.call = NoCall,
         NEW phase \in {"entry", "review", "manage"},
         NEW p \in Prices, NEW ask \in Asks, NEW offered \in SUBSET Contracts,
         NEW pl \in Plans(phase, r, p, ask, offered)
  PROVE  Planned(pl, r)
<1>1. StillWorking <=> ~Asleep
  BY DEF StillWorking, Asleep, RotationInv, OneBook, Typed
<1>2. CASE StillWorking
  <2>1. pl = Plan(r, NoIntent)
    BY <1>2 DEF Plans
  <2> QED BY <2>1, Rests
<1>3. CASE ~StillWorking
  <2>0. Asleep /\ Kinds = {"buyLot", "sellLot", "buyPark", "sellPark", "writeCall", "buyCall"}
        /\ NoCall \in Strikes \union {NoCall} /\ 0 \in Nat
    BY <1>1, <1>3 DEF Kinds, Lots, Parks, Calls
  <2>1. CASE pl = Plan(r, NoIntent)
    BY <2>1, Rests
  <2>2. CASE pl = Plan(r, Order("buyLot", Lot, NoCall, 0)) /\ ~Open(r)
    <3>1. Fits(Order("buyLot", Lot, NoCall, 0), r)
      BY <2>2 DEF Fits, Order, Lots, Calls
    <3> QED BY <2>0, <2>2, <3>1, Sends
  <2>3. ASSUME NEW qty, NEW kind \in Parks, pl = Plan(r, Order(kind, qty, NoCall, 0))
        PROVE  Planned(pl, r)
    <3>1. Fits(Order(kind, qty, NoCall, 0), r)
      BY <2>3 DEF Fits, Order, Lots, Calls, Parks
    <3> QED BY <2>0, <2>3, <3>1, Sends DEF Parks
  <2>4. CASE r.mode = "held" /\ pl = Plan(r, Order("sellLot", Lot, NoCall, 0)) /\ r.call = NoCall
    <3>1. Fits(Order("sellLot", Lot, NoCall, 0), r)
      BY <2>4 DEF Fits, Order, Lots, Calls, Open
    <3> QED BY <2>0, <2>4, <3>1, Sends
  <2>5. CASE phase = "entry"
    <3>1. pl = Entry(r, p)
      BY <1>3, <2>5 DEF Plans
    <3>2. \/ pl = Plan(r, NoIntent) \/ (pl = Plan(r, Order("buyLot", Lot, NoCall, 0)) /\ ~Open(r))
          \/ \E qty : pl = Plan(r, Order("sellPark", qty, NoCall, 0))
      BY <3>1, Zenon DEF Entry
    <3> QED BY <2>1, <2>2, <2>3, <3>2 DEF Parks
  <2>6. CASE pl = Sweep(r)
    <3>1. pl = Plan(r, NoIntent) \/ \E qty : pl = Plan(r, Order("buyPark", qty, NoCall, 0))
      <4> DEFINE qty == (seen.cash * 100) \div (100 + BufferPct)
      <4>1. pl = Plan(r, IF qty < 1 THEN NoIntent ELSE Order("buyPark", qty, NoCall, 0))
        BY <2>6 DEF Sweep
      <4> HIDE DEF qty
      <4> QED BY <4>1
    <3> QED BY <2>1, <2>3, <3>1 DEF Parks
  <2>7. CASE r.mode = "recovery" /\ pl \in Recover(r, p, ask, offered)
    BY <2>0, <2>7, RecoverPlans
  <2>8. CASE r.mode = "held" /\ pl \in Recover([r EXCEPT !.mode = "recovery"], p, ask, offered)
    <3>1. /\ [r EXCEPT !.mode = "recovery"] \in State /\ [r EXCEPT !.mode = "recovery"].mode = "recovery"
          /\ [r EXCEPT !.mode = "recovery"].entry = r.entry /\ [r EXCEPT !.mode = "recovery"].pnl = r.pnl
          /\ [r EXCEPT !.mode = "recovery"].call = r.call
      BY DEF State
    <3> QED BY <2>0, <2>8, <3>1, RecoverPlans
  <2>9. CASE phase = "review"
    <3>1. pl \in Review(r, p, ask, offered) /\ r.mode \in {"flat", "held", "recovery"}
      BY <1>3, <2>9 DEF Plans, State
    <3> QED BY <2>4, <2>6, <2>7, <2>8, <3>1 DEF Review
  <2>10. CASE phase = "manage"
    <3>1. pl \in Manage(r, p, ask, offered) /\ r.mode \in {"flat", "held", "recovery"}
      BY <1>3, <2>10 DEF Plans, State
    <3> QED BY <2>1, <2>6, <2>7, <3>1 DEF Manage
  <2> QED BY <2>5, <2>9, <2>10
<1> QED BY <1>2, <1>3

\* What reconcile makes of the file's state, given what was read.
LEMMA ReconciledState ==
  ASSUME RotationConstantsOK, RotationInv, Reconciles(file.state)
  PROVE  LET st == file.state
             r == Reconciled(st)
         IN  /\ r \in State /\ (r.mode # "recovery" => r.call = NoCall)
             /\ \/ r = st /\ seen.short = {r.call} \ {NoCall}
                   /\ seen.shares = IF Open(r) THEN Lot ELSE 0
                \/ /\ st.call # NoCall /\ st.mode = "recovery" /\ seen.short = {} /\ r.call = NoCall
                   /\ \/ r = Flat /\ ~Open(r) /\ seen.shares = 0
                      \/ /\ r.mode = st.mode /\ r.entry = st.entry /\ r.pnl = st.pnl
                         /\ Open(r) /\ seen.shares = Lot
<1> DEFINE st == file.state
<1>1. /\ st \in State /\ (st.mode # "recovery" => st.call = NoCall) /\ NoCall \notin Strikes
      /\ seen.short \subseteq Strikes /\ Lot \in Nat \ {0}
  BY DEF RotationInv, Typed, OneBook, Book, NoCall, Strikes, RotationConstantsOK
<1>2. seen.short \subseteq {st.call} /\ (IF CallGone(st) THEN seen.shares \in {0, Lot}
                                         ELSE seen.shares = IF Open(st) THEN Lot ELSE 0)
  BY DEF Reconciles
<1> HIDE DEF st
<1>3. CASE ~CallGone(st)
  <2>1. Reconciled(st) = st
    BY <1>3 DEF Reconciled
  <2>2. seen.short = {st.call} \ {NoCall}
    BY <1>1, <1>2, <1>3 DEF CallGone
  <2> QED BY <1>1, <1>2, <1>3, <2>1, <2>2 DEF st
<1>4. CASE CallGone(st)
  <2>1. st.call # NoCall /\ seen.short = {} /\ st.mode = "recovery"
    BY <1>1, <1>4 DEF CallGone
  <2>2. CASE seen.shares = 0
    <3>1. Reconciled(st) = Flat
      BY <1>4, <2>2 DEF Reconciled
    <3>2. Flat \in State /\ ~Open(Flat) /\ Flat.call = NoCall
      BY DEF Flat, State, Open
    <3> QED BY <2>1, <2>2, <3>1, <3>2 DEF st
  <2>3. CASE seen.shares = Lot
    <3>1. Reconciled(st) = [st EXCEPT !.call = NoCall]
      BY <1>1, <1>4, <2>3 DEF Reconciled
    <3>2. /\ [st EXCEPT !.call = NoCall] \in State /\ [st EXCEPT !.call = NoCall].mode = st.mode
          /\ [st EXCEPT !.call = NoCall].entry = st.entry /\ [st EXCEPT !.call = NoCall].pnl = st.pnl
          /\ [st EXCEPT !.call = NoCall].call = NoCall
      BY <1>1 DEF State
    <3> QED BY <2>1, <2>3, <3>1, <3>2 DEF st, Open
  <2> QED BY <1>2, <1>4, <2>2, <2>3
<1> QED BY <1>3, <1>4

LEMMA DecideKeeps == ASSUME RotationConstantsOK, RotationInv, Decide PROVE RotationInv'
<1> DEFINE st == file.state
           r == Reconciled(st)
<1>1. /\ Typed /\ OneBook /\ OneOrder /\ ReadsStand /\ Position /\ Truth /\ Count
      /\ pc = "decide" /\ book \in Book /\ file \in Book /\ st \in State /\ book.state = st
      /\ book.pending = file.pending /\ Reconciles(st) /\ Out \subseteq Strikes
      /\ (st.mode # "recovery" => st.call = NoCall) /\ NoCall \notin Strikes
  BY DEF Decide, RotationInv, Typed, OneBook, Book, Out, NoCall, Strikes, RotationConstantsOK
<1>2. PICK phase \in {"entry", "review", "manage"}, p \in Prices, ask \in Asks,
           offered \in SUBSET Contracts :
        \E plan \in Plans(phase, r, p, ask, offered) :
          /\ book' = [book EXCEPT !.state = plan.next]
          /\ file' = book'
          /\ \/ Ends
             \/ /\ plan.intent # NoIntent /\ Allows
                /\ pc' = "place" /\ intent' = plan.intent /\ seen' = NoRead
  <2>1. Reconciled(book.state) = r
    BY <1>1
  <2> HIDE DEF r
  <2> QED BY <2>1, ZenonT(60) DEF Decide
<1>3. PICK plan \in Plans(phase, r, p, ask, offered) :
        /\ book' = [book EXCEPT !.state = plan.next]
        /\ file' = book'
        /\ \/ pc' = "idle" /\ seen' = NoRead /\ intent' = NoIntent
           \/ /\ plan.intent # NoIntent /\ pc' = "place" /\ intent' = plan.intent /\ seen' = NoRead
  BY <1>2 DEF Ends
<1>4. /\ r \in State /\ (r.mode # "recovery" => r.call = NoCall)
      /\ \/ r = st /\ seen.short = {r.call} \ {NoCall}
            /\ seen.shares = IF Open(r) THEN Lot ELSE 0
         \/ /\ st.call # NoCall /\ st.mode = "recovery" /\ seen.short = {} /\ r.call = NoCall
            /\ \/ r = Flat /\ ~Open(r) /\ seen.shares = 0
               \/ /\ r.mode = st.mode /\ r.entry = st.entry /\ r.pnl = st.pnl
                  /\ Open(r) /\ seen.shares = Lot
  BY <1>1, ReconciledState
<1>5. Planned(plan, r)
  BY <1>3, <1>4, PlansFit
<1> HIDE DEF st, r
<1> DEFINE next == plan.next
<1>6. /\ next \in State /\ next.entry = r.entry /\ next.pnl = r.pnl /\ next.call = r.call
      /\ next.mode = r.mode \/ (next.mode = "recovery" /\ r.mode = "held")
      /\ Open(next) <=> Open(r)
  BY <1>5 DEF Planned, Open
<1> HIDE DEF next
<1>7. /\ book' \in Book /\ book'.state = next /\ book'.pending = file.pending
      /\ book'.day = book.day /\ book'.ordersToday = book.ordersToday /\ file' = book'
  BY <1>1, <1>3, <1>6 DEF Book, next
<1>8. /\ shares' = shares /\ short' = short /\ placed' = placed /\ orders' = orders /\ day' = day
      /\ sent' = sent /\ real' = real /\ astray' = astray /\ slipped' = slipped
      /\ Ids' = Ids /\ AtWork' = AtWork /\ Out' = Out
  BY DEF Decide, account, history, Ids, AtWork, Working, Out
<1>9. pc' \in {"idle", "place"} /\ (pc' = "place" => plan.intent # NoIntent /\ Asleep /\ file.pending = 0)
  BY <1>3, <1>5 DEF Planned, Asleep
<1>10. Typed'
  <2>1. seen' \in [cash : {seen'.cash}, shares : Int, park : {seen'.park}, working : BOOLEAN,
                   short : SUBSET Strikes]
    <3>1. seen' = NoRead
      BY <1>3
    <3> QED BY <3>1 DEF NoRead
  <2>2. intent' \in [kind : Kinds \union {"none"}, qty : {intent'.qty},
                     strike : Strikes \union {NoCall}, limit : Nat]
    <3>1. CASE intent' = NoIntent
      BY <3>1 DEF NoIntent, Order
    <3>2. CASE intent' = plan.intent /\ plan.intent # NoIntent
      BY <1>5, <3>2 DEF Planned
    <3> QED BY <1>3, <3>1, <3>2
  <2> QED BY <1>1, <1>7, <1>8, <1>9, <2>1, <2>2 DEF Typed
<1>11. OneBook'
  <2>1. ASSUME NEW i \in Ids, Awaited(i)', orders[i].kind = "writeCall"
        PROVE  next.mode = "recovery" /\ next.call = NoCall
    <3>1. Awaited(i)
      BY <1>7, <1>9, <2>1 DEF Awaited
    <3>2. st.mode = "recovery" /\ st.call = NoCall
      BY <1>1, <2>1, <3>1 DEF OneBook, st
    <3>3. r = st
      BY <1>4, <3>2
    <3> QED BY <1>6, <3>2, <3>3
  <2>2. next.mode # "recovery" => next.call = NoCall
    BY <1>4, <1>6
  <2> QED BY <1>1, <1>7, <1>8, <1>9, <2>1, <2>2 DEF OneBook
<1>12. OneOrder' /\ ReadsStand' /\ Position'
  BY <1>1, <1>8, <1>9 DEF OneOrder, ReadsStand, Position
<1>13. IntentStands'
  <2> SUFFICES ASSUME pc' = "place" PROVE IntentStands'
    BY DEF IntentStands
  <2>1. /\ AtWork = {} /\ seen.short = Out /\ (~slipped => seen.shares = shares)
        /\ plan.intent # NoIntent
    BY <1>1, <1>9 DEF ReadsStand
  <2>2. plan.intent.kind # "none" /\ Fits(plan.intent, next) /\ intent' = plan.intent
    BY <1>3, <1>5, <1>9, <2>1 DEF Planned, next
  <2>3. Out = {next.call} \ {NoCall} /\ (~slipped => shares = IF Open(next) THEN Lot ELSE 0)
    BY <1>4, <1>6, <2>1
  <2> QED BY <1>7, <1>8, <2>1, <2>2, <2>3 DEF IntentStands
<1>14. Truth'
  <2> SUFFICES ASSUME astray = {} PROVE Truth'
    BY <1>8 DEF Truth
  <2>1. /\ ~slipped
        /\ \A i \in Ids : Awaited(i) /\ AwaitedOK(orders[i])
        /\ Open(st) => real.entry = st.entry /\ (Ids = {} => real.option = st.pnl)
        /\ \A k \in Out :
             /\ \/ k = st.call
                \/ \E i \in Ids : orders[i].kind = "writeCall" /\ orders[i].state = "filled" /\ orders[i].strike = k
             /\ TargetAt(k, real.entry, real.option)
    BY <1>1 DEF Truth, st
  <2>2. Open(next) => Open(st) /\ next.entry = st.entry /\ next.pnl = st.pnl
    <3>1. st.mode = "recovery" => Open(st)
      BY DEF Open
    <3> QED BY <1>4, <1>6, <3>1
  <2>3. \A i \in Ids : Awaited(i)'
    BY <1>1, <1>7, <1>8, <2>1 DEF Awaited
  <2>4. ASSUME NEW i \in Ids PROVE AwaitedOK(orders[i])'
    <3>1. orders[i].kind = "buyLot" => ~Open(next)
      BY <2>1, <2>2 DEF AwaitedOK, st
    <3>2. orders[i].kind = "sellLot" => next.call = NoCall
      BY <1>4, <1>6, <2>1 DEF AwaitedOK, st
    <3>3. orders[i].kind = "writeCall" =>
            /\ next.mode = "recovery" /\ next.call = NoCall
            /\ TargetAt(orders[i].strike, next.entry, next.pnl + orders[i].limit)
      BY <1>4, <1>6, <2>1 DEF AwaitedOK, st
    <3>4. orders[i].kind = "buyCall" => next.call \in {NoCall, orders[i].strike}
      BY <1>4, <1>6, <2>1 DEF AwaitedOK, st
    <3>5. AwaitedOK(orders[i]) /\ (Open(next) => real.option = next.pnl + Gained(orders[i]))
      BY <2>1, <2>2 DEF AwaitedOK, st
    <3> QED BY <1>7, <1>8, <3>1, <3>2, <3>3, <3>4, <3>5 DEF AwaitedOK
  <2>5. r = st \/ Out = {}
    <3> SUFFICES ASSUME r # st, NEW k \in Out PROVE FALSE
      OBVIOUS
    <3>1. k \notin seen.short /\ st.call # NoCall
      BY <1>4
    <3>2. PICK i \in Ids : orders[i].kind = "writeCall"
      BY <1>1, <3>1 DEF ReadsStand
    <3> QED BY <2>1, <3>1, <3>2 DEF AwaitedOK, st
  <2>6. \A k \in Out :
          \/ k = next.call
          \/ \E i \in Ids : orders[i].kind = "writeCall" /\ orders[i].state = "filled" /\ orders[i].strike = k
    BY <1>6, <2>1, <2>5
  <2> QED BY <1>7, <1>8, <2>1, <2>2, <2>3, <2>4, <2>6 DEF Truth
<1>15. Count'
  <2>1. /\ book.day = day /\ day \in Nat
        /\ book.ordersToday = IF file.day = day THEN file.ordersToday ELSE 0
        /\ astray = {} => sent = book.ordersToday
    BY <1>1 DEF Count, Typed
  <2> QED BY <1>7, <1>8, <1>9, <2>1 DEF Count
<1> QED BY <1>10, <1>11, <1>12, <1>13, <1>14, <1>15 DEF RotationInv

-----------------------------------------------------------------------------
LEMMA StillKeeps == ASSUME RotationInv, UNCHANGED rotationVars PROVE RotationInv'
<1>1. /\ shares' = shares /\ short' = short /\ placed' = placed /\ orders' = orders /\ day' = day
      /\ file' = file /\ pc' = pc /\ book' = book /\ seen' = seen /\ intent' = intent
      /\ sent' = sent /\ real' = real /\ astray' = astray /\ slipped' = slipped
      /\ Ids' = Ids /\ AtWork' = AtWork /\ Out' = Out
  BY DEF rotationVars, account, cycle, history, Ids, AtWork, Working, Out
<1>2. Typed' /\ OneBook' /\ OneOrder'
  BY <1>1 DEF RotationInv, Typed, OneBook, OneOrder, Awaited
<1>3. ReadsStand' /\ IntentStands' /\ Position'
  BY <1>1 DEF RotationInv, ReadsStand, IntentStands, Position, Asleep
<1>4. Truth' /\ Count'
  BY <1>1 DEF RotationInv, Truth, Count, Awaited, AwaitedOK
<1> QED BY <1>2, <1>3, <1>4 DEF RotationInv

THEOREM RotationInvariant == Spec => []RotationInv
<1>1. Init => RotationInv
  BY InvStarts, RotationConstantsOK
<1>2. RotationInv /\ [Next]_rotationVars => RotationInv'
  <2> SUFFICES ASSUME RotationInv, [Next]_rotationVars PROVE RotationInv'
    OBVIOUS
  <2> USE RotationConstantsOK
  <2>1. CASE Begin
    BY <2>1, BeginKeeps
  <2>2. CASE ReadAccount \/ ReadWorking \/ ReadCalls
    BY <2>2, ReadsKeep
  <2>3. CASE Decide
    BY <2>3, DecideKeeps
  <2>4. CASE Halts \/ Abandon
    BY <2>4, GivingUpKeeps
  <2>5. CASE Place
    BY <2>5, PlaceKeeps
  <2>6. CASE Record
    BY <2>6, RecordKeeps
  <2>7. CASE Fills
    BY <2>7, FillsKeep
  <2>8. CASE Cancel
    BY <2>8, CancelKeeps
  <2>9. CASE Night
    BY <2>9, NightKeeps
  <2>10. CASE UNCHANGED rotationVars
    BY <2>10, StillKeeps
  <2> QED BY <2>1, <2>2, <2>3, <2>4, <2>5, <2>6, <2>7, <2>8, <2>9, <2>10 DEF Next, Cycle
<1> QED BY <1>1, <1>2, PTL DEF Spec

-----------------------------------------------------------------------------
\* "There is never a second lot": whatever the lot, the prices, the calls, the funds,
\* the days and the orders, and whatever is lost or dies, unless an order the book
\* never recorded was filled between two reads of a cycle.
THEOREM NeverASecondLot == Spec => []NoSecondLot
<1>1. RotationInv => NoSecondLot
  BY DEF RotationInv, Position, NoSecondLot
<1> QED BY <1>1, RotationInvariant, PTL

\* "No option is ever sold without the shares behind it", nor the shares sold out
\* from under one, with the same exception.
THEOREM CallsStayCovered == Spec => []CallsAreCovered
<1>1. ASSUME RotationInv, ~slipped PROVE CallsAreCovered
  <2>1. /\ Typed /\ OneOrder /\ shares <= Lot /\ Lot \in Nat
        /\ \A k \in Out : short[k] = 1 /\ shares = Lot
        /\ \A k, l \in Out : k = l
        /\ \A i \in AtWork :
             /\ orders[i].kind = "sellLot" => Out = {} /\ shares = Lot - orders[i].done
             /\ orders[i].kind = "writeCall" => Out = {} /\ shares = Lot
    BY <1>1, RotationConstantsOK DEF RotationInv, Position
  <2>2. \A i, j \in AtWork : i = j
    BY <2>1 DEF OneOrder
  <2>3. AtWorkOf("writeCall") \subseteq AtWork /\ AtWorkOf("sellLot") \subseteq AtWork
    BY DEF AtWorkOf
  <2>4. Cardinality({}) = 0
    BY FS_EmptySet
  <2>5. CASE Out # {}
    <3>1. PICK k \in Out : Out = {k}
      BY <2>1, <2>5
    <3>2. Cardinality(Out) = 1
      BY <3>1, FS_Singleton
    <3>3. AtWorkOf("writeCall") = {} /\ AtWorkOf("sellLot") = {}
      BY <2>1, <2>5 DEF AtWorkOf
    <3> QED BY <2>1, <2>4, <2>5, <3>2, <3>3 DEF CallsAreCovered
  <2>6. CASE Out = {} /\ AtWorkOf("writeCall") # {}
    <3>1. PICK i \in AtWork : orders[i].kind = "writeCall"
      BY <2>6 DEF AtWorkOf
    <3>2. AtWorkOf("writeCall") = {i} /\ AtWorkOf("sellLot") = {}
      BY <2>2, <3>1 DEF AtWorkOf
    <3>3. Cardinality({i}) = 1
      BY FS_Singleton
    <3> QED BY <2>1, <2>4, <2>6, <3>1, <3>2, <3>3 DEF CallsAreCovered
  <2>7. CASE Out = {} /\ AtWorkOf("writeCall") = {}
    BY <2>1, <2>4, <2>7 DEF CallsAreCovered
  <2> QED BY <2>5, <2>6, <2>7
<1>2. RotationInv => CallsAreCovered
  BY <1>1 DEF CallsAreCovered
<1> QED BY <1>2, RotationInvariant, PTL

\* Settle and Record: while no order is lost, the entry price and the option cash of
\* the file are the broker's, and the gate counts what was sent.
THEOREM BookIsTrue == Spec => []BookTellsTheTruth
<1>1. ASSUME RotationInv, astray = {} PROVE BookTellsTheTruth
  <2>1. Truth /\ Count /\ OneBook /\ Typed
    BY <1>1 DEF RotationInv
  <2>2. ASSUME Open(file.state), ~Unsettled
        PROVE  file.state.entry = real.entry /\ file.state.pnl = real.option
    <3>1. pc # "record" /\ \A i \in Ids : i = file.pending /\ i # 0
      BY <1>1, <2>1, <2>2 DEF Unsettled, Truth, Awaited, Typed
    <3>2. \A i \in Ids : Gained(orders[i]) = 0 /\ AwaitedOK(orders[i])
      BY <1>1, <2>1, <2>2, <3>1 DEF Unsettled, Gained, Truth
    <3>3. file.state.pnl \in Int
      BY <2>1 DEF Typed, Book, State
    <3>4. CASE Ids = {}
      BY <1>1, <2>1, <2>2, <3>4 DEF Truth
    <3>5. CASE Ids # {}
      BY <1>1, <2>1, <2>2, <3>2, <3>3, <3>5 DEF Truth, AwaitedOK
    <3> QED BY <3>4, <3>5
  <2>3. pc # "record" => sent = IF file.day = day THEN file.ordersToday ELSE 0
    BY <1>1, <2>1 DEF Count
  <2> QED BY <2>2, <2>3 DEF BookTellsTheTruth
<1>2. RotationInv => BookTellsTheTruth
  BY <1>1 DEF BookTellsTheTruth
<1> QED BY <1>2, RotationInvariant, PTL

\* SelectCall's assignment test: while no order is lost, the call that is out makes
\* the recovery target of the lot if it is assigned.
THEOREM AssignmentPays == Spec => []AssignmentReachesTarget
<1>1. RotationInv => AssignmentReachesTarget
  BY DEF RotationInv, Truth, AssignmentReachesTarget, TargetAt, Out
<1> QED BY <1>1, RotationInvariant, PTL

=============================================================================
