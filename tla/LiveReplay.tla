----------------------------- MODULE LiveReplay -----------------------------
(***************************************************************************)
(* One spec from day to day: the market closes, the bars on disk are       *)
(* refilled from a vendor that may miss a bar or not answer, and every day *)
(* before the close the runner takes the strategy's targets from the bars  *)
(* and the quote of the moment.  The strategy keeps nothing between runs:  *)
(* what it did yesterday it finds again by replaying the history.  The     *)
(* backtest replays the same bars later.                                   *)
(***************************************************************************)
EXTENDS Strategies

CONSTANTS
  Plans,                  \* what a spec may say, accepted by Parse or not
  Markets,                \* strategy -> the bars its symbols may have on a day
  LastDays,               \* bound: strategy -> the days of a behavior
  MaxBarAge,              \* the runner refuses bars older than this, in days
  MaxTroubles             \* bound: bars missed, refills skipped, late moves

\* A plan's parameters are numbers; bars are as Check lets them on disk
\* (bars.go:143), the high and the low on the footing of the adjusted close
\* (adjust.go:22), and a ratio's prices are logarithms.
ASSUME ReplayConstantsOK ==
  /\ MaxTroubles \in Nat
  /\ \A p \in Plans :
       /\ p.universe \in Seq(Range(p.universe))
       /\ p.params \in [DOMAIN p.params -> Int]
       /\ Parse(p) => \A bars \in Markets[p.strategy], s \in Range(p.universe) :
            LET bar == bars[s]
            IN /\ bar \in [close : Int, high : Int, low : Int]
               /\ bar.low <= bar.close /\ bar.close <= bar.high
               /\ p.strategy # "ratio_reversion" => bar.low > 0

VARIABLES
  plan,                   \* the spec
  today,
  closed,                 \* the bars of the days that have closed
  file,                   \* the bars on disk: symbol -> day -> bar
  told,                   \* the last live run: its day, what it saw, its targets
  troubles

vars == <<plan, today, closed, file, told, troubles>>

Symbols == Range(plan.universe)
Market == Markets[plan.strategy]
NotRun == [day |-> 0]
Cost(trouble) == IF trouble THEN 1 ELSE 0

-----------------------------------------------------------------------------
(* A refill of some symbols; the others were not answered, or refused.  It
   asks for the days since the first on file, and gets of those that closed
   all the vendor has; an answer shorter than the file is refused.         *)
From(s) == IF DOMAIN file[s] = {} THEN 1
           ELSE CHOOSE d \in DOMAIN file[s] : \A other \in DOMAIN file[s] : d <= other

Answer(missing, s) ==
  [d \in {d \in From(s)..today - 1 : <<s, d>> \notin missing} |-> closed[d][s]]

Refill ==
  \E syms \in SUBSET Symbols :
    /\ Cost(syms # Symbols) <= MaxTroubles - troubles
    /\ \E missing \in UNION {kSubset(k, {bar \in syms \X (1..today - 1) : From(bar[1]) <= bar[2]}) :
                                k \in 0..MaxTroubles - troubles - Cost(syms # Symbols)} :
         LET answer == [s \in syms |-> Answer(missing, s)]
         IN /\ \A s \in syms : /\ DOMAIN answer[s] # {}
                               /\ Cardinality(DOMAIN answer[s]) >= Cardinality(DOMAIN file[s])
            /\ file' = [s \in Symbols |-> IF s \in syms THEN answer[s] ELSE file[s]]
            /\ file' # file
            /\ troubles' = troubles + Cardinality(missing) + Cost(syms # Symbols)
            /\ UNCHANGED <<plan, today, closed, told>>

-----------------------------------------------------------------------------
(* A live run: the bars, refused when stale, and today's bar made of the
   quote when the file does not have it yet.                               *)

NewestDay(series) == CHOOSE d \in DOMAIN series : \A other \in DOMAIN series : other <= d
Stale(series) == today - NewestDay(series) > MaxBarAge

WithBar(series, day, bar) ==
  [d \in DOMAIN series \cup {day} |-> IF d = day THEN bar ELSE series[d]]
QuoteBar(price) == [close |-> price, high |-> price, low |-> price]

WithToday(quotes) ==
  [s \in Symbols |-> IF today \in DOMAIN file[s] THEN file[s]
                     ELSE WithBar(file[s], today, QuoteBar(quotes[s].close))]

LiveRun(quotes) ==
  /\ told.day # today
  /\ \A s \in Symbols : DOMAIN file[s] # {} /\ ~Stale(file[s])
  /\ LET seen == Align(plan.universe, WithToday(quotes))
     IN /\ Replayable(plan, seen)
        /\ told' = [day |-> today, seen |-> seen,
                    targets |-> Targets(plan, WithToday(quotes))]
  /\ UNCHANGED <<plan, today, closed, file, troubles>>

(* The day closes at bars that need not be the quotes the run traded on, and
   whether or not the bars of the days before were refilled; both are counted.*)
Moved(bars) ==
  /\ told.day = today
  /\ \E s \in Symbols : Last(told.seen.bars[s]).close # bars[s].close
Behind == \E s \in Symbols : today - 1 \notin DOMAIN file[s]

Close(bars) ==
  /\ today < LastDays[plan.strategy]
  /\ closed' = Append(closed, bars)
  /\ today' = today + 1
  /\ troubles' = troubles + Cost(Moved(bars)) + Cost(Behind /\ today > 1)
  /\ troubles' <= MaxTroubles
  /\ UNCHANGED <<plan, file, told>>

-----------------------------------------------------------------------------
(* The backtest: the targets the book holds at every bar on or after from,
   the start of the test window, NoFill while nothing has been filled.     *)

NoFill == <<>>
StartBar(al) ==
  LET late == {t \in 1..Len(al.dates) : al.dates[t] >= plan.from}
  IN IF late = {} THEN 0 ELSE CHOOSE t \in late : \A other \in late : t <= other

(* What the book holds at bar t: the targets of the bar it was last filled of. *)
FilledAt(t, from) ==
  IF plan.fill = "same_close" THEN t ELSE IF t = from THEN 0 ELSE t - 1

Backtest(al) ==
  LET w == Weights(plan, al)
      from == StartBar(al)
      Held(bar) == IF bar = 0 THEN NoFill ELSE w[bar]
  IN [t \in from..Len(al.dates) |-> Held(FilledAt(t, from))]

OnDisk == Align(plan.universe, file)

-----------------------------------------------------------------------------
ReplayInit ==
  /\ plan \in {p \in Plans : Parse(p)}
  /\ today = 1
  /\ closed = <<>>
  /\ file = [s \in Symbols |-> <<>>]
  /\ told = NotRun
  /\ troubles = 0

ReplayNext ==
  \/ Refill
  \/ \E quotes \in Market : LiveRun(quotes)
  \/ \E bars \in Market : Close(bars)

ReplaySpec == ReplayInit /\ [][ReplayNext]_vars

-----------------------------------------------------------------------------
(* Properties. *)

(* The bars up to the day of the last live run are, on disk, those it saw:
   none came late, none was revised, and the day closed at the quotes.     *)
SawTheSame ==
  /\ told # NotRun
  /\ \A al \in {OnDisk} :
       LET upto == {t \in 1..Len(al.dates) : al.dates[t] <= told.day}
       IN /\ told.day \in Range(al.dates)
          /\ Cardinality(upto) = Len(told.seen.dates)
          /\ \A t \in upto :
               /\ al.dates[t] = told.seen.dates[t]
               /\ \A s \in Symbols :
                    /\ al.bars[s][t].close = told.seen.bars[s][t].close
                    /\ al.dates[t] < told.day => al.bars[s][t] = told.seen.bars[s][t]

(* What the runner was told to hold on a day is what the backtest says of that
   day, however many bars have been added since: the runner finds its state
   again by replaying the history, and no later bar reaches back into it.
   The backtest fills it at that bar's close, or at the next bar's open, and
   opens its book with nothing filled (strategy Targets, backtest.go).      *)
LiveIsBacktest ==
  SawTheSame =>
    \A al \in {OnDisk}, i \in {Len(told.seen.dates)} :
      Replayable(plan, al) /\ StartBar(al) \in 1..i =>
        \A book \in {Backtest(al)} : \A t \in DOMAIN book :
          /\ t = (IF plan.fill = "same_close" THEN i ELSE i + 1) => book[t] = told.targets
          /\ t = StartBar(al) /\ plan.fill = "next_open" => book[t] = NoFill

\* The day's run is what the last step, or a refill since, left.
JustRan == told.day = today

\* The strategies that keep a position, and the symbols they keep one for.
Stateful == {"pairs_zscore", "ratio_reversion", "sma_trend", "donchian_breakout", "rsi2_reversion"}
Sleeves == IF plan.strategy = "pairs_zscore" THEN {plan.universe[1]} ELSE Risk(plan.universe)

(* No position outlives its time stop: at most max_hold_days bars after the one
   that opened it, whatever bars are missing (the step functions, held).     *)
TimeStop ==
  JustRan /\ "max_hold_days" \in DOMAIN plan.params =>
    \A s \in Sleeves :
      LET pos == Positions(plan, told.seen, s)
          most == Count(plan.params.max_hold_days)
      IN \A t \in DOMAIN pos : t > most + 1 =>
           \E i \in t - most - 1..t - 1 : pos[i].in # pos[t].in \/ pos[t].in = 0

(* A position that is left is flat for a bar: an exit never shares its bar with
   an entry, of either side, not even when the time stop closes it on a bar
   that would open it (the step functions, exits before entries).            *)
FlatBetween ==
  JustRan /\ plan.strategy \in Stateful =>
    \A s \in Sleeves :
      LET pos == Positions(plan, told.seen, s)
      IN \A t \in DOMAIN pos : t > 0 /\ pos[t].in # 0 /\ pos[t - 1].in # 0 =>
           pos[t] = Hold(pos[t - 1])

\* The exit rule of a position at bar t, and whether it can be evaluated there.
Leaves(al, s, t, p) ==
  LET pr == plan.params
      px == Closes(al.bars[s])
      haven == Haven(plan.universe)
      L == Count(pr.lookback)
  IN CASE plan.strategy = "pairs_zscore" ->
            PairsLeaves(p, ZScore(PairsSpread(pr, al, s, haven), t, L), pr)
       [] plan.strategy = "ratio_reversion" ->
            RatioLeaves(ZScore(RatioSeries(al, s, haven), t, L), pr)
       [] plan.strategy = "sma_trend" -> TrendLeaves(px[t], SMA(px, t, L), pr)
       [] plan.strategy = "donchian_breakout" ->
            LET lower == DonchianLower(Lows(al.bars[s]), t, Count(pr.exit_lookback))
            IN ~Defined(lower) \/ DonchianLeaves(px[t], lower)
       [] plan.strategy = "rsi2_reversion" ->
            RSI2Leaves(px[t], WilderRSI(px, t), SMA(px, t, Count(pr.trend_lookback)), pr)

(* A bar that opens a position does not already ask to close it, and its exit
   rule is defined there: what Parse accepts cannot turn over every bar, nor
   enter what it has no exit for (the Parse functions, donchian.go:79).      *)
EntryIsNoExit ==
  JustRan /\ plan.strategy \in Stateful =>
    LET al == told.seen
    IN \A s \in Sleeves :
         LET pos == Positions(plan, al, s)
         IN \A t \in DOMAIN pos \ {0} :
              pos[t].in # 0 /\ pos[t - 1].in = 0 => ~Leaves(al, s, t, pos[t])
=============================================================================
