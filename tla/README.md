# Bulls and Bears in TLA+

Bulls and Bears (`bnb`) is one Go process that trades a small account. Once a
trading day, five minutes before the close, it runs a *daily cycle* over a book
kept on paper: read the specs, bars and quotes, compute targets, pass the
intents through a risk gate, write every decision and order to a journal, send
the orders. Beside it, `bnb rotate` drives one *live rotation* of a real account
between two tickers and a covered call, and a phone app looks at all of it,
stops trading, resumes it, promotes specs and starts runs by hand.

This directory models the parts of that which decide whether the books are
right: what happens when two runs meet, when the process dies between two
writes, when the disk is full, when the machine slept, when a rule is at its
boundary, when a strategy has to find yesterday's position again from its bars.
`PROJECT.json` says for every definition which lines of the source it stands for.

## The system

| component | state | operations | hard part |
|---|---|---|---|
| **Daily run** `runner/runner.go` | locals of one call of `Run` | `Run`, `Done` | called by the scheduler, the app and `bnb run` with no lock between them; may die between any two lines |
| **Run journal** `journal/` | one append-only JSON-lines file per trading date | `Open`, `Write`, `Read`, `Check`, `Summarize` | lines cut short by a full disk or a power loss, then appended to |
| **Halt marker** `halt/` | one file, `HALT` | `Halt`, `Resume`, `Status` | set and removed by other processes at any moment; read once per run |
| **Paper book** `broker/paper/` | SQLite: cash, positions, orders, fills, equity history | `Place`, `Cancel`, `Fills`, `Equity`, `Snapshot`, and the three answers the gate's account rules need | no margin; whoever looks at the equity writes the history the gate reads |
| **Risk gate** `risk/` | none; a function of intents and account | `Kill`, `Check` (rules, then scaling by bisection) | boundaries: a close or a flip, at the cap, at the order limit |
| **Scheduler** `sched/loop.go` | a goroutine's place in its loop | `Serve` | sleeps across a suspended machine, restarts, early closes; asks the journal before it sleeps |
| **Exchange calendar** `sched/calendar.go` | none | `SessionOn`, `NextClose` | observed holidays, Good Friday, early closes |
| **Live rotation** `rotation/`, `strategy/xlksata/` | `state.json`: the strategy's lot, its marks, the order it is waiting on | `Cycle.Run`: settle, read, decide, gate, execute, save | the broker is remote: lost answers, late and partial fills, reads that are not one snapshot |
| **Rotation loop** `rotation/loop.go` | fired phases, last management cycle | `Serve` | five-minute windows beside a throttle, halts, failures, restarts, early closes |
| **Research jobs** `research/research.go` | the current job and the twenty before it, each with a goroutine and a command | `Start`, `Cancel`, `Get`, `Wait` | a cancel takes its steps between those of the job it stops |
| **Research schedule** `research/revalidate.go` | the switch, the last run of each spec, the history; `revalidate.json` | `SetEnabled`, `Pass`, `Serve` | a pass waits for minutes between reading the state and writing it; restarts, failed saves, jobs from the phone |
| **Stages, specs, bars** `stage/`, `spec/`, `bars/` | files the operator changes through the app | promote, demote, install, remove, refill | handlers that read, wait and then write through a shared temporary file, with no lock |
| **API, server wiring** `api/`, `cmd/bnb/` | sessions; goroutines | handlers, start, shutdown | shutdown does not wait for a run |
| **Broker connection** `robinhood/`, `mcp/` | the token file, each process's copy of it, each client's session | sign-in, refresh, calls over MCP | refresh tokens that are good once, answers lost after the server acted, two processes with one sign-in |
| **Strategies, indicators, backtest** `strategy/`, `indicator/`, `backtest/` | none between two runs: a position is found again by replaying the bars | `Parse`, `Targets`, `Weights`, `Run` | bars that are missing or late, exits and entries on one bar, live and backtest in step |
| **Market data** `marketdata/` | none | quotes, daily bars | answers that are missing days |
| metrics, research code, web app, scripts | none that lasts | statistics, studies, views | out of scope |

How they meet: the scheduler, `POST /api/runs` and `bnb run` call `Run` with the
trading date as the run id. `Run` reads the marker, the book and the quotes,
asks the gate, may set the marker (the kill switch), writes the journal and
sends orders to the book. `Done` reads the journal back for the scheduler. The
book's equity history is written by `Run` and by every look at the app, and
read by `Run` for the gate. The research schedule starts jobs through the same
`Runner` as the app, waits for each, and notes what came of it; a study that
promotes writes a spec file, which is what the daily run reads. A refill rewrites
the bars from which the strategies, live and in a backtest, replay what they hold.
The rotation's loop asks the calendar for its hours and the broker link for every
read and order of a cycle; `bnb login` and `bnb rotate -once` share its token file.

### What would make it wrong

The list is `hazards` in `PROJECT.json`, each at its line with the properties that
would catch it. The ones that shaped the modules:

* an order that goes out unrecorded, or recorded in the wrong order, when lines
  fail or the process dies (`WriteAhead`);
* a halt that does not hold through restarts (`HaltHolds`);
* a day that is run again trading past its targets (`NeverPastTarget`) or a run past
  its order limit (`GateContract`);
* a journal that its own reader rejects (`CheckPasses`), or that tells a completed
  run's fills twice or not at all (`FillsWrittenOnce`, `CompletedAccountsForFills`);
* cash below zero in a book without margin (`NoMargin`), and account rules whose
  marks move under the run that reads them (`GateReadsStand`);
* scaling that lets the book over its cap (`FitsUnderCap`), a rule that blocks
  a close (`GateContract`) or lets a flip through (`LosingDayOnlyReduces`);
* a day run twice, late, or not at all (`FiresOnceInWindow`, `NoDaySlips`,
  `EverySessionSettles`);
* in the live rotation, an order that is out and that the book does not know of:
  a second lot (`NoSecondLot`), a call without shares behind it (`CallsAreCovered`), targets
  and order counts of a book that missed a fill or took one twice (`BookTellsTheTruth`,
  `AssignmentReachesTarget`);
* a window of five minutes that a management cycle, a failure or a holiday makes the
  loop miss, or serve twice (`WindowsAreServed`, `PhaseFiresOnce`, `CyclesKeepHours`);
* a token that a refresh, a crash or another process leaves useless (`RestartHeals`,
  `HealthyLoopSucceeds`);
* a strategy that does not find yesterday's position again (`LiveIsBacktest`), holds one
  past its time stop (`TimeStop`), turns one over within a bar (`FlatBetween`) or enters
  what its exit rule already closes (`EntryIsNoExit`);
* half a file read, a decision or a halt lost, a history shortened, by requests that
  meet or die on their way (`NoTornFile`, `DecisionsStand`, `HaltIsInForce`, `HistoryKept`);
* two research jobs that both say they run (`OthersAreCancelled`), a cancel that
  comes between two commands and stops neither (`CancelledIsOver`, `CancelReturns`), a
  job that calls itself succeeded (`SuccessIsWhole`), a waiter who is shown another end
  than the job's (`KeepsThePromise`, `RecordTellsTheVerdict`);
* a schedule that was switched off and is on again (`OffStaysOff`), or that studies a
  spec hour after hour (`OncePerMonth`).

## The modules

    OrderLedger    what the journal promises, in the abstract
    DailyRun       runner.Run + journal + marker + book, any number of runs  --implements--> OrderLedger
    PaperBook      the book's money, resting orders and equity history
    RiskGate       the gate's rules and its scaling
    Scheduler      the loop that calls Run, over several sessions
    OperatorFiles  promotions, halt marker, bars and specs under concurrent requests
    Indicators     rolling means, z-scores, RSI, channels, ranks         
    Strategies     the eight strategies over Indicators                  -- pure operators
    LiveReplay     one spec from day to day: refills, live runs, backtest  --extends--> Strategies
    Calendar       sessions, holidays and early closes, over dates          pure operators
    BrokerLink     token, refresh, sign-in, session, one call and its answer
    RotationLoop   the loop that fires the rotation's cycles  --extends--> Calendar, BrokerLink
    Rotation       the live rotation's cycle, its book and strategy, and its broker
    StudyJobs      what the research Runner promises, in the abstract
    ResearchJobs   the Runner with its goroutines, commands and cancels    --implements--> StudyJobs
    Revalidation   the monthly schedule                                    --extends--> StudyJobs

    MCDailyRun, MCRiskGate, MCScheduler, MCLiveReplay, MCRotation,
    MCRotationLoop, MCResearchJobs, MCRevalidation      small instances for TLC
    DailyRunProofs, AccountProofs (of PaperBook and RiskGate),
    SessionProofs (of Scheduler and LiveReplay), OperatorFilesProofs, RotationProofs,
    RotationLoopProofs (and of BrokerLink), ResearchJobsProofs,
    RevalidationProofs                                  theorems

`DailyRun` uses the gate by its contract (`Verdicts`: no intent grows, at most
`MaxOrders` are allowed), which `RiskGate` shows of the gate's code as
`GateContract`; it uses the book as positions and fills, whose money is in
`PaperBook`; `Scheduler` sees a run as the last run line of its journal, which is
what `DailyRun`'s `Status` computes. Both see the halt marker as one step, set or
removed; that a halt of several steps can be seen so is `HaltIsInForce` of `OperatorFiles`.
What a strategy wants is a constant of the daily run and the result of
`LiveReplay`'s live run. `RotationLoop` sees a cycle as one call of the broker that
is answered or not, `Rotation` as its reads, decisions and orders. `Revalidation` runs its studies as `StudyJobs` has
them, and `ResearchJobs` is shown to be a `StudyJobs`: the two halves of
`research/` meet in what a job shows to those who start it and wait for it, and
are checked apart.

### DailyRun

One action per step of `Run` that writes or reads something another run, the
operator or a later run can see. `pc[r]` is where caller `r` is:

| `pc` | code (`runner.go`) | actions |
|---|---|---|
| `start` | journal opened, 111-128 | `Bracket`: run started |
| `marker` | 130-141 | `ReadMarker` |
| `gather` | specs, bars, quotes, account, targets, intents, 143-328 | `Gather`, `Refuse` |
| `gate` | account rules and gate, 330-351 | `Kill`, `Decide`, `Refuse` |
| `decision` | decisions to the journal, 352-362 | `WriteDecision`, `Stamp` |
| `submit`, `place` | 363-381 | `Submit`, `Place`, `PlaceFails` |
| `fills` | 382-397 | `FetchFills`, `WriteFill`, `Complete` |
| `halt`, `halted`, `fail`, `failed` | the two lines of a halt and of a failure | `Bracket` |

`WriteFails` is any line that does not reach the disk (nothing of it, or with
`ShortWrites` its beginning), `Killed` the process dying between two steps,
`PowerLoss` the machine. A line cut short has no newline, so the next append makes one
line of the two that does not parse (`Bad`). `Readable`, `Truncated` and `Status` are `journal.Read` and
`Summarize`: a line that does not parse, cut short or glued, is passed over while it is the
last, and ends an unconcluded run as failed; with another line behind it the file cannot be read. Intent ids come back in the next run of the
day, as in the code, which is why lines carry the history variable `run`; no
action reads it. Kept as data: positions and quantities of each symbol.
Abstract: prices and weights (a target is a position), the journal lines nobody
interprets, the reasons of a refusal.

### PaperBook

One symbol, one action per transaction. `Fill`, `Rest` and `Reject` are the three ends
of `Place`; `MarkRow` is `mark`, which `Equity` and `Snapshot` share. The day's run
appears as the pair `ReadAccount`/`EndRun` around its orders, because the order
in which it marks the book and reads the history is what the account rules hang
on. `gate` is where that run is: before, or between its reading and its end.

### RiskGate

One check, visited intent by intent as the code's loop does, then the bisection
one halving at a time. Quantities are in units of `1/2^Depth` of a share so that the
code's factor is an integer; the code halves 40 times.

### Scheduler

`Choose`, `Fire`, `Begin`, `End`, `WaitOut` are the steps of `Serve`; `Kill` and
`Restart`, `Suspend` and `Wake`, `Halt` and `Resume`, `Press` (Run now) surround it. The clock
ticks slower than `sleepUntil`'s hops of a minute, so a waiting loop that is
awake acts before the next tick (`Due` in `Tick`'s guard); a run may last any
number of ticks. `tried`, `excused` and `absent` are history variables.

### OperatorFiles

A request of the phone or the command line is a record: the file it writes, what it
will write there, made of what it read (`arg`), and where it is:

| `at` | code | actions |
|---|---|---|
| begins | stage.go:80, halt.go:38, refill.go:87, install.go:33 | `SetStage`, `Halt`, `Refill`, `Install` |
| `asking` | the vendor's answer and the floor, refill.go:98-119 | `Fetched` |
| `opening` | the temporary file opened and truncated | `OpenTmp` |
| `writing` | its content, or an error | `Write`, `WriteFails` |
| `renaming` | the rename | `Rename` |
| `clearing` | a superseded `.yml`, install.go:60 | `ClearYml` |

`Resume` and `Remove` unlink a file in one step, `Crash` cuts every request off. A
file is absent, torn or whole. The name of the temporary file is the file's own, so two
requests on one file share it: whoever opens it truncates the other's, and what a
writer writes goes to the file it opened, wherever a rename has put it since (`renames`
against `seen`). `decided`, `promised`, `overlapped` are history variables: the promotions
as they were answered, a halt answered and not resumed, and the files on which two
requests ever met, of which only the halt is claimed anything. The bars of a symbol
are their number, what `refill` compares; a spec is one of two versions that pass `Check`.

### Indicators, Strategies and LiveReplay

`Indicators` are the rolling calculations in exact arithmetic: a value is a fraction, or
undefined where the code's flag is false. A z-score is kept as its signed square and a volatility
as the returns it is computed from, since all the code does with either is compare.
`Strategies` has, of each of the eight, `Parse`, the step of its state machine with its
exit rule (`PairsLeaves` and its like), the step taken over a bar (`PairsAt` and its like, of which
`Positions` is the replay) and its `Weights`; parameters are in
tenths, prices small whole numbers, and for the ratio strategy a price is its
logarithm. The alignment on shared days is written out five times in the code and once
here (`Shared`, `InOrder`, `Align`, `Closes`).

`LiveReplay` runs one spec from day to day. `Close` ends a day at bars the runner may not have
traded on; `Refill` brings the bars of some symbols, with days missing, from the
first day on file on, as `refill.one` asks; `LiveRun` refuses stale bars, appends today's
bar made of the quote, and keeps what it saw and was told (`told`). `Backtest` is the
order of fills of the engine, at the same close or the next open, over the same bars.
`SawTheSame` says when the two can be expected to agree: the bars up to the day are those
the live run saw. `LiveRun` has behaviors the runner has not: it also runs the plans that fill at the next open, which
runner.go:166 refuses, and always has a quote above zero, without which runner.go:253 appends no bar.

### Calendar, BrokerLink and RotationLoop

`Calendar` computes sessions and closes from a date, with the observed days, Easter and the
early closes of the code; the days it is checked on are those its tests name.

`BrokerLink` is one sign-in used by several processes. `Token` is `Source.Token`: the process's
copy, the file only the first time, refreshed when a minute from its end. A refresh
is `Token` (the server has acted), then `OpenTmp`, `Write` and `Rename` (`Store.Save`), and may stop before or
in any of them. All processes save through one temporary file, so opening it truncates what another has
written (`Emptied`), a write lands in whatever the opened file is by now (`Lands`: the temporary one
still, the token file after a rename, or one that has been replaced), two writes may leave half of each (`Garbled`), a full disk
half of one (`WriteFails`), and a rename takes what it finds. `renamed` counts renames; a stage `opened`
keeps the count it saw. `spoiled` is a history variable: a refreshed token was lost or saves overlapped,
and no save that stood alone has put its own token into the file since. A refresh token is assumed
to be on disk once it is written: `Save` does not sync, and a loss of power between write and rename is left out.
`rotates` is whether the server replaces refresh tokens. A call is `sent`, `late` after a minute (the
transport gives up at sixty seconds), and `answered` or `failed`; `FindInStream` picks the answer of
one's own request out of what the server streams. The servers are external: they
accept what they issued and have not replaced. `meddled` is a history variable: why a call
may fail although its process did nothing wrong.

`RotationLoop` puts the loop on both: `ConsultClock` (a tick: phase, throttle, marks, marker), `CycleEnds`
(marks the phase done whether the cycle went well or not), `Start`, `Started`, `Ends`, `Crash` of the loop and of a
second process that makes one cycle, `SetHalt`, `TimePasses`. One call stands for all those of a cycle. The clock shows
the instants that matter: in and around the two windows, the throttle's end, the
early close, the close. `begun`, `beganHere`, `free` and `failed` are history variables.

### Rotation

A cycle is `Begin` (load, settle, save), `ReadAccount`, `ReadWorking`, `ReadCalls` (the
snapshot, one call of the broker after another), `Decide` (strategy, save, gate)
or `Halts`, `Place`, `Record`; `Abandon` is every way it can end in the middle. `file` is
`rotation.json`, `book` the cycle's copy of it, `seen` what it has read. The
strategy is the operators `Reconciles`, `Reconciled`, `Entry`, `Review`, `Manage`, `Recover` and
`Sweep`, one per function of `decide.go`.

The broker is external and is modelled from what the code asks of it and reads
back: `Fills` (a lot possibly in part), `Cancel` and `Night` come between any two steps
of a cycle. It takes every order it is given, although the real one would refuse
an uncovered call: the rules are the strategy's, and are not to lean on that.
Assignments and expiries happen at night, between cycles.

Abstract: a quote has no spread, and one that is missing or old is a failed read;
which contract the ranking prefers is an arbitrary choice among those that
qualify; profit is per share of the lot; dividends and costs, which no caller of
the engine ever adds, are left out; the equity marks, of which only the refusal
reaches an order. `real` (what the lot cost and its calls brought in), `sent`,
`astray` (orders whose fate the file never learned) and `slipped` (such an order filled
after a cycle read the shares and before it asked for working orders) are
history variables.

### StudyJobs and ResearchJobs

A job is a record; `at` is where its goroutine is:

| `at` | code (`research.go`) | actions |
|---|---|---|
| `start` | look for uv, 594-606 | `FindUV` |
| `ready` | `step` up to the command, 692-700 | `StepBegins` |
| `begun`, `live` | `exec`, 730-757 | `CommandStarts`, `StudyPrints`, `CommandEnds`, `CommandKilled` |
| `back` | the rest of `step`, 702-727 | `StepEnds` |
| `read` | the verdict off the log, 631-635 | `ReadsVerdict` |
| `finish`, `closing` | the end of `drive`, 567-590 | `Finish`, `Close` |

A cancel is a request of its own (`can`): it looks (540), marks (544), ends the
context (546), kills what runs (547) and waits for the job's channel (548), and the
job may take any step in between. `ctx` is the job's context, `printed` the verdict in its log,
`stopped` a history variable: the jobs some cancel has answered for. What a job shows is `ShownAs`, which
is what `snapshot` lets a caller see; in `StudyJobs` a job is only that.

External: the study. A script that exits well has printed its verdict, which is
the contract `Outcome` states (line 276) and the scripts keep; one that fails may
have printed it too.

### Revalidation

A pass is `PassBegins`, then for each spec `StudyStarts` or `StudyRefused`, `StudyEnds` or
`StudyAbandoned`, and `PassNotes`, and in the end `PassEnds`. `state` is the schedule's memory and `file` its
file; `Restarts` reads the file back, or starts enabled when it cannot be read, as
`load` does. The phone starts jobs, cancels them, forces a pass and turns the switch at
any moment. `wanted` (what the operator was last told about the switch: a save
that failed was answered with an error, a file that could not be read is shown as a switch that
is on) and `studies` are history variables. Specs have no study when this build has
none for them (`Studied`).

## What the runs check

| run | shows |
|---|---|
| `daily_serial` | one caller, two symbols (one long, one short), the day run twice with a crash, a full disk, a power loss, a halt or a resume between any two steps: write-ahead, no overshoot, the journal passes its own check, each fill once |
| `daily_pair` | two callers of the same day at once: what survives is the halt and a complete account of a completed run's fills |
| `paper_book` | cash, conservation, and the start of day and the row of losing days standing still, over three days of which one has no trading |
| `risk_gate` | every book of three symbols and every small day of intents |
| `scheduler` | two sessions with two kills, a suspension, a halt and a press of Run now: fired once and in its window, no day slips, every session settles |
| `operator_files` | two of promotions, halts, resumes, refills, imports and removals at once, with crashes and full disks between any two steps |
| `live_replay` | eight strategies over four or five days of small markets, with one refill missed, late or short or one close that moved after the run: live and backtest agree, time stops hold, exits and entries do not share a bar |
| `rotation_daemon` | two days of the rotation's loop around holidays and an early close, with one trouble, and saves of two processes in any order of open, write and rename: hours, windows, marks, sign-in |
| `rotation` | three days of cycles with one order lost: one lot, covered calls, a true book with a true order count, the target |
| `rotation_second_lot` | what the lost order can do: a second lot |
| `research_jobs` | two jobs, each a study or a setup, and a cancel whose steps come between any of theirs: one job says it runs, cancels hold and return, success is whole, and all a caller sees is what `StudyJobs` promises |
| `revalidation` | two specs over two months with jobs from the phone and one trouble (a stop, a restart or a failed save): the switch, once a month, true records |

`rotation_second_lot` is expected to be violated and is the finding of `PROJECT.json`, which quotes the comment and
the document it contradicts. `NoSecondLot` of the passing run says exactly when `LotIsTheOnlyOne`
fails: an unrecorded order that has not filled is seen as working, one that has
is seen in the positions and halts the book, and only one that fills between the
two reads is in neither. The pending order, which is recorded, cannot slip so,
because a cycle that has one counts it as working whatever the broker said.

### Known not to hold, without a run of its own

* The day's order limit is per run: runner.go:406 hands the gate an empty count, while
  risk/config.go:23 says "MaxOrdersPerDay caps orders sent in one trading day, across symbols".
* The daily loss is measured from the run's own mark unless someone looked at the app
  before: `Run` asks for the equity (runner.go:259), which opens the day's row, before it
  asks for the start of day that risk/config.go:25 means.
* A day that Run now concludes while the loop sleeps is run again: the loop asks `Done`
  (loop.go:55), sleeps for hours, and runs; loop.go:9 says "fires a run once per trading day", and
  calendar.go:9 that two processes "cannot run the same day twice".
* A negative hedge ratio, which pairs.go:114 accepts, takes a pair's weights above its leverage: pairs.go:213
  divides by the sum of the signed legs, where docs/CONTRACTS.md:110 says "so `|w_A| + |w_B| = G` when in a position".
* Two requests on one of the operator's files at once share its temporary file: of two promotions one
  may be lost, of two refills the shorter may win, and a reader may find the file empty or half
  written.
* Two processes that save a refreshed token at the same moment share `robinhood-token.json.tmp` (oauth.go:339): the
  file may end up empty, or with the ends of two tokens, and no process can start from it. The processes that run
  keep their copies, and the next save that stands alone mends it (`RestartHeals`, `FileHealsAlways`).
* A refill asks from the first day on file, so a first day the vendor once missed never comes back.
* The bar a live run makes of its quote is unadjusted beside an adjusted series (runner.go:254): on
  a day after a dividend the two differ.
* A held symbol without a quote, of a spec no longer armed, counts at nothing in the gross
  (gate.go:192).
* With a server that replaces refresh tokens, a process whose token another refreshed fails every
  call until it is restarted, as nothing reads the file again; so does one whose session the server
  dropped, as only `Initialize` opens another.
* The branch for a New Year's Day on a Saturday never changes an answer: the Friday before is
  in the other year.
* Two runs of one date at once both trade the whole difference (no lock), tell each
  other's fills besides their own, and
  number their intents alike, so that `journal.Check` rejects the journal in which
  one's refusal fell between the other's decision and its order.
* `Open` (journal.go:103) appends to a line that was cut short. The glued line is passed over while it
  is the last, so the event in it is not told; once another line follows, `Read` refuses the whole file ("a journal is not supposed to have holes",
  journal.go:153).
* A run line cut short can count as the day's conclusion, and the day is not run
  again.
* The high water (paper.go:707) forgets a peak that a later mark of the same day overwrote.
* A look at the book on a weekend makes a row without a loss, and ends the row of
  losing days.
* The factor found by bisection is not the largest that fits when a flip through
  zero is among the intents; what is claimed is only that the book fits (`FitsUnderCap`).
* A machine that wakes after the close runs the day it slept through, late.
* In the rotation, a buy-back whose answer was lost is taken for an expiry, and
  the premium paid for it is missing from the lot's profit; a lot bought at market
  with just enough cash may overdraw; and the sweep after an assignment that the
  cycle itself discovers uses a quote of the parking symbol nobody checked.
* A job that is cancelled stops counting as running before its command has been
  killed, so the next job's sync may overlap it, although the comment at
  research.go:322 gives that overlap as the reason for one job at a time.
* A cancel that looked before a job ended and marked it after leaves a job
  whose steps all succeeded, and whose spec may be installed, `cancelled`.
* A scheduled study that finds the Runner busy (revalidate.go:321) is recorded as failed and not
  tried again that month, although revalidate.go:292 calls it a no-op; so is one that
  a stopping server abandons. The switch and the market's hours are asked once per pass, so
  its later studies may run in the session. A spec deleted during a pass is studied
  all the same and installed again if it is promoted.

### Bounds, and why they are enough

* `DailyRun`: two callers because every interaction in the code is between one
  run and another (the scheduler and Run now); two attempts because the second
  one starts from whatever the first left, and one write more than a cut-off
  line is what makes a hole. Two symbols so that a run can be cut between two of
  its orders, and one long and one short because the sign picks the side.
  Two callers with two symbols is too large for the time a run has, so the pair
  has one symbol.
* `OperatorFiles`: two requests at once, because any third meets a file as two left it; three that
  begin, so that one comes after two that met; three bars, so that an answer can be short, equal or longer; two names,
  so that a promotion can lose another. The proofs are for any number.
* `LiveReplay`: prices chosen per strategy so that each of its entries, exits, time stops and rebalances
  happens within the days; four days, or five where an entry, its time stop and the bar after need them;
  lookbacks of two or three; a bar age of two, so that a file can be stale; one trouble, since each is what one agreement
  stands against.
* `RotationLoop`: two days, because what is done in one session must not count in the next; first days on the
  eve of an early close, on an observed holiday before a weekend and on Good Friday; a token that lasts
  611 minutes, so that the one on file is at its very end when the loop first starts, and one refreshed that
  day is over on the next; one trouble, and one other process, whose start is one, so that two can save at
  once. A write that fails beside another's save, and three that save, need more: only the proof
  (`FileHealsAlways`) covers them.
* `PaperBook`: three days, because the row of a day without trading lies between
  two that have it; two prices, 4 and 6, far enough apart that a loss of 10 %
  can happen with one share; cash for two shares, so the third is refused; two
  orders, which open and close or flip.
* `RiskGate`: three symbols so that an open, a close and a flip can meet and the
  third exceeds `MaxOrders` = 2; caps below and above what is held; `Depth` 3.
* `Rotation`: four orders, which are a lot, a call, and either its buy-back and
  the sale or a second call after an expiry; three days, so that an order can
  grow too old for `Settle` (`LookBack` 1) and a call can be out overnight twice; a
  lot of two shares, the least that can be filled in part; two prices and two
  contracts such that one qualifies only with its premium; an account with cash
  for two lots or with the parking symbol for one; one lost order, as the first
  is the one every defence is for.
* `ResearchJobs`: two jobs, because a job meets only the one before it, which a
  cancel may have marked while its command runs on; one cancel at a time, as two of
  one job do what one does and the proofs are for any number; one verdict, which
  is told apart from none.
* `Revalidation`: two specs, one with a study and one without, so that a pass goes on from
  one to the next; three times, of which two are in one month and one is in a
  session; two jobs, so that one of the phone's can be in the way; one trouble, a
  stop, a restart or a failed save, as each is what one property stands against
  (the proofs are for any number).
* `Scheduler`: two sessions, the second an early close, because the loop looks
  one session ahead; a kill before and after a run; `Horizon` past the last
  close.

`CHECK_DEADLOCK FALSE` stands in every configuration because every one of these
systems may really stop: a day's runs are over (`MaxAttempts`), the last day has
gone by (`Days`, `LastDays`), the gate has answered, the clock is at its horizon, the last job is over,
every request has been answered (`MaxDone`).

### Fairness

In `ResearchJobs` a goroutine that can go on does (`Drive` and `CancelMoves` are weakly fair, each
by itself): Go's scheduler runs what is runnable, no step but the wait for the
channel blocks, and a context that ended kills its command. How long a command
runs is not promised, so `CommandEnds` is not fair, and `CancelReturns` rests on the kill.
In `Scheduler`, `FairSpec` is weak fairness of `Serve` (timers fire
and the goroutine is scheduled while the process is up) and of `Tick` (time
passes). Nothing obliges a machine to wake, a process to be restarted, an
operator to resume, or a run started by hand to end; a session nobody waited for
before its close is excused by `absent`, not by fairness. The other modules
state safety only.

## What is proved

Every theorem is for all values of the constants that the named assumption of its
module allows. None of the modules uses a recursive operator. Every safety property the
runs check is proved.

* `DailyRunProofs`
  * `TypeCorrect`: `TypeOK` is inductive as it stands, given the ranges of the
    counters it names (`InRange`).
  * `WriteAheadHolds`: the journal and the book implement `OrderLedger`. Each
    step maps to a step of the ledger or to a stutter; the ones that matter are
    `WriteDecision` (`Allow`), `Submit` (`Submit`) and `Place` (`Execute`), and for
    each the ticket has to be new. That is what the inductive invariant `IInv` is for:
    `Fresh` (tickets on record belong to attempts already begun, and active runs
    have different attempts), `OnRecord` (at each `pc`, exactly which of a run's
    tickets are on disk and which were executed), `TornQuiet` (a file that ends
    in a cut line has no run in the middle of its orders, so that no line of
    record is ever glued to it), and `Stopped` (whoever is past the marker began
    before the halt).
  * `HaltHoldsAlways`: from the same invariant.
  * `FillsAreTold`: to it, `Accounts` adds where a run's executions lie in the book (after its
    stamp, and up to what it fetched) and that those it has gone past are on disk, and
    `Accounted` that a run with a completed line is over.
  * These three rest on `Alone`: lines are not cut short, or there is one caller. It is
    needed: with both, the second run's decision can be glued to the first
    run's half line, and is lost although the run goes on to submit.
  * `TargetsHold`, `JournalPasses` and `FillsToldOnce` are about one caller (`OneCaller`), as the runs
    are: with two at once none of them holds of the code ("Known not to hold" above). A run
    that has still to send leads each position to a target of the day (`OnTheWay`), so a fill
    stops short of it or reaches it;
    an order's intent was last decided as allowed (`Backed`), although the same id was used
    by an earlier run; the executions are all different, and those told lie before what a run has
    still to tell (`ToldBefore`).
* `AccountProofs`, of what the account may do: the book it is kept in and the gate before it.
  * `NoMarginAlways`: cash stays at or above zero under `BookConstantsOK`, whose one
    condition of substance is that a share costs more than its slippage and
    commission, so that a sell never costs money.
  * `FillsCost`: an order that fills at once pays on the far side of the price and within the
    slippage of it (`NearThePrice`), whatever its limit.
  * `StartOfDayStands`, `RowStands` and their conjunction `GateReadsStandStill`: action properties;
    the first needs only that `Marked` days are known, the second that a mark of today
    changes no other day.
  * Of the gate one invariant, `GateInv`, of the phases of a check: the alive are
    intents, closes pass every rule, and the bisection keeps `lo` under the cap.
    `GateTypeCorrect`, `CapHolds` and `LosingDayHolds` follow. Of the sum `GrossOf` nothing
    is used but that it is a function of the book, so the theorem does not
    depend on how gross notional is computed, only on the scaling using one measure.
    `ContractHolds` adds how many were let through and that scaling cuts, never turns or grows, an order: it
    is what `DailyRun` takes of the gate in `Verdicts`.
* `SessionProofs`: when a session is run, and what the strategy makes of its bars.
  * Of `Scheduler` one invariant, `SchedInv`, of which the parts of substance are that a
    session waited for was not run by this process and is not concluded (`OpenSession`), that
    what was run has closed or is being waited out (`TriedIsPast`), that sessions are taken in
    order (`EarlierClosed`) and that one that is waited out is accounted for (`Accounted`).
    `FiresOnce` and `NoDaySlipsBy` follow from it and from the sessions not overlapping
    (`SchedulerConstantsOK`); that `NextClose` is the first open session needs a least number
    (`Least`, from the library's `WFMin`).
  * Of `LiveReplay`, `ReplayInvariant`: the bars on disk and those a run saw are sound, and what
    it was told are the weights of what it saw. `ReplayConstantsOK` is what it rests on: parameters are numbers,
    and of the bars a plan meets the close lies between low and high, and, but for logarithms, above zero,
    which is what `bars.Check` lets on disk.
  * `LiveIsBacktestAlways`: no strategy looks ahead. Two alignments that agree up to a bar,
    but for the high and low of that bar (`SameUpto`), have there the same indicators (`ZScoreSame`, `RSISame`
    and their like), positions (`PositionsSame`) and weights (`WeightsSame`), of each of the eight strategies;
    and what a run saw and what is on disk later agree in that way when `SawTheSame` says so (`SawAre`,
    over `Aligned`: the days in their order are ranked one by one). That an alignment lists the days, and that a replay
    is there at all and is what its steps make it (`Replayed`), are inductions up to a bar, each by
    a set of the bars it holds of (`Along`).
  * `FlatBetweenAlways` and `TimeStopAlways`: an open position that stays open is the one before, a bar
    older (`OpenIsHeld`), and only before its stop (`OpenInTime`); the second counts the bars.
  * `EntryIsNoExitAlways`: what Parse asks of thresholds keeps a bar's entry and exit apart
    (`PairsApart`, `RatioApart`, `TrendApart`, `ChannelsApart`, `RSI2Apart`). They need the indicators to be numbers with
    positive denominators, so that sums over the window are in the numbers they add (`SumIn`), that signed
    squares keep their order (`ZApart`), and that the shorter channel's lowest low is not above the longer one's
    highest high (`Extremes`).
* `OperatorFilesProofs`: the invariant `FilesInv` says of each file on which no two requests
  met (`InOrder`) that it is whole, has one writer, and that this writer knows its file
  (`WriterKnows`): how often it was renamed, what is in its temporary file, and what it made
  its content of, which is still what the file holds. Steps on one file go through one lemma
  (`Progress`), what they do to the others through another (`Aside`). `FilesAreWhole`,
  `PromotionsStand` and `RefillsKeepHistory` follow; `HaltStands` needs of it only the types,
  and holds of overlapping halts too.
* `RotationProofs`: `RotationInvariant`, and from it the four properties of the run. The argument follows one cycle. At
  most one order works at a time, because a cycle that sends one has seen none at work and
  only a cycle sends. From that read on the account stands still: what the cycle read, in three
  calls, is what there is when its order goes out, unless a fill slipped between the first two
  (`slipped`), of which only an order the file never learned of is capable (`astray`). Each
  order then fits the position it is sent at, and the file follows the position through the
  one order it waits for. `NeverASecondLot` and `CallsStayCovered` are about the account, `BookIsTrue` and
  `AssignmentPays` about the file. The sums of the buying power and of the parking's
  shares are used by neither and left open.
* `RotationLoopProofs`, under `LinkConstantsOK` (a token lives at least a minute) and `LoopConstantsOK`
  (the clock's instants are minutes of a day).
  * `LinkInvariant`: every copy of a token is of a refresh the server issued, and where it
    replaces them, two copies of one refresh token are one token (`GrantsOK`); a token on its way to
    the file is one the server accepts (`FreshInFlight`); where nothing was spoiled, one process at a time is at the
    temporary file and finds there what it left (`SoleSaver`), which is why its rename cannot take another's or a
    truncated token; and the file holds a good token, or somebody is about to put one there, or it was spoiled
    (`FileHeals`). A rename that ends `spoiled` re-establishes both. `FileHealsAlways` follows. It is an argument about every process on the sign-in, `bnb login` included.
  * `HealthyLoopHolds`: another process's refresh is on record before it is asked
    (`OthersOnRecord`), and while nothing is on record the loop holds what the file holds and every call is
    sent with a minute to spare (`LoopAlone`), which is what the skew of `Expired` is for.
  * `CycleInvariant`: the phase of the cycle that runs is that of its start, what began in
    this process is done or running, what is done has begun. `PhasesFireOnce` and
    `WindowsServed` rest on it; a window enters `free` only at an instant at which a tick would serve it.
  * `HoursAreKept` and `WindowsServed` suppose that `Sessions` is the calendar of
    the code on the days of a behavior (`CalendarAgrees`, which TLC checks of the instance, `SessionsAgree`).
* `ResearchJobsProofs`
  * One invariant, `JobsInv`. `OneJobUncancelled` needs that whatever goes on is
    running or cancelled (`GoesOnOrCancelled`), because `Start` asks only the status of the last
    job; `CancelIsFinal` needs that a cancel past its mark holds a cancelled job
    (`CancelsHold`), which no step of a goroutine takes back (`Driven`). The steps of a goroutine
    go through one lemma (`DrivenKeeps`), those of a cancel through another (`TouchKeeps`).
  * `RunnerKeepsPromise`, the refinement of `StudyJobs`. The invariant adds `VerdictSound`: what
    is printed and what is read of it at each place of a job, so that `Finish` ends a study as
    succeeded only with its verdict read. Every step changes one job, and as it shows is
    nothing, a print, an end, a release or a mark (`Allowed`), each of which is a step of the
    promise (`AllowedIsPromised`).
  * `SuccessTellsAll`: by where the goroutine is, which steps are on record and how the last of them
    ended (`StepsSound`).
* `RevalidationProofs`
  * `RevalidationTypeCorrect` and `OffStaysOffAlways`, from the type invariant with the
    shape of a pass. A pass writes the whole state for minutes after it read the switch; what
    makes it harmless is that it writes the state as it then is (`Noted`).
  * `OncePerMonthAlways`: what is noted of a spec is past, what a pass has still to do is due, and a study
    counted this month is noted or under way (`Counted`), for each life of the process. It needs that months
    follow the clock (`ScheduleConstantsOK`).
  * `RecordTellsAlways`: the job a pass waits for is its own, and what it takes of it is
    what the job said when it was over, which jobs do not change any more (`JobsTell`).

Only model-checked: liveness (`EverySessionSettles`, `CancelReturns`), which is out of the
prover's reach.

## What is not modelled, and why

* Of the **paper book**: average cost, several symbols at once, the high-water query. Of the **daily run**: the
  reading of specs, bars and quotes, which appears as the refusals it causes.
* Of the **rotation**: two cycles at once (`bnb rotate -once` beside the loop on one `rotation.json`); its sign-in is
  shared in `BrokerLink`, its orders are not. Dry runs, the equity marks, expiry dates, deltas, ticks.
* Of the **strategies**: rounding, and the backtest's cash, costs and equity. The volatility and the logarithm
  are replaced by what orders them.
* Of the **research jobs**: the checks of a job's options, the text of its log and
  its caps, jobs of earlier processes (`Unknown`), and the bytes of the download. The children
  of a server that dies are taken to die with it, and the rename that puts
  `revalidate.json` in place to last.
* **HTTP API**: its handlers appear as the actions they cause; the bearer token's check, sessions and formatting
  do not.
* **Broker connection**: discovery, registration and the formats of requests.
* **Market data**: the HTTP of it, and the replay cache the tests use.
* **Metrics and the Python research code**: floating-point statistics, compared by golden files.
* **Web app, installation scripts, icon generator**: views and tools without state of
  their own.

## Plan

What is left, in this order:

1. A second process (`bnb rotate -once`) beside the rotation's cycles on the same `rotation.json`.
2. Several symbols in `PaperBook`, with average cost, to put the order of a day's intents beside its cash.
3. The daily run with two callers and lines cut short at once, to say exactly what `Alone` excludes.
