------------------------------ MODULE DailyRun ------------------------------
(***************************************************************************)
(* One trading day of package runner: the daily cycle, the journal file it *)
(* writes, the halt marker and the paper book, with the cycle's steps      *)
(* interleaved as the program interleaves them.                            *)
(*                                                                         *)
(* The run id is the trading date, so every run of the day appends to one  *)
(* file.  The scheduler, the app's "Run now" (a goroutine of its own) and  *)
(* `bnb run` (a process of its own) all call Run and nothing keeps them    *)
(* apart: each member of Runs is one caller that may be in a run, and a    *)
(* caller may run again.                                                   *)
(*                                                                         *)
(* Left abstract: prices and weights (a target is a position in shares),   *)
(* the rules of the gate (any verdict its contract allows), and the        *)
(* journal lines no reader of the file interprets.                         *)
(***************************************************************************)
EXTENDS Integers, Sequences, FiniteSets

CONSTANTS
  Runs,         \* callers of Run that may be in a run at the same time
  NSymbols,     \* symbols the armed specs trade, numbered in sorted order
  Targets,      \* target positions a day's quotes may ask for
  MaxOrders,    \* risk.yaml max_orders_per_day
  MaxAttempts,  \* bound: runs started in the modelled day
  ShortWrites   \* may the disk fill up in the middle of a line?

Symbols == 1 .. NSymbols

ASSUME ConstantsOK ==
  /\ NSymbols \in Nat \ {0}
  /\ Targets \subseteq [Symbols -> Int] /\ Targets # {}
  /\ MaxOrders \in Nat \ {0} /\ MaxAttempts \in Nat
  /\ ShortWrites \in BOOLEAN

VARIABLES
  file,      \* the lines of <date>.jsonl
  marker,    \* is the HALT file there?
  held,      \* the book: shares per symbol, negative when short
  fills,     \* the book's executions, oldest first
  pc,        \* where each run is
  attempt,   \* history: the number of each caller's current run
  attempts,  \* history: runs started so far
  stopped,   \* history: halted or killed, and not resumed since
  barred,    \* history: runs that tripped the kill switch or began while stopped
  delta,     \* want - held, per symbol, as the run computed it
  verdict,   \* the quantity the gate allowed per symbol, 0 when refused
  todo,      \* the symbols the loop over decisions has still to visit
  next,      \* the fill the run writes next
  since,     \* runStart: how many fills the book had by then
  upto       \* how many it had when the run asked for its fills

history == <<attempt, attempts, stopped, barred>>
locals  == <<delta, verdict, todo, next, since, upto>>
vars == <<file, marker, held, fills, pc, history, locals>>

-----------------------------------------------------------------------------
(* Intents and journal lines *)

Size(q) == IF q < 0 THEN -q ELSE q

\* The symbols a run has an intent for: those whose delta is worth an order.
Legs(r) == {s \in Symbols : delta[r][s] # 0}

\* IntentID "<run id>-<n>-<symbol>": n counts the intents of this run, so the
\* same id comes back in the next run of the day.
IntentID(r, s) == <<Cardinality({t \in Legs(r) : t <= s}), s>>

NoIntent == <<0, 0>>
Intents == (0 .. NSymbols) \X (0 .. NSymbols)

Kinds == {"started", "completed", "failed", "halted", "halt", "error",
          "allowed", "refused", "order", "fill", "torn", "bad"}
Event == [kind : Kinds, run : Nat, intent : Intents, qty : Nat]

Line(kind, r) == [kind |-> kind, run |-> attempt[r], intent |-> NoIntent, qty |-> 0]
IntentLine(kind, r, s, q) ==
  [kind |-> kind, run |-> attempt[r], intent |-> IntentID(r, s), qty |-> q]

\* A line cut short, and a line no reader can parse.  (A line cut just before
\* its newline would still parse; it is taken for one cut earlier.)
Torn == [kind |-> "torn", run |-> 0, intent |-> NoIntent, qty |-> 0]
Bad  == [kind |-> "bad",  run |-> 0, intent |-> NoIntent, qty |-> 0]

EndsTorn(f) == f # <<>> /\ f[Len(f)].kind = "torn"

\* Write appends and syncs one line.  O_APPEND onto a line cut short, which has
\* no newline, leaves one line that is neither event.
Written(f, e) == IF EndsTorn(f) THEN [f EXCEPT ![Len(f)] = Bad] ELSE Append(f, e)

CutShort(f) == IF EndsTorn(f) THEN f ELSE Append(f, Torn)

-----------------------------------------------------------------------------
(* Reading the file back *)

\* A line that does not parse, cut short or glued, is passed over when it is the
\* last; one that another line follows makes the file unreadable.
NoEvent == {"torn", "bad"}
Readable(f)  == \A i \in DOMAIN f : f[i].kind \in NoEvent => i = Len(f)
Truncated(f) == f # <<>> /\ f[Len(f)].kind \in NoEvent

\* Check: each order line follows a decision on its intent, the last of which
\* allowed it.
CheckOK(f) ==
  \A j \in DOMAIN f : f[j].kind = "order" =>
    \E i \in 1 .. j - 1 :
      /\ f[i].kind = "allowed" /\ f[i].intent = f[j].intent
      /\ \A k \in i + 1 .. j - 1 : f[k].kind = "refused" => f[k].intent # f[j].intent

RunLines(f) == {i \in DOMAIN f : f[i].kind \in {"started", "completed", "failed", "halted", "halt"}}

\* Summarize: the last run or halt line names the status; a run that was not
\* concluded counts as failed if the file ends in a line that does not parse.
Status(f) ==
  IF ~Readable(f) THEN "unreadable"
  ELSE IF RunLines(f) = {} THEN "unknown"
  ELSE LET last == f[CHOOSE i \in RunLines(f) : \A j \in RunLines(f) : j <= i].kind
       IN  IF last = "halt" THEN "halted"
           ELSE IF last = "started" /\ Truncated(f) THEN "failed" ELSE last

Done(f) == Status(f) \in {"completed", "halted", "failed"}

-----------------------------------------------------------------------------
(* Steps of a run *)

Goto(r, l) == pc' = [pc EXCEPT ![r] = l]

WriteLine(r, e, l) == file' = Written(file, e) /\ Goto(r, l)

\* The loops visit the decisions in the order of their symbols.
IsFirst(s, S) == s \in S /\ \A t \in S : s <= t

-----------------------------------------------------------------------------
(* Faulty variants of the actions below, one per bug the properties are    *)
(* there to catch; no action of Next uses them.                            *)

\* The kill switch forgets the marker.
KillUnmarked(r) ==
  /\ pc[r] = "gate"
  /\ stopped' = TRUE /\ barred' = barred \union {attempt[r]}
  /\ Goto(r, "halt")
  /\ UNCHANGED <<file, marker, held, fills, attempt, attempts, locals>>

\* The intents are the targets, whatever is held.
GatherBlind(r) ==
  /\ pc[r] = "gather"
  /\ \E want \in Targets : delta' = [delta EXCEPT ![r] = want]
  /\ Goto(r, "gate")
  /\ UNCHANGED <<file, marker, held, fills, history, verdict, todo, next, since, upto>>

\* The loop over the decisions does not skip the refused ones.
StampAll(r) ==
  /\ pc[r] = "decision" /\ todo[r] = {}
  /\ since' = [since EXCEPT ![r] = Len(fills)]
  /\ todo' = [todo EXCEPT ![r] = Legs(r)]
  /\ Goto(r, "submit")
  /\ UNCHANGED <<file, marker, held, fills, history, delta, verdict, next, upto>>

\* The order goes out before its line.
SubmitUnwritten(r) ==
  /\ pc[r] = "submit" /\ todo[r] # {}
  /\ Goto(r, "place")
  /\ UNCHANGED <<file, marker, held, fills, history, locals>>

\* The fills are asked for from the wrong moment: after the first one of the
\* run, from the beginning of the book, or one more than there are.
FetchFrom(r, first, last) ==
  /\ pc[r] = "submit" /\ todo[r] = {}
  /\ upto' = [upto EXCEPT ![r] = last]
  /\ next' = [next EXCEPT ![r] = first]
  /\ Goto(r, "fills")
  /\ UNCHANGED <<file, marker, held, fills, history, delta, verdict, todo, since>>
FetchLate(r)    == FetchFrom(r, since[r] + 2, Len(fills))
FetchAll(r)     == FetchFrom(r, 1, Len(fills))

-----------------------------------------------------------------------------
(* The cycle *)

Init ==
  /\ file = <<>> /\ marker \in BOOLEAN
  /\ held = [s \in Symbols |-> 0] /\ fills = <<>>
  /\ pc = [r \in Runs |-> "idle"]
  /\ attempt = [r \in Runs |-> 0] /\ attempts = 0 /\ stopped = marker /\ barred = {}
  /\ delta = [r \in Runs |-> [s \in Symbols |-> 0]]
  /\ verdict = [r \in Runs |-> [s \in Symbols |-> 0]]
  /\ todo = [r \in Runs |-> {}] /\ next = [r \in Runs |-> 0]
  /\ since = [r \in Runs |-> 0] /\ upto = [r \in Runs |-> 0]

\* A caller enters Run and opens the journal.
Start(r) ==
  /\ pc[r] = "idle" /\ attempts < MaxAttempts
  /\ attempts' = attempts + 1
  /\ attempt' = [attempt EXCEPT ![r] = attempts + 1]
  /\ barred' = IF stopped THEN barred \union {attempts + 1} ELSE barred
  /\ Goto(r, "start")
  /\ UNCHANGED <<file, marker, held, fills, stopped, locals>>

\* The bracketing lines, each a write of its own: run started; error then
\* run failed; halt then run halted; run completed.
Bracket(r) ==
  /\ \/ pc[r] = "start" /\ WriteLine(r, Line("started", r), "marker")
     \/ pc[r] = "halt" /\ WriteLine(r, Line("halt", r), "halted")
     \/ pc[r] = "halted" /\ WriteLine(r, Line("halted", r), "idle")
     \/ pc[r] = "fail" /\ WriteLine(r, Line("error", r), "failed")
     \/ pc[r] = "failed" /\ WriteLine(r, Line("failed", r), "idle")
  /\ UNCHANGED <<marker, held, fills, history, locals>>

\* Step 0: the marker, read once, at the moment of the run; one that is there
\* or cannot be read halts it.
ReadMarker(r) ==
  /\ pc[r] = "marker"
  /\ \E unreadable \in BOOLEAN : Goto(r, IF marker \/ unreadable THEN "halt" ELSE "gather")
  /\ UNCHANGED <<file, marker, held, fills, history, locals>>

\* Every early return through fail(): no armed spec, bars missing, stale or
\* mixed, no quotes, a strategy, the account or the marker that cannot be
\* read or written, and, once the orders are out, no answer about the fills.
Refuse(r) ==
  /\ \/ pc[r] \in {"gather", "gate"}
     \/ pc[r] = "submit" /\ todo[r] = {}
  /\ Goto(r, "fail")
  /\ UNCHANGED <<file, marker, held, fills, history, locals>>

\* Steps 1 to 6: the positions are read here and the intents computed from
\* them; nothing holds the book until the orders go out.
Gather(r) ==
  /\ pc[r] = "gather"
  /\ \E want \in Targets :
       delta' = [delta EXCEPT ![r] = [s \in Symbols |-> want[s] - held[s]]]
  /\ Goto(r, "gate")
  /\ UNCHANGED <<file, marker, held, fills, history, verdict, todo, next, since, upto>>

\* Step 7, the kill switch: the marker is written before the journal says so.
Kill(r) ==
  /\ pc[r] = "gate"
  /\ marker' = TRUE
  /\ stopped' = TRUE /\ barred' = barred \union {attempt[r]}
  /\ Goto(r, "halt")
  /\ UNCHANGED <<file, held, fills, attempt, attempts, locals>>

\* What Check may answer: an intent is refused or allowed at no more than it
\* asked for, and no more than MaxOrders are allowed.  state.OrdersToday is
\* never filled in, so the limit knows nothing of the day's other runs.
Verdicts(d) ==
  {v \in [Symbols -> UNION {0 .. Size(d[s]) : s \in Symbols}] :
     /\ \A s \in Symbols : v[s] <= Size(d[s])
     /\ Cardinality({s \in Symbols : v[s] > 0}) <= MaxOrders}

Decide(r) ==
  /\ pc[r] = "gate"
  /\ \E v \in Verdicts(delta[r]) : verdict' = [verdict EXCEPT ![r] = v]
  /\ todo' = [todo EXCEPT ![r] = Legs(r)]
  /\ Goto(r, "decision")
  /\ UNCHANGED <<file, marker, held, fills, history, delta, next, since, upto>>

\* Every decision is on disk, in order, before the first order.
WriteDecision(r) ==
  /\ pc[r] = "decision"
  /\ \E s \in todo[r] :
       LET kind == IF verdict[r][s] > 0 THEN "allowed" ELSE "refused"
       IN  /\ IsFirst(s, todo[r])
           /\ WriteLine(r, IntentLine(kind, r, s, verdict[r][s]), "decision")
           /\ todo' = [todo EXCEPT ![r] = @ \ {s}]
  /\ UNCHANGED <<marker, held, fills, history, delta, verdict, next, since, upto>>

\* runStart is taken, and the loop over the allowed decisions begins.
Stamp(r) ==
  /\ pc[r] = "decision" /\ todo[r] = {}
  /\ since' = [since EXCEPT ![r] = Len(fills)]
  /\ todo' = [todo EXCEPT ![r] = {s \in Legs(r) : verdict[r][s] > 0}]
  /\ Goto(r, "submit")
  /\ UNCHANGED <<file, marker, held, fills, history, delta, verdict, next, upto>>

\* Step 8: each order is journalled the instant before it goes out.
Submit(r) ==
  /\ pc[r] = "submit"
  /\ \E s \in todo[r] :
       /\ IsFirst(s, todo[r])
       /\ WriteLine(r, IntentLine("order", r, s, verdict[r][s]), "place")
  /\ UNCHANGED <<marker, held, fills, history, locals>>

\* The book fills a market order whole and at once.
Place(r) ==
  /\ pc[r] = "place"
  /\ \E s \in todo[r] :
       LET q == verdict[r][s]
       IN  /\ IsFirst(s, todo[r])
           /\ held' = [held EXCEPT ![s] = IF delta[r][s] > 0 THEN @ + q ELSE @ - q]
           /\ fills' = Append(fills, [run |-> attempt[r], intent |-> IntentID(r, s), qty |-> q])
           /\ todo' = [todo EXCEPT ![r] = @ \ {s}]
  /\ Goto(r, "submit")
  /\ UNCHANGED <<file, marker, history, delta, verdict, next, since, upto>>

\* Place errs (no cash, no quote): the error is journalled and the run goes on.
PlaceFails(r) ==
  /\ pc[r] = "place"
  /\ \E s \in todo[r] :
       /\ IsFirst(s, todo[r])
       /\ WriteLine(r, IntentLine("error", r, s, 0), "submit")
       /\ todo' = [todo EXCEPT ![r] = @ \ {s}]
  /\ UNCHANGED <<marker, held, fills, history, delta, verdict, next, since, upto>>

\* Fills(runStart): every execution the book has had since, whoever sent it.
FetchFills(r) ==
  /\ pc[r] = "submit" /\ todo[r] = {}
  /\ upto' = [upto EXCEPT ![r] = Len(fills)]
  /\ next' = [next EXCEPT ![r] = since[r] + 1]
  /\ Goto(r, "fills")
  /\ UNCHANGED <<file, marker, held, fills, history, delta, verdict, todo, since>>

WriteFill(r) ==
  /\ pc[r] = "fills" /\ next[r] <= upto[r]
  /\ LET f == fills[next[r]]
     IN  WriteLine(r, [kind |-> "fill", run |-> f.run, intent |-> f.intent, qty |-> f.qty], "fills")
  /\ next' = [next EXCEPT ![r] = @ + 1]
  /\ UNCHANGED <<marker, held, fills, history, delta, verdict, todo, since, upto>>

Complete(r) ==
  /\ pc[r] = "fills" /\ next[r] > upto[r]
  /\ WriteLine(r, Line("completed", r), "idle")
  /\ UNCHANGED <<marker, held, fills, history, locals>>

-----------------------------------------------------------------------------
(* What may cut a run off, and the operator *)

\* Where the next thing a run does may be a write.  While it gathers it writes
\* the specs, bars, quotes and targets, which nobody reads back.
Writing == {"start", "halt", "halted", "gather", "fail", "failed",
            "decision", "submit", "place", "fills"}

\* A line that cannot be written ends the run at once, with nothing more said;
\* a disk that fills up half way leaves the beginning of the line behind.
WriteFails(r) ==
  /\ pc[r] \in Writing
  /\ file' \in {file} \union (IF ShortWrites THEN {CutShort(file)} ELSE {})
  /\ Goto(r, "idle")
  /\ UNCHANGED <<marker, held, fills, history, locals>>

\* The process is killed between two steps of the run.
Killed(r) ==
  /\ pc[r] # "idle"
  /\ Goto(r, "idle")
  /\ UNCHANGED <<file, marker, held, fills, history, locals>>

\* The machine loses power: every run ends, and a line may be half on disk.
PowerLoss ==
  /\ \E r \in Runs : pc[r] # "idle"
  /\ file' \in {file} \union
       (IF \E r \in Runs : pc[r] \in Writing THEN {CutShort(file)} ELSE {})
  /\ pc' = [r \in Runs |-> "idle"]
  /\ UNCHANGED <<marker, held, fills, history, locals>>

\* `bnb halt`, the Halt button, `bnb resume`, the Resume button.
Halt ==
  /\ ~marker /\ marker' = TRUE /\ stopped' = TRUE
  /\ UNCHANGED <<file, held, fills, pc, attempt, attempts, barred, locals>>

Resume ==
  /\ marker /\ marker' = FALSE /\ stopped' = FALSE
  /\ barred' = barred \ {attempt[r] : r \in {c \in Runs : pc[c] \in {"start", "marker"}}}
  /\ UNCHANGED <<file, held, fills, pc, attempt, attempts, locals>>

RunStep(r) ==
  \/ Bracket(r) \/ ReadMarker(r) \/ Refuse(r) \/ Gather(r) \/ Kill(r) \/ Decide(r)
  \/ WriteDecision(r) \/ Stamp(r) \/ Submit(r) \/ Place(r) \/ PlaceFails(r)
  \/ FetchFills(r) \/ WriteFill(r) \/ Complete(r)

Next ==
  \/ \E r \in Runs : Start(r) \/ RunStep(r) \/ WriteFails(r) \/ Killed(r)
  \/ PowerLoss \/ Halt \/ Resume

Spec == Init /\ [][Next]_vars

-----------------------------------------------------------------------------
(* Properties *)

Executions == {fills[i] : i \in DOMAIN fills}
Execution == [run : Nat, intent : Intents, qty : Nat]

InRange(r) ==
  /\ pc[r] # "idle" => attempt[r] > 0
  /\ pc[r] = "place" => todo[r] # {}
  /\ pc[r] = "fills" => next[r] > 0 /\ upto[r] <= Len(fills)

\* The lines, the counters and each run's locals keep their types.
TypeOK ==
  /\ file \in Seq(Event) /\ marker \in BOOLEAN
  /\ held \in [Symbols -> Int] /\ fills \in Seq(Execution)
  /\ pc \in [Runs -> Writing \union {"idle", "marker", "gate"}]
  /\ attempts \in Nat /\ attempt \in [Runs -> 0 .. attempts]
  /\ stopped \in BOOLEAN /\ barred \subseteq 1 .. attempts
  /\ delta \in [Runs -> [Symbols -> Int]]
  /\ verdict \in [Runs -> [Symbols -> Nat]]
  /\ todo \in [Runs -> SUBSET Symbols]
  /\ next \in [Runs -> Nat] /\ since \in [Runs -> Nat] /\ upto \in [Runs -> Nat]
  /\ \A r \in Runs : InRange(r)

\* The tickets whose line of a kind can be read back from a file.
Ticket(e) == [run |-> e.run, intent |-> e.intent, qty |-> e.qty]
OnDisk(f, kind) == {Ticket(f[i]) : i \in {j \in DOMAIN f : f[j].kind = kind}}

Ledger == INSTANCE OrderLedger WITH
  allowed <- OnDisk(file, "allowed"), submitted <- OnDisk(file, "order"), executed <- Executions

\* The journal implements the ledger: whatever is interleaved and whatever is
\* cut off, the decision of this run is readable before the order's line is
\* written, the order's line before the broker has the order, each once, and
\* no later crash takes a line back.
WriteAhead == Ledger!LedgerSpec

\* No shares move for a run that tripped the kill switch, nor for one that began
\* after the trip or after a halt with no Resume before it read the marker: a
\* halt holds, through every restart in between.
HaltHolds == \A e \in Executions : e.run \notin barred

\* However often the day is run, cut off and run again, a position never moves
\* past where the targets of the day would have it.
NeverPastTarget ==
  \A s \in Symbols :
    /\ held[s] >= 0 \/ \E w \in Targets : w[s] <= held[s]
    /\ held[s] <= 0 \/ \E w \in Targets : w[s] >= held[s]

\* journal.Check accepts what journal.Read returns, of every file it can read: so
\* too right after a line was glued to one cut short, and passed over.
CheckPasses == Readable(file) => CheckOK(file)

\* A run the journal calls completed has a fill line for all it executed.
CompletedAccountsForFills ==
  \A i \in DOMAIN file : file[i].kind = "completed" =>
    \A e \in Executions : e.run = file[i].run => e \in OnDisk(file, "fill")

\* No execution is written to the journal twice.
FillsWrittenOnce ==
  \A i, j \in DOMAIN file : file[i].kind = "fill" /\ file[i] = file[j] => i = j
=============================================================================
