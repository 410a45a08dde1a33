--------------------------- MODULE DailyRunProofs ---------------------------
(***************************************************************************)
(* Theorems about DailyRun, for any callers, symbols, targets and limits:  *)
(* its types, that it implements OrderLedger, that a halt holds; and, for  *)
(* one caller, that no position goes past its target and that the journal  *)
(* passes its own check.                                                   *)
(***************************************************************************)
EXTENDS DailyRun, FiniteSetTheorems, SequenceTheorems, TLAPS

-----------------------------------------------------------------------------
(* What one write does to the file *)

\* An intent id is a count of symbols and a symbol.
LEMMA IntentType ==
  ASSUME NEW r \in Runs, NEW s \in Symbols
  PROVE  IntentID(r, s) \in Intents
<1> DEFINE S == {t \in Legs(r) : t <= s}
<1>0. NSymbols \in Nat
  BY ConstantsOK
<1>1. IsFiniteSet(Symbols) /\ Cardinality(Symbols) = NSymbols
  BY <1>0, ConstantsOK, FS_Interval, 1 \in Int, NSymbols \in Int DEF Symbols
<1>2. S \in SUBSET Symbols
  BY DEF Legs
<1>3. IsFiniteSet(S) /\ Cardinality(S) <= NSymbols
  BY <1>1, <1>2, FS_Subset, Zenon
<1>4. Cardinality(S) \in Nat
  BY <1>3, FS_CardinalityType
<1>5. Cardinality(S) \in 0 .. NSymbols /\ s \in 0 .. NSymbols
  BY <1>0, <1>3, <1>4 DEF Symbols
<1> QED
  BY <1>5 DEF IntentID, Intents

\* Appending keeps a file a file, and mends no torn tail but by spoiling it.
LEMMA WrittenType ==
  ASSUME NEW f \in Seq(Event), NEW e \in Event, e.kind # "torn"
  PROVE  Written(f, e) \in Seq(Event) /\ ~EndsTorn(Written(f, e))
<1>1. Bad \in Event /\ Bad.kind # "torn"
  BY ConstantsOK DEF Bad, Event, Kinds, NoIntent, Intents
<1>2. CASE EndsTorn(f)
  <2>1. Len(f) \in 1 .. Len(f)
    BY <1>2 DEF EndsTorn
  <2>2. /\ [f EXCEPT ![Len(f)] = Bad] \in Seq(Event)
        /\ Len([f EXCEPT ![Len(f)] = Bad]) = Len(f)
        /\ [f EXCEPT ![Len(f)] = Bad][Len(f)] = Bad
    BY <1>1, <2>1, ExceptSeq
  <2> QED
    BY <1>1, <1>2, <2>2 DEF Written, EndsTorn
<1>3. CASE ~EndsTorn(f)
  BY <1>3, AppendProperties DEF Written, EndsTorn
<1> QED
  BY <1>2, <1>3

\* A written line adds its own ticket to the readable ones and takes none away,
\* unless it lands on a torn line, when it is lost itself.
LEMMA WrittenOnDisk ==
  ASSUME NEW f \in Seq(Event), NEW e \in Event, NEW k \in Kinds \ {"torn", "bad"}
  PROVE  OnDisk(Written(f, e), k) =
           OnDisk(f, k) \union (IF e.kind = k /\ ~EndsTorn(f) THEN {Ticket(e)} ELSE {})
<1>1. CASE EndsTorn(f)
  <2>1. Len(f) \in 1 .. Len(f) /\ f[Len(f)].kind = "torn"
    BY <1>1 DEF EndsTorn
  <2> DEFINE g == [f EXCEPT ![Len(f)] = Bad]
  <2>2. DOMAIN g = DOMAIN f /\ g[Len(f)].kind = "bad"
        /\ \A j \in DOMAIN f : j # Len(f) => g[j] = f[j]
    BY <2>1 DEF Bad
  <2>3. \A j \in DOMAIN f : g[j].kind = k <=> f[j].kind = k
    BY <2>1, <2>2
  <2>4. \A j \in DOMAIN f : f[j].kind = k => g[j] = f[j]
    BY <2>1, <2>2
  <2>5. OnDisk(g, k) = OnDisk(f, k)
    BY <2>2, <2>3, <2>4 DEF OnDisk
  <2> QED
    BY <1>1, <2>5 DEF Written
<1>2. CASE ~EndsTorn(f)
  <2> DEFINE g == Append(f, e)
  <2>1. /\ DOMAIN g = DOMAIN f \union {Len(f) + 1} /\ g[Len(f) + 1] = e
        /\ \A j \in DOMAIN f : g[j] = f[j]
    OBVIOUS
  <2>2. OnDisk(g, k) = OnDisk(f, k) \union (IF e.kind = k THEN {Ticket(e)} ELSE {})
    BY <2>1 DEF OnDisk
  <2> QED
    BY <1>2, <2>2 DEF Written
<1> QED
  BY <1>1, <1>2

\* A line cut short is no ticket and costs none.
LEMMA CutShortOnDisk ==
  ASSUME NEW f \in Seq(Event), NEW k \in Kinds \ {"torn", "bad"}
  PROVE  CutShort(f) \in Seq(Event) /\ OnDisk(CutShort(f), k) = OnDisk(f, k)
<1>1. Torn \in Event /\ Torn.kind = "torn"
  BY ConstantsOK DEF Torn, Event, Kinds, NoIntent, Intents
<1>2. CASE EndsTorn(f)
  BY <1>2 DEF CutShort
<1>3. CASE ~EndsTorn(f)
  <2>1. CutShort(f) = Written(f, Torn)
    BY <1>3 DEF CutShort, Written
  <2>2. Append(f, Torn) \in Seq(Event)
    BY <1>1
  <2>3. OnDisk(CutShort(f), k) = OnDisk(f, k) \union {}
    BY <1>1, <2>1, WrittenOnDisk
  <2> QED
    BY <1>3, <2>2, <2>3 DEF CutShort
<1> QED
  BY <1>2, <1>3

-----------------------------------------------------------------------------
(* Type correctness *)

LEMMA LineTypes ==
  ASSUME TypeOK, NEW r \in Runs, NEW kind \in Kinds
  PROVE  /\ Line(kind, r) \in Event
         /\ \A s \in Symbols, q \in Nat : IntentLine(kind, r, s, q) \in Event
<1>1. attempt[r] \in Nat
  BY DEF TypeOK
<1>2. NoIntent \in Intents
  BY ConstantsOK DEF NoIntent, Intents
<1> QED
  BY <1>1, <1>2, IntentType DEF Line, IntentLine, Event

THEOREM TypeCorrect == Spec => []TypeOK
<1>1. Init => TypeOK
  BY ConstantsOK DEF Init, TypeOK, InRange
<1>2. TypeOK /\ [Next]_vars => TypeOK'
  <2> SUFFICES ASSUME TypeOK, [Next]_vars PROVE TypeOK'
    OBVIOUS
  <2> USE DEF history, locals, Goto, WriteLine, Writing
  <2>1. ASSUME NEW r \in Runs, Start(r) PROVE TypeOK'
    BY <2>1 DEF Start, TypeOK, InRange
  <2>2. ASSUME NEW r \in Runs, Bracket(r) PROVE TypeOK'
    <3>1. \A kind \in {"started", "halt", "halted", "error", "failed"} :
            Written(file, Line(kind, r)) \in Seq(Event)
      BY LineTypes, WrittenType DEF TypeOK, Kinds, Line
    <3> QED
      BY <2>2, <3>1 DEF Bracket, TypeOK, InRange
  <2>3. ASSUME NEW r \in Runs, ReadMarker(r) PROVE TypeOK'
    BY <2>3 DEF ReadMarker, TypeOK, InRange
  <2>4. ASSUME NEW r \in Runs, Refuse(r) PROVE TypeOK'
    BY <2>4 DEF Refuse, TypeOK, InRange
  <2>5. ASSUME NEW r \in Runs, Gather(r) PROVE TypeOK'
    <3>1. \A want \in Targets : [s \in Symbols |-> want[s] - held[s]] \in [Symbols -> Int]
      BY ConstantsOK DEF TypeOK
    <3> QED
      BY <2>5, <3>1 DEF Gather, TypeOK, InRange
  <2>6. ASSUME NEW r \in Runs, Kill(r) PROVE TypeOK'
    <3>1. attempt[r] \in 1 .. attempts
      <4>1. pc[r] # "idle"
        BY <2>6 DEF Kill
      <4>2. attempt[r] > 0
        BY <4>1 DEF TypeOK, InRange
      <4>3. attempt[r] \in 0 .. attempts /\ attempts \in Nat
        BY DEF TypeOK
      <4> QED
        BY <4>2, <4>3
    <3> QED
      BY <2>6, <3>1 DEF Kill, TypeOK, InRange
  <2>7. ASSUME NEW r \in Runs, Decide(r) PROVE TypeOK'
    <3>1. \A s \in Symbols : Size(delta[r][s]) \in Nat
      BY DEF Size, TypeOK, InRange
    <3>2. Verdicts(delta[r]) \subseteq [Symbols -> Nat]
      BY <3>1 DEF Verdicts
    <3>3. Legs(r) \subseteq Symbols
      BY DEF Legs
    <3> QED
      BY <2>7, <3>2, <3>3 DEF Decide, TypeOK, InRange
  <2>8. ASSUME NEW r \in Runs, WriteDecision(r) PROVE TypeOK'
    <3>1. \A s \in todo[r], kind \in {"allowed", "refused"} :
            Written(file, IntentLine(kind, r, s, verdict[r][s])) \in Seq(Event)
      BY LineTypes, WrittenType DEF TypeOK, Kinds, IntentLine
    <3>2. file' \in Seq(Event) /\ todo' \in [Runs -> SUBSET Symbols]
      BY <2>8, <3>1 DEF WriteDecision, TypeOK, InRange
    <3>3. pc' = [pc EXCEPT ![r] = "decision"]
          /\ UNCHANGED <<marker, held, fills, history, delta, verdict, next, since, upto>>
      BY <2>8 DEF WriteDecision
    <3>4. \A q \in Runs : InRange(q)
      BY DEF TypeOK
    <3>5. \A q \in Runs : InRange(q)'
      BY <2>8, <3>3, <3>4 DEF WriteDecision, InRange
    <3> QED
      BY <3>2, <3>3, <3>5 DEF TypeOK
  <2>9. ASSUME NEW r \in Runs, Stamp(r) PROVE TypeOK'
    <3>1. \A q \in Runs : InRange(q)
      BY DEF TypeOK
    <3>2. \A q \in Runs : InRange(q)'
      BY <2>9, <3>1 DEF Stamp, InRange
    <3>3. {s \in Legs(r) : verdict[r][s] > 0} \subseteq Symbols
      BY DEF Legs
    <3> QED
      BY <2>9, <3>2, <3>3 DEF Stamp, TypeOK
  <2>10. ASSUME NEW r \in Runs, Submit(r) PROVE TypeOK'
    <3>1. \A s \in todo[r] : Written(file, IntentLine("order", r, s, verdict[r][s])) \in Seq(Event)
      BY LineTypes, WrittenType DEF TypeOK, Kinds, IntentLine
    <3> QED
      BY <2>10, <3>1 DEF Submit, TypeOK, InRange
  <2>11. ASSUME NEW r \in Runs, Place(r) PROVE TypeOK'
    <3>1. PICK s \in todo[r] :
            /\ held' = [held EXCEPT ![s] = IF delta[r][s] > 0 THEN @ + verdict[r][s]
                                                             ELSE @ - verdict[r][s]]
            /\ fills' = Append(fills, [run |-> attempt[r], intent |-> IntentID(r, s),
                                       qty |-> verdict[r][s]])
            /\ todo' = [todo EXCEPT ![r] = @ \ {s}]
      BY <2>11 DEF Place
    <3>2. [run |-> attempt[r], intent |-> IntentID(r, s), qty |-> verdict[r][s]] \in Execution
      BY <3>1, IntentType DEF TypeOK, Execution
    <3>3. fills' \in Seq(Execution) /\ Len(fills') = Len(fills) + 1
      BY <3>1, <3>2 DEF TypeOK
    <3>4. held' \in [Symbols -> Int]
      BY <3>1 DEF TypeOK
    <3>5. /\ pc' = [pc EXCEPT ![r] = "submit"]
          /\ UNCHANGED <<file, marker, history, delta, verdict, next, since, upto>>
      BY <2>11 DEF Place
    <3>6. todo' \in [Runs -> SUBSET Symbols]
          /\ \A q \in Runs : q # r => todo'[q] = todo[q]
      BY <3>1 DEF TypeOK
    <3>7. \A q \in Runs : InRange(q)'
      <4>1. \A q \in Runs : InRange(q)
        BY DEF TypeOK
      <4>2. pc[r] = "place" /\ Len(fills) \in Nat
        BY <2>11 DEF Place, TypeOK
      <4>3. \A q \in Runs : upto[q] \in Nat
        BY DEF TypeOK
      <4>4. InRange(r)'
        BY <3>5, <4>1, <4>2 DEF InRange, TypeOK
      <4>5. ASSUME NEW q \in Runs, q # r PROVE InRange(q)'
        <5>1. pc'[q] = pc[q] /\ attempt'[q] = attempt[q] /\ todo'[q] = todo[q]
              /\ next'[q] = next[q] /\ upto'[q] = upto[q]
          BY <3>5, <3>6, <4>5 DEF TypeOK
        <5> QED
          BY <3>3, <4>1, <4>2, <4>3, <5>1 DEF InRange
      <4> QED
        BY <4>4, <4>5
    <3> QED
      BY <3>3, <3>4, <3>5, <3>6, <3>7 DEF TypeOK
  <2>12. ASSUME NEW r \in Runs, PlaceFails(r) PROVE TypeOK'
    <3>1. \A s \in todo[r] : Written(file, IntentLine("error", r, s, 0)) \in Seq(Event)
      BY LineTypes, WrittenType DEF TypeOK, Kinds, IntentLine
    <3>2. PICK s \in todo[r] : /\ file' = Written(file, IntentLine("error", r, s, 0))
                               /\ pc' = [pc EXCEPT ![r] = "submit"]
                               /\ todo' = [todo EXCEPT ![r] = @ \ {s}]
      BY <2>12 DEF PlaceFails
    <3> QED
      BY <2>12, <3>1, <3>2 DEF PlaceFails, TypeOK, InRange
  <2>13. ASSUME NEW r \in Runs, FetchFills(r) PROVE TypeOK'
    BY <2>13 DEF FetchFills, TypeOK, InRange
  <2>14. ASSUME NEW r \in Runs, WriteFill(r) PROVE TypeOK'
    <3>1. next[r] \in DOMAIN fills
      BY <2>14 DEF WriteFill, TypeOK, InRange
    <3>2. fills[next[r]] \in Execution
      BY <3>1 DEF TypeOK
    <3>3. [kind |-> "fill", run |-> fills[next[r]].run, intent |-> fills[next[r]].intent,
           qty |-> fills[next[r]].qty] \in Event
      BY <3>2 DEF Execution, Event, Kinds
    <3>4. file' \in Seq(Event)
      BY <2>14, <3>3, WrittenType DEF WriteFill, TypeOK, InRange
    <3>5. /\ pc' = [pc EXCEPT ![r] = "fills"] /\ next' = [next EXCEPT ![r] = @ + 1]
          /\ UNCHANGED <<marker, held, fills, history, delta, verdict, todo, since, upto>>
      BY <2>14 DEF WriteFill
    <3>6. \A q \in Runs : InRange(q)
      BY DEF TypeOK
    <3>7. next' \in [Runs -> Nat] /\ next'[r] > 0 /\ \A q \in Runs : q # r => next'[q] = next[q]
      BY <2>14, <3>5 DEF WriteFill, TypeOK
    <3>8. \A q \in Runs : InRange(q)'
      BY <2>14, <3>5, <3>6, <3>7 DEF WriteFill, InRange
    <3> QED
      BY <3>4, <3>5, <3>7, <3>8 DEF TypeOK
  <2>15. ASSUME NEW r \in Runs, Complete(r) PROVE TypeOK'
    <3>1. Written(file, Line("completed", r)) \in Seq(Event)
      BY LineTypes, WrittenType DEF TypeOK, Kinds, Line
    <3> QED
      BY <2>15, <3>1 DEF Complete, TypeOK, InRange
  <2>16. CutShort(file) \in Seq(Event)
    <3>1. file \in Seq(Event) /\ "order" \in Kinds \ {"torn", "bad"}
      BY DEF TypeOK, Kinds
    <3> QED
      BY <3>1, CutShortOnDisk
  <2>17. ASSUME NEW r \in Runs, WriteFails(r) \/ Killed(r) PROVE TypeOK'
    BY <2>16, <2>17 DEF WriteFails, Killed, TypeOK, InRange
  <2>18. CASE PowerLoss
    BY <2>16, <2>18 DEF PowerLoss, TypeOK, InRange
  <2>19. CASE Halt \/ Resume
    BY <2>19 DEF Halt, Resume, TypeOK, InRange
  <2>20. CASE UNCHANGED vars
    BY <2>20 DEF vars, TypeOK, InRange
  <2> QED
    BY <2>1, <2>2, <2>3, <2>4, <2>5, <2>6, <2>7, <2>8, <2>9, <2>10, <2>11, <2>12, <2>13,
       <2>14, <2>15, <2>17, <2>18, <2>19, <2>20 DEF Next, RunStep
<1> QED
  BY <1>1, <1>2, PTL DEF Spec

-----------------------------------------------------------------------------
(* The inductive invariant behind WriteAhead and HaltHolds *)

Early == {"start", "marker", "gather", "gate"}
Sending == {"submit", "place"}
Active == {r \in Runs : pc[r] # "idle"}

TicketOf(r, s) == [run |-> attempt[r], intent |-> IntentID(r, s), qty |-> verdict[r][s]]

\* The symbols run number n has a ticket for in a set of tickets.
SymbolsOf(T, n) == {t.intent[2] : t \in {u \in T : u.run = n}}

\* Run numbers are fresh, and no two runs in progress share one.
Fresh ==
  /\ \A r, q \in Active : attempt[r] = attempt[q] => r = q
  /\ \A t \in OnDisk(file, "allowed") \union OnDisk(file, "order") \union Executions :
       t.run \in 1 .. attempts

\* Behind a torn line nobody is past the first write of a run.
TornQuiet == EndsTorn(file) => \A r \in Active : pc[r] = "start"

\* What is on disk of a run, by where the run is.
OnRecord(r) ==
  LET A == OnDisk(file, "allowed")  O == OnDisk(file, "order")  n == attempt[r]
  IN  /\ pc[r] \in Early => SymbolsOf(A, n) = {}
      /\ pc[r] \in Early \union {"decision"} => SymbolsOf(O, n) = {} /\ SymbolsOf(Executions, n) = {}
      /\ pc[r] = "decision" => /\ todo[r] \intersect SymbolsOf(A, n) = {}
                               /\ todo[r] \subseteq Legs(r)
                               /\ \A s \in Legs(r) \ todo[r] : verdict[r][s] > 0 => TicketOf(r, s) \in A
      /\ pc[r] \in Sending => /\ \A s \in todo[r] : TicketOf(r, s) \in A
                              /\ todo[r] \intersect SymbolsOf(Executions, n) = {}
      /\ pc[r] = "submit" => todo[r] \intersect SymbolsOf(O, n) = {}
      /\ pc[r] = "place" => \A s \in todo[r] : IF IsFirst(s, todo[r]) THEN TicketOf(r, s) \in O
                                                              ELSE s \notin SymbolsOf(O, n)

\* The marker is there exactly while trading is stopped, and a barred run has
\* not come past it.
Stopped ==
  /\ stopped = marker
  /\ \A r \in Active : attempt[r] \in barred =>
       pc[r] \in {"start", "marker", "halt", "halted"} /\ (pc[r] \in {"start", "marker"} => marker)

IInv == TypeOK /\ Fresh /\ TornQuiet /\ (\A r \in Runs : OnRecord(r)) /\ Stopped /\ HaltHolds

\* Tickets of a kind and executions, before and after a step that adds none.
QuietStep ==
  /\ OnDisk(file, "allowed")' = OnDisk(file, "allowed")
  /\ OnDisk(file, "order")' = OnDisk(file, "order")
  /\ Executions' = Executions

\* A line that is neither an allowed decision nor an order adds no ticket.
LEMMA QuietLine ==
  ASSUME TypeOK, NEW e \in Event, e.kind \notin {"allowed", "order"},
         file' = Written(file, e), UNCHANGED fills
  PROVE  QuietStep
<1>1. file \in Seq(Event) /\ {"allowed", "order"} \subseteq Kinds \ {"torn", "bad"}
  BY DEF TypeOK, Kinds
<1>2. ASSUME NEW k \in {"allowed", "order"} PROVE OnDisk(file', k) = OnDisk(file, k)
  <2>1. k \in Kinds \ {"torn", "bad"} /\ e.kind # k
    BY <1>1
  <2>2. OnDisk(Written(file, e), k) =
          OnDisk(file, k) \union (IF e.kind = k /\ ~EndsTorn(file) THEN {Ticket(e)} ELSE {})
    BY <1>1, <2>1, WrittenOnDisk
  <2> QED
    BY <2>1, <2>2
<1> QED
  BY <1>2 DEF QuietStep, Executions

\* Only a decision, an order and the broker add tickets.
QuietRun(r) ==
  \/ Start(r) \/ Bracket(r) \/ ReadMarker(r) \/ Refuse(r) \/ Gather(r) \/ Kill(r) \/ Decide(r)
  \/ Stamp(r) \/ PlaceFails(r) \/ FetchFills(r) \/ WriteFill(r) \/ Complete(r)
  \/ WriteFails(r) \/ Killed(r)

LEMMA QuietSteps ==
  ASSUME TypeOK, (\E r \in Runs : QuietRun(r)) \/ PowerLoss \/ Halt \/ Resume \/ UNCHANGED vars
  PROVE  QuietStep
<1> USE DEF WriteLine, Goto
<1>0. \A k \in {"allowed", "order"} : k \in Kinds \ {"torn", "bad"}
  BY DEF Kinds
<1>1. ASSUME file' = file, fills' = fills PROVE QuietStep
  BY <1>1 DEF QuietStep, OnDisk, Executions
<1>2. ASSUME file' = CutShort(file), fills' = fills PROVE QuietStep
  <2>1. file \in Seq(Event)
    BY DEF TypeOK
  <2>2. \A k \in {"allowed", "order"} : OnDisk(file', k) = OnDisk(file, k)
    BY <1>0, <1>2, <2>1, CutShortOnDisk
  <2> QED
    BY <1>2, <2>2 DEF QuietStep, Executions
<1>3. ASSUME NEW r \in Runs, Bracket(r) PROVE QuietStep
  <2>1. PICK kind \in {"started", "halt", "halted", "error", "failed"} :
          file' = Written(file, Line(kind, r)) /\ fills' = fills
    BY <1>3 DEF Bracket
  <2>2. Line(kind, r) \in Event /\ Line(kind, r).kind = kind
    BY LineTypes DEF Kinds, Line
  <2> QED
    BY <2>1, <2>2, QuietLine
<1>4. ASSUME NEW r \in Runs, PlaceFails(r) PROVE QuietStep
  <2>1. PICK s \in todo[r] : file' = Written(file, IntentLine("error", r, s, 0)) /\ fills' = fills
    BY <1>4 DEF PlaceFails
  <2>2. IntentLine("error", r, s, 0) \in Event /\ IntentLine("error", r, s, 0).kind = "error"
    BY LineTypes DEF TypeOK, Kinds, IntentLine
  <2> QED
    BY <2>1, <2>2, QuietLine
<1>5. ASSUME NEW r \in Runs, WriteFill(r) PROVE QuietStep
  <2>1. next[r] \in DOMAIN fills
    BY <1>5 DEF WriteFill, TypeOK, InRange
  <2> DEFINE f == fills[next[r]]
             e == [kind |-> "fill", run |-> f.run, intent |-> f.intent, qty |-> f.qty]
  <2>2. f \in Execution
    BY <2>1 DEF TypeOK
  <2>3. e \in Event /\ e.kind = "fill"
    BY <2>2 DEF Execution, Event, Kinds
  <2>4. file' = Written(file, e) /\ fills' = fills
    BY <1>5 DEF WriteFill
  <2> HIDE DEF e
  <2> QED
    BY <2>3, <2>4, QuietLine
<1>6. ASSUME NEW r \in Runs, Complete(r) PROVE QuietStep
  <2>1. Line("completed", r) \in Event /\ Line("completed", r).kind = "completed"
    BY LineTypes DEF Kinds, Line
  <2> QED
    BY <1>6, <2>1, QuietLine DEF Complete
<1>7. ASSUME NEW r \in Runs, WriteFails(r) PROVE QuietStep
  BY <1>1, <1>2, <1>7 DEF WriteFails
<1>8. CASE PowerLoss
  BY <1>1, <1>2, <1>8 DEF PowerLoss
<1>9. CASE Halt \/ Resume \/ UNCHANGED vars
  BY <1>1, <1>9 DEF Halt, Resume, vars
<1>10. ASSUME NEW r \in Runs,
              \/ Start(r) \/ ReadMarker(r) \/ Refuse(r) \/ Gather(r) \/ Kill(r) \/ Decide(r)
              \/ Stamp(r) \/ FetchFills(r) \/ Killed(r)
       PROVE  QuietStep
  BY <1>1, <1>10 DEF Start, ReadMarker, Refuse, Gather, Kill, Decide, Stamp, FetchFills, Killed
<1> QED
  BY <1>3, <1>4, <1>5, <1>6, <1>7, <1>8, <1>9, <1>10 DEF QuietRun

\* What a run has on record is not touched by tickets of other runs.
LEMMA OthersKeep ==
  ASSUME NEW q \in Runs, OnRecord(q),
         pc'[q] = pc[q], attempt'[q] = attempt[q], todo'[q] = todo[q],
         delta'[q] = delta[q], verdict'[q] = verdict[q],
         OnDisk(file, "allowed") \subseteq OnDisk(file, "allowed")',
         OnDisk(file, "order") \subseteq OnDisk(file, "order")',
         pc[q] # "idle" =>
           /\ \A t \in OnDisk(file, "allowed")' : t \in OnDisk(file, "allowed") \/ t.run # attempt[q]
           /\ \A t \in OnDisk(file, "order")' : t \in OnDisk(file, "order") \/ t.run # attempt[q]
           /\ \A t \in Executions' : t \in Executions \/ t.run # attempt[q]
  PROVE  OnRecord(q)'
<1> DEFINE A == OnDisk(file, "allowed")  O == OnDisk(file, "order")  n == attempt[q]
<1>1. Legs(q)' = Legs(q) /\ \A s : TicketOf(q, s)' = TicketOf(q, s)
  BY DEF Legs, TicketOf, IntentID
<1>2. CASE pc[q] = "idle"
  BY <1>2 DEF OnRecord, Early, Sending
<1>3. CASE pc[q] # "idle"
  <2>1. /\ SymbolsOf(A', n') = SymbolsOf(A, n)
        /\ SymbolsOf(O', n') \subseteq SymbolsOf(O, n)
        /\ SymbolsOf(Executions', n') \subseteq SymbolsOf(Executions, n)
    BY <1>3 DEF SymbolsOf
  <2> HIDE DEF A, O, n
  <2> QED
    BY <1>1, <2>1 DEF OnRecord, A, O, n
<1> QED
  BY <1>2, <1>3

\* A step of one run leaves the locals of the others alone.
LEMMA OneAtATime ==
  ASSUME TypeOK, NEW r \in Runs, Start(r) \/ RunStep(r) \/ WriteFails(r) \/ Killed(r),
         NEW q \in Runs, q # r
  PROVE  /\ pc'[q] = pc[q] /\ attempt'[q] = attempt[q] /\ todo'[q] = todo[q]
         /\ delta'[q] = delta[q] /\ verdict'[q] = verdict[q]
<1> USE DEF TypeOK, Goto, WriteLine, history, locals
<1>1. CASE Start(r)
  BY <1>1 DEF Start
<1>2. CASE Bracket(r) \/ ReadMarker(r) \/ Refuse(r) \/ Gather(r) \/ Kill(r)
  BY <1>2 DEF Bracket, ReadMarker, Refuse, Gather, Kill
<1>3. CASE Decide(r) \/ Stamp(r) \/ FetchFills(r) \/ WriteFill(r) \/ Complete(r)
  BY <1>3 DEF Decide, Stamp, FetchFills, WriteFill, Complete
<1>4. CASE WriteDecision(r)
  BY <1>4 DEF WriteDecision
<1>5. CASE Submit(r)
  BY <1>5 DEF Submit
<1>6. CASE Place(r)
  BY <1>6 DEF Place
<1>7. CASE PlaceFails(r)
  BY <1>7 DEF PlaceFails
<1>8. CASE WriteFails(r) \/ Killed(r)
  BY <1>8 DEF WriteFails, Killed
<1> QED
  BY <1>1, <1>2, <1>3, <1>4, <1>5, <1>6, <1>7, <1>8 DEF RunStep

\* A line lands on a torn one only as the first line of a run.
Alone == ~ShortWrites \/ \A r, q \in Runs : r = q

LEMMA TornStep ==
  ASSUME Alone, TypeOK, TornQuiet, [Next]_vars
  PROVE  TornQuiet'
<1> USE DEF Goto, WriteLine, history, locals
<1>1. CASE Halt \/ Resume \/ UNCHANGED vars
  BY <1>1 DEF Halt, Resume, vars, TornQuiet, EndsTorn, Active
<1>2. CASE PowerLoss
  BY <1>2 DEF PowerLoss, TornQuiet, Active
<1>3. ASSUME NEW r \in Runs, Start(r) PROVE TornQuiet'
  BY <1>3 DEF Start, TornQuiet, EndsTorn, Active, TypeOK
<1>4. ASSUME NEW r \in Runs, Killed(r) \/ (WriteFails(r) /\ file' = file) PROVE TornQuiet'
  BY <1>4 DEF Killed, WriteFails, TornQuiet, EndsTorn, Active, TypeOK
<1>5. ASSUME NEW r \in Runs, WriteFails(r), file' # file PROVE TornQuiet'
  <2>1. \A q \in Runs : q = r
    BY <1>5 DEF WriteFails, Alone
  <2> QED
    BY <1>5, <2>1 DEF WriteFails, TornQuiet, Active, TypeOK
<1>6. ASSUME NEW r \in Runs, NEW e \in Event, e.kind # "torn", file' = Written(file, e)
      PROVE  TornQuiet'
  BY <1>6, WrittenType DEF TypeOK, TornQuiet
<1>7. ASSUME NEW r \in Runs, RunStep(r), file' = file, pc[r] # "start" PROVE TornQuiet'
  <2>1. pc[r] # "idle"
    BY <1>7 DEF RunStep, Bracket, ReadMarker, Refuse, Gather, Kill, Decide, WriteDecision, Stamp,
       Submit, Place, PlaceFails, FetchFills, WriteFill, Complete
  <2>2. ~EndsTorn(file)
    BY <1>7, <2>1 DEF TornQuiet, Active
  <2> QED
    BY <1>7, <2>2 DEF TornQuiet, EndsTorn
<1>8. ASSUME NEW r \in Runs, RunStep(r) PROVE TornQuiet'
  <2>1. CASE ReadMarker(r) \/ Refuse(r) \/ Gather(r) \/ Kill(r) \/ Decide(r) \/ Stamp(r)
             \/ Place(r) \/ FetchFills(r)
    <3>1. file' = file /\ pc[r] # "start"
      BY <2>1 DEF ReadMarker, Refuse, Gather, Kill, Decide, Stamp, Place, FetchFills
    <3> QED
      BY <1>7, <1>8, <3>1
  <2>2. CASE Bracket(r)
    <3>1. PICK kind \in {"started", "halt", "halted", "error", "failed"} :
            file' = Written(file, Line(kind, r))
      BY <2>2 DEF Bracket
    <3>2. Line(kind, r) \in Event /\ Line(kind, r).kind = kind
      BY LineTypes DEF Kinds, Line
    <3> QED
      BY <1>6, <3>1, <3>2
  <2>3. CASE WriteDecision(r) \/ Submit(r) \/ PlaceFails(r)
    <3>1. PICK kind \in {"allowed", "refused", "order", "error"}, s \in todo[r], v \in Nat :
            file' = Written(file, IntentLine(kind, r, s, v))
      <4>1. \A s \in todo[r] : verdict[r][s] \in Nat
        BY DEF TypeOK
      <4> QED
        BY <2>3, <4>1 DEF WriteDecision, Submit, PlaceFails
    <3>2. IntentLine(kind, r, s, v) \in Event /\ IntentLine(kind, r, s, v).kind = kind
      BY LineTypes DEF TypeOK, Kinds, IntentLine
    <3> QED
      BY <1>6, <3>1, <3>2
  <2>4. CASE WriteFill(r)
    <3> DEFINE f == fills[next[r]]
               e == [kind |-> "fill", run |-> f.run, intent |-> f.intent, qty |-> f.qty]
    <3>1. f \in Execution
      BY <2>4 DEF WriteFill, TypeOK, InRange
    <3>2. e \in Event /\ e.kind = "fill" /\ file' = Written(file, e)
      BY <2>4, <3>1 DEF WriteFill, Execution, Event, Kinds
    <3> HIDE DEF e
    <3> QED
      BY <1>6, <3>2
  <2>5. CASE Complete(r)
    <3>1. Line("completed", r) \in Event /\ Line("completed", r).kind = "completed"
      BY LineTypes DEF Kinds, Line
    <3> QED
      BY <1>6, <2>5, <3>1 DEF Complete
  <2> QED
    BY <1>8, <2>1, <2>2, <2>3, <2>4, <2>5 DEF RunStep
<1>9. ASSUME NEW r \in Runs, WriteFails(r) PROVE TornQuiet'
  BY <1>4, <1>5, <1>9
<1> QED
  <2>1. ASSUME NEW r \in Runs, Start(r) \/ RunStep(r) \/ WriteFails(r) \/ Killed(r)
        PROVE  TornQuiet'
    BY <1>3, <1>4, <1>8, <1>9, <2>1
  <2> QED
    BY <1>1, <1>2, <2>1 DEF Next

\* Past its first write a run never writes behind a torn line.
LEMMA Untorn ==
  ASSUME TornQuiet, NEW r \in Runs, pc[r] \notin {"idle", "start"}
  PROVE  ~EndsTorn(file)
BY DEF TornQuiet, Active

\* What the three steps that add a ticket do.
LEMMA DecisionEffect ==
  ASSUME TypeOK, TornQuiet, NEW r \in Runs, OnRecord(r), WriteDecision(r)
  PROVE  \E s \in todo[r] :
           /\ OnDisk(file, "allowed")' = OnDisk(file, "allowed") \union
                (IF verdict[r][s] > 0 THEN {TicketOf(r, s)} ELSE {})
           /\ OnDisk(file, "order")' = OnDisk(file, "order") /\ Executions' = Executions
           /\ pc' = [pc EXCEPT ![r] = "decision"] /\ todo' = [todo EXCEPT ![r] = @ \ {s}]
           /\ TicketOf(r, s) \notin OnDisk(file, "allowed")
<1>1. PICK s \in todo[r] :
        /\ file' = Written(file, IntentLine(IF verdict[r][s] > 0 THEN "allowed" ELSE "refused",
                                            r, s, verdict[r][s]))
        /\ pc' = [pc EXCEPT ![r] = "decision"] /\ todo' = [todo EXCEPT ![r] = @ \ {s}]
        /\ fills' = fills /\ pc[r] = "decision"
  BY DEF WriteDecision, WriteLine, Goto
<1> DEFINE kind == IF verdict[r][s] > 0 THEN "allowed" ELSE "refused"
           e == IntentLine(kind, r, s, verdict[r][s])
<1>2. e \in Event /\ e.kind = kind /\ Ticket(e) = TicketOf(r, s)
  BY LineTypes DEF TypeOK, Kinds, IntentLine, Ticket, TicketOf
<1>3. ~EndsTorn(file)
  BY <1>1, Untorn
<1>4. file \in Seq(Event) /\ {"allowed", "order"} \subseteq Kinds \ {"torn", "bad"}
  BY DEF TypeOK, Kinds
<1>5. \A k \in {"allowed", "order"} :
        OnDisk(file', k) = OnDisk(file, k) \union (IF kind = k THEN {TicketOf(r, s)} ELSE {})
  <2> HIDE DEF e
  <2> QED
    BY <1>1, <1>2, <1>3, <1>4, WrittenOnDisk DEF e
<1>6. TicketOf(r, s) \notin OnDisk(file, "allowed")
  <2>1. s \notin SymbolsOf(OnDisk(file, "allowed"), attempt[r])
    BY <1>1 DEF OnRecord
  <2>2. TicketOf(r, s).run = attempt[r] /\ TicketOf(r, s).intent[2] = s
    BY DEF TicketOf, IntentID
  <2> QED
    BY <2>1, <2>2 DEF SymbolsOf
<1> QED
  BY <1>1, <1>5, <1>6 DEF Executions

LEMMA SubmitEffect ==
  ASSUME TypeOK, TornQuiet, NEW r \in Runs, OnRecord(r), Submit(r)
  PROVE  \E s \in todo[r] :
           /\ OnDisk(file, "order")' = OnDisk(file, "order") \union {TicketOf(r, s)}
           /\ OnDisk(file, "allowed")' = OnDisk(file, "allowed") /\ Executions' = Executions
           /\ pc' = [pc EXCEPT ![r] = "place"] /\ IsFirst(s, todo[r])
           /\ TicketOf(r, s) \in OnDisk(file, "allowed") \ OnDisk(file, "order")
<1>1. PICK s \in todo[r] :
        /\ file' = Written(file, IntentLine("order", r, s, verdict[r][s]))
        /\ pc' = [pc EXCEPT ![r] = "place"] /\ IsFirst(s, todo[r])
        /\ fills' = fills /\ pc[r] = "submit"
  BY DEF Submit, WriteLine, Goto
<1> DEFINE e == IntentLine("order", r, s, verdict[r][s])
<1>2. e \in Event /\ e.kind = "order" /\ Ticket(e) = TicketOf(r, s)
  BY LineTypes DEF TypeOK, Kinds, IntentLine, Ticket, TicketOf
<1>3. ~EndsTorn(file)
  BY <1>1, Untorn
<1>4. file \in Seq(Event) /\ {"allowed", "order"} \subseteq Kinds \ {"torn", "bad"}
  BY DEF TypeOK, Kinds
<1>5. \A k \in {"allowed", "order"} :
        OnDisk(file', k) = OnDisk(file, k) \union (IF k = "order" THEN {TicketOf(r, s)} ELSE {})
  <2> HIDE DEF e
  <2> QED
    BY <1>1, <1>2, <1>3, <1>4, WrittenOnDisk DEF e
<1>6. TicketOf(r, s) \in OnDisk(file, "allowed") /\ s \notin SymbolsOf(OnDisk(file, "order"), attempt[r])
  BY <1>1 DEF OnRecord, Sending
<1>7. TicketOf(r, s).run = attempt[r] /\ TicketOf(r, s).intent[2] = s
  BY DEF TicketOf, IntentID
<1>8. TicketOf(r, s) \notin OnDisk(file, "order")
  BY <1>6, <1>7 DEF SymbolsOf
<1> QED
  BY <1>1, <1>5, <1>6, <1>8 DEF Executions

LEMMA PlaceEffect ==
  ASSUME TypeOK, NEW r \in Runs, OnRecord(r), Place(r)
  PROVE  \E s \in todo[r] :
           /\ Executions' = Executions \union {TicketOf(r, s)}
           /\ OnDisk(file, "allowed")' = OnDisk(file, "allowed")
           /\ OnDisk(file, "order")' = OnDisk(file, "order")
           /\ pc' = [pc EXCEPT ![r] = "submit"] /\ todo' = [todo EXCEPT ![r] = @ \ {s}]
           /\ IsFirst(s, todo[r])
           /\ TicketOf(r, s) \in OnDisk(file, "order") \ Executions
<1>1. PICK s \in todo[r] :
        /\ fills' = Append(fills, TicketOf(r, s)) /\ file' = file
        /\ pc' = [pc EXCEPT ![r] = "submit"] /\ todo' = [todo EXCEPT ![r] = @ \ {s}]
        /\ IsFirst(s, todo[r]) /\ pc[r] = "place"
  BY DEF Place, Goto, TicketOf
<1>2. fills \in Seq(Execution)
  BY DEF TypeOK
<1>3. Executions' = Executions \union {TicketOf(r, s)}
  BY <1>1, <1>2 DEF Executions
<1>4. TicketOf(r, s) \in OnDisk(file, "order") /\ s \notin SymbolsOf(Executions, attempt[r])
  BY <1>1 DEF OnRecord, Sending
<1>5. TicketOf(r, s).run = attempt[r] /\ TicketOf(r, s).intent[2] = s
  BY DEF TicketOf, IntentID
<1>6. TicketOf(r, s) \notin Executions
  BY <1>4, <1>5 DEF SymbolsOf
<1> QED
  BY <1>1, <1>3, <1>4, <1>6 DEF OnDisk

\* A ticket adds its own symbol to its run's.
LEMMA SymbolsAdd ==
  ASSUME NEW r \in Runs, NEW s \in Symbols, NEW T, NEW U, U \subseteq T \union {TicketOf(r, s)}
  PROVE  SymbolsOf(U, attempt[r]) \subseteq SymbolsOf(T, attempt[r]) \union {s}
<1>1. TicketOf(r, s).intent[2] = s
  BY DEF TicketOf, IntentID
<1> QED
  BY <1>1 DEF SymbolsOf

\* A run's step adds no ticket, or one of its own.
LEMMA TicketSteps ==
  ASSUME TypeOK, TornQuiet, NEW r \in Runs, OnRecord(r),
         Start(r) \/ RunStep(r) \/ WriteFails(r) \/ Killed(r)
  PROVE  \/ QuietStep
         \/ \E s \in Symbols :
              /\ OnDisk(file, "allowed")' \in {OnDisk(file, "allowed"), OnDisk(file, "allowed") \union {TicketOf(r, s)}}
              /\ OnDisk(file, "order")' \in {OnDisk(file, "order"), OnDisk(file, "order") \union {TicketOf(r, s)}}
              /\ Executions' \in {Executions, Executions \union {TicketOf(r, s)}}
              /\ pc[r] # "idle"
<1>1. todo[r] \subseteq Symbols
  BY DEF TypeOK
<1>2. CASE WriteDecision(r)
  <2>1. PICK s \in todo[r] :
           /\ OnDisk(file, "allowed")' = OnDisk(file, "allowed") \union
                (IF verdict[r][s] > 0 THEN {TicketOf(r, s)} ELSE {})
           /\ OnDisk(file, "order")' = OnDisk(file, "order") /\ Executions' = Executions
    BY <1>2, DecisionEffect
  <2>2. pc[r] # "idle"
    BY <1>2 DEF WriteDecision
  <2> QED
    BY <1>1, <2>1, <2>2
<1>3. CASE Submit(r) \/ Place(r)
  <2>1. pc[r] # "idle"
    BY <1>3 DEF Submit, Place
  <2> QED
    BY <1>1, <1>3, <2>1, SubmitEffect, PlaceEffect
<1>4. CASE QuietRun(r)
  BY <1>4, QuietSteps
<1> QED
  BY <1>2, <1>3, <1>4 DEF RunStep, QuietRun

LEMMA FreshStep ==
  ASSUME IInv, [Next]_vars
  PROVE  Fresh'
<1> USE DEF history, locals, Goto
<1>1. TypeOK /\ Fresh /\ TornQuiet /\ \A r \in Runs : OnRecord(r)
  BY DEF IInv
<1>0. \/ QuietStep
      \/ \E r \in Runs, s \in Symbols :
           /\ OnDisk(file, "allowed")' \subseteq OnDisk(file, "allowed") \union {TicketOf(r, s)}
           /\ OnDisk(file, "order")' \subseteq OnDisk(file, "order") \union {TicketOf(r, s)}
           /\ Executions' \subseteq Executions \union {TicketOf(r, s)}
           /\ attempt[r] \in 1 .. attempts
  <2>1. CASE PowerLoss \/ Halt \/ Resume \/ UNCHANGED vars
    BY <1>1, <2>1, QuietSteps
  <2>2. ASSUME NEW r \in Runs, Start(r) \/ RunStep(r) \/ WriteFails(r) \/ Killed(r)
        PROVE  <1>0
    <3>1. pc[r] # "idle" => attempt[r] \in 1 .. attempts
      BY <1>1 DEF TypeOK, InRange
    <3> QED
      BY <1>1, <2>2, <3>1, TicketSteps
  <2> QED
    BY <2>1, <2>2 DEF Next
<1>2. /\ attempts' \in {attempts, attempts + 1}
      /\ \A r \in Active' : \/ r \in Active /\ attempt'[r] = attempt[r]
                            \/ Start(r) /\ attempt'[r] = attempts + 1 /\ Active' = Active \union {r}
  <2>1. ASSUME NEW r \in Runs, Start(r) PROVE <1>2
    BY <1>1, <2>1 DEF Start, Active, TypeOK
  <2>2. ASSUME NEW r \in Runs, RunStep(r) \/ WriteFails(r) \/ Killed(r) PROVE <1>2
    <3>1. attempts' = attempts /\ attempt' = attempt /\ pc[r] # "idle"
      BY <2>2 DEF RunStep, Bracket, ReadMarker, Refuse, Gather, Kill, Decide, WriteDecision, Stamp,
         Submit, Place, PlaceFails, FetchFills, WriteFill, Complete, WriteFails, Killed, Writing
    <3>2. \A q \in Runs : q # r => pc'[q] = pc[q]
      BY <1>1, <2>2, OneAtATime
    <3> QED
      BY <3>1, <3>2 DEF Active
  <2>3. CASE PowerLoss \/ Halt \/ Resume \/ UNCHANGED vars
    BY <2>3 DEF PowerLoss, Halt, Resume, vars, Active
  <2> QED
    BY <2>1, <2>2, <2>3 DEF Next
<1>3. \A r, q \in Active' : attempt'[r] = attempt'[q] => r = q
  <2>1. \A r \in Active : attempt[r] \in 0 .. attempts
    BY <1>1 DEF TypeOK, Active
  <2>2. \A r, q \in Active : attempt[r] = attempt[q] => r = q
    BY <1>1 DEF Fresh
  <2>3. attempts \in Nat
    BY <1>1 DEF TypeOK
  <2>4. ASSUME NEW r \in Active', ~(r \in Active /\ attempt'[r] = attempt[r])
        PROVE  /\ attempt'[r] = attempts + 1
               /\ \A q \in Active' : q # r => q \in Active /\ attempt'[q] = attempt[q]
    <3>1. Start(r) /\ attempt'[r] = attempts + 1 /\ Active' = Active \union {r}
      BY <1>2, <2>4
    <3>2. \A q \in Active : q # r => attempt'[q] = attempt[q]
      BY <1>1, <3>1, OneAtATime DEF Active, Start
    <3> QED
      BY <3>1, <3>2
  <2> QED
    BY <2>1, <2>2, <2>3, <2>4
<1>4. \A t \in OnDisk(file, "allowed")' \union OnDisk(file, "order")' \union Executions' :
        t.run \in 1 .. attempts
  <2>1. \A r \in Runs, s \in Symbols : TicketOf(r, s).run = attempt[r]
    BY DEF TicketOf
  <2> QED
    BY <1>0, <1>1, <2>1 DEF Fresh, QuietStep
<1>5. 1 .. attempts \subseteq 1 .. attempts'
  BY <1>1, <1>2 DEF TypeOK
<1> QED
  BY <1>3, <1>4, <1>5 DEF Fresh

\* Each run's record stays in step with where the run is.
LEMMA RecordStep ==
  ASSUME IInv, [Next]_vars, NEW q \in Runs
  PROVE  OnRecord(q)'
<1> USE DEF history, locals, Goto, WriteLine
<1>1. TypeOK /\ Fresh /\ TornQuiet /\ \A r \in Runs : OnRecord(r)
  BY DEF IInv
<1> DEFINE A == OnDisk(file, "allowed")  O == OnDisk(file, "order")
<1>2. CASE PowerLoss
  BY <1>2 DEF PowerLoss, OnRecord, Early, Sending
<1>3. CASE Halt \/ Resume \/ UNCHANGED vars
  <2>1. QuietStep
    BY <1>1, <1>3, QuietSteps
  <2> QED
    BY <1>1, <1>3, <2>1, OthersKeep DEF Halt, Resume, vars, QuietStep
<1>4. ASSUME NEW r \in Runs, r # q, Start(r) \/ RunStep(r) \/ WriteFails(r) \/ Killed(r)
      PROVE  OnRecord(q)'
  <2>1. /\ pc'[q] = pc[q] /\ attempt'[q] = attempt[q] /\ todo'[q] = todo[q]
        /\ delta'[q] = delta[q] /\ verdict'[q] = verdict[q]
    BY <1>1, <1>4, OneAtATime
  <2>2. pc[r] # "idle" /\ pc[q] # "idle" => \A s \in Symbols : TicketOf(r, s).run # attempt[q]
    BY <1>1, <1>4 DEF Fresh, Active, TicketOf
  <2> QED
    BY <1>1, <1>4, <2>1, <2>2, TicketSteps, OthersKeep DEF QuietStep
<1>5. ASSUME QuietStep, pc'[q] \in {"idle", "halt", "halted", "fail", "failed", "fills"}
      PROVE  OnRecord(q)'
  BY <1>5 DEF OnRecord, Early, Sending
<1>6. CASE Start(q)
  <2>1. QuietStep
    BY <1>1, <1>6, QuietSteps DEF QuietRun
  <2>2. \A t \in A \union O \union Executions : t.run # attempts + 1
    <3>1. \A t \in A \union O \union Executions : t.run \in Nat /\ t.run <= attempts
      BY <1>1 DEF Fresh
    <3>2. attempts \in Nat
      BY <1>1 DEF TypeOK
    <3> QED
      BY <3>1, <3>2
  <2>3. pc'[q] = "start" /\ attempt'[q] = attempts + 1
    BY <1>1, <1>6 DEF Start, TypeOK
  <2> QED
    BY <2>1, <2>2, <2>3 DEF OnRecord, QuietStep, SymbolsOf, Early, Sending
<1>7. CASE Refuse(q) \/ Kill(q) \/ FetchFills(q) \/ WriteFill(q) \/ Complete(q)
           \/ WriteFails(q) \/ Killed(q)
  <2>1. QuietStep
    BY <1>1, <1>7, QuietSteps DEF QuietRun
  <2>2. pc'[q] \in {"idle", "halt", "halted", "fail", "failed", "fills"}
    BY <1>1, <1>7 DEF Refuse, Kill, FetchFills, WriteFill, Complete, WriteFails, Killed, TypeOK
  <2> QED
    BY <1>5, <2>1, <2>2
<1>8. CASE Bracket(q) \/ ReadMarker(q) \/ Gather(q)
  <2>1. QuietStep
    BY <1>1, <1>8, QuietSteps DEF QuietRun
  <2>2. /\ attempt'[q] = attempt[q]
        /\ \/ pc[q] \in Early /\ pc'[q] \in Early
           \/ pc'[q] \in {"idle", "halt", "halted", "fail", "failed", "fills"}
    BY <1>1, <1>8 DEF Bracket, ReadMarker, Gather, Early, TypeOK
  <2>3. CASE pc[q] \in Early /\ pc'[q] \in Early
    BY <1>1, <2>1, <2>2, <2>3 DEF OnRecord, QuietStep, Early, Sending
  <2> QED
    BY <1>5, <2>1, <2>2, <2>3
<1>9. CASE Decide(q)
  <2>1. QuietStep
    BY <1>1, <1>9, QuietSteps DEF QuietRun
  <2>2. /\ attempt'[q] = attempt[q] /\ pc[q] = "gate" /\ pc'[q] = "decision"
        /\ todo'[q] = Legs(q) /\ Legs(q)' = Legs(q)
    BY <1>1, <1>9 DEF Decide, TypeOK, Legs
  <2>3. SymbolsOf(A, attempt[q]) = {} /\ SymbolsOf(O, attempt[q]) = {}
        /\ SymbolsOf(Executions, attempt[q]) = {}
    BY <1>1, <2>2 DEF OnRecord, Early
  <2> QED
    BY <2>1, <2>2, <2>3 DEF OnRecord, QuietStep, Early, Sending
<1>10. CASE WriteDecision(q)
  <2>1. PICK s \in todo[q] :
          /\ A' = A \union (IF verdict[q][s] > 0 THEN {TicketOf(q, s)} ELSE {})
          /\ O' = O /\ Executions' = Executions
          /\ pc' = [pc EXCEPT ![q] = "decision"] /\ todo' = [todo EXCEPT ![q] = @ \ {s}]
    BY <1>1, <1>10, DecisionEffect
  <2>2. pc[q] = "decision" /\ UNCHANGED <<attempt, delta, verdict>>
    BY <1>10 DEF WriteDecision
  <2>3. pc'[q] = "decision" /\ todo'[q] = todo[q] \ {s}
    BY <1>1, <2>1 DEF TypeOK
  <2>4. /\ Legs(q)' = Legs(q) /\ \A t : TicketOf(q, t)' = TicketOf(q, t)
        /\ attempt'[q] = attempt[q] /\ verdict'[q] = verdict[q]
    BY <2>2 DEF Legs, TicketOf, IntentID
  <2>5. /\ todo[q] \intersect SymbolsOf(A, attempt[q]) = {} /\ todo[q] \subseteq Legs(q)
        /\ \A t \in Legs(q) \ todo[q] : verdict[q][t] > 0 => TicketOf(q, t) \in A
        /\ SymbolsOf(O, attempt[q]) = {} /\ SymbolsOf(Executions, attempt[q]) = {}
    BY <1>1, <2>2 DEF OnRecord
  <2>6. SymbolsOf(A', attempt[q]) \subseteq SymbolsOf(A, attempt[q]) \union {s}
    BY <1>1, <2>1, SymbolsAdd DEF TypeOK
  <2>7. todo'[q] \intersect SymbolsOf(A', attempt[q]) = {}
    BY <2>3, <2>5, <2>6
  <2>8. \A t \in Legs(q) \ todo'[q] : verdict[q][t] > 0 => TicketOf(q, t) \in A'
    BY <2>1, <2>3, <2>5
  <2> HIDE DEF A, O
  <2> QED
    BY <2>1, <2>3, <2>4, <2>5, <2>7, <2>8 DEF OnRecord, Early, Sending, A, O
<1>11. CASE Stamp(q)
  <2>1. QuietStep
    BY <1>1, <1>11, QuietSteps DEF QuietRun
  <2>2. /\ pc[q] = "decision" /\ todo[q] = {} /\ pc'[q] = "submit"
        /\ todo'[q] = {s \in Legs(q) : verdict[q][s] > 0}
        /\ UNCHANGED <<attempt, delta, verdict>>
    BY <1>1, <1>11 DEF Stamp, TypeOK
  <2>3. /\ Legs(q)' = Legs(q) /\ \A t : TicketOf(q, t)' = TicketOf(q, t)
        /\ attempt'[q] = attempt[q] /\ verdict'[q] = verdict[q]
    BY <2>2 DEF Legs, TicketOf, IntentID
  <2>4. /\ \A t \in Legs(q) : verdict[q][t] > 0 => TicketOf(q, t) \in A
        /\ SymbolsOf(O, attempt[q]) = {} /\ SymbolsOf(Executions, attempt[q]) = {}
    BY <1>1, <2>2 DEF OnRecord
  <2>5. \A t \in todo'[q] : TicketOf(q, t) \in A
    BY <2>2, <2>4
  <2> HIDE DEF A, O
  <2> QED
    BY <2>1, <2>2, <2>3, <2>4, <2>5 DEF OnRecord, QuietStep, Early, Sending, A, O
<1>12. CASE Submit(q)
  <2>1. PICK s \in todo[q] :
          /\ O' = O \union {TicketOf(q, s)} /\ A' = A /\ Executions' = Executions
          /\ pc' = [pc EXCEPT ![q] = "place"] /\ IsFirst(s, todo[q])
    BY <1>1, <1>12, SubmitEffect
  <2>2. pc[q] = "submit" /\ UNCHANGED <<attempt, delta, verdict, todo>>
    BY <1>12 DEF Submit
  <2>3. pc'[q] = "place"
    BY <1>1, <2>1 DEF TypeOK
  <2>4. /\ Legs(q)' = Legs(q) /\ \A t : TicketOf(q, t)' = TicketOf(q, t)
        /\ attempt'[q] = attempt[q] /\ verdict'[q] = verdict[q]
    BY <2>2 DEF Legs, TicketOf, IntentID
  <2>5. /\ \A t \in todo[q] : TicketOf(q, t) \in A
        /\ todo[q] \intersect SymbolsOf(Executions, attempt[q]) = {}
        /\ todo[q] \intersect SymbolsOf(O, attempt[q]) = {}
    BY <1>1, <2>2 DEF OnRecord, Sending
  <2>6. SymbolsOf(O', attempt[q]) \subseteq SymbolsOf(O, attempt[q]) \union {s}
    BY <1>1, <2>1, SymbolsAdd DEF TypeOK
  <2>7. \A t \in todo[q] : IsFirst(t, todo[q]) <=> t = s
    <3>1. todo[q] \subseteq Int
      BY <1>1 DEF TypeOK, Symbols
    <3>2. IsFirst(s, todo[q])
      BY <2>1
    <3> QED
      BY <3>1, <3>2 DEF IsFirst
  <2>8. \A t \in todo[q] : IF IsFirst(t, todo[q]) THEN TicketOf(q, t) \in O'
                                               ELSE t \notin SymbolsOf(O', attempt[q])
    BY <2>1, <2>5, <2>6, <2>7
  <2>9. todo' = todo /\ \A t : IsFirst(t, todo[q])' = IsFirst(t, todo[q])
    BY <2>2 DEF IsFirst
  <2> HIDE DEF A, O
  <2> QED
    BY <2>1, <2>3, <2>4, <2>5, <2>8, <2>9 DEF OnRecord, Early, Sending, A, O
<1>13. CASE Place(q) \/ PlaceFails(q)
  <2>1. PICK s \in todo[q] :
          /\ O' = O /\ A' = A /\ Executions' \in {Executions, Executions \union {TicketOf(q, s)}}
          /\ pc' = [pc EXCEPT ![q] = "submit"] /\ todo' = [todo EXCEPT ![q] = @ \ {s}]
          /\ IsFirst(s, todo[q])
    <3>1. CASE Place(q)
      BY <1>1, <3>1, PlaceEffect
    <3>2. CASE PlaceFails(q)
      <4>1. QuietStep
        BY <1>1, <3>2, QuietSteps DEF QuietRun
      <4> QED
        BY <3>2, <4>1 DEF PlaceFails, QuietStep
    <3> QED
      BY <1>13, <3>1, <3>2
  <2>2. pc[q] = "place" /\ UNCHANGED <<attempt, delta, verdict>>
    BY <1>13 DEF Place, PlaceFails
  <2>3. pc'[q] = "submit" /\ todo'[q] = todo[q] \ {s}
    BY <1>1, <2>1 DEF TypeOK
  <2>4. /\ Legs(q)' = Legs(q) /\ \A t : TicketOf(q, t)' = TicketOf(q, t)
        /\ attempt'[q] = attempt[q] /\ verdict'[q] = verdict[q]
    BY <2>2 DEF Legs, TicketOf, IntentID
  <2>5. /\ \A t \in todo[q] : TicketOf(q, t) \in A
        /\ todo[q] \intersect SymbolsOf(Executions, attempt[q]) = {}
        /\ \A t \in todo[q] : ~IsFirst(t, todo[q]) => t \notin SymbolsOf(O, attempt[q])
    BY <1>1, <2>2 DEF OnRecord, Sending
  <2>6. SymbolsOf(Executions', attempt[q]) \subseteq SymbolsOf(Executions, attempt[q]) \union {s}
    BY <1>1, <2>1, SymbolsAdd DEF TypeOK
  <2>7. \A t \in todo[q] : IsFirst(t, todo[q]) => t = s
    BY <1>1, <2>1 DEF IsFirst, TypeOK, Symbols
  <2>8. /\ \A t \in todo'[q] : TicketOf(q, t) \in A
        /\ todo'[q] \intersect SymbolsOf(Executions', attempt[q]) = {}
        /\ todo'[q] \intersect SymbolsOf(O, attempt[q]) = {}
    BY <2>3, <2>5, <2>6, <2>7
  <2> HIDE DEF A, O
  <2> QED
    BY <2>1, <2>3, <2>4, <2>8 DEF OnRecord, Early, Sending, A, O
<1>14. ASSUME NEW r \in Runs, Start(r) \/ RunStep(r) \/ WriteFails(r) \/ Killed(r)
       PROVE  OnRecord(q)'
  <2>1. CASE r # q
    BY <1>4, <1>14, <2>1
  <2>2. CASE r = q
    BY <1>6, <1>7, <1>8, <1>9, <1>10, <1>11, <1>12, <1>13, <1>14, <2>2 DEF RunStep
  <2> QED
    BY <2>1, <2>2
<1> QED
  BY <1>2, <1>3, <1>14 DEF Next

\* The marker and the history agree, and no barred run comes past the marker.
LEMMA StoppedStep ==
  ASSUME IInv, [Next]_vars
  PROVE  Stopped'
<1> USE DEF history, locals, Goto, WriteLine
<1>1. TypeOK /\ Fresh /\ Stopped
  BY DEF IInv
<1>2. /\ \A r \in Active : attempt[r] \in 1 .. attempts
      /\ barred \subseteq 1 .. attempts /\ attempts \in Nat
  BY <1>1 DEF TypeOK, InRange, Active
<1> DEFINE Held(r) == attempt[r] \in barred =>
       pc[r] \in {"start", "marker", "halt", "halted"} /\ (pc[r] \in {"start", "marker"} => marker)
<1>3. stopped = marker /\ \A r \in Active : Held(r)
  BY <1>1 DEF Stopped
<1>4. ASSUME stopped' = marker', \A r \in Active' : Held(r)' PROVE Stopped'
  BY <1>4 DEF Stopped
<1>5. ASSUME NEW r \in Runs, Start(r) PROVE Stopped'
  <2>1. /\ pc' = [pc EXCEPT ![r] = "start"] /\ marker' = marker /\ stopped' = stopped
        /\ attempt' = [attempt EXCEPT ![r] = attempts + 1]
        /\ barred' = IF stopped THEN barred \union {attempts + 1} ELSE barred
    BY <1>5 DEF Start
  <2>2. Held(r)'
    BY <1>1, <1>2, <1>3, <2>1 DEF TypeOK
  <2>3. ASSUME NEW q \in Active', q # r PROVE Held(q)'
    <3>1. q \in Active /\ pc'[q] = pc[q] /\ attempt'[q] = attempt[q]
      BY <1>1, <2>1, <2>3 DEF TypeOK, Active
    <3>2. attempt[q] \in barred' => attempt[q] \in barred
      BY <1>2, <2>1, <3>1
    <3> QED
      BY <1>3, <2>1, <3>1, <3>2
  <2> QED
    BY <1>3, <1>4, <2>1, <2>2, <2>3
<1>6. ASSUME NEW r \in Runs, Kill(r) PROVE Stopped'
  <2>1. /\ pc' = [pc EXCEPT ![r] = "halt"] /\ marker' = TRUE /\ stopped' = TRUE
        /\ attempt' = attempt /\ barred' = barred \union {attempt[r]} /\ pc[r] = "gate"
    BY <1>6 DEF Kill
  <2>2. ASSUME NEW q \in Active' PROVE Held(q)'
    <3>1. q \in Active /\ r \in Active
      BY <1>1, <2>1, <2>2 DEF TypeOK, Active
    <3>2. q # r => attempt[q] # attempt[r]
      BY <1>1, <3>1 DEF Fresh
    <3> QED
      BY <1>1, <1>3, <2>1, <3>1, <3>2 DEF TypeOK
  <2> QED
    BY <1>4, <2>1, <2>2
<1>7. CASE Halt
  BY <1>3, <1>4, <1>7 DEF Halt, Active
<1>8. CASE Resume
  <2>1. /\ pc' = pc /\ attempt' = attempt /\ marker' = FALSE /\ stopped' = FALSE
        /\ barred' = barred \ {attempt[r] : r \in {c \in Runs : pc[c] \in {"start", "marker"}}}
    BY <1>8 DEF Resume
  <2>2. ASSUME NEW q \in Active' PROVE Held(q)'
    BY <1>3, <2>1, <2>2 DEF Active
  <2> QED
    BY <1>4, <2>1, <2>2
<1> DEFINE Moves(q) == \/ pc'[q] = pc[q] \/ pc'[q] = "idle"
                       \/ pc[q] = "start" /\ pc'[q] = "marker"
                       \/ pc[q] = "marker" /\ pc'[q] = "halt"
                       \/ pc[q] = "marker" /\ pc'[q] = "gather" /\ ~marker
                       \/ pc[q] = "halt" /\ pc'[q] = "halted"
                       \/ pc[q] \notin {"idle", "start", "marker", "halt", "halted"}
<1>9. ASSUME UNCHANGED <<marker, history>>, \A q \in Runs : Moves(q)
      PROVE  Stopped'
  <2>1. ASSUME NEW q \in Active' PROVE Held(q)'
    <3>1. q \in Runs /\ pc'[q] # "idle" /\ Moves(q)
      BY <1>9, <2>1 DEF Active
    <3>2. q \in Active
      BY <3>1 DEF Active
    <3>3. Held(q)
      BY <1>3, <3>2
    <3>4. attempt'[q] = attempt[q] /\ barred' = barred /\ marker' = marker
      BY <1>9
    <3> QED
      BY <3>1, <3>3, <3>4
  <2>2. stopped' = marker'
    BY <1>3, <1>9
  <2> QED
    BY <1>4, <2>1, <2>2
<1>10. ASSUME NEW r \in Runs, RunStep(r) \/ WriteFails(r) \/ Killed(r), ~Kill(r)
       PROVE  Stopped'
  <2>1. UNCHANGED <<marker, history>>
    BY <1>10 DEF RunStep, Bracket, ReadMarker, Refuse, Gather, Decide, WriteDecision, Stamp,
       Submit, Place, PlaceFails, FetchFills, WriteFill, Complete, WriteFails, Killed
  <2>2. \A q \in Runs : q # r => pc'[q] = pc[q]
    BY <1>1, <1>10, OneAtATime
  <2>3. Moves(r)
    <3>1. pc \in [Runs -> Writing \union {"idle", "marker", "gate"}]
      BY <1>1 DEF TypeOK
    <3>2. CASE ReadMarker(r)
      BY <3>1, <3>2 DEF ReadMarker
    <3>3. CASE Bracket(r)
      BY <3>1, <3>3 DEF Bracket
    <3>4. CASE WriteFails(r) \/ Killed(r)
      BY <3>1, <3>4 DEF WriteFails, Killed
    <3>5. ASSUME RunStep(r), ~Kill(r), ~ReadMarker(r), ~Bracket(r)
          PROVE  pc[r] \notin {"idle", "start", "marker", "halt", "halted"}
      BY <3>5 DEF RunStep, Refuse, Gather, Decide, WriteDecision, Stamp, Submit, Place,
         PlaceFails, FetchFills, WriteFill, Complete
    <3> QED
      BY <1>10, <3>2, <3>3, <3>4, <3>5
  <2>4. ASSUME NEW q \in Runs PROVE Moves(q)
    <3>1. CASE q = r
      BY <2>3, <3>1
    <3>2. CASE q # r
      BY <2>2, <3>2
    <3> QED
      BY <3>1, <3>2
  <2> HIDE DEF Moves
  <2> QED
    BY <1>9, <2>1, <2>4
<1>11. CASE PowerLoss \/ UNCHANGED vars
  <2>1. UNCHANGED <<marker, history>> /\ \A q \in Runs : pc'[q] \in {pc[q], "idle"}
    BY <1>11 DEF PowerLoss, vars
  <2>2. ASSUME NEW q \in Runs PROVE Moves(q)
    BY <2>1
  <2> HIDE DEF Moves
  <2> QED
    BY <1>9, <2>1, <2>2
<1> QED
  <2>1. ASSUME NEW r \in Runs, Start(r) \/ RunStep(r) \/ WriteFails(r) \/ Killed(r)
        PROVE  Stopped'
    BY <1>5, <1>6, <1>10, <2>1
  <2> QED
    BY <1>7, <1>8, <1>11, <2>1 DEF Next

\* Nothing is executed for a barred run, and no run that executed is barred.
LEMMA HaltStep ==
  ASSUME IInv, [Next]_vars
  PROVE  HaltHolds'
<1> USE DEF history, locals, Goto, WriteLine
<1>1. TypeOK /\ TornQuiet /\ Fresh /\ Stopped /\ HaltHolds /\ \A r \in Runs : OnRecord(r)
  BY DEF IInv
<1>2. ASSUME Executions' = Executions, barred' \subseteq barred PROVE HaltHolds'
  BY <1>1, <1>2 DEF HaltHolds
<1>3. ASSUME NEW r \in Runs, Start(r) PROVE HaltHolds'
  <2>1. Executions' = Executions /\ barred' \subseteq barred \union {attempts + 1}
    BY <1>3 DEF Start, Executions
  <2>2. \A e \in Executions : e.run # attempts + 1
    BY <1>1 DEF Fresh, TypeOK
  <2> QED
    BY <1>1, <2>1, <2>2 DEF HaltHolds
<1>4. ASSUME NEW r \in Runs, Kill(r) PROVE HaltHolds'
  <2>1. Executions' = Executions /\ barred' = barred \union {attempt[r]} /\ pc[r] = "gate"
    BY <1>4 DEF Kill, Executions
  <2>2. SymbolsOf(Executions, attempt[r]) = {}
    BY <1>1, <2>1 DEF OnRecord, Early
  <2>3. \A e \in Executions : e.run # attempt[r]
    BY <2>2 DEF SymbolsOf
  <2> QED
    BY <1>1, <2>1, <2>3 DEF HaltHolds
<1>5. ASSUME NEW r \in Runs, Place(r) PROVE HaltHolds'
  <2>1. PICK s \in todo[r] : Executions' = Executions \union {TicketOf(r, s)}
    BY <1>1, <1>5, PlaceEffect
  <2>2. pc[r] = "place" /\ barred' = barred
    BY <1>5 DEF Place
  <2>3. attempt[r] \notin barred
    BY <1>1, <2>2 DEF Stopped, Active
  <2>4. TicketOf(r, s).run = attempt[r]
    BY DEF TicketOf
  <2> QED
    BY <1>1, <2>1, <2>2, <2>3, <2>4 DEF HaltHolds
<1>6. ASSUME NEW r \in Runs, RunStep(r) \/ WriteFails(r) \/ Killed(r), ~Kill(r), ~Place(r)
      PROVE  HaltHolds'
  <2>1. barred' = barred
    BY <1>6 DEF RunStep, Bracket, ReadMarker, Refuse, Gather, Decide, WriteDecision, Stamp,
       Submit, PlaceFails, FetchFills, WriteFill, Complete, WriteFails, Killed
  <2>2. fills' = fills
    BY <1>6 DEF RunStep, Bracket, ReadMarker, Refuse, Gather, Decide, WriteDecision, Stamp,
       Submit, PlaceFails, FetchFills, WriteFill, Complete, WriteFails, Killed
  <2> QED
    BY <1>2, <2>1, <2>2 DEF Executions
<1>7. CASE PowerLoss \/ Halt \/ Resume \/ UNCHANGED vars
  BY <1>2, <1>7 DEF PowerLoss, Halt, Resume, vars, Executions
<1> QED
  <2>1. ASSUME NEW r \in Runs, Start(r) \/ RunStep(r) \/ WriteFails(r) \/ Killed(r)
        PROVE  HaltHolds'
    BY <1>3, <1>4, <1>5, <1>6, <2>1
  <2> QED
    BY <1>7, <2>1 DEF Next

-----------------------------------------------------------------------------
(* The theorems *)

LEMMA InitIInv == Init => IInv
<1> SUFFICES ASSUME Init PROVE IInv
  OBVIOUS
<1>1. TypeOK
  BY ConstantsOK DEF Init, TypeOK, InRange
<1>2. file = <<>> /\ fills = <<>> /\ \A r \in Runs : pc[r] = "idle"
  BY DEF Init
<1>3. Fresh
  BY <1>2 DEF Fresh, Active, OnDisk, Executions
<1>4. TornQuiet /\ HaltHolds
  BY <1>2 DEF TornQuiet, EndsTorn, HaltHolds, Executions
<1>5. \A r \in Runs : OnRecord(r)
  BY <1>2 DEF OnRecord, Early, Sending
<1>6. Stopped
  BY <1>2 DEF Init, Stopped, Active
<1> QED
  BY <1>1, <1>3, <1>4, <1>5, <1>6 DEF IInv

\* The invariant is kept by every step.
LEMMA NextIInv == Alone /\ TypeOK' /\ IInv /\ [Next]_vars => IInv'
<1> SUFFICES ASSUME Alone, TypeOK', IInv, [Next]_vars PROVE IInv'
  OBVIOUS
<1>1. TornQuiet'
  BY TornStep DEF IInv
<1>2. Fresh' /\ (\A r \in Runs : OnRecord(r)')
  BY FreshStep, RecordStep
<1>3. Stopped' /\ HaltHolds'
  BY StoppedStep, HaltStep
<1> QED
  BY <1>1, <1>2, <1>3 DEF IInv

THEOREM Inductive ==
  ASSUME Alone
  PROVE  Spec => []IInv
<1>1. IInv /\ TypeOK' /\ [Next]_vars => IInv'
  BY NextIInv
<1> QED
  BY <1>1, InitIInv, TypeCorrect, PTL DEF Spec

\* A halt holds for any callers, symbols, targets and limits.
THEOREM HaltHoldsAlways ==
  ASSUME Alone
  PROVE  Spec => []HaltHolds
<1>1. IInv => HaltHolds
  BY DEF IInv
<1> QED
  BY <1>1, Inductive, PTL

\* Each step of the cycle is a step of the ledger, or none.
LEMMA LedgerStep == IInv /\ [Next]_vars => [Ledger!LedgerNext]_(Ledger!ledgerVars)
<1> SUFFICES ASSUME IInv, [Next]_vars PROVE [Ledger!LedgerNext]_(Ledger!ledgerVars)
  OBVIOUS
<1>1. TypeOK /\ TornQuiet /\ \A r \in Runs : OnRecord(r)
  BY DEF IInv
<1>2. ASSUME QuietStep PROVE UNCHANGED Ledger!ledgerVars
  BY <1>2 DEF QuietStep, Ledger!ledgerVars
<1>3. CASE PowerLoss \/ Halt \/ Resume \/ UNCHANGED vars
  BY <1>1, <1>2, <1>3, QuietSteps
<1>4. ASSUME NEW r \in Runs, QuietRun(r) PROVE UNCHANGED Ledger!ledgerVars
  BY <1>1, <1>2, <1>4, QuietSteps
<1>5. ASSUME NEW r \in Runs, WriteDecision(r) PROVE [Ledger!LedgerNext]_(Ledger!ledgerVars)
  <2>1. PICK s \in todo[r] :
          /\ OnDisk(file, "allowed")' = OnDisk(file, "allowed") \union
               (IF verdict[r][s] > 0 THEN {TicketOf(r, s)} ELSE {})
          /\ OnDisk(file, "order")' = OnDisk(file, "order") /\ Executions' = Executions
          /\ TicketOf(r, s) \notin OnDisk(file, "allowed")
    BY <1>1, <1>5, DecisionEffect
  <2>2. CASE verdict[r][s] > 0
    <3>1. Ledger!Allow(TicketOf(r, s)) /\ TicketOf(r, s) \in OnDisk(file, "allowed")'
      BY <2>1, <2>2 DEF Ledger!Allow
    <3> QED
      BY <3>1 DEF Ledger!LedgerNext
  <2>3. CASE ~(verdict[r][s] > 0)
    BY <1>2, <2>1, <2>3 DEF QuietStep
  <2> QED
    BY <2>2, <2>3
<1>6. ASSUME NEW r \in Runs, Submit(r) PROVE Ledger!LedgerNext
  <2>1. PICK s \in todo[r] :
          /\ OnDisk(file, "order")' = OnDisk(file, "order") \union {TicketOf(r, s)}
          /\ OnDisk(file, "allowed")' = OnDisk(file, "allowed") /\ Executions' = Executions
          /\ TicketOf(r, s) \in OnDisk(file, "allowed") \ OnDisk(file, "order")
    BY <1>1, <1>6, SubmitEffect
  <2> QED
    BY <2>1 DEF Ledger!Submit, Ledger!LedgerNext
<1>7. ASSUME NEW r \in Runs, Place(r) PROVE Ledger!LedgerNext
  <2>1. PICK s \in todo[r] :
          /\ Executions' = Executions \union {TicketOf(r, s)}
          /\ OnDisk(file, "allowed")' = OnDisk(file, "allowed")
          /\ OnDisk(file, "order")' = OnDisk(file, "order")
          /\ TicketOf(r, s) \in OnDisk(file, "order") \ Executions
    BY <1>1, <1>7, PlaceEffect
  <2> QED
    BY <2>1 DEF Ledger!Execute, Ledger!LedgerNext
<1> QED
  BY <1>3, <1>4, <1>5, <1>6, <1>7 DEF Next, RunStep, QuietRun

\* The journal implements the ledger, for any callers, symbols, targets and limits.
THEOREM WriteAheadHolds ==
  ASSUME Alone
  PROVE  Spec => WriteAhead
<1>1. Init => Ledger!LedgerInit
  BY DEF Init, Ledger!LedgerInit, OnDisk, Executions
<1> QED
  BY <1>1, Inductive, LedgerStep, PTL DEF Spec, WriteAhead, Ledger!LedgerSpec

-----------------------------------------------------------------------------
(* One caller at a time: the day's runs one after the other, whatever cut  *)
(* them off.                                                               *)

OneCaller == \A r, q \in Runs : r = q

LEMMA OneIsAlone == OneCaller => Alone
BY DEF OneCaller, Alone

Acts(r) == Start(r) \/ RunStep(r) \/ WriteFails(r) \/ Killed(r)

\* The steps that leave a run between its quotes and its fills.
LEMMA Reaches ==
  ASSUME OneCaller, TypeOK, [Next]_vars, NEW r \in Runs,
         pc'[r] \in {"gate", "decision", "submit", "place", "fills"}
  PROVE  \/ Gather(r) \/ Decide(r) \/ WriteDecision(r) \/ Stamp(r) \/ Submit(r) \/ Place(r)
         \/ PlaceFails(r) \/ FetchFills(r) \/ WriteFill(r)
         \/ UNCHANGED <<file, held, fills, pc, attempt, locals>>
<1> USE DEF TypeOK, Goto, WriteLine
<1>1. CASE Halt \/ Resume \/ UNCHANGED vars
  BY <1>1 DEF Halt, Resume, vars, history
<1>2. CASE PowerLoss
  BY <1>2 DEF PowerLoss
<1>3. CASE \E q \in Runs : Start(q) \/ RunStep(q) \/ WriteFails(q) \/ Killed(q)
  <2>1. Start(r) \/ RunStep(r) \/ WriteFails(r) \/ Killed(r)
    BY <1>3 DEF OneCaller
  <2>2. ASSUME Start(r) \/ Bracket(r) \/ ReadMarker(r) \/ Refuse(r) \/ Kill(r) \/ Complete(r)
               \/ WriteFails(r) \/ Killed(r)
        PROVE  FALSE
    BY <2>2 DEF Start, Bracket, ReadMarker, Refuse, Kill, Complete, WriteFails, Killed
  <2> QED BY <2>1, <2>2 DEF RunStep
<1> QED BY <1>1, <1>2, <1>3 DEF Next

-----------------------------------------------------------------------------
(* No position passes the targets.                                         *)

\* What a run has still to send takes the positions to targets of the day.
OnTheWay(r) ==
  /\ pc[r] \in {"gate", "decision"} =>
       \E w \in Targets : \A s \in Symbols : held[s] + delta[r][s] = w[s]
  /\ pc[r] \in Sending =>
       \E w \in Targets : \A s \in todo[r] : held[s] + delta[r][s] = w[s]
  /\ pc[r] \in {"decision"} \union Sending =>
       \A s \in Symbols : verdict[r][s] <= Size(delta[r][s])

TargetInv == TypeOK /\ NeverPastTarget /\ \A r \in Runs : OnTheWay(r)

LEMMA OnTheWayStep ==
  ASSUME OneCaller, TypeOK, TypeOK', [Next]_vars, NEW r \in Runs, OnTheWay(r)
  PROVE  OnTheWay(r)'
<1> USE DEF TypeOK, Goto, WriteLine, Sending
<1>1. CASE pc'[r] \notin {"gate", "decision", "submit", "place"}
  BY <1>1 DEF OnTheWay
<1>2. CASE pc'[r] \in {"gate", "decision", "submit", "place"}
  <2>1. CASE Gather(r)
    <3>1. PICK w \in Targets : delta' = [delta EXCEPT ![r] = [s \in Symbols |-> w[s] - held[s]]]
      BY <2>1 DEF Gather
    <3>2. pc'[r] = "gate" /\ held' = held
      BY <2>1 DEF Gather
    <3>3. \A s \in Symbols : held[s] \in Int /\ w[s] \in Int /\ delta'[r][s] = w[s] - held[s]
      BY <3>1, ConstantsOK
    <3>4. ASSUME NEW s \in Symbols PROVE held[s] + delta'[r][s] = w[s]
      <4>1. held[s] \in Int /\ w[s] \in Int /\ delta'[r][s] = w[s] - held[s]
        BY <3>3
      <4> HIDE DEF TypeOK
      <4> QED BY <4>1
    <3> QED BY <3>2, <3>4 DEF OnTheWay
  <2>2. CASE Decide(r)
    <3>1. verdict'[r] \in Verdicts(delta[r]) /\ pc'[r] = "decision" /\ pc[r] = "gate"
          /\ UNCHANGED <<held, delta>>
      BY <2>2 DEF Decide
    <3>2. \A s \in Symbols : verdict'[r][s] <= Size(delta[r][s])
      BY <3>1 DEF Verdicts
    <3> QED BY <3>1, <3>2 DEF OnTheWay
  <2>3. CASE WriteDecision(r)
    <3>1. pc'[r] = "decision" /\ pc[r] = "decision" /\ UNCHANGED <<held, delta, verdict>>
      BY <2>3 DEF WriteDecision
    <3> QED BY <3>1 DEF OnTheWay
  <2>4. CASE Stamp(r)
    <3>1. pc'[r] = "submit" /\ pc[r] = "decision" /\ UNCHANGED <<held, delta, verdict>>
      BY <2>4 DEF Stamp
    <3>2. todo'[r] \subseteq Symbols
      BY <2>4 DEF Stamp, Legs
    <3> QED BY <3>1, <3>2 DEF OnTheWay
  <2>5. CASE Submit(r)
    <3>1. pc'[r] = "place" /\ pc[r] = "submit" /\ UNCHANGED <<held, delta, verdict, todo>>
      BY <2>5 DEF Submit, locals
    <3> QED BY <3>1 DEF OnTheWay
  <2>6. CASE Place(r)
    <3>1. PICK s \in todo[r] :
            /\ held' = [held EXCEPT ![s] = IF delta[r][s] > 0 THEN @ + verdict[r][s] ELSE @ - verdict[r][s]]
            /\ todo' = [todo EXCEPT ![r] = @ \ {s}]
            /\ pc[r] = "place" /\ pc'[r] = "submit" /\ UNCHANGED <<delta, verdict>>
      BY <2>6 DEF Place
    <3>2. todo[r] \subseteq Symbols /\ todo'[r] = todo[r] \ {s}
      BY <3>1
    <3>3. \A t \in todo'[r] : held'[t] = held[t]
      BY <3>1, <3>2
    <3> QED BY <3>1, <3>2, <3>3 DEF OnTheWay
  <2>7. CASE PlaceFails(r)
    <3>1. todo'[r] \subseteq todo[r] /\ pc[r] = "place" /\ pc'[r] = "submit" /\ UNCHANGED <<held, delta, verdict>>
      BY <2>7 DEF PlaceFails
    <3> QED BY <3>1 DEF OnTheWay
  <2>8. CASE FetchFills(r) \/ WriteFill(r)
    BY <1>2, <2>8 DEF FetchFills, WriteFill
  <2>9. CASE UNCHANGED <<file, held, fills, pc, attempt, locals>>
    BY <2>9 DEF OnTheWay, locals
  <2> QED BY <1>2, <2>1, <2>2, <2>3, <2>4, <2>5, <2>6, <2>7, <2>8, <2>9, Reaches
<1> QED BY <1>1, <1>2

\* Only the book moves a position, by no more than the run asked for.
LEMMA TargetStep ==
  ASSUME OneCaller, TargetInv, [Next]_vars
  PROVE  NeverPastTarget'
<1> USE DEF TypeOK
<1>1. CASE held' = held
  BY <1>1 DEF TargetInv, NeverPastTarget
<1>2. ASSUME NEW r \in Runs, Place(r) PROVE NeverPastTarget'
  <2>1. PICK s \in todo[r] :
          /\ held' = [held EXCEPT ![s] = IF delta[r][s] > 0 THEN @ + verdict[r][s] ELSE @ - verdict[r][s]]
          /\ pc[r] = "place"
    BY <1>2 DEF Place
  <2>2. PICK w \in Targets : \A t \in todo[r] : held[t] + delta[r][t] = w[t]
    BY <2>1 DEF TargetInv, OnTheWay, Sending
  <2>3. s \in Symbols /\ held[s] \in Int /\ delta[r][s] \in Int /\ verdict[r][s] \in Nat /\ w[s] \in Int
        /\ verdict[r][s] <= Size(delta[r][s]) /\ held[s] + delta[r][s] = w[s]
    BY <2>1, <2>2, ConstantsOK DEF TargetInv, OnTheWay, Sending
  <2>4. \A t \in Symbols : held'[t] = IF t = s THEN (IF delta[r][s] > 0 THEN held[s] + verdict[r][s]
                                                                      ELSE held[s] - verdict[r][s])
                                              ELSE held[t]
    BY <2>1, <2>3 DEF TargetInv
  <2>5. CASE delta[r][s] > 0
    <3>1. held'[s] \in Int /\ held[s] <= held'[s] /\ held'[s] <= w[s]
      BY <2>3, <2>4, <2>5 DEF Size
    <3>2. held'[s] >= 0 \/ \E v \in Targets : v[s] <= held'[s]
      <4>1. CASE held[s] >= 0
        BY <2>3, <3>1, <4>1
      <4>2. CASE ~(held[s] >= 0)
        <5>1. PICK v \in Targets : v[s] <= held[s]
          BY <2>3, <4>2 DEF TargetInv, NeverPastTarget
        <5>2. v[s] \in Int
          BY <2>3, ConstantsOK
        <5> QED BY <2>3, <3>1, <5>1, <5>2
      <4> QED BY <4>1, <4>2
    <3> QED BY <2>4, <3>1, <3>2 DEF TargetInv, NeverPastTarget
  <2>6. CASE ~(delta[r][s] > 0)
    <3>1. held'[s] \in Int /\ held'[s] <= held[s] /\ w[s] <= held'[s]
      BY <2>3, <2>4, <2>6 DEF Size
    <3>2. held'[s] <= 0 \/ \E v \in Targets : v[s] >= held'[s]
      <4>1. CASE held[s] <= 0
        BY <2>3, <3>1, <4>1
      <4>2. CASE ~(held[s] <= 0)
        <5>1. PICK v \in Targets : v[s] >= held[s]
          BY <2>3, <4>2 DEF TargetInv, NeverPastTarget
        <5>2. v[s] \in Int
          BY <2>3, ConstantsOK
        <5> QED BY <2>3, <3>1, <5>1, <5>2
      <4> QED BY <4>1, <4>2
    <3> QED BY <2>4, <3>1, <3>2 DEF TargetInv, NeverPastTarget
  <2> QED BY <2>5, <2>6
<1>3. held' = held \/ \E r \in Runs : Place(r)
  BY DEF Next, RunStep, Start, Bracket, ReadMarker, Refuse, Gather, Kill, Decide, WriteDecision, Stamp,
         Submit, PlaceFails, FetchFills, WriteFill, Complete, WriteFails, Killed, PowerLoss, Halt, Resume, vars
<1> QED BY <1>1, <1>2, <1>3

\* However often one caller runs the day, and wherever its runs are cut off, no
\* position passes the targets, for any symbols, targets and verdicts.
THEOREM TargetsHold ==
  ASSUME OneCaller
  PROVE  Spec => []NeverPastTarget
<1>1. Init => NeverPastTarget /\ \A r \in Runs : OnTheWay(r)
  BY DEF Init, NeverPastTarget, OnTheWay, Sending
<1>2. TargetInv /\ TypeOK' /\ [Next]_vars => TargetInv'
  BY TargetStep, OnTheWayStep DEF TargetInv
<1>3. TargetInv => NeverPastTarget
  BY DEF TargetInv
<1>4. TypeOK /\ NeverPastTarget /\ (\A r \in Runs : OnTheWay(r)) => TargetInv
  BY DEF TargetInv
<1> QED BY <1>1, <1>2, <1>3, <1>4, TypeCorrect, PTL DEF Spec

-----------------------------------------------------------------------------
(* The lines a step writes.                                                *)

\* Every step leaves the file alone, cuts its last line short, or writes one
\* line: the orders, the decisions, the fills and the ends of runs each by
\* their own step.
LEMMA LineStep ==
  ASSUME TypeOK, [Next]_vars
  PROVE  \/ file' = file \/ file' = CutShort(file)
         \/ \E r \in Runs, e \in Event :
              /\ file' = Written(file, e) /\ e.kind # "torn" /\ e.kind # "bad"
              /\ e.kind = "order" => Submit(r)
              /\ e.kind \in {"allowed", "refused"} => WriteDecision(r)
              /\ e.kind = "fill" => WriteFill(r) /\ Ticket(e) = fills[next[r]]
              /\ e.kind = "completed" => Complete(r) /\ e.run = attempt[r]
<1> USE DEF WriteLine
<1>1. CASE PowerLoss \/ Halt \/ Resume \/ UNCHANGED vars
  BY <1>1 DEF PowerLoss, Halt, Resume, vars
<1>2. ASSUME NEW r \in Runs, Bracket(r)
      PROVE  \E e \in Event : file' = Written(file, e) /\ e.kind \in {"started", "halt", "halted", "error", "failed"}
  <2>1. PICK kind \in {"started", "halt", "halted", "error", "failed"} : file' = Written(file, Line(kind, r))
    BY <1>2 DEF Bracket
  <2>2. Line(kind, r) \in Event /\ Line(kind, r).kind = kind
    BY LineTypes DEF Kinds, Line
  <2> QED BY <2>1, <2>2
<1>3. ASSUME NEW r \in Runs, WriteDecision(r)
      PROVE  \E e \in Event : file' = Written(file, e) /\ e.kind \in {"allowed", "refused"}
  <2>1. PICK s \in todo[r], kind \in {"allowed", "refused"} :
          file' = Written(file, IntentLine(kind, r, s, verdict[r][s]))
    BY <1>3 DEF WriteDecision
  <2>2. IntentLine(kind, r, s, verdict[r][s]) \in Event /\ IntentLine(kind, r, s, verdict[r][s]).kind = kind
    BY LineTypes DEF TypeOK, Kinds, IntentLine
  <2> QED BY <2>1, <2>2
<1>4. ASSUME NEW r \in Runs, Submit(r)
      PROVE  \E e \in Event : file' = Written(file, e) /\ e.kind = "order"
  <2>1. PICK s \in todo[r] : file' = Written(file, IntentLine("order", r, s, verdict[r][s]))
    BY <1>4 DEF Submit
  <2>2. IntentLine("order", r, s, verdict[r][s]) \in Event /\ IntentLine("order", r, s, verdict[r][s]).kind = "order"
    BY LineTypes DEF TypeOK, Kinds, IntentLine
  <2> QED BY <2>1, <2>2
<1>5. ASSUME NEW r \in Runs, PlaceFails(r)
      PROVE  \E e \in Event : file' = Written(file, e) /\ e.kind = "error"
  <2>1. PICK s \in todo[r] : file' = Written(file, IntentLine("error", r, s, 0))
    BY <1>5 DEF PlaceFails
  <2>2. IntentLine("error", r, s, 0) \in Event /\ IntentLine("error", r, s, 0).kind = "error"
    BY LineTypes DEF TypeOK, Kinds, IntentLine
  <2> QED BY <2>1, <2>2
<1>6. ASSUME NEW r \in Runs, WriteFill(r)
      PROVE  \E e \in Event : file' = Written(file, e) /\ e.kind = "fill" /\ Ticket(e) = fills[next[r]]
  <2> DEFINE f == fills[next[r]]
             e == [kind |-> "fill", run |-> f.run, intent |-> f.intent, qty |-> f.qty]
  <2>1. f \in Execution /\ file' = Written(file, e)
    BY <1>6 DEF WriteFill, TypeOK, InRange
  <2>2. e \in Event /\ e.kind = "fill" /\ Ticket(e) = f
    BY <2>1 DEF Execution, Event, Kinds, Ticket
  <2> HIDE DEF e, f
  <2>3. \E x \in Event : file' = Written(file, x) /\ x.kind = "fill" /\ Ticket(x) = f
    BY <2>1, <2>2
  <2> QED BY <2>3 DEF f
<1>7. ASSUME NEW r \in Runs, Complete(r)
      PROVE  \E e \in Event : file' = Written(file, e) /\ e.kind = "completed" /\ e.run = attempt[r]
  <2>1. Line("completed", r) \in Event /\ Line("completed", r).kind = "completed"
        /\ Line("completed", r).run = attempt[r]
    BY LineTypes DEF Kinds, Line
  <2> QED BY <1>7, <2>1 DEF Complete
<1>8. ASSUME NEW r \in Runs, WriteFails(r) PROVE file' = file \/ file' = CutShort(file)
  BY <1>8 DEF WriteFails
<1>9. ASSUME NEW r \in Runs,
             \/ Start(r) \/ ReadMarker(r) \/ Refuse(r) \/ Gather(r) \/ Kill(r) \/ Decide(r)
             \/ Stamp(r) \/ Place(r) \/ FetchFills(r) \/ Killed(r)
      PROVE  file' = file
  BY <1>9 DEF Start, ReadMarker, Refuse, Gather, Kill, Decide, Stamp, Place, FetchFills, Killed
<1>10. ASSUME NEW r \in Runs, Start(r) \/ RunStep(r) \/ WriteFails(r) \/ Killed(r)
       PROVE  \/ file' = file \/ file' = CutShort(file)
              \/ \E e \in Event :
                   /\ file' = Written(file, e) /\ e.kind # "torn" /\ e.kind # "bad"
                   /\ e.kind = "order" => Submit(r)
                   /\ e.kind \in {"allowed", "refused"} => WriteDecision(r)
                   /\ e.kind = "fill" => WriteFill(r) /\ Ticket(e) = fills[next[r]]
                   /\ e.kind = "completed" => Complete(r) /\ e.run = attempt[r]
  <2>1. CASE Bracket(r)
    BY <1>2, <2>1
  <2>2. CASE WriteDecision(r)
    BY <1>3, <2>2
  <2>3. CASE Submit(r)
    BY <1>4, <2>3
  <2>4. CASE PlaceFails(r)
    BY <1>5, <2>4
  <2>5. CASE WriteFill(r)
    BY <1>6, <2>5
  <2>6. CASE Complete(r)
    BY <1>7, <2>6
  <2> QED BY <1>8, <1>9, <1>10, <2>1, <2>2, <2>3, <2>4, <2>5, <2>6 DEF RunStep
<1> QED BY <1>1, <1>10 DEF Next

-----------------------------------------------------------------------------
(* journal.Check.                                                          *)

\* The last decision on an intent in a file, if any, allowed it.
AllowedLast(f, x) ==
  \E i \in DOMAIN f :
    /\ f[i].kind = "allowed" /\ f[i].intent = x
    /\ \A k \in DOMAIN f : k > i /\ f[k].kind = "refused" => f[k].intent # x

\* What one line does to it.
LEMMA AllowedWritten ==
  ASSUME NEW f \in Seq(Event), NEW e \in Event, ~EndsTorn(f), NEW x,
         \/ AllowedLast(f, x) /\ (e.kind = "refused" => e.intent # x)
         \/ e.kind = "allowed" /\ e.intent = x
  PROVE  AllowedLast(Written(f, e), x)
<1> DEFINE g == Append(f, e)
<1>1. Written(f, e) = g
  BY DEF Written
<1>2. /\ DOMAIN g = 1 .. Len(f) + 1 /\ DOMAIN f = 1 .. Len(f) /\ Len(f) \in Nat
      /\ g[Len(f) + 1] = e /\ \A j \in DOMAIN f : g[j] = f[j]
  OBVIOUS
<1> HIDE DEF g
<1>3. CASE AllowedLast(f, x) /\ (e.kind = "refused" => e.intent # x)
  <2>1. PICK i \in DOMAIN f :
          /\ f[i].kind = "allowed" /\ f[i].intent = x
          /\ \A k \in DOMAIN f : k > i /\ f[k].kind = "refused" => f[k].intent # x
    BY <1>3 DEF AllowedLast
  <2>2. i \in DOMAIN g /\ g[i] = f[i]
    BY <1>2
  <2>3. ASSUME NEW k \in DOMAIN g, k > i, g[k].kind = "refused" PROVE g[k].intent # x
    <3>1. CASE k \in DOMAIN f
      BY <1>2, <2>1, <2>3, <3>1
    <3>2. CASE k \notin DOMAIN f
      <4>1. k = Len(f) + 1 BY <1>2, <3>2
      <4> QED BY <1>2, <1>3, <2>3, <4>1
    <3> QED BY <3>1, <3>2
  <2>4. AllowedLast(g, x)
    BY <2>1, <2>2, <2>3 DEF AllowedLast
  <2> QED BY <1>1, <2>4
<1>4. CASE e.kind = "allowed" /\ e.intent = x
  <2>1. \A k \in DOMAIN g : ~(k > Len(f) + 1)
    BY <1>2
  <2>2. AllowedLast(g, x)
    BY <1>2, <1>4, <2>1 DEF AllowedLast
  <2> QED BY <1>1, <2>2
<1> QED BY <1>3, <1>4

\* A file that passes goes on to pass, if an order comes after its permission.
LEMMA CheckWritten ==
  ASSUME NEW f \in Seq(Event), NEW e, CheckOK(f),
         e.kind = "order" /\ ~EndsTorn(f) => AllowedLast(f, e.intent)
  PROVE  CheckOK(Written(f, e))
<1>0. DOMAIN f = 1 .. Len(f) /\ Len(f) \in Nat
  OBVIOUS
<1>1. CASE EndsTorn(f)
  <2> DEFINE g == [f EXCEPT ![Len(f)] = Bad]
  <2>1. DOMAIN g = DOMAIN f /\ f[Len(f)].kind = "torn" /\ Len(f) \in DOMAIN f
        /\ g[Len(f)].kind = "bad" /\ \A j \in DOMAIN f : j # Len(f) => g[j] = f[j]
    BY <1>0, <1>1 DEF EndsTorn, Bad
  <2>2. Written(f, e) = g
    BY <1>1 DEF Written
  <2> HIDE DEF g
  <2>3. SUFFICES ASSUME NEW j \in DOMAIN g, g[j].kind = "order"
                 PROVE  \E i \in 1 .. j - 1 :
                          /\ g[i].kind = "allowed" /\ g[i].intent = g[j].intent
                          /\ \A k \in i + 1 .. j - 1 : g[k].kind = "refused" => g[k].intent # g[j].intent
    BY <2>2 DEF CheckOK
  <2>4. j \in DOMAIN f /\ j < Len(f) /\ g[j] = f[j]
    BY <1>0, <2>1, <2>3
  <2>5. PICK i \in 1 .. j - 1 :
          /\ f[i].kind = "allowed" /\ f[i].intent = f[j].intent
          /\ \A k \in i + 1 .. j - 1 : f[k].kind = "refused" => f[k].intent # f[j].intent
    BY <2>3, <2>4 DEF CheckOK
  <2>6. \A k \in 1 .. j - 1 : g[k] = f[k]
    BY <1>0, <2>1, <2>4
  <2>7. \A k \in i + 1 .. j - 1 : k \in 1 .. j - 1
    BY <1>0, <2>4, <2>5
  <2> QED BY <2>4, <2>5, <2>6, <2>7
<1>2. CASE ~EndsTorn(f)
  <2> DEFINE g == Append(f, e)
  <2>1. /\ DOMAIN g = 1 .. Len(f) + 1 /\ g[Len(f) + 1] = e /\ \A j \in DOMAIN f : g[j] = f[j]
    BY <1>0
  <2>2. Written(f, e) = g
    BY <1>2 DEF Written
  <2> HIDE DEF g
  <2>3. SUFFICES ASSUME NEW j \in DOMAIN g, g[j].kind = "order"
                 PROVE  \E i \in 1 .. j - 1 :
                          /\ g[i].kind = "allowed" /\ g[i].intent = g[j].intent
                          /\ \A k \in i + 1 .. j - 1 : g[k].kind = "refused" => g[k].intent # g[j].intent
    BY <2>2 DEF CheckOK
  <2>4. CASE j \in DOMAIN f
    <3>1. PICK i \in 1 .. j - 1 :
            /\ f[i].kind = "allowed" /\ f[i].intent = f[j].intent
            /\ \A k \in i + 1 .. j - 1 : f[k].kind = "refused" => f[k].intent # f[j].intent
      BY <2>1, <2>3, <2>4 DEF CheckOK
    <3>2. \A k \in 1 .. j - 1 : g[k] = f[k]
      BY <1>0, <2>1, <2>4
    <3>3. \A k \in i + 1 .. j - 1 : k \in 1 .. j - 1
      BY <1>0, <2>4, <3>1
    <3> QED BY <2>1, <2>4, <3>1, <3>2, <3>3
  <2>5. CASE j \notin DOMAIN f
    <3>1. j = Len(f) + 1 /\ g[j] = e
      BY <1>0, <2>1, <2>5
    <3>2. PICK i \in DOMAIN f :
            /\ f[i].kind = "allowed" /\ f[i].intent = e.intent
            /\ \A k \in DOMAIN f : k > i /\ f[k].kind = "refused" => f[k].intent # e.intent
      BY <1>2, <2>3, <3>1 DEF AllowedLast
    <3>3. i \in 1 .. j - 1 /\ g[i] = f[i]
      BY <1>0, <2>1, <3>1
    <3>4. ASSUME NEW k \in i + 1 .. j - 1, g[k].kind = "refused" PROVE g[k].intent # e.intent
      <4>1. k \in DOMAIN f /\ k > i
        BY <1>0, <3>1
      <4> QED BY <2>1, <3>2, <3>4, <4>1
    <3> QED BY <3>1, <3>2, <3>3, <3>4
  <2> QED BY <2>4, <2>5
<1> QED BY <1>1, <1>2

\* What a run has decided on is still allowed when its order goes out.
Backed(r) ==
  /\ pc[r] = "decision" =>
       \A s \in Legs(r) \ todo[r] : verdict[r][s] > 0 => AllowedLast(file, IntentID(r, s))
  /\ pc[r] \in Sending => \A s \in todo[r] : AllowedLast(file, IntentID(r, s))

CheckInv == IInv /\ CheckOK(file) /\ \A r \in Runs : Backed(r)

LEMMA BackedStep ==
  ASSUME OneCaller, CheckInv, [Next]_vars, NEW r \in Runs
  PROVE  Backed(r)'
<1> USE DEF Goto, WriteLine, Sending
<1>0. TypeOK /\ TornQuiet /\ Backed(r) /\ file \in Seq(Event) /\ todo[r] \subseteq Symbols
  BY DEF CheckInv, IInv, TypeOK
<1>1. CASE pc'[r] \notin {"decision", "submit", "place"}
  BY <1>1 DEF Backed
<1>2. ASSUME delta' = delta PROVE Legs(r)' = Legs(r) /\ \A s : IntentID(r, s)' = IntentID(r, s)
  BY <1>2 DEF Legs, IntentID
<1>3. CASE pc'[r] \in {"decision", "submit", "place"}
  <2>1. CASE Decide(r)
    <3>1. pc'[r] = "decision" /\ delta' = delta /\ todo'[r] = Legs(r)
      BY <1>0, <2>1 DEF Decide, TypeOK
    <3> QED BY <1>2, <3>1 DEF Backed
  <2>2. CASE WriteDecision(r)
    <3>1. PICK s \in todo[r] :
            /\ file' = Written(file, IntentLine(IF verdict[r][s] > 0 THEN "allowed" ELSE "refused",
                                                r, s, verdict[r][s]))
            /\ pc[r] = "decision" /\ pc' = [pc EXCEPT ![r] = "decision"]
            /\ todo' = [todo EXCEPT ![r] = @ \ {s}] /\ UNCHANGED <<delta, verdict>>
      BY <2>2 DEF WriteDecision
    <3> DEFINE kind == IF verdict[r][s] > 0 THEN "allowed" ELSE "refused"
               e == IntentLine(kind, r, s, verdict[r][s])
    <3>2. e \in Event /\ e.kind = kind /\ e.intent = IntentID(r, s) /\ file' = Written(file, e)
      BY <1>0, <3>1, LineTypes DEF TypeOK, Kinds, IntentLine
    <3>3. ~EndsTorn(file)
      BY <1>0, <3>1, Untorn
    <3> HIDE DEF e
    <3>4. ASSUME NEW t \in Legs(r), t \notin todo[r] \ {s}, verdict[r][t] > 0
          PROVE  AllowedLast(file', IntentID(r, t))
      <4>1. CASE t = s
        BY <1>0, <3>2, <3>3, <3>4, <4>1, AllowedWritten
      <4>2. CASE t # s
        <5>1. IntentID(r, t) # IntentID(r, s)
          BY <4>2 DEF IntentID
        <5>2. AllowedLast(file, IntentID(r, t))
          BY <1>0, <3>1, <3>4, <4>2 DEF Backed
        <5> QED BY <1>0, <3>2, <3>3, <5>1, <5>2, AllowedWritten
      <4> QED BY <4>1, <4>2
    <3>5. pc'[r] = "decision" /\ todo'[r] = todo[r] \ {s}
      BY <1>0, <3>1 DEF TypeOK
    <3> QED BY <1>2, <3>1, <3>4, <3>5 DEF Backed
  <2>3. CASE Stamp(r)
    <3>1. /\ pc[r] = "decision" /\ pc'[r] = "submit" /\ todo[r] = {} /\ UNCHANGED <<file, delta, verdict>>
          /\ todo'[r] = {s \in Legs(r) : verdict[r][s] > 0}
      BY <1>0, <2>3 DEF Stamp, TypeOK
    <3> QED BY <1>0, <1>2, <3>1 DEF Backed
  <2>4. CASE Submit(r)
    <3>1. PICK s \in todo[r] :
            /\ file' = Written(file, IntentLine("order", r, s, verdict[r][s]))
            /\ pc[r] = "submit" /\ pc'[r] = "place" /\ UNCHANGED <<delta, verdict, todo>>
      BY <1>0, <2>4 DEF Submit, TypeOK, locals
    <3> DEFINE e == IntentLine("order", r, s, verdict[r][s])
    <3>2. e \in Event /\ e.kind = "order" /\ file' = Written(file, e)
      BY <1>0, <3>1, LineTypes DEF TypeOK, Kinds, IntentLine
    <3>3. ~EndsTorn(file)
      BY <1>0, <3>1, Untorn
    <3> HIDE DEF e
    <3>4. \A t \in todo[r] : AllowedLast(file', IntentID(r, t))
      BY <1>0, <3>1, <3>2, <3>3, AllowedWritten DEF Backed
    <3> QED BY <1>2, <3>1, <3>4 DEF Backed
  <2>5. CASE Place(r)
    <3>1. todo'[r] \subseteq todo[r] /\ pc[r] = "place" /\ pc'[r] = "submit" /\ UNCHANGED <<file, delta>>
      BY <1>0, <2>5 DEF Place, TypeOK
    <3> QED BY <1>0, <1>2, <3>1 DEF Backed
  <2>6. CASE PlaceFails(r)
    <3>1. PICK s \in todo[r] :
            /\ file' = Written(file, IntentLine("error", r, s, 0))
            /\ pc[r] = "place" /\ pc'[r] = "submit" /\ delta' = delta
            /\ todo' = [todo EXCEPT ![r] = @ \ {s}]
      BY <1>0, <2>6 DEF PlaceFails, TypeOK
    <3> DEFINE e == IntentLine("error", r, s, 0)
    <3>2. e \in Event /\ e.kind = "error" /\ file' = Written(file, e)
      BY <1>0, <3>1, LineTypes DEF TypeOK, Kinds, IntentLine
    <3>3. ~EndsTorn(file)
      BY <1>0, <3>1, Untorn
    <3> HIDE DEF e
    <3>4. \A t \in todo[r] : AllowedLast(file', IntentID(r, t))
      BY <1>0, <3>1, <3>2, <3>3, AllowedWritten DEF Backed
    <3>5. todo'[r] \subseteq todo[r]
      BY <1>0, <3>1 DEF TypeOK
    <3> QED BY <1>2, <3>1, <3>4, <3>5 DEF Backed
  <2>7. CASE Gather(r) \/ FetchFills(r) \/ WriteFill(r)
    BY <1>0, <1>3, <2>7 DEF Gather, FetchFills, WriteFill, TypeOK
  <2>8. CASE UNCHANGED <<file, held, fills, pc, attempt, locals>>
    BY <1>0, <1>2, <2>8 DEF Backed, locals
  <2> QED BY <1>0, <1>3, <2>1, <2>2, <2>3, <2>4, <2>5, <2>6, <2>7, <2>8, Reaches
<1> QED BY <1>1, <1>3

LEMMA CheckStep ==
  ASSUME OneCaller, CheckInv, [Next]_vars
  PROVE  CheckOK(file')
<1>0. TypeOK /\ CheckOK(file) /\ file \in Seq(Event) /\ \A r \in Runs : Backed(r)
  BY DEF CheckInv, IInv, TypeOK
<1>1. CASE file' = file
  BY <1>0, <1>1
<1>2. CASE file' = CutShort(file)
  <2>1. Torn.kind # "order" /\ (~EndsTorn(file) => file' = Written(file, Torn))
        /\ (EndsTorn(file) => file' = file)
    BY <1>2 DEF CutShort, Written, Torn
  <2> QED BY <1>0, <2>1, CheckWritten
<1>3. ASSUME NEW r \in Runs, NEW e \in Event, file' = Written(file, e), e.kind = "order" => Submit(r)
      PROVE  CheckOK(file')
  <2>1. CASE e.kind # "order"
    BY <1>0, <1>3, <2>1, CheckWritten
  <2>2. CASE e.kind = "order" /\ ~EndsTorn(file)
    <3>1. PICK s \in todo[r] : file' = Written(file, IntentLine("order", r, s, verdict[r][s])) /\ pc[r] = "submit"
      BY <1>3, <2>2 DEF Submit, WriteLine
    <3>2. AllowedLast(file, IntentID(r, s))
      BY <1>0, <3>1 DEF Backed, Sending
    <3>3. IntentLine("order", r, s, verdict[r][s]).intent = IntentID(r, s)
      BY DEF IntentLine
    <3> QED BY <1>0, <3>1, <3>2, <3>3, CheckWritten
  <2>3. CASE EndsTorn(file)
    BY <1>0, <1>3, <2>3, CheckWritten
  <2> QED BY <2>1, <2>2, <2>3
<1> QED BY <1>0, <1>1, <1>2, <1>3, LineStep

\* journal.Check accepts what one caller leaves behind, wherever its runs were
\* cut off, for any symbols, targets and verdicts.
THEOREM JournalPasses ==
  ASSUME OneCaller
  PROVE  Spec => []CheckPasses
<1>1. Init => CheckOK(file) /\ \A r \in Runs : Backed(r)
  BY DEF Init, CheckOK, Backed, Sending
<1>2. CheckInv /\ IInv' /\ [Next]_vars => CheckInv'
  BY CheckStep, BackedStep DEF CheckInv
<1>3. CheckInv => CheckPasses
  BY DEF CheckInv, CheckPasses
<1>4. IInv /\ CheckOK(file) /\ (\A r \in Runs : Backed(r)) => CheckInv
  BY DEF CheckInv
<1>5. Spec => []IInv
  BY OneIsAlone, Inductive
<1> QED BY <1>1, <1>2, <1>3, <1>4, <1>5, PTL DEF Spec

-----------------------------------------------------------------------------
(* The fills a run tells of.                                               *)

Telling == Sending \union {"fills"}

\* What a step leaves of a run that sends its orders or writes its fills.
LEMMA TellingStep ==
  ASSUME TypeOK, [Next]_vars, NEW r \in Runs, pc'[r] \in Telling
  PROVE  \/ Stamp(r) \/ FetchFills(r) \/ WriteFill(r)
         \/ /\ attempt'[r] = attempt[r] /\ since'[r] = since[r] /\ next'[r] = next[r] /\ upto'[r] = upto[r]
            /\ pc[r] \in Telling /\ (pc[r] = "fills" <=> pc'[r] = "fills")
<1> USE DEF TypeOK, Goto, WriteLine, Telling, Sending, history, locals
<1>1. CASE Halt \/ Resume \/ UNCHANGED vars
  BY <1>1 DEF Halt, Resume, vars
<1>2. CASE PowerLoss
  BY <1>2 DEF PowerLoss
<1>3. ASSUME NEW q \in Runs, q # r, Acts(q)
      PROVE  attempt'[r] = attempt[r] /\ since'[r] = since[r] /\ next'[r] = next[r] /\ upto'[r] = upto[r]
             /\ pc'[r] = pc[r]
  <2>1. CASE Start(q) \/ Bracket(q) \/ ReadMarker(q) \/ Refuse(q) \/ Gather(q) \/ Kill(q) \/ Decide(q)
    BY <1>3, <2>1 DEF Start, Bracket, ReadMarker, Refuse, Gather, Kill, Decide
  <2>2. CASE WriteDecision(q) \/ Submit(q) \/ Place(q) \/ PlaceFails(q)
    BY <1>3, <2>2 DEF WriteDecision, Submit, Place, PlaceFails
  <2>3. CASE Stamp(q) \/ FetchFills(q) \/ WriteFill(q) \/ Complete(q) \/ WriteFails(q) \/ Killed(q)
    BY <1>3, <2>3 DEF Stamp, FetchFills, WriteFill, Complete, WriteFails, Killed
  <2> QED BY <1>3, <2>1, <2>2, <2>3 DEF Acts, RunStep
<1>4. CASE Acts(r)
  <2>1. ASSUME Start(r) \/ Bracket(r) \/ ReadMarker(r) \/ Refuse(r) \/ Gather(r) \/ Kill(r) \/ Decide(r)
               \/ WriteDecision(r) \/ Complete(r) \/ WriteFails(r) \/ Killed(r)
        PROVE  FALSE
    BY <2>1 DEF Start, Bracket, ReadMarker, Refuse, Gather, Kill, Decide, WriteDecision, Complete,
                WriteFails, Killed
  <2>2. CASE Submit(r) \/ Place(r) \/ PlaceFails(r)
    BY <2>2 DEF Submit, Place, PlaceFails
  <2> QED BY <1>4, <2>1, <2>2 DEF Acts, RunStep
<1> QED BY <1>1, <1>2, <1>3, <1>4 DEF Next, Acts

\* Only the book's own executions are told, each by the step that writes its line.
LEMMA ToldStep ==
  ASSUME TypeOK, TornQuiet, [Next]_vars
  PROVE  /\ \/ OnDisk(file', "fill") = OnDisk(file, "fill")
            \/ \E r \in Runs : WriteFill(r) /\ OnDisk(file', "fill") = OnDisk(file, "fill") \union {fills[next[r]]}
         /\ \/ OnDisk(file', "completed") = OnDisk(file, "completed")
            \/ \E r \in Runs : \E t \in [run : {attempt[r]}, intent : Intents, qty : Nat] :
                 Complete(r) /\ OnDisk(file', "completed") = OnDisk(file, "completed") \union {t}
         /\ \A r \in Runs : WriteFill(r) => fills[next[r]] \in OnDisk(file', "fill")
<1>0. file \in Seq(Event) /\ \A k \in {"fill", "completed"} : k \in Kinds \ {"torn", "bad"}
  BY DEF TypeOK, Kinds
<1>1. ASSUME NEW r \in Runs, WriteFill(r) PROVE fills[next[r]] \in OnDisk(file', "fill")
  <2> DEFINE f == fills[next[r]]
             e == [kind |-> "fill", run |-> f.run, intent |-> f.intent, qty |-> f.qty]
  <2>1. f \in Execution /\ file' = Written(file, e) /\ pc[r] = "fills"
    BY <1>1 DEF WriteFill, WriteLine, TypeOK, InRange
  <2>2. e \in Event /\ e.kind = "fill" /\ Ticket(e) = f
    BY <2>1 DEF Execution, Event, Kinds, Ticket
  <2>3. ~EndsTorn(file)
    BY <2>1, Untorn
  <2> HIDE DEF e, f
  <2>4. f \in OnDisk(file', "fill")
    BY <1>0, <2>1, <2>2, <2>3, WrittenOnDisk
  <2> QED BY <2>4 DEF f
<1>2. CASE file' = file
  BY <1>1, <1>2
<1>3. CASE file' = CutShort(file)
  BY <1>0, <1>1, <1>3, CutShortOnDisk
<1>4. ASSUME NEW r \in Runs, NEW e \in Event, file' = Written(file, e),
             e.kind = "fill" => WriteFill(r) /\ Ticket(e) = fills[next[r]],
             e.kind = "completed" => Complete(r) /\ e.run = attempt[r]
      PROVE  /\ \/ OnDisk(file', "fill") = OnDisk(file, "fill")
                \/ WriteFill(r) /\ OnDisk(file', "fill") = OnDisk(file, "fill") \union {fills[next[r]]}
             /\ \/ OnDisk(file', "completed") = OnDisk(file, "completed")
                \/ \E t \in [run : {attempt[r]}, intent : Intents, qty : Nat] :
                     Complete(r) /\ OnDisk(file', "completed") = OnDisk(file, "completed") \union {t}
  <2>1. \A k \in {"fill", "completed"} :
          OnDisk(file', k) = OnDisk(file, k) \union (IF e.kind = k /\ ~EndsTorn(file) THEN {Ticket(e)} ELSE {})
    BY <1>0, <1>4, WrittenOnDisk
  <2>2. e.kind = "completed" => Ticket(e) \in [run : {attempt[r]}, intent : Intents, qty : Nat]
    BY <1>4 DEF Event, Ticket
  <2> QED BY <1>4, <2>1, <2>2
<1> QED BY <1>1, <1>2, <1>3, <1>4, LineStep

\* Only the book adds an execution, at the end and of an order that was not
\* executed before.
LEMMA BookStep ==
  ASSUME TypeOK, \A r \in Runs : OnRecord(r), [Next]_vars
  PROVE  \/ fills' = fills
         \/ \E r \in Runs, x \in Execution :
              /\ pc[r] = "place" /\ x.run = attempt[r] /\ x \notin Executions
              /\ fills' = Append(fills, x)
<1>1. CASE \E r \in Runs : Place(r)
  <2>1. PICK r \in Runs : Place(r)
    BY <1>1
  <2>2. PICK s \in todo[r] : fills' = Append(fills, TicketOf(r, s)) /\ pc[r] = "place" /\ IsFirst(s, todo[r])
    BY <2>1 DEF Place, TicketOf
  <2>3. TicketOf(r, s) \in Execution /\ TicketOf(r, s).run = attempt[r] /\ TicketOf(r, s).intent[2] = s
    <3>1. s \in Symbols /\ attempt[r] \in Nat /\ verdict[r][s] \in Nat
      BY <2>2 DEF TypeOK
    <3>2. IntentID(r, s) \in Intents
      BY <3>1, IntentType
    <3>3. IntentID(r, s)[2] = s
      BY DEF IntentID
    <3> QED BY <3>1, <3>2, <3>3 DEF TicketOf, Execution
  <2>4. TicketOf(r, s) \notin Executions
    BY <2>2, <2>3 DEF OnRecord, Sending, SymbolsOf
  <2> QED BY <2>2, <2>3, <2>4
<1>2. CASE ~\E r \in Runs : Place(r)
  BY <1>2 DEF Next, RunStep, Start, Bracket, ReadMarker, Refuse, Gather, Kill, Decide, WriteDecision, Stamp,
         Submit, PlaceFails, FetchFills, WriteFill, Complete, WriteFails, Killed, PowerLoss, Halt, Resume, vars
<1> QED BY <1>1, <1>2

\* A run's executions came after its stamp, and are among those it fetched; all
\* it has gone past are on disk.
Accounts(r) ==
  /\ pc[r] \in Telling =>
       /\ since[r] <= Len(fills)
       /\ \A i \in DOMAIN fills : fills[i].run = attempt[r] => since[r] < i
  /\ pc[r] = "fills" =>
       /\ next[r] <= upto[r] + 1
       /\ \A i \in DOMAIN fills : fills[i].run = attempt[r] => i <= upto[r]
       /\ \A i \in DOMAIN fills : since[r] < i /\ i < next[r] => fills[i] \in OnDisk(file, "fill")

\* A completed run is over, and all it executed is on disk.
Accounted ==
  \A t \in OnDisk(file, "completed") :
    /\ t.run <= attempts /\ \A r \in Active : attempt[r] # t.run
    /\ \A x \in Executions : x.run = t.run => x \in OnDisk(file, "fill")

AccountInv == IInv /\ Accounted /\ \A r \in Runs : Accounts(r)

LEMMA AccountsStep ==
  ASSUME AccountInv, TypeOK', [Next]_vars, NEW r \in Runs
  PROVE  Accounts(r)'
<1>0. TypeOK /\ TornQuiet /\ Accounts(r) /\ OnRecord(r) /\ Fresh /\ \A q \in Runs : OnRecord(q)
  BY DEF AccountInv, IInv
<1>1. SUFFICES ASSUME pc'[r] \in Telling PROVE Accounts(r)'
  BY DEF Accounts, Telling
<1>2. OnDisk(file, "fill") \subseteq OnDisk(file', "fill")
  BY <1>0, ToldStep
<1>3. fills \in Seq(Execution) /\ Len(fills) \in Nat /\ DOMAIN fills = 1 .. Len(fills)
  BY <1>0 DEF TypeOK
<1>4. since[r] \in Nat /\ next[r] \in Nat /\ upto[r] \in Nat
  BY <1>0 DEF TypeOK
<1>5. CASE Stamp(r)
  <2>1. pc[r] = "decision" /\ pc'[r] = "submit" /\ fills' = fills /\ since'[r] = Len(fills) /\ attempt'[r] = attempt[r]
    BY <1>0, <1>5 DEF Stamp, Goto, TypeOK, history
  <2>2. SymbolsOf(Executions, attempt[r]) = {}
    BY <1>0, <2>1 DEF OnRecord
  <2>3. \A i \in DOMAIN fills : fills[i].run # attempt[r]
    BY <2>2 DEF SymbolsOf, Executions
  <2> QED BY <1>3, <2>1, <2>3 DEF Accounts
<1>6. CASE FetchFills(r)
  <2>1. /\ pc[r] = "submit" /\ pc'[r] = "fills" /\ fills' = fills /\ since'[r] = since[r]
        /\ attempt'[r] = attempt[r] /\ upto'[r] = Len(fills) /\ next'[r] = since[r] + 1
    BY <1>0, <1>6 DEF FetchFills, Goto, TypeOK, history
  <2> QED BY <1>0, <1>3, <1>4, <2>1 DEF Accounts, Telling, Sending
<1>7. CASE WriteFill(r)
  <2>1. /\ pc[r] = "fills" /\ fills' = fills /\ since'[r] = since[r] /\ attempt'[r] = attempt[r]
        /\ upto'[r] = upto[r] /\ next'[r] = next[r] + 1 /\ next[r] <= upto[r]
    BY <1>0, <1>7 DEF WriteFill, WriteLine, Goto, TypeOK, history
  <2>2. fills[next[r]] \in OnDisk(file', "fill")
    BY <1>0, <1>7, ToldStep
  <2>3. \A i \in DOMAIN fills : i < next[r] + 1 => i < next[r] \/ i = next[r]
    BY <1>3, <1>4
  <2> QED BY <1>0, <1>2, <1>4, <2>1, <2>2, <2>3 DEF Accounts, Telling
<1>8. ASSUME attempt'[r] = attempt[r], since'[r] = since[r], next'[r] = next[r], upto'[r] = upto[r],
             pc[r] \in Telling, pc[r] = "fills" <=> pc'[r] = "fills"
      PROVE  Accounts(r)'
  <2>1. CASE fills' = fills
    BY <1>0, <1>2, <1>8, <2>1 DEF Accounts
  <2>2. ASSUME NEW q \in Runs, NEW x \in Execution, pc[q] = "place", x.run = attempt[q],
               fills' = Append(fills, x)
        PROVE  Accounts(r)'
    <3>1. /\ DOMAIN fills' = 1 .. Len(fills) + 1 /\ Len(fills') = Len(fills) + 1
          /\ fills'[Len(fills) + 1] = x /\ \A i \in DOMAIN fills : fills'[i] = fills[i]
      BY <1>3, <2>2
    <3>2. \A i \in DOMAIN fills' : i \in DOMAIN fills \/ i = Len(fills) + 1
      BY <1>3, <3>1
    <3>3. pc[r] = "fills" => x.run # attempt[r]
      BY <1>0, <2>2 DEF Fresh, Active
    <3>4. since[r] <= Len(fills) /\ since[r] < Len(fills) + 1
      BY <1>0, <1>3, <1>4, <1>8 DEF Accounts
    <3>5. pc[r] = "fills" => upto[r] <= Len(fills) /\ next[r] <= Len(fills) + 1
      <4>1. pc[r] = "fills" => upto[r] <= Len(fills)
        BY <1>0 DEF TypeOK, InRange
      <4>2. pc[r] = "fills" => next[r] <= upto[r] + 1
        BY <1>0 DEF Accounts
      <4> QED BY <1>3, <1>4, <4>1, <4>2
    <3>6. \A i \in DOMAIN fills' : fills'[i].run = attempt'[r] => since'[r] < i
      BY <1>0, <1>8, <2>2, <3>1, <3>2, <3>4 DEF Accounts
    <3>7. pc[r] = "fills" => \A i \in DOMAIN fills' : fills'[i].run = attempt'[r] => i <= upto'[r]
      BY <1>0, <1>8, <3>1, <3>2, <3>3 DEF Accounts
    <3>8. pc[r] = "fills" =>
            \A i \in DOMAIN fills' : since'[r] < i /\ i < next'[r] => fills'[i] \in OnDisk(file', "fill")
      BY <1>0, <1>2, <1>3, <1>4, <1>8, <3>1, <3>2, <3>5 DEF Accounts
    <3>9. since'[r] <= Len(fills')
      BY <1>3, <1>4, <1>8, <3>1, <3>4
    <3>10. pc[r] = "fills" => next'[r] <= upto'[r] + 1
      BY <1>0, <1>8 DEF Accounts
    <3> QED BY <1>8, <3>6, <3>7, <3>8, <3>9, <3>10 DEF Accounts
  <2> QED BY <1>0, <2>1, <2>2, BookStep
<1> QED BY <1>0, <1>1, <1>5, <1>6, <1>7, <1>8, TellingStep

\* A run number is taken once, and only a caller that is in no run takes one.
LEMMA NumbersStep ==
  ASSUME TypeOK, [Next]_vars, NEW r \in Runs, pc'[r] # "idle"
  PROVE  /\ attempts <= attempts'
         /\ \/ attempt'[r] = attempts + 1 /\ attempts' = attempts + 1
            \/ attempt'[r] = attempt[r] /\ pc[r] # "idle"
<1> USE DEF TypeOK, Goto, WriteLine, history, locals
<1>1. CASE Halt \/ Resume \/ UNCHANGED vars
  BY <1>1 DEF Halt, Resume, vars
<1>2. CASE PowerLoss
  BY <1>2 DEF PowerLoss
<1>3. ASSUME NEW q \in Runs, Start(q)
      PROVE  /\ attempts <= attempts'
             /\ \/ attempt'[r] = attempts + 1 /\ attempts' = attempts + 1
                \/ attempt'[r] = attempt[r] /\ pc[r] # "idle"
  BY <1>3 DEF Start
<1>4. ASSUME NEW q \in Runs, RunStep(q) \/ WriteFails(q) \/ Killed(q)
      PROVE  UNCHANGED <<attempts, attempt>> /\ pc[r] # "idle"
  <2>1. CASE Bracket(q) \/ ReadMarker(q) \/ Refuse(q) \/ Gather(q) \/ Kill(q) \/ Decide(q)
    BY <2>1 DEF Bracket, ReadMarker, Refuse, Gather, Kill, Decide
  <2>2. CASE WriteDecision(q) \/ Submit(q) \/ Place(q) \/ PlaceFails(q)
    BY <2>2 DEF WriteDecision, Submit, Place, PlaceFails
  <2>3. CASE Stamp(q) \/ FetchFills(q) \/ WriteFill(q) \/ Complete(q) \/ WriteFails(q) \/ Killed(q)
    BY <2>3 DEF Stamp, FetchFills, WriteFill, Complete, WriteFails, Killed
  <2> QED BY <1>4, <2>1, <2>2, <2>3 DEF RunStep
<1> QED BY <1>1, <1>2, <1>3, <1>4 DEF Next

LEMMA AttemptsGrow ==
  ASSUME TypeOK, [Next]_vars
  PROVE  attempts <= attempts'
<1> USE DEF TypeOK, history
<1>1. CASE \E r \in Runs : Start(r)
  BY <1>1 DEF Start
<1>2. CASE Halt \/ Resume \/ PowerLoss \/ UNCHANGED vars
  BY <1>2 DEF Halt, Resume, PowerLoss, vars
<1>3. ASSUME NEW q \in Runs, RunStep(q) \/ WriteFails(q) \/ Killed(q)
      PROVE  attempts' = attempts
  BY <1>3 DEF RunStep, Bracket, ReadMarker, Refuse, Gather, Kill, Decide, WriteDecision, Stamp, Submit,
         Place, PlaceFails, FetchFills, WriteFill, Complete, WriteFails, Killed
<1> QED BY <1>1, <1>2, <1>3 DEF Next

LEMMA AccountedStep ==
  ASSUME AccountInv, TypeOK', [Next]_vars
  PROVE  Accounted'
<1>0. TypeOK /\ TornQuiet /\ Fresh /\ Accounted /\ \A r \in Runs : OnRecord(r) /\ Accounts(r)
  BY DEF AccountInv, IInv
<1>1. /\ fills \in Seq(Execution) /\ DOMAIN fills = 1 .. Len(fills) /\ Len(fills) \in Nat
      /\ attempts \in Nat /\ attempts' \in Nat /\ attempts <= attempts'
  BY <1>0, AttemptsGrow DEF TypeOK
<1>2. OnDisk(file, "fill") \subseteq OnDisk(file', "fill")
  BY <1>0, ToldStep
<1>3. OnDisk(file, "completed") \subseteq [run : Nat, intent : Intents, qty : Nat]
  <2>1. \A i \in DOMAIN file : file[i] \in Event
    BY <1>0 DEF TypeOK
  <2>2. \A e \in Event : Ticket(e) \in [run : Nat, intent : Intents, qty : Nat]
    BY DEF Event, Ticket
  <2> QED BY <2>1, <2>2 DEF OnDisk
<1>4. ASSUME NEW t \in OnDisk(file, "completed")
      PROVE  /\ t.run <= attempts' /\ \A r \in Active' : attempt'[r] # t.run
             /\ \A x \in Executions' : x.run = t.run => x \in OnDisk(file', "fill")
  <2>1. t.run \in Nat /\ t.run <= attempts /\ t.run # attempts + 1
    BY <1>0, <1>1, <1>3 DEF Accounted
  <2>2. \A r \in Active' : attempt'[r] # t.run
    BY <1>0, <2>1, NumbersStep DEF Accounted, Active
  <2>3. ASSUME NEW x \in Executions', x.run = t.run PROVE x \in OnDisk(file', "fill")
    <3>1. CASE x \in Executions
      BY <1>0, <1>2, <2>3, <3>1 DEF Accounted
    <3>2. CASE x \notin Executions
      <4>1. PICK r \in Runs, y \in Execution :
              pc[r] = "place" /\ y.run = attempt[r] /\ fills' = Append(fills, y)
        BY <1>0, <2>3, <3>2, BookStep DEF Executions
      <4>2. x = y
        BY <1>1, <2>3, <3>2, <4>1 DEF Executions
      <4> QED BY <1>0, <2>3, <4>1, <4>2 DEF Accounted, Active
    <3> QED BY <3>1, <3>2
  <2> QED BY <1>1, <2>1, <2>2, <2>3
<1>5. ASSUME NEW r \in Runs, NEW t, t.run = attempt[r], Complete(r)
      PROVE  /\ t.run <= attempts' /\ \A q \in Active' : attempt'[q] # t.run
             /\ \A x \in Executions' : x.run = t.run => x \in OnDisk(file', "fill")
  <2>1. /\ pc[r] = "fills" /\ next[r] > upto[r] /\ fills' = fills /\ attempt' = attempt /\ attempts' = attempts
        /\ pc' = [pc EXCEPT ![r] = "idle"]
    BY <1>5 DEF Complete, WriteLine, Goto, history
  <2>2. \A q \in Active' : q \in Active /\ q # r
    BY <1>0, <2>1 DEF Active, TypeOK
  <2>3. attempt[r] <= attempts /\ next[r] \in Nat /\ upto[r] \in Nat
    BY <1>0 DEF TypeOK
  <2>4. ASSUME NEW i \in DOMAIN fills, fills[i].run = attempt[r] PROVE fills[i] \in OnDisk(file, "fill")
    BY <1>0, <1>1, <2>1, <2>3, <2>4 DEF Accounts, Telling
  <2>5. \A q \in Active' : attempt'[q] # t.run
    BY <1>0, <1>5, <2>1, <2>2 DEF Fresh, Active
  <2> QED BY <1>2, <1>5, <2>1, <2>3, <2>4, <2>5 DEF Executions
<1> QED BY <1>0, <1>4, <1>5, ToldStep DEF Accounted

\* What a journal calls completed has a fill line for all it executed, for any
\* number of callers where lines are not cut short, and for one where they are.
THEOREM FillsAreTold ==
  ASSUME Alone
  PROVE  Spec => []CompletedAccountsForFills
<1>1. Init => Accounted /\ \A r \in Runs : Accounts(r)
  BY DEF Init, Accounted, Accounts, Telling, Sending, OnDisk
<1>2. AccountInv /\ IInv' /\ [Next]_vars => AccountInv'
  <2>1. IInv' => TypeOK'
    BY DEF IInv
  <2> QED BY <2>1, AccountsStep, AccountedStep DEF AccountInv
<1>3. AccountInv => CompletedAccountsForFills
  <2>1. \A i \in DOMAIN file : file[i].kind = "completed" => Ticket(file[i]) \in OnDisk(file, "completed")
    BY DEF OnDisk
  <2>2. \A i \in DOMAIN file : Ticket(file[i]).run = file[i].run
    BY DEF Ticket
  <2> QED BY <2>1, <2>2 DEF AccountInv, Accounted, CompletedAccountsForFills
<1>4. IInv /\ Accounted /\ (\A r \in Runs : Accounts(r)) => AccountInv
  BY DEF AccountInv
<1> QED BY <1>1, <1>2, <1>3, <1>4, Inductive, PTL DEF Spec

-----------------------------------------------------------------------------
(* No fill is told twice.                                                  *)

\* No two executions are the same.
Different == \A i, j \in DOMAIN fills : fills[i] = fills[j] => i = j

\* What is on disk came before what the run at work has still to tell.
ToldBefore(r) ==
  /\ pc[r] \in Telling => since[r] <= Len(fills)
  /\ pc[r] \in Sending => \A k \in DOMAIN fills : fills[k] \in OnDisk(file, "fill") => k <= since[r]
  /\ pc[r] = "fills" => \A k \in DOMAIN fills : fills[k] \in OnDisk(file, "fill") => k < next[r]

OnceInv ==
  /\ IInv /\ Different /\ FillsWrittenOnce /\ OnDisk(file, "fill") \subseteq Executions
  /\ \A r \in Runs : ToldBefore(r)

LEMMA DifferentStep ==
  ASSUME TypeOK, \A r \in Runs : OnRecord(r), Different, [Next]_vars
  PROVE  Different' /\ Executions \subseteq Executions'
<1>1. CASE fills' = fills
  BY <1>1 DEF Different, Executions
<1>2. ASSUME NEW x \in Execution, x \notin Executions, fills' = Append(fills, x)
      PROVE  Different' /\ Executions \subseteq Executions'
  <2>1. /\ DOMAIN fills' = DOMAIN fills \union {Len(fills) + 1} /\ fills'[Len(fills) + 1] = x
        /\ \A i \in DOMAIN fills : fills'[i] = fills[i]
    BY <1>2 DEF TypeOK
  <2> QED BY <1>2, <2>1 DEF Different, Executions
<1> QED BY <1>1, <1>2, BookStep

LEMMA ToldBeforeStep ==
  ASSUME OneCaller, OnceInv, [Next]_vars, NEW r \in Runs
  PROVE  ToldBefore(r)'
<1>0. TypeOK /\ TornQuiet /\ ToldBefore(r) /\ Different /\ OnDisk(file, "fill") \subseteq Executions
      /\ \A q \in Runs : OnRecord(q)
  BY DEF OnceInv, IInv
<1>1. SUFFICES ASSUME pc'[r] \in Telling PROVE ToldBefore(r)'
  BY DEF ToldBefore, Telling
<1>2. fills \in Seq(Execution) /\ Len(fills) \in Nat /\ DOMAIN fills = 1 .. Len(fills)
      /\ since[r] \in Nat /\ next[r] \in Nat
  BY <1>0 DEF TypeOK
<1>3. OnDisk(file', "fill") = OnDisk(file, "fill") \/ WriteFill(r)
  BY <1>0, ToldStep DEF OneCaller
<1>4. CASE Stamp(r)
  <2>1. pc'[r] = "submit" /\ fills' = fills /\ file' = file /\ since'[r] = Len(fills)
    BY <1>0, <1>4 DEF Stamp, Goto, TypeOK
  <2> QED BY <1>2, <2>1 DEF ToldBefore, Telling
<1>5. CASE FetchFills(r)
  <2>1. pc[r] = "submit" /\ pc'[r] = "fills" /\ fills' = fills /\ file' = file /\ since'[r] = since[r]
        /\ next'[r] = since[r] + 1
    BY <1>0, <1>5 DEF FetchFills, Goto, TypeOK
  <2> QED BY <1>0, <1>2, <2>1 DEF ToldBefore, Telling, Sending
<1>6. CASE WriteFill(r)
  <2>1. pc[r] = "fills" /\ pc'[r] = "fills" /\ fills' = fills /\ since'[r] = since[r] /\ next'[r] = next[r] + 1
        /\ next[r] \in DOMAIN fills
    BY <1>0, <1>6 DEF WriteFill, WriteLine, Goto, TypeOK, InRange
  <2>2. OnDisk(file', "fill") \subseteq OnDisk(file, "fill") \union {fills[next[r]]}
    BY <1>0, ToldStep DEF OneCaller
  <2>3. ASSUME NEW k \in DOMAIN fills, fills[k] \in OnDisk(file', "fill") PROVE k < next[r] + 1
    <3>1. k < next[r] \/ k = next[r]
      BY <1>0, <2>1, <2>2, <2>3 DEF ToldBefore, Different
    <3> QED BY <1>2, <3>1
  <2>4. since'[r] <= Len(fills')
    BY <1>0, <2>1 DEF ToldBefore, Telling
  <2> QED BY <2>1, <2>3, <2>4 DEF ToldBefore, Sending
<1>7. ASSUME ~WriteFill(r), since'[r] = since[r], next'[r] = next[r], pc[r] \in Telling,
             pc[r] = "fills" <=> pc'[r] = "fills"
      PROVE  ToldBefore(r)'
  <2>1. OnDisk(file', "fill") = OnDisk(file, "fill")
    BY <1>3, <1>7
  <2>2. pc[r] \in Sending <=> pc'[r] \in Sending
    BY <1>1, <1>7 DEF Telling, Sending
  <2>3. CASE fills' = fills
    BY <1>0, <1>7, <2>1, <2>2, <2>3 DEF ToldBefore
  <2>4. ASSUME NEW x \in Execution, x \notin Executions, fills' = Append(fills, x) PROVE ToldBefore(r)'
    <3>1. /\ DOMAIN fills' = DOMAIN fills \union {Len(fills) + 1} /\ fills'[Len(fills) + 1] = x
          /\ Len(fills') = Len(fills) + 1 /\ \A i \in DOMAIN fills : fills'[i] = fills[i]
      BY <1>2, <2>4
    <3>2. \A k \in DOMAIN fills' : fills'[k] \in OnDisk(file', "fill") => k \in DOMAIN fills
      BY <1>0, <2>1, <2>4, <3>1
    <3>3. since'[r] <= Len(fills')
      BY <1>0, <1>2, <1>7, <3>1 DEF ToldBefore
    <3> QED BY <1>0, <1>7, <2>1, <2>2, <3>1, <3>2, <3>3 DEF ToldBefore
  <2> QED BY <1>0, <2>3, <2>4, BookStep
<1> QED BY <1>0, <1>1, <1>4, <1>5, <1>6, <1>7, TellingStep

\* A line that is not on record yet leaves all fill lines different.
LEMMA OnceWritten ==
  ASSUME NEW f \in Seq(Event), NEW e \in Event, e.kind = "fill" => Ticket(e) \notin OnDisk(f, "fill"),
         \A i, j \in DOMAIN f : f[i].kind = "fill" /\ f[i] = f[j] => i = j
  PROVE  \A i, j \in DOMAIN Written(f, e) :
           Written(f, e)[i].kind = "fill" /\ Written(f, e)[i] = Written(f, e)[j] => i = j
<1>0. DOMAIN f = 1 .. Len(f) /\ Len(f) \in Nat
  OBVIOUS
<1>1. CASE EndsTorn(f)
  <2> DEFINE g == [f EXCEPT ![Len(f)] = Bad]
  <2>1. DOMAIN g = DOMAIN f /\ g[Len(f)].kind = "bad" /\ \A j \in DOMAIN f : j # Len(f) => g[j] = f[j]
    BY <1>0, <1>1 DEF EndsTorn, Bad
  <2>2. Written(f, e) = g
    BY <1>1 DEF Written
  <2> HIDE DEF g
  <2> QED BY <2>1, <2>2
<1>2. CASE ~EndsTorn(f)
  <2> DEFINE g == Append(f, e)
  <2>1. DOMAIN g = DOMAIN f \union {Len(f) + 1} /\ g[Len(f) + 1] = e /\ \A j \in DOMAIN f : g[j] = f[j]
    BY <1>0
  <2>2. Written(f, e) = g
    BY <1>2 DEF Written
  <2>3. \A i \in DOMAIN f : f[i].kind = "fill" => f[i] # e
    BY DEF OnDisk
  <2> HIDE DEF g
  <2> QED BY <2>1, <2>2, <2>3
<1> QED BY <1>1, <1>2

LEMMA OnceStep ==
  ASSUME OnceInv, [Next]_vars
  PROVE  FillsWrittenOnce'
<1>0. TypeOK /\ FillsWrittenOnce /\ file \in Seq(Event) /\ \A r \in Runs : ToldBefore(r)
  BY DEF OnceInv, IInv, TypeOK
<1>1. CASE file' = file
  BY <1>0, <1>1 DEF FillsWrittenOnce
<1>2. CASE file' = CutShort(file)
  <2>1. Torn.kind = "torn" /\ Torn \in Event
    BY ConstantsOK DEF Torn, Event, Kinds, NoIntent, Intents
  <2>2. file' = file \/ file' = Written(file, Torn)
    BY <1>2 DEF CutShort, Written
  <2> QED BY <1>0, <1>1, <2>1, <2>2, OnceWritten DEF FillsWrittenOnce
<1>3. ASSUME NEW r \in Runs, NEW e \in Event, file' = Written(file, e),
             e.kind = "fill" => WriteFill(r) /\ Ticket(e) = fills[next[r]]
      PROVE  FillsWrittenOnce'
  <2>1. ASSUME e.kind = "fill" PROVE Ticket(e) \notin OnDisk(file, "fill")
    <3>1. pc[r] = "fills" /\ next[r] \in DOMAIN fills /\ next[r] \in Nat /\ Ticket(e) = fills[next[r]]
      BY <1>0, <1>3, <2>1 DEF WriteFill, TypeOK, InRange
    <3>2. ~(next[r] < next[r])
      BY <3>1
    <3> QED BY <1>0, <3>1, <3>2 DEF ToldBefore
  <2> QED BY <1>0, <1>3, <2>1, OnceWritten DEF FillsWrittenOnce
<1> QED BY <1>0, <1>1, <1>2, <1>3, LineStep

\* However often one caller runs the day, no execution is told twice.
THEOREM FillsToldOnce ==
  ASSUME OneCaller
  PROVE  Spec => []FillsWrittenOnce
<1> DEFINE Rest == Different /\ FillsWrittenOnce /\ OnDisk(file, "fill") \subseteq Executions
                   /\ \A r \in Runs : ToldBefore(r)
<1>1. Init => Rest
  BY DEF Init, Different, FillsWrittenOnce, OnDisk, ToldBefore, Telling, Sending
<1>2. OnceInv /\ IInv' /\ [Next]_vars => OnceInv'
  <2> SUFFICES ASSUME OnceInv, IInv', [Next]_vars PROVE OnceInv'
    OBVIOUS
  <2>1. TypeOK /\ TornQuiet /\ \A r \in Runs : OnRecord(r)
    BY DEF OnceInv, IInv
  <2>2. Different' /\ Executions \subseteq Executions'
    BY <2>1, DifferentStep DEF OnceInv
  <2>3. \A r \in Runs : WriteFill(r) => fills[next[r]] \in Executions
    BY <2>1 DEF WriteFill, TypeOK, InRange, Executions
  <2>4. OnDisk(file', "fill") \subseteq Executions'
    BY <2>1, <2>2, <2>3, ToldStep DEF OnceInv
  <2> QED BY <2>2, <2>4, OnceStep, ToldBeforeStep DEF OnceInv
<1>3. OnceInv => FillsWrittenOnce
  BY DEF OnceInv
<1>4. IInv /\ Rest => OnceInv
  BY DEF OnceInv
<1>5. Spec => []IInv
  BY OneIsAlone, Inductive
<1> HIDE DEF Rest
<1> QED BY <1>1, <1>2, <1>3, <1>4, <1>5, PTL DEF Spec
=============================================================================
