------------------------- MODULE RevalidationProofs -------------------------
(***************************************************************************)
(* Proofs about Revalidation: its types, that a switch the operator was    *)
(* told is off stays off in memory and on disk, that no process studies a  *)
(* spec more than once a month unasked, and that what the history says of  *)
(* a study is what became of it.                                           *)
(***************************************************************************)
EXTENDS Revalidation, WellFoundedInduction, TLAPS

State == [enabled : BOOLEAN, lastRun : [Specs -> Times \union {Never}]]
Pass == [at : {"idle", "next", "wait", "note"}, forced : BOOLEAN, todo : SUBSET Specs,
         spec : Specs \union {Setup}, job : 0..MaxJobs, when : Times,
         status : Statuses \union {None, "abandoned"}, outcome : Outcomes]

\* A pass under way has the shape of one.
ScheduleInv == RevalidationTypeOK /\ pass \in Pass /\ OffStaysOff

\* What all but the jobs are.
ScheduleTyped ==
  /\ now \in Times
  /\ state \in State /\ file \in State
  /\ pass \in Pass
  /\ pass.at \in {"wait", "note"} => pass.spec \in Specs
  /\ pass.at = "wait" => pass.job \in Known
  /\ studies \in [Specs -> [Months -> Nat]]

LEMMA InvParts == ScheduleInv <=> ViewTypeOK /\ ScheduleTyped /\ OffStaysOff
  BY DEF ScheduleInv, RevalidationTypeOK, ScheduleTyped, State, Pass, PassAt

(* The least of some names is one of them. *)
LEMMA MinIsIn == ASSUME NEW S \in SUBSET Nat, S # {} PROVE Min(S) \in S
<1>1. PICK x \in S : \A y \in S : ~(<<y, x>> \in OpToRel(<, Nat))
  BY NatLessThanWellFounded, WFMin
<1>2. ASSUME NEW y \in S PROVE x =< y
  <2>1. x \in Nat /\ y \in Nat /\ <<y, x>> \in Nat \X Nat
    OBVIOUS
  <2>2. ~(<<y, x>>[1] < <<y, x>>[2])
    BY <1>1, <2>1, Zenon DEF OpToRel
  <2> QED BY <2>1, <2>2
<1> QED BY <1>2 DEF Min

-----------------------------------------------------------------------------
(* The jobs. *)

LEMMA JobsStepTyped ==
  ASSUME ViewTypeOK, JobConstantsOK, JobsNext
  PROVE  ViewTypeOK' /\ current' >= current
<1> USE DEF ViewTypeOK, Jobs, JobConstantsOK
<1>1. CASE Starts
  <2>1. PICK p \in Purposes : Start(p)
    BY <1>1 DEF Starts
  <2>2. NewView(p) \in View
    BY DEF NewView, View, Statuses, Outcomes, None
  <2> QED BY <2>1, <2>2 DEF Start
<1>2. CASE Moves
  <2>1. PICK j \in Known : Prints(j) \/ Ends(j) \/ LetsGo(j) \/ Marked(j)
    BY <1>2 DEF Moves
  <2>2. j \in Jobs /\ view[j] \in View /\ current' = current
    <3>1. current \in Nat /\ j \in 1..current /\ current =< MaxJobs /\ MaxJobs \in Nat
      BY DEF Known
    <3>2. j \in 1..MaxJobs
      BY <3>1
    <3> QED BY <2>1, <3>2 DEF Prints, Ends, LetsGo, Marked
  <2>3. \E new \in View : view' = [view EXCEPT ![j] = new]
    <3>1. CASE Prints(j)
      BY <2>2, <3>1 DEF Prints, View, Outcomes
    <3>2. CASE Ends(j)
      <4>1. PICK s \in Endings(j) : view' = [view EXCEPT ![j].status = s, ![j].stage = "ended",
                                                         ![j].outcome = view[j].printed]
        BY <3>2 DEF Ends
      <4>2. s \in Statuses
        BY <4>1 DEF Endings, Statuses
      <4> DEFINE new == [view[j] EXCEPT !.status = s, !.stage = "ended", !.outcome = view[j].printed]
      <4>3. new \in View
        BY <2>2, <4>2 DEF View
      <4>4. view' = [view EXCEPT ![j] = new]
        BY <2>2, <4>1, Zenon
      <4> QED BY <4>3, <4>4
    <3>3. CASE LetsGo(j)
      BY <2>2, <3>3 DEF LetsGo, View
    <3>4. CASE Marked(j)
      BY <2>2, <3>4 DEF Marked, View, Statuses
    <3> QED BY <2>1, <3>1, <3>2, <3>3, <3>4
  <2> QED BY <2>2, <2>3
<1> QED BY <1>1, <1>2 DEF JobsNext

-----------------------------------------------------------------------------
(* A pass. *)

LEMMA PassKeeps ==
  ASSUME ScheduleInv, JobConstantsOK, ScheduleConstantsOK,
         PassBegins(FALSE) \/ PhoneRevalidates \/ PassMoves
  PROVE  ScheduleInv'
<1> USE DEF PassAt
<1>1. ViewTypeOK /\ ScheduleTyped /\ OffStaysOff
  BY InvParts
<1>2. SUFFICES ViewTypeOK' /\ ScheduleTyped' /\ OffStaysOff'
  BY InvParts, PTL
<1>3. ASSUME NEW forced \in BOOLEAN, PassBegins(forced) PROVE ViewTypeOK' /\ ScheduleTyped' /\ OffStaysOff'
  <2>1. NoPass \in Pass
    BY DEF NoPass, Pass, ScheduleConstantsOK, JobConstantsOK, Outcomes, Statuses, None
  <2>2. (IF forced THEN Specs ELSE Due) \in SUBSET Specs
    BY DEF Due
  <2>3. pass' \in Pass /\ pass'.at = "next"
    BY <1>3, <2>1, <2>2 DEF PassBegins, Pass
  <2> QED BY <1>1, <1>3, <2>3 DEF PassBegins, ViewTypeOK, ScheduleTyped, OffStaysOff, viewVars, Known
<1>4. ASSUME pass.at = "next", pass.todo # {} PROVE First \in Specs
  <2>1. pass.todo \in SUBSET Specs /\ pass.todo \in SUBSET Nat
    BY <1>1 DEF ScheduleTyped, Pass, ScheduleConstantsOK
  <2> QED BY <1>4, <2>1, MinIsIn DEF First
<1>5. CASE StudyStarts
  <2>1. ViewTypeOK' /\ current' = current + 1 /\ current + 1 \in 1..MaxJobs
    <3>1. JobsNext
      BY <1>5 DEF StudyStarts, JobsNext, Starts, Purposes
    <3> QED BY <1>1, <1>5, <3>1, JobsStepTyped DEF StudyStarts, Start, ViewTypeOK, JobConstantsOK
  <2>2. First \in Specs /\ Month[now] \in Months
    BY <1>1, <1>4, <1>5 DEF StudyStarts, ScheduleTyped, Months
  <2>3. pass' \in Pass /\ pass'.spec = First /\ pass'.job = current + 1 /\ pass'.at = "wait"
    <3>1. pass' = [pass EXCEPT !.at = "wait", !.spec = First, !.job = current + 1, !.when = now]
      BY <1>5 DEF StudyStarts
    <3>2. pass \in Pass /\ now \in Times /\ current + 1 \in 0..MaxJobs
      BY <1>1, <2>1 DEF ScheduleTyped
    <3> QED BY <2>2, <3>1, <3>2 DEF Pass
  <2>4. studies' \in [Specs -> [Months -> Nat]]
    <3> DEFINE counted == [studies[First] EXCEPT ![Month[now]] = studies[First][Month[now]] + 1]
    <3>1. studies[First][Month[now]] + 1 \in Nat
      BY <1>1, <2>2 DEF ScheduleTyped
    <3>2. counted \in [Months -> Nat]
      BY <1>1, <2>2, <3>1 DEF ScheduleTyped
    <3>3. studies' = studies \/ studies' = [studies EXCEPT ![First] = counted]
      BY <1>5, Zenon DEF StudyStarts
    <3> HIDE DEF counted
    <3> QED BY <1>1, <2>2, <3>2, <3>3 DEF ScheduleTyped
  <2>5. UNCHANGED <<now, state, file, wanted>>
    BY <1>5 DEF StudyStarts
  <2>6. pass'.job \in Known'
    BY <2>1, <2>3 DEF Known
  <2> QED BY <1>1, <2>1, <2>2, <2>3, <2>4, <2>5, <2>6 DEF ScheduleTyped, OffStaysOff
<1>6. CASE StudyRefused
  <2>1. pass' \in Pass /\ pass'.at = "note" /\ pass'.spec \in Specs
    <3>1. pass' = [pass EXCEPT !.at = "note", !.spec = First, !.job = 0, !.when = now,
                               !.status = "failed", !.outcome = None]
      BY <1>6 DEF StudyRefused
    <3>2. pass \in Pass /\ now \in Times /\ 0 \in 0..MaxJobs /\ First \in Specs
      BY <1>1, <1>4, <1>6 DEF StudyRefused, ScheduleTyped, JobConstantsOK
    <3>3. "failed" \in Statuses /\ None \in Outcomes
      BY DEF Statuses, Outcomes
    <3> QED BY <3>1, <3>2, <3>3 DEF Pass
  <2> QED BY <1>1, <1>6, <2>1 DEF StudyRefused, ViewTypeOK, ScheduleTyped, OffStaysOff, viewVars, Known
<1>7. CASE StudyEnds
  <2>1. view[pass.job] \in View
    <3>1. pass.job \in 1..current /\ current \in Nat /\ current =< MaxJobs /\ MaxJobs \in Nat
      BY <1>1, <1>7 DEF StudyEnds, ViewTypeOK, ScheduleTyped, Known, JobConstantsOK
    <3>2. pass.job \in Jobs
      BY <3>1 DEF Jobs
    <3> QED BY <1>1, <3>2 DEF ViewTypeOK
  <2>2. pass' \in Pass /\ pass'.at = "note" /\ pass'.spec \in Specs
    BY <1>1, <1>7, <2>1 DEF StudyEnds, ScheduleTyped, Pass, View
  <2> QED BY <1>1, <1>7, <2>2 DEF StudyEnds, ViewTypeOK, ScheduleTyped, OffStaysOff, viewVars, Known
<1>8. CASE StudyAbandoned
  <2>1. pass' \in Pass /\ pass'.at = "note" /\ pass'.spec \in Specs
    BY <1>1, <1>8 DEF StudyAbandoned, ScheduleTyped, Pass, Outcomes
  <2> QED BY <1>1, <1>8, <2>1 DEF StudyAbandoned, ViewTypeOK, ScheduleTyped, OffStaysOff, viewVars, Known
<1>9. CASE PassNotes
  <2>1. Noted \in State /\ Noted.enabled = state.enabled
    BY <1>1, <1>9 DEF PassNotes, Noted, ScheduleTyped, State, Pass
  <2>2. pass' \in Pass /\ pass'.at = "next"
    BY <1>1, <1>9 DEF PassNotes, ScheduleTyped, Pass
  <2>3. state' = Noted /\ file' \in {Noted, file} /\ UNCHANGED <<viewVars, now, wanted, studies>>
    BY <1>9 DEF PassNotes, Saves
  <2> QED BY <1>1, <2>1, <2>2, <2>3 DEF ViewTypeOK, ScheduleTyped, OffStaysOff, viewVars, Known
<1>10. CASE PassEnds
  <2>1. pass' \in Pass /\ pass'.at = "idle"
    BY <1>10 DEF PassEnds, NoPass, Pass, ScheduleConstantsOK, JobConstantsOK, Outcomes, Statuses, None
  <2> QED BY <1>1, <1>10, <2>1 DEF PassEnds, ViewTypeOK, ScheduleTyped, OffStaysOff, viewVars, Known
<1> QED BY <1>3, <1>5, <1>6, <1>7, <1>8, <1>9, <1>10 DEF PhoneRevalidates, PassMoves

-----------------------------------------------------------------------------
(* Everything else. *)

LEMMA OthersKeep ==
  ASSUME ScheduleInv, JobConstantsOK, ScheduleConstantsOK,
         \/ JobsNext /\ UNCHANGED scheduleVars
         \/ \E on \in BOOLEAN : SetEnabled(on)
         \/ Tick \/ Stops \/ Restarts \/ UNCHANGED vars
  PROVE  ScheduleInv'
<1>1. ViewTypeOK /\ ScheduleTyped /\ OffStaysOff
  BY InvParts
<1>2. SUFFICES ViewTypeOK' /\ ScheduleTyped' /\ OffStaysOff'
  BY InvParts, PTL
<1>3. CASE JobsNext /\ UNCHANGED scheduleVars
  <2>1. ViewTypeOK' /\ current' >= current
    BY <1>1, <1>3, JobsStepTyped
  <2>2. current \in Nat /\ current' \in Nat
    BY <1>1, <2>1 DEF ViewTypeOK, JobConstantsOK
  <2> QED BY <1>1, <1>3, <2>1, <2>2 DEF scheduleVars, ScheduleTyped, OffStaysOff, Known
<1>4. CASE \E on \in BOOLEAN : SetEnabled(on)
  <2>1. PICK on \in BOOLEAN, ok \in BOOLEAN :
          /\ state' = [state EXCEPT !.enabled = on]
          /\ file' = IF ok THEN state' ELSE file
          /\ wanted' = CASE ~ok -> "unsure" [] ok /\ on -> "on" [] OTHER -> "off"
          /\ UNCHANGED <<viewVars, now, pass, studies>>
    BY <1>4 DEF SetEnabled, Saves
  <2>2. state' \in State /\ state'.enabled = on
    BY <1>1, <2>1 DEF ScheduleTyped, State
  <2> QED BY <1>1, <2>1, <2>2 DEF ViewTypeOK, ScheduleTyped, OffStaysOff, viewVars, Known
<1>5. CASE Tick
  BY <1>1, <1>5 DEF Tick, ViewTypeOK, ScheduleTyped, OffStaysOff, viewVars, Known
<1>6. CASE Stops
  BY <1>1, <1>6 DEF Stops, ViewTypeOK, ScheduleTyped, OffStaysOff, viewVars, Known
<1>7. CASE Restarts
  <2>1. NoPass \in Pass /\ NoPass.at = "idle"
    BY DEF NoPass, Pass, ScheduleConstantsOK, JobConstantsOK, Outcomes, Statuses, None
  <2>2. Default \in State
    BY DEF Default, State
  <2>3. ViewTypeOK'
    BY <1>7 DEF Restarts, Forgotten, ViewTypeOK, NoView, View, Outcomes, Purposes, JobConstantsOK
  <2> QED BY <1>1, <1>7, <2>1, <2>2, <2>3 DEF Restarts, ScheduleTyped, OffStaysOff
<1>8. CASE UNCHANGED vars
  BY <1>1, <1>8 DEF vars, scheduleVars, ViewTypeOK, ScheduleTyped, OffStaysOff, viewVars, Known
<1> QED BY <1>3, <1>4, <1>5, <1>6, <1>7, <1>8

LEMMA ScheduleInvInit == ASSUME Init, JobConstantsOK, ScheduleConstantsOK PROVE ScheduleInv
<1>1. ViewTypeOK
  BY DEF Init, JobsInit, ViewTypeOK, NoView, View, Outcomes, Purposes, JobConstantsOK
<1>2. NoPass \in Pass /\ NoPass.at = "idle"
  BY DEF NoPass, Pass, ScheduleConstantsOK, JobConstantsOK, Outcomes, Statuses, None
<1>3. Default \in State
  BY DEF Default, State
<1>4. ScheduleTyped
  BY <1>2, <1>3 DEF Init, ScheduleTyped, ScheduleConstantsOK
<1> QED BY <1>1, <1>4, InvParts DEF Init, OffStaysOff

THEOREM ScheduleInvAlways == Spec => []ScheduleInv
<1>1. Init => ScheduleInv
  BY ScheduleInvInit, JobConstantsOK, ScheduleConstantsOK
<1>2. ScheduleInv /\ [Next]_vars => ScheduleInv'
  BY PassKeeps, OthersKeep, JobConstantsOK, ScheduleConstantsOK DEF Next
<1> QED BY <1>1, <1>2, PTL DEF Spec

\* The types of the jobs and of the schedule's state hold always.
THEOREM RevalidationTypeCorrect == Spec => []RevalidationTypeOK
<1>1. ScheduleInv => RevalidationTypeOK BY DEF ScheduleInv
<1> QED BY <1>1, ScheduleInvAlways, PTL

\* revalidate.go:140: a switch the operator was told is off stays off, for
\* any clock, specs, jobs, restarts and failed saves.
THEOREM OffStaysOffAlways == Spec => []OffStaysOff
<1>1. ScheduleInv => OffStaysOff BY DEF ScheduleInv
<1> QED BY <1>1, ScheduleInvAlways, PTL

-----------------------------------------------------------------------------
(* Once a month.                                                           *)

\* A study of the spec is noted of this month or a later one, or is about to be.
RunningIt(s, m) == pass.at \in {"wait", "note"} /\ pass.spec = s /\ Month[pass.when] >= m
DoneIn(s, m) ==
  \/ state.lastRun[s] # Never /\ Month[state.lastRun[s]] >= m
  \/ RunningIt(s, m)

\* A process studies a spec of a month at most once.
Counted ==
  \A s \in Specs : \A m \in Months :
    /\ studies[s][m] <= 1 + restarts
    /\ ~DoneIn(s, m) => studies[s][m] <= restarts

\* What is noted is past, and a study under way is younger than what is noted.
Past ==
  /\ \A s \in Specs : state.lastRun[s] <= now /\ file.lastRun[s] <= now
  /\ pass.at \in {"wait", "note"} => pass.when <= now /\ state.lastRun[pass.spec] <= pass.when

\* What a scheduled pass has still to do is not noted of this month.
ToDoIsDue ==
  ~pass.forced => \A s \in pass.todo :
    state.lastRun[s] # Never => Month[state.lastRun[s]] < Month[now]

MonthInv == ScheduleInv /\ restarts \in Nat /\ Past /\ ToDoIsDue /\ Counted

LEMMA Typed ==
  ASSUME ScheduleInv, ScheduleConstantsOK
  PROVE  /\ now \in Times /\ Times \subseteq Nat /\ Month \in [Times -> Nat] /\ Months \subseteq Nat
         /\ state \in State /\ file \in State /\ pass \in Pass
         /\ (pass.at \in {"wait", "note"} => pass.spec \in Specs)
         /\ studies \in [Specs -> [Months -> Nat]]
         /\ \A t, u \in Times : t <= u => Month[t] <= Month[u]
BY InvParts DEF ScheduleTyped, ScheduleConstantsOK, Months

LEMMA MonthOf ==
  ASSUME ScheduleConstantsOK, NEW t \in Times, NEW u \in Times
  PROVE  t \in Nat /\ u \in Nat /\ Month[t] \in Nat /\ Month[u] \in Nat
         /\ (t <= u => Month[t] <= Month[u])
BY DEF ScheduleConstantsOK

\* A step that leaves what is counted and noted alone.
LEMMA MonthKept ==
  ASSUME MonthInv, UNCHANGED <<now, studies, restarts>>, state'.lastRun = state.lastRun,
         \A s \in Specs : file'.lastRun[s] \in {file.lastRun[s], state.lastRun[s]},
         pass' = pass
  PROVE  restarts' \in Nat /\ Past' /\ ToDoIsDue' /\ Counted'
BY DEF MonthInv, Past, ToDoIsDue, Counted, DoneIn, RunningIt

LEMMA MonthPass ==
  ASSUME MonthInv, JobConstantsOK, ScheduleConstantsOK,
         PassBegins(FALSE) \/ PhoneRevalidates \/ PassMoves
  PROVE  restarts' \in Nat /\ Past' /\ ToDoIsDue' /\ Counted'
<1> USE DEF PassAt
<1>0. ScheduleInv /\ restarts \in Nat /\ Past /\ ToDoIsDue /\ Counted
  BY DEF MonthInv
<1>1. ASSUME NEW forced \in BOOLEAN, PassBegins(forced)
      PROVE restarts' \in Nat /\ Past' /\ ToDoIsDue' /\ Counted'
  <2>1. UNCHANGED <<now, state, file, restarts, studies>> /\ pass.at = "idle"
    BY <1>1 DEF PassBegins
  <2>2. pass' = [NoPass EXCEPT !.at = "next", !.forced = forced, !.todo = IF forced THEN Specs ELSE Due]
    BY <1>1 DEF PassBegins
  <2>3. pass'.at = "next" /\ pass'.forced = forced /\ pass'.todo = IF forced THEN Specs ELSE Due
    BY <2>2 DEF NoPass
  <2>4. Past' /\ restarts' \in Nat
    BY <1>0, <2>1, <2>3 DEF Past
  <2>5. ToDoIsDue'
    <3> SUFFICES ASSUME ~forced, NEW s \in Due, state.lastRun[s] # Never
                 PROVE  Month[state.lastRun[s]] < Month[now]
      BY <2>1, <2>3 DEF ToDoIsDue
    <3>1. Month[state.lastRun[s]] # Month[now] /\ s \in Specs
      BY DEF Due, NotedThisMonth
    <3>2. state.lastRun[s] \in Times /\ state.lastRun[s] <= now
      BY <1>0, <3>1, Typed DEF Past, State
    <3>3. now \in Times BY <1>0, Typed
    <3> DEFINE last == state.lastRun[s]
    <3>4. last \in Times /\ last <= now /\ Month[last] # Month[now] BY <3>1, <3>2
    <3> HIDE DEF last
    <3>5. Month[last] \in Nat /\ Month[now] \in Nat /\ Month[last] <= Month[now]
      BY <3>3, <3>4, MonthOf
    <3>6. Month[last] < Month[now] BY <3>4, <3>5
    <3> QED BY <3>6 DEF last
  <2>6. Counted'
    BY <1>0, <2>1, <2>3 DEF Counted, DoneIn, RunningIt
  <2> QED BY <2>4, <2>5, <2>6
<1>2. ASSUME pass.at = "next", pass.todo # {} PROVE First \in Specs /\ First \in pass.todo
  <2>1. pass.todo \in SUBSET Specs /\ pass.todo \in SUBSET Nat
    BY <1>0, Typed DEF Pass, ScheduleConstantsOK
  <2> QED BY <1>2, <2>1, MinIsIn DEF First
<1>3. CASE StudyStarts
  <2>1. pass.at = "next" /\ pass.todo # {} /\ UNCHANGED <<now, state, file, restarts>>
    BY <1>3 DEF StudyStarts
  <2>2. pass' = [pass EXCEPT !.at = "wait", !.spec = First, !.job = current + 1, !.when = now]
    BY <1>3 DEF StudyStarts
  <2>3. /\ pass'.at = "wait" /\ pass'.spec = First /\ pass'.when = now /\ pass'.forced = pass.forced
        /\ pass'.todo = pass.todo
    BY <1>0, <2>2, Typed DEF Pass
  <2>4. studies' = IF pass.forced THEN studies
                   ELSE [studies EXCEPT ![First] = [studies[First] EXCEPT ![Month[now]] = @ + 1]]
    BY <1>3, Zenon DEF StudyStarts
  <2>5. Past' /\ restarts' \in Nat
    <3>1. First \in Specs /\ now \in Nat BY <1>0, <1>2, <2>1, Typed
    <3> QED BY <1>0, <2>1, <2>3, <3>1 DEF Past
  <2>6. ToDoIsDue'
    BY <1>0, <2>1, <2>3 DEF ToDoIsDue
  <2>7. ASSUME NEW s \in Specs, NEW m \in Months, DoneIn(s, m) PROVE DoneIn(s, m)'
    BY <2>1, <2>7 DEF DoneIn, RunningIt
  <2>8. CASE pass.forced
    <3>1. studies' = studies /\ restarts' = restarts BY <2>1, <2>4, <2>8
    <3>2. Counted' BY <1>0, <2>7, <3>1 DEF Counted
    <3> QED BY <2>5, <2>6, <3>2
  <2>9. CASE ~pass.forced
    <3>1. ~DoneIn(First, Month[now]) /\ First \in Specs /\ Month[now] \in Months
      <4>1. First \in Specs /\ Month[now] \in Months /\ Month[now] \in Nat
        BY <1>0, <1>2, <2>1, Typed DEF Months
      <4>2. state.lastRun[First] # Never => Month[state.lastRun[First]] < Month[now]
        BY <1>0, <1>2, <2>1, <2>9 DEF ToDoIsDue
      <4>3. state.lastRun[First] # Never => Month[state.lastRun[First]] \in Nat
        BY <1>0, <4>1, Typed DEF State
      <4> QED BY <2>1, <4>1, <4>2, <4>3 DEF DoneIn, RunningIt
    <3>2. ASSUME NEW s \in Specs, NEW m \in Months, s = First, m = Month[now] PROVE DoneIn(s, m)'
      <4>1. Month[now] \in Nat BY <1>0, Typed, MonthOf
      <4>2. pass'.when = now /\ pass'.at = "wait" /\ pass'.spec = s BY <2>3, <3>2
      <4>3. RunningIt(s, m)'
        BY <3>2, <4>1, <4>2 DEF RunningIt
      <4> QED BY <4>3 DEF DoneIn
    <3>3. studies[First][Month[now]] <= restarts
      BY <1>0, <3>1 DEF Counted
    <3>4. ASSUME NEW s \in Specs, NEW m \in Months
          PROVE  studies'[s][m] = IF s = First /\ m = Month[now] THEN studies[s][m] + 1 ELSE studies[s][m]
      BY <1>0, <2>4, <2>9, <3>1, Typed
    <3> QED
      <4> SUFFICES ASSUME NEW s \in Specs, NEW m \in Months
                   PROVE  /\ studies'[s][m] <= 1 + restarts'
                          /\ ~DoneIn(s, m)' => studies'[s][m] <= restarts'
        BY <2>5, <2>6 DEF Counted
      <4>1. studies[s][m] \in Nat
        BY <1>0, Typed
      <4>2. studies[s][m] <= 1 + restarts /\ (~DoneIn(s, m) => studies[s][m] <= restarts)
        BY <1>0 DEF Counted
      <4>3a. restarts' = restarts BY <2>1
      <4>3. CASE s = First /\ m = Month[now]
        <5>1. DoneIn(s, m)' /\ studies'[s][m] = studies[s][m] + 1 /\ studies[s][m] <= restarts
          BY <3>2, <3>3, <3>4, <4>3, <2>1
        <5> QED BY <1>0, <4>1, <4>3a, <5>1
      <4>4. CASE ~(s = First /\ m = Month[now])
        BY <2>7, <3>4, <4>2, <4>3a, <4>4
      <4> QED BY <4>3, <4>4
  <2> QED BY <2>5, <2>6, <2>8, <2>9
<1>4. CASE StudyRefused
  <2>1. pass.at = "next" /\ pass.todo # {} /\ UNCHANGED <<now, state, file, restarts, studies>>
    BY <1>4 DEF StudyRefused
  <2>2. /\ pass'.at = "note" /\ pass'.spec = First /\ pass'.when = now /\ pass'.forced = pass.forced
        /\ pass'.todo = pass.todo
    BY <1>0, <1>4, Typed DEF StudyRefused, Pass
  <2>3. Past' /\ restarts' \in Nat
    <3>1. First \in Specs /\ now \in Nat BY <1>0, <1>2, <2>1, Typed
    <3> QED BY <1>0, <2>1, <2>2, <3>1 DEF Past
  <2>4. ToDoIsDue'
    BY <1>0, <2>1, <2>2 DEF ToDoIsDue
  <2>5. ASSUME NEW s \in Specs, NEW m \in Months PROVE DoneIn(s, m) => DoneIn(s, m)'
    BY <2>1 DEF DoneIn, RunningIt
  <2>6. Counted'
    BY <1>0, <2>1, <2>5 DEF Counted
  <2> QED BY <2>3, <2>4, <2>6
<1>5. CASE StudyEnds \/ StudyAbandoned
  <2>1. pass.at = "wait" /\ UNCHANGED <<now, state, file, restarts, studies>>
    BY <1>5 DEF StudyEnds, StudyAbandoned
  <2>2. /\ pass'.at = "note" /\ pass'.spec = pass.spec /\ pass'.when = pass.when
        /\ pass'.forced = pass.forced /\ pass'.todo = pass.todo
    BY <1>0, <1>5, Typed DEF StudyEnds, StudyAbandoned, Pass
  <2> QED BY <1>0, <2>1, <2>2 DEF Past, ToDoIsDue, Counted, DoneIn, RunningIt
<1>6. CASE PassNotes
  <2>1. pass.at = "note" /\ UNCHANGED <<now, restarts, studies>> /\ state' = Noted
        /\ file' \in {Noted, file}
    BY <1>6 DEF PassNotes, Saves
  <2>2. pass'.at = "next" /\ pass'.forced = pass.forced /\ pass'.todo = pass.todo \ {pass.spec}
    BY <1>0, <1>6, Typed DEF PassNotes, Pass
  <2>3. /\ pass.spec \in Specs /\ pass.when \in Times /\ pass.when <= now /\ now \in Times
        /\ state.lastRun[pass.spec] <= pass.when
    BY <1>0, <2>1, Typed DEF Past, Pass
  <2>4. \A s \in Specs : Noted.lastRun[s] = IF s = pass.spec THEN pass.when ELSE state.lastRun[s]
    BY <1>0, <2>3, Typed DEF Noted, State
  <2>5. Past' /\ restarts' \in Nat
    BY <1>0, <2>1, <2>2, <2>3, <2>4 DEF Past
  <2>6. ToDoIsDue'
    <3> SUFFICES ASSUME ~pass.forced, NEW s \in pass.todo, s # pass.spec, Noted.lastRun[s] # Never
                 PROVE  Month[Noted.lastRun[s]] < Month[now]
      BY <2>1, <2>2 DEF ToDoIsDue
    <3>1. s \in Specs BY <1>0, Typed DEF Pass
    <3> QED BY <1>0, <2>4, <3>1 DEF ToDoIsDue
  <2>7. ASSUME NEW s \in Specs, NEW m \in Months PROVE DoneIn(s, m) => DoneIn(s, m)'
    <3>1. CASE s # pass.spec
      BY <2>1, <2>4, <3>1 DEF DoneIn, RunningIt
    <3>2. CASE s = pass.spec
      <4>1. state'.lastRun[s] = pass.when /\ pass.when # Never
        BY <1>0, <2>1, <2>3, <2>4, <3>2, Typed DEF Never
      <4>2. ASSUME state.lastRun[s] # Never PROVE Month[state.lastRun[s]] <= Month[pass.when]
        BY <1>0, <2>3, <3>2, <4>2, Typed DEF State
      <4>3. Month[pass.when] \in Nat /\ m \in Nat
            /\ (state.lastRun[s] # Never => Month[state.lastRun[s]] \in Nat)
        BY <1>0, <2>3, Typed DEF State
      <4> QED BY <4>1, <4>2, <4>3 DEF DoneIn, RunningIt
    <3> QED BY <3>1, <3>2
  <2>8. Counted'
    BY <1>0, <2>1, <2>7 DEF Counted
  <2> QED BY <2>5, <2>6, <2>8
<1>7. CASE PassEnds
  <2>1. pass.at = "next" /\ UNCHANGED <<now, state, file, restarts, studies>>
        /\ pass'.at = "idle" /\ pass'.todo = {}
    BY <1>7 DEF PassEnds, NoPass
  <2> QED BY <1>0, <2>1 DEF Past, ToDoIsDue, Counted, DoneIn, RunningIt
<1> QED BY <1>1, <1>3, <1>4, <1>5, <1>6, <1>7 DEF PhoneRevalidates, PassMoves

LEMMA MonthOthers ==
  ASSUME MonthInv, JobConstantsOK, ScheduleConstantsOK,
         \/ JobsNext /\ UNCHANGED scheduleVars
         \/ \E on \in BOOLEAN : SetEnabled(on)
         \/ Tick \/ Stops \/ Restarts \/ UNCHANGED vars
  PROVE  restarts' \in Nat /\ Past' /\ ToDoIsDue' /\ Counted'
<1>0. ScheduleInv /\ restarts \in Nat /\ Past /\ ToDoIsDue /\ Counted
  BY DEF MonthInv
<1>1. CASE (JobsNext /\ UNCHANGED scheduleVars) \/ Stops \/ UNCHANGED vars
  BY <1>1, MonthKept DEF scheduleVars, Stops, vars
<1>2. CASE \E on \in BOOLEAN : SetEnabled(on)
  <2>1. PICK on \in BOOLEAN, ok \in BOOLEAN :
          /\ state' = [state EXCEPT !.enabled = on]
          /\ file' = IF ok THEN state' ELSE file
          /\ UNCHANGED <<now, pass, restarts, studies>>
    BY <1>2 DEF SetEnabled, Saves
  <2>2. state'.lastRun = state.lastRun
    BY <1>0, <2>1, Typed DEF State
  <2> QED BY <2>1, <2>2, MonthKept
<1>3. CASE Tick
  <2>1. now' = now + 1 /\ now' \in Times /\ UNCHANGED <<state, file, pass, restarts, studies>>
    BY <1>3 DEF Tick
  <2>2. now \in Nat /\ now \in Times /\ Month[now] <= Month[now'] /\ Month[now] \in Nat
        /\ Month[now'] \in Nat
    <3>1. now \in Times /\ now \in Nat BY <1>0, Typed
    <3> QED BY <2>1, <3>1, MonthOf
  <2>3. Past'
    <3>0. Times \cup {Never} \subseteq Int BY <1>0, Typed DEF Never
    <3>1. \A s \in Specs : state.lastRun[s] \in Int /\ file.lastRun[s] \in Int
      BY <1>0, <3>0, Typed DEF State
    <3>2. pass.when \in Int
      BY <1>0, <3>0, Typed DEF Pass
    <3> QED BY <1>0, <2>1, <2>2, <3>1, <3>2 DEF Past
  <2>4. ToDoIsDue'
    <3> SUFFICES ASSUME ~pass.forced, NEW s \in pass.todo, state.lastRun[s] # Never
                 PROVE  Month[state.lastRun[s]] < Month[now']
      BY <2>1 DEF ToDoIsDue
    <3>1. s \in Specs /\ Month[state.lastRun[s]] \in Nat
      BY <1>0, Typed DEF Pass, State
    <3> QED BY <1>0, <2>2, <3>1 DEF ToDoIsDue
  <2>5. Counted'
    BY <1>0, <2>1 DEF Counted, DoneIn, RunningIt
  <2> QED BY <1>0, <2>1, <2>3, <2>4, <2>5
<1>4. CASE Restarts
  <2>1. /\ restarts' = restarts + 1 /\ UNCHANGED <<now, file, studies>>
        /\ state' \in {file, Default} /\ pass'.at = "idle" /\ pass'.todo = {}
    BY <1>4 DEF Restarts, NoPass
  <2>2. \A s \in Specs : Default.lastRun[s] <= now
    <3>1. now \in Nat BY <1>0, Typed
    <3> QED BY <3>1 DEF Default, Never
  <2>3. Past'
    BY <1>0, <2>1, <2>2 DEF Past
  <2>4. ToDoIsDue' /\ restarts' \in Nat
    BY <1>0, <2>1 DEF ToDoIsDue
  <2>5. Counted'
    <3> SUFFICES ASSUME NEW s \in Specs, NEW m \in Months
                 PROVE  studies[s][m] <= restarts + 1 /\ studies[s][m] <= 1 + (restarts + 1)
      BY <2>1 DEF Counted
    <3>1. studies[s][m] \in Nat /\ studies[s][m] <= 1 + restarts
      BY <1>0, Typed DEF Counted
    <3> QED BY <1>0, <3>1
  <2> QED BY <2>3, <2>4, <2>5
<1> QED BY <1>1, <1>2, <1>3, <1>4

\* revalidate.go:31: the schedule begins a study of a spec once a month, but
\* for one more of each process that died before, for any clock and any specs.
THEOREM OncePerMonthAlways == Spec => []OncePerMonth
<1> USE JobConstantsOK, ScheduleConstantsOK
<1>1. Init => MonthInv
  <2> SUFFICES ASSUME Init PROVE MonthInv
    OBVIOUS
  <2>1. ScheduleInv /\ restarts = 0 /\ now = 0 /\ pass.at = "idle" /\ pass.todo = {}
    BY ScheduleInvInit DEF Init, NoPass
  <2>2. \A s \in Specs : Default.lastRun[s] <= 0
    BY DEF Default, Never
  <2>3. \A s \in Specs : \A m \in Months : studies[s][m] = 0
    BY DEF Init
  <2> QED BY <2>1, <2>2, <2>3 DEF Init, MonthInv, Past, ToDoIsDue, Counted
<1>2. MonthInv /\ [Next]_vars => MonthInv'
  <2> SUFFICES ASSUME MonthInv, [Next]_vars PROVE MonthInv'
    OBVIOUS
  <2>1. ScheduleInv'
    BY PassKeeps, OthersKeep DEF Next, MonthInv
  <2> QED BY <2>1, MonthPass, MonthOthers DEF Next, MonthInv
<1>3. MonthInv => OncePerMonth
  BY DEF MonthInv, Counted, OncePerMonth
<1> QED BY <1>1, <1>2, <1>3, PTL DEF Spec

-----------------------------------------------------------------------------
(* The record of a study.                                                  *)

\* What is said of a job that is over: whose it was, its verdict, its end.
Tells(spec, j, status, outcome) ==
  /\ j \in Known /\ Over(j)
  /\ view[j].for = spec /\ outcome = view[j].printed
  /\ view[j].status \in {status, "cancelled"}

KeepsVerdict == \A j \in Jobs : view[j].stage # "going" => view[j].outcome = view[j].printed

WaitsForIts == pass.at = "wait" => view[pass.job].for = pass.spec
PassTells ==
  pass.at = "note" /\ pass.job # 0 /\ pass.status # "abandoned" =>
    Tells(pass.spec, pass.job, pass.status, pass.outcome)
RecordTells ==
  record.job # 0 /\ record.status # "abandoned" =>
    Tells(record.spec, record.job, record.status, record.outcome)

RecordInv == ScheduleInv /\ KeepsVerdict /\ WaitsForIts /\ PassTells /\ RecordTells

\* A step of the jobs leaves alone what is said of one that is over.
LEMMA JobsTell ==
  ASSUME ViewTypeOK, KeepsVerdict, JobConstantsOK, JobsNext
  PROVE  /\ KeepsVerdict'
         /\ \A j \in Known : j \in Known' /\ view'[j].for = view[j].for
         /\ \A spec, j, status, outcome :
              Tells(spec, j, status, outcome) => Tells(spec, j, status, outcome)'
<1> USE DEF ViewTypeOK, Jobs, JobConstantsOK, Known
<1>1. CASE Starts
  <2>1. PICK p \in Purposes : Start(p)
    BY <1>1 DEF Starts
  <2>2. current' = current + 1 /\ view' = [view EXCEPT ![current + 1] = NewView(p)] /\ current < MaxJobs
    BY <2>1 DEF Start
  <2>3. \A j \in Known : view'[j] = view[j] /\ j \in Known'
    BY <2>2
  <2>4. KeepsVerdict'
    BY <2>2 DEF KeepsVerdict, NewView
  <2> QED BY <2>3, <2>4 DEF Tells, Over
<1>2. CASE Moves
  <2>1. PICK j \in Known : Prints(j) \/ Ends(j) \/ LetsGo(j) \/ Marked(j)
    BY <1>2 DEF Moves
  <2>2. j \in Jobs /\ view[j] \in View /\ current' = current
    <3>1. j \in 1..MaxJobs
      BY <2>1
    <3> QED BY <2>1, <3>1 DEF Prints, Ends, LetsGo, Marked
  <2>3. PICK new : /\ view' = [view EXCEPT ![j] = new] /\ new.for = view[j].for
                   /\ new.stage # "going" => new.outcome = new.printed
                   /\ view[j].stage = "over" => new.stage = "over" /\ new.printed = view[j].printed
                                                /\ new.status \in {view[j].status, "cancelled"}
    <3>1. CASE Prints(j)
      <4>1. PICK v \in Verdicts : view' = [view EXCEPT ![j].printed = v]
        BY <3>1 DEF Prints
      <4> DEFINE new == [view[j] EXCEPT !.printed = v]
      <4>2. view[j].stage = "going" BY <3>1 DEF Prints
      <4>3. new.for = view[j].for /\ new.stage = "going" BY <2>2, <4>2 DEF View
      <4> QED BY <4>1, <4>2, <4>3
    <3>2. CASE Ends(j)
      <4>1. PICK s \in Endings(j) : view' = [view EXCEPT ![j].status = s, ![j].stage = "ended",
                                                         ![j].outcome = view[j].printed]
        BY <3>2 DEF Ends
      <4> DEFINE new == [view[j] EXCEPT !.status = s, !.stage = "ended", !.outcome = view[j].printed]
      <4>2. view' = [view EXCEPT ![j] = new]
        BY <2>2, <4>1, Zenon
      <4>3. view[j].stage = "going" BY <3>2 DEF Ends
      <4>4. new.for = view[j].for /\ new.outcome = new.printed BY <2>2 DEF View
      <4> QED BY <4>2, <4>3, <4>4
    <3>3. CASE LetsGo(j)
      <4> DEFINE new == [view[j] EXCEPT !.stage = "over"]
      <4>1. view' = [view EXCEPT ![j] = new] /\ view[j].stage = "ended"
        BY <3>3 DEF LetsGo
      <4>2. new.for = view[j].for /\ new.outcome = new.printed
        BY <2>2, <4>1 DEF View, KeepsVerdict
      <4> QED BY <4>1, <4>2
    <3>4. CASE Marked(j)
      <4> DEFINE new == [view[j] EXCEPT !.status = "cancelled"]
      <4>1. view' = [view EXCEPT ![j] = new]
        BY <3>4 DEF Marked
      <4>2. new.for = view[j].for /\ new.stage = view[j].stage /\ new.printed = view[j].printed
            /\ new.outcome = view[j].outcome /\ new.status = "cancelled"
        BY <2>2 DEF View
      <4>3. new.stage # "going" => new.outcome = new.printed
        BY <2>2, <4>2 DEF KeepsVerdict
      <4> HIDE DEF new
      <4> QED BY <4>1, <4>2, <4>3
    <3> QED BY <2>1, <3>1, <3>2, <3>3, <3>4
  <2>4. view'[j] = new /\ \A k \in Jobs \ {j} : view'[k] = view[k]
    BY <2>2, <2>3
  <2>5. KeepsVerdict'
    BY <2>3, <2>4 DEF KeepsVerdict
  <2>6. \A k \in Known : k \in Jobs /\ k \in Known' /\ view'[k].for = view[k].for
    BY <2>2, <2>3, <2>4
  <2>7. ASSUME NEW spec, NEW k, NEW status, NEW outcome, Tells(spec, k, status, outcome)
        PROVE  Tells(spec, k, status, outcome)'
    <3>1. k \in Known /\ k \in Jobs /\ k \in Known'
      BY <2>6, <2>7 DEF Tells
    <3>2. CASE k = j
      BY <2>3, <2>4, <2>7, <3>1, <3>2 DEF Tells, Over
    <3>3. CASE k # j
      BY <2>4, <2>7, <3>1, <3>3 DEF Tells, Over
    <3> QED BY <3>2, <3>3
  <2> QED BY <2>5, <2>6, <2>7
<1> QED BY <1>1, <1>2 DEF JobsNext

LEMMA RecordStep ==
  ASSUME RecordInv, JobConstantsOK, ScheduleConstantsOK, [Next]_vars
  PROVE  RecordInv'
<1> USE DEF PassAt
<1>1. ScheduleInv'
  BY PassKeeps, OthersKeep DEF Next, RecordInv
<1>2. /\ current \in 0..MaxJobs /\ view \in [Jobs -> View] /\ KeepsVerdict /\ pass \in Pass
      /\ (pass.at = "wait" => pass.job \in Known)
      /\ WaitsForIts /\ PassTells /\ RecordTells /\ ViewTypeOK
  BY InvParts DEF RecordInv, ScheduleTyped, ViewTypeOK
<1>3. SUFFICES KeepsVerdict' /\ WaitsForIts' /\ PassTells' /\ RecordTells'
  BY <1>1 DEF RecordInv
<1>4. ASSUME UNCHANGED viewVars
      PROVE  /\ KeepsVerdict'
             /\ (UNCHANGED record => RecordTells')
             /\ (UNCHANGED pass => WaitsForIts' /\ PassTells')
  BY <1>2, <1>4 DEF viewVars, KeepsVerdict, WaitsForIts, PassTells, RecordTells, Tells, Known, Over
<1>5. CASE PassBegins(FALSE) \/ PhoneRevalidates \/ PassEnds
  <2>1. UNCHANGED viewVars /\ UNCHANGED record
    BY <1>5 DEF PassBegins, PhoneRevalidates, PassEnds
  <2>2. pass'.at \in {"idle", "next"}
    <3>1. ASSUME NEW forced \in BOOLEAN, PassBegins(forced) PROVE pass'.at = "next"
      BY <3>1 DEF PassBegins, NoPass
    <3>2. CASE PassEnds
      BY <3>2 DEF PassEnds, NoPass
    <3> QED BY <1>5, <3>1, <3>2 DEF PhoneRevalidates
  <2> QED BY <1>4, <2>1, <2>2 DEF WaitsForIts, PassTells
<1>6. CASE StudyStarts
  <2>1. JobsNext
    BY <1>6 DEF StudyStarts, JobsNext, Starts, Purposes
  <2>2. KeepsVerdict' /\ RecordTells'
    BY <1>2, <1>6, <2>1, JobsTell DEF StudyStarts, RecordTells
  <2>3. pass'.at = "wait" /\ pass'.spec = First /\ pass'.job = current + 1
    BY <1>2, <1>6 DEF StudyStarts, Pass
  <2>4. view'[current + 1].for = First
    <3>1. current + 1 \in Jobs
      <4>1. current < MaxJobs /\ current \in Nat /\ MaxJobs \in Nat
        BY <1>2, <1>6 DEF StudyStarts, Start, JobConstantsOK
      <4> QED BY <4>1 DEF Jobs
    <3> QED BY <1>2, <1>6, <3>1 DEF StudyStarts, Start, NewView
  <2> QED BY <2>2, <2>3, <2>4 DEF WaitsForIts, PassTells
<1>7. CASE StudyRefused
  <2>1. UNCHANGED <<viewVars, record>> /\ pass'.at = "note" /\ pass'.job = 0
    BY <1>2, <1>7 DEF StudyRefused, Pass
  <2> QED BY <1>4, <2>1 DEF WaitsForIts, PassTells
<1>8. CASE StudyEnds
  <2>1. /\ UNCHANGED <<viewVars, record>> /\ pass'.at = "note" /\ pass'.job = pass.job /\ pass'.spec = pass.spec
        /\ pass'.status = view[pass.job].status /\ pass'.outcome = view[pass.job].outcome
    BY <1>2, <1>8 DEF StudyEnds, Pass
  <2>2. pass.job \in Known /\ view[pass.job].for = pass.spec /\ Over(pass.job)
    BY <1>2, <1>8 DEF StudyEnds, Answered, WaitsForIts
  <2>3. pass.job \in Jobs
    BY <1>2, <2>2 DEF Known, Jobs, JobConstantsOK
  <2>4. view[pass.job].outcome = view[pass.job].printed
    BY <1>2, <2>2, <2>3 DEF KeepsVerdict, Over
  <2>5. PassTells'
    BY <2>1, <2>2, <2>4 DEF PassTells, Tells, Known, Over, viewVars
  <2> QED BY <1>4, <2>1, <2>5 DEF WaitsForIts
<1>9. CASE StudyAbandoned
  <2>1. UNCHANGED <<viewVars, record>> /\ pass'.at = "note" /\ pass'.status = "abandoned"
    BY <1>2, <1>9 DEF StudyAbandoned, Pass
  <2> QED BY <1>4, <2>1 DEF WaitsForIts, PassTells
<1>10. CASE PassNotes
  <2>1. /\ UNCHANGED viewVars /\ pass.at = "note" /\ pass'.at = "next"
        /\ record'.spec = pass.spec /\ record'.status = pass.status /\ record'.job = pass.job
        /\ record'.outcome = pass.outcome
    BY <1>2, <1>10 DEF PassNotes, Pass
  <2>2. RecordTells'
    BY <1>2, <2>1 DEF PassTells, RecordTells, Tells, Known, Over, viewVars
  <2> QED BY <1>4, <2>1, <2>2 DEF WaitsForIts, PassTells
<1>11. CASE (\E on \in BOOLEAN : SetEnabled(on)) \/ Tick \/ Stops \/ UNCHANGED vars
  <2>1. UNCHANGED <<viewVars, pass, record>>
    BY <1>11 DEF SetEnabled, Tick, Stops, vars, scheduleVars
  <2> QED BY <1>4, <2>1
<1>12. CASE JobsNext /\ UNCHANGED scheduleVars
  <2>1. UNCHANGED <<pass, record>>
    BY <1>12 DEF scheduleVars
  <2>2. KeepsVerdict' /\ PassTells' /\ RecordTells'
    BY <1>2, <1>12, <2>1, JobsTell DEF PassTells, RecordTells
  <2>3. WaitsForIts'
    BY <1>2, <1>12, <2>1, JobsTell DEF WaitsForIts
  <2> QED BY <2>2, <2>3
<1>13. CASE Restarts
  <2>1. pass'.at = "idle" /\ record'.job = 0 /\ view' = [j \in Jobs |-> NoView]
    BY <1>13 DEF Restarts, Forgotten, NoPass, NoRecord
  <2> QED BY <2>1 DEF KeepsVerdict, NoView, WaitsForIts, PassTells, RecordTells
<1> QED
  BY <1>5, <1>6, <1>7, <1>8, <1>9, <1>10, <1>11, <1>12, <1>13 DEF Next, PassMoves

\* revalidate.go:337: a record that names a job tells how that job ended and
\* the verdict it printed, whatever was started and cancelled around it.
THEOREM RecordTellsAlways == Spec => []RecordTellsTheVerdict
<1> USE JobConstantsOK, ScheduleConstantsOK
<1>1. Init => RecordInv
  <2> SUFFICES ASSUME Init PROVE RecordInv
    OBVIOUS
  <2>1. ScheduleInv /\ pass.at = "idle" /\ record.job = 0
    BY ScheduleInvInit DEF Init, NoPass, NoRecord
  <2>2. KeepsVerdict
    BY DEF Init, JobsInit, KeepsVerdict, NoView
  <2> QED BY <2>1, <2>2 DEF RecordInv, WaitsForIts, PassTells, RecordTells
<1>2. RecordInv /\ [Next]_vars => RecordInv'
  BY RecordStep
<1>3. RecordInv => RecordTellsTheVerdict
  BY DEF RecordInv, RecordTells, RecordTellsTheVerdict, Tells
<1> QED BY <1>1, <1>2, <1>3, PTL DEF Spec
=============================================================================
