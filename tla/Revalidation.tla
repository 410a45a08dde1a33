---------------------------- MODULE Revalidation ----------------------------
(***************************************************************************)
(* The monthly re-validation: research.Schedule, whose passes run the      *)
(* study of every installed spec through the Runner, as StudyJobs promises *)
(* it, with the phone starting and cancelling jobs meanwhile.              *)
(*                                                                         *)
(* At most one pass is under way, as the flag running has it, whether the  *)
(* hourly loop began it or the phone (forced).  The state is written to    *)
(* revalidate.json whole.                                                  *)
(***************************************************************************)
EXTENDS StudyJobs, FiniteSetsExt

CONSTANTS
  Specs,                  \* the names of installed specs, in order
  Times, Month,           \* the clock's range, and the month of a time
  Open,                   \* times of a session and half an hour after it
  MaxTroubles             \* bound: restarts and saves that fail, together

ASSUME ScheduleConstantsOK ==
  /\ Studied \subseteq Specs /\ Specs \subseteq Nat \ {Setup} /\ IsFiniteSet(Specs)
  /\ Times \subseteq Nat /\ Open \subseteq Times /\ 0 \in Times
  /\ Month \in [Times -> Nat]
  /\ \A t, u \in Times : t <= u => Month[t] <= Month[u]
  /\ MaxTroubles \in Nat

Never == -1

VARIABLES
  now,
  state,                  \* Schedule.state: enabled, lastRun
  file,                   \* revalidate.json
  pass,                   \* the pass under way
  record,                 \* the newest Record of the history
  stopping,               \* the server has been told to stop
  restarts, faults,
  wanted,                 \* history: what the operator was last told the switch is
  studies                 \* history: how many scheduled studies of a spec began in a month

scheduleVars == <<now, state, file, pass, record, stopping, restarts, faults, wanted, studies>>
vars == <<viewVars, scheduleVars>>

Default == [enabled |-> TRUE, lastRun |-> [s \in Specs |-> Never]]
NoPass == [at |-> "idle", forced |-> FALSE, todo |-> {}, spec |-> Setup, job |-> 0,
           when |-> 0, status |-> None, outcome |-> None]
NoRecord == [spec |-> Setup, status |-> None, job |-> 0, outcome |-> None]

Months == {Month[t] : t \in Times}
PassAt(place) == pass.at = place
MarketClosed == now \notin Open

Trouble == restarts + faults < MaxTroubles

\* A write of the state, which may fail.
Saves(ok, new) ==
  /\ ok \/ Trouble
  /\ file' = IF ok THEN new ELSE file
  /\ faults' = faults + (IF ok THEN 0 ELSE 1)

-----------------------------------------------------------------------------
(* The operator's switch, and the clock. *)

\* A faulty variant of SetEnabled: it is not written.
SetEnabledUnsaved(on) ==
  /\ state' = [state EXCEPT !.enabled = on]
  /\ wanted' = IF on THEN "on" ELSE "off"
  /\ UNCHANGED <<viewVars, now, file, pass, record, stopping, restarts, faults, studies>>

SetEnabled(on) ==
  /\ state' = [state EXCEPT !.enabled = on]
  /\ \E ok \in BOOLEAN :
       /\ Saves(ok, state')
       /\ wanted' = CASE ~ok -> "unsure" [] ok /\ on -> "on" [] OTHER -> "off"
  /\ UNCHANGED <<viewVars, now, pass, record, stopping, restarts, studies>>

Tick ==
  /\ now + 1 \in Times
  /\ now' = now + 1
  /\ UNCHANGED <<viewVars, state, file, pass, record, stopping, restarts, faults, wanted, studies>>

-----------------------------------------------------------------------------
(* Pass. *)

\* A faulty variant of Due: a re-validation counts for its day.
DueEachDay == {s \in Specs : state.lastRun[s] # now}

NotedThisMonth(s) ==
  state.lastRun[s] # Never /\ Month[state.lastRun[s]] = Month[now]

Due == {s \in Specs : ~NotedThisMonth(s)}

MayPass == state.enabled /\ MarketClosed

PassBegins(forced) ==
  /\ PassAt("idle")
  /\ forced \/ (MayPass /\ ~stopping)
  /\ pass' = [NoPass EXCEPT !.at = "next", !.forced = forced,
                            !.todo = IF forced THEN Specs ELSE Due]
  /\ UNCHANGED <<viewVars, now, state, file, record, stopping, restarts, faults, wanted, studies>>

\* handleResearchRevalidate asks whether a job or a pass is under way.
PhoneRevalidates == ~Busy /\ ~stopping /\ PassBegins(TRUE)

\* Only the loop's pass hears that the server stops.
Interrupted == stopping /\ ~pass.forced

First == Min(pass.todo)

\* runOne begins: the record's time is taken, and the study is started.
StudyStarts ==
  /\ PassAt("next") /\ ~Interrupted /\ pass.todo # {}
  /\ First \in Studied
  /\ Start(First)
  /\ pass' = [pass EXCEPT !.at = "wait", !.spec = First, !.job = current + 1, !.when = now]
  /\ studies' = IF pass.forced THEN studies
                ELSE [studies EXCEPT ![First][Month[now]] = @ + 1]
  /\ UNCHANGED <<now, state, file, record, stopping, restarts, faults, wanted>>

\* No study produces the spec, or the Runner is busy: the record says Failed.
StudyRefused ==
  /\ PassAt("next") /\ ~Interrupted /\ pass.todo # {}
  /\ First \notin Studied \/ Busy
  /\ pass' = [pass EXCEPT !.at = "note", !.spec = First, !.job = 0, !.when = now,
                          !.status = "failed", !.outcome = None]
  /\ UNCHANGED <<viewVars, now, state, file, record, stopping, restarts, faults, wanted, studies>>

\* A faulty variant of Answered: the job need only not say that it runs.
AnsweredByStatus(j) == view[j].status # "running"

\* Wait returns when the job's channel is closed.
Answered(j) == Over(j)

StudyEnds ==
  /\ PassAt("wait") /\ Answered(pass.job)
  /\ pass' = [pass EXCEPT !.at = "note", !.status = view[pass.job].status,
                          !.outcome = view[pass.job].outcome]
  /\ UNCHANGED <<viewVars, now, state, file, record, stopping, restarts, faults, wanted, studies>>

\* Or when the server stops: the record says Cancelled, the job goes on.
StudyAbandoned ==
  /\ PassAt("wait") /\ Interrupted
  /\ pass' = [pass EXCEPT !.at = "note", !.status = "abandoned", !.outcome = None]
  /\ UNCHANGED <<viewVars, now, state, file, record, stopping, restarts, faults, wanted, studies>>

Noted == [state EXCEPT !.lastRun[pass.spec] = pass.when]

\* A save that fails is logged, and the pass goes on.
PassNotes ==
  /\ PassAt("note")
  /\ state' = Noted
  /\ record' = [spec |-> pass.spec, status |-> pass.status, job |-> pass.job, outcome |-> pass.outcome]
  /\ \E ok \in BOOLEAN : Saves(ok, state')
  /\ pass' = [pass EXCEPT !.at = "next", !.todo = @ \ {pass.spec}]
  /\ UNCHANGED <<viewVars, now, stopping, restarts, wanted, studies>>

PassEnds ==
  /\ PassAt("next") /\ (pass.todo = {} \/ Interrupted)
  /\ pass' = NoPass
  /\ UNCHANGED <<viewVars, now, state, file, record, stopping, restarts, faults, wanted, studies>>

PassMoves == StudyStarts \/ StudyRefused \/ StudyEnds \/ StudyAbandoned \/ PassNotes \/ PassEnds

-----------------------------------------------------------------------------
(* The process. *)

Stops ==
  /\ ~stopping /\ Trouble
  /\ stopping' = TRUE
  /\ UNCHANGED <<viewVars, now, state, file, pass, record, restarts, faults, wanted, studies>>

\* The process ends, by itself or not, and another reads the file; one that
\* cannot be read is as none, and the operator sees a switch that is on.
Restarts ==
  /\ Trouble
  /\ Forgotten
  /\ \/ state' = file /\ UNCHANGED wanted
     \/ state' = Default /\ wanted' = "on"
  /\ pass' = NoPass /\ stopping' = FALSE /\ restarts' = restarts + 1
  /\ record' = NoRecord
  /\ UNCHANGED <<now, file, faults, studies>>

Init ==
  /\ JobsInit
  /\ now = 0 /\ state = Default /\ file = Default
  /\ pass = NoPass /\ record = NoRecord
  /\ stopping = FALSE /\ restarts = 0 /\ faults = 0
  /\ wanted = "on" /\ studies = [s \in Specs |-> [m \in Months |-> 0]]

Next ==
  \/ JobsNext /\ UNCHANGED scheduleVars
  \/ \E on \in BOOLEAN : SetEnabled(on)
  \/ Tick
  \/ PassBegins(FALSE) \/ PhoneRevalidates \/ PassMoves
  \/ Stops \/ Restarts

Spec == Init /\ [][Next]_vars

-----------------------------------------------------------------------------
(* Properties of the schedule. *)

\* Type correctness of the jobs and of the schedule.
RevalidationTypeOK ==
  /\ ViewTypeOK
  /\ now \in Times
  /\ {state, file} \subseteq [enabled : BOOLEAN, lastRun : [Specs -> Times \union {Never}]]
  /\ pass.at \in {"idle", "next", "wait", "note"} /\ pass.todo \subseteq Specs
  /\ pass.at \in {"wait", "note"} => pass.spec \in Specs /\ pass.when \in Times
  /\ PassAt("wait") => pass.job \in Known
  /\ studies \in [Specs -> [Months -> Nat]]

\* revalidate.go:140: a switch the operator was told is off stays off, in
\* memory and on disk, so that no scheduled pass begins, whatever a pass under
\* way writes and over restarts.
OffStaysOff == wanted = "off" => ~state.enabled /\ ~file.enabled

\* revalidate.go:31: the schedule studies a spec once a month; only a process
\* that died, or stopped after a save that failed, can make it twice.
OncePerMonth ==
  \A s \in Specs : \A m \in Months : studies[s][m] <= 1 + restarts

\* revalidate.go:337: what a record says of a job is how the job really
\* ended, with the verdict its study printed.
RecordTellsTheVerdict ==
  record.job # 0 /\ record.status # "abandoned" =>
    /\ Over(record.job) /\ view[record.job].for = record.spec
    /\ record.outcome = view[record.job].printed
    /\ view[record.job].status \in {record.status, "cancelled"}
=============================================================================
