----------------------------- MODULE Scheduler -----------------------------
(***************************************************************************)
(* sched.Loop over a few trading sessions: it picks the next close, asks   *)
(* the journal whether that day was done, sleeps to Offset before the      *)
(* close, looks at the halt marker, runs the day and waits out the close.  *)
(* Around it: the clock, a machine that may be suspended, a process that   *)
(* may be killed and started again, the marker, and Run now.  What a run   *)
(* does is module DailyRun; here it is the last run line of its journal.   *)
(*                                                                         *)
(* One tick is longer than sleepUntil's hops of a minute, so a waiting     *)
(* process that is awake does what it waited for before the next tick; a   *)
(* run may last as long as it likes.                                       *)
(***************************************************************************)
EXTENDS Naturals

CONSTANTS
  NSessions,  \* trading sessions, in order
  Closing,    \* when each closes
  Offset,     \* a run's time before the close
  Grace,      \* the minute after it
  Horizon,    \* bound: the last tick
  MaxKills,   \* bounds: times the process dies, the machine is suspended, the
  MaxNaps,    \*   marker is set, and Run now is pressed
  MaxHalts,
  MaxPresses

Sessions == 1 .. NSessions
RunTime(s) == Closing[s] - Offset

ASSUME SchedulerConstantsOK ==
  /\ NSessions \in Nat \ {0} /\ Closing \in [Sessions -> Nat]
  /\ Offset \in Nat \ {0} /\ Grace \in Nat /\ Horizon \in Nat
  /\ \A s \in Sessions : Offset <= Closing[s] /\ Closing[s] + Grace <= Horizon
  /\ \A s, t \in Sessions : s < t => Closing[s] + Grace < RunTime(t)
  /\ {MaxKills, MaxNaps, MaxHalts, MaxPresses} \subseteq Nat

VARIABLES
  now, asleep,     \* the clock, and whether the machine is suspended
  pc, session,     \* where Serve is, and its session
  halted,          \* the marker
  status,          \* Summarize of each day's journal
  button,          \* the session Run now is running, or 0
  used,            \* what is left of each bound
  tried,           \* history: the sessions this process already ran
  excused,         \* history: the sessions skipped for a halt or run into an error
  absent           \* history: the sessions nobody waited for, before their close

schedVars == <<now, asleep, pc, session, halted, status, button, used, tried, excused, absent>>
history == <<tried, excused, absent>>

Concluded == {"completed", "halted", "failed"}
Done(s) == status[s] \in Concluded

\* A faulty variant of Upcoming: a session past its run time is over.
UpcomingRuns == {s \in Sessions : RunTime(s) > now}

\* NextClose: the first session that has yet to close.
Upcoming == {s \in Sessions : Closing[s] > now}
NextClose == CHOOSE s \in Upcoming : \A t \in Upcoming : s <= t

-----------------------------------------------------------------------------
Init ==
  /\ now = 0 /\ asleep = FALSE /\ pc = "choose" /\ session = 1 /\ halted = FALSE
  /\ status = [s \in Sessions |-> "none"] /\ button = 0
  /\ used = [kills |-> 0, naps |-> 0, halts |-> 0, presses |-> 0]
  /\ tried = {} /\ excused = {} /\ absent = {}

\* Faulty variants of Choose: the journal is not asked; a cut-off day is done.
ChooseBlind ==
  /\ pc = "choose" /\ ~asleep /\ Upcoming # {}
  /\ session' = NextClose /\ pc' = "waiting"
  /\ UNCHANGED <<now, asleep, halted, status, button, used, history>>
ChooseStarted ==
  /\ pc = "choose" /\ ~asleep /\ Upcoming # {}
  /\ session' = NextClose
  /\ pc' = IF status[NextClose] # "none" THEN "closing" ELSE "waiting"
  /\ UNCHANGED <<now, asleep, halted, status, button, used, history>>

Choose ==
  /\ pc = "choose" /\ ~asleep /\ Upcoming # {}
  /\ session' = NextClose
  /\ pc' = IF Done(NextClose) THEN "closing" ELSE "waiting"
  /\ UNCHANGED <<now, asleep, halted, status, button, used, history>>

\* The run's time has come, if it is not long past: the clock is not asked
\* again, nor the journal; only the marker is.
Fire ==
  /\ pc = "waiting" /\ ~asleep /\ now >= RunTime(session)
  /\ \/ /\ halted
        /\ pc' = "closing" /\ excused' = excused \union {session}
     \/ /\ ~halted
        /\ pc' = "firing" /\ UNCHANGED excused
  /\ UNCHANGED <<now, asleep, session, halted, status, button, used, tried, absent>>

\* Whatever happened, the day is over for the scheduler.
After == "closing"

\* Run opens the journal and starts, or returns its error.
Begin ==
  /\ pc = "firing" /\ ~asleep
  /\ tried' = tried \union {session}
  /\ \/ /\ pc' = "running" /\ status' = [status EXCEPT ![session] = "started"]
        /\ UNCHANGED excused
     \/ /\ pc' = After /\ excused' = excused \union {session}
        /\ UNCHANGED status
  /\ UNCHANGED <<now, asleep, session, halted, button, used, absent>>

\* The run ends on a line of its own, or returns an error instead.
End ==
  /\ pc = "running" /\ ~asleep /\ pc' = After
  /\ \/ /\ \E last \in Concluded : status' = [status EXCEPT ![session] = last]
        /\ UNCHANGED excused
     \/ /\ excused' = excused \union {session}
        /\ UNCHANGED status
  /\ UNCHANGED <<now, asleep, session, halted, button, used, tried, absent>>

WaitOut ==
  /\ pc = "closing" /\ ~asleep /\ now >= Closing[session] + Grace
  /\ pc' = "choose"
  /\ UNCHANGED <<now, asleep, session, halted, status, button, used, history>>

\* The process dies, by a crash or by a shutdown that does not wait for its
\* run: the journal of a run is left at "started", or cut off in its last line,
\* which reads as failed.
Kill ==
  /\ pc # "down" /\ used.kills < MaxKills
  /\ used' = [used EXCEPT !.kills = @ + 1]
  /\ LET cutoff == {s \in Sessions : s = button \/ (s = session /\ pc = "running")}
     IN  \E torn \in SUBSET cutoff :
           status' = [s \in Sessions |-> IF s \in torn THEN "failed" ELSE status[s]]
  /\ pc' = "down" /\ button' = 0 /\ tried' = {}
  /\ UNCHANGED <<now, asleep, session, halted, excused, absent>>

Restart ==
  /\ pc = "down" /\ ~asleep
  /\ pc' = "choose"
  /\ UNCHANGED <<now, asleep, session, halted, status, button, used, history>>

\* Run now asks neither the journal nor the loop.
Press ==
  /\ pc # "down" /\ ~asleep /\ button = 0 /\ Upcoming # {}
  /\ used.presses < MaxPresses /\ used' = [used EXCEPT !.presses = @ + 1]
  /\ button' = NextClose
  /\ status' = [status EXCEPT ![NextClose] = "started"]
  /\ UNCHANGED <<now, asleep, pc, session, halted, history>>

PressEnds ==
  /\ button # 0 /\ ~asleep
  /\ button' = 0
  /\ \/ /\ \E last \in Concluded : status' = [status EXCEPT ![button] = last]
        /\ UNCHANGED excused
     \/ /\ excused' = excused \union {button}
        /\ UNCHANGED status
  /\ UNCHANGED <<now, asleep, pc, session, halted, used, tried, absent>>

\* The lid.
Suspend ==
  /\ ~asleep /\ used.naps < MaxNaps
  /\ asleep' = TRUE /\ used' = [used EXCEPT !.naps = @ + 1]
  /\ UNCHANGED <<now, pc, session, halted, status, button, history>>

Wake ==
  /\ asleep /\ asleep' = FALSE
  /\ UNCHANGED <<now, pc, session, halted, status, button, used, history>>

Halt ==
  /\ ~halted /\ used.halts < MaxHalts
  /\ halted' = TRUE /\ used' = [used EXCEPT !.halts = @ + 1]
  /\ UNCHANGED <<now, asleep, pc, session, status, button, history>>

Resume ==
  /\ halted /\ halted' = FALSE
  /\ UNCHANGED <<now, asleep, pc, session, status, button, used, history>>

Waiting == pc \in {"waiting", "closing"} /\ ~asleep
Due ==
  /\ ~asleep
  /\ \/ pc = "choose" /\ Upcoming # {}
     \/ pc = "firing"
     \/ pc = "waiting" /\ now >= RunTime(session)
     \/ pc = "closing" /\ now >= Closing[session] + Grace
InWindow(s) == RunTime(s) <= now /\ now < Closing[s]

Tick ==
  /\ now < Horizon /\ ~Due
  /\ now' = now + 1
  /\ absent' = IF Waiting THEN absent ELSE absent \union {s \in Sessions : InWindow(s)}
  /\ UNCHANGED <<asleep, pc, session, halted, status, button, used, tried, excused>>

Serve == Choose \/ Fire \/ Begin \/ End \/ WaitOut

Next ==
  \/ Serve \/ Kill \/ Restart \/ Press \/ PressEnds
  \/ Suspend \/ Wake \/ Halt \/ Resume \/ Tick

Spec == Init /\ [][Next]_schedVars

\* Timers fire and goroutines run while the process is up, and time passes.
\* Nobody need wake a machine, restart a process or resume trading.
FairSpec == Spec /\ WF_schedVars(Serve) /\ WF_schedVars(Tick)

-----------------------------------------------------------------------------
(* Properties *)

SchedTypeOK ==
  /\ now \in 0 .. Horizon /\ asleep \in BOOLEAN /\ halted \in BOOLEAN
  /\ pc \in {"choose", "waiting", "firing", "running", "closing", "down"}
  /\ session \in Sessions /\ button \in {0} \union Sessions
  /\ status \in [Sessions -> {"none", "started"} \union Concluded]
  /\ used \in [kills : 0 .. MaxKills, naps : 0 .. MaxNaps,
               halts : 0 .. MaxHalts, presses : 0 .. MaxPresses]
  /\ tried \subseteq Sessions /\ excused \subseteq Sessions /\ absent \subseteq Sessions

\* "Loop fires a run once per trading day at the close minus Offset": a day that
\* was concluded is not run again however often the process is restarted and the
\* machine suspended, as long as nobody presses Run now; on a machine that stays
\* awake a run starts at or after its time and before its session closes; and
\* "an error is logged, not retried" by the process that met it.
FiresOnceInWindow ==
  [][/\ used'.presses = 0 => \A s \in Sessions : Done(s) => status'[s] = status[s]
     /\ pc = "firing" /\ pc' = "running" =>
          session \notin tried /\ (used.naps = 0 => InWindow(session))]_schedVars

\* "a process restarted at 15:55 still trades the day": time does not go by
\* inside the window of a day with the loop waiting for something else, unless
\* the day is concluded, was skipped for a halt or ran into an error.
NoDaySlips ==
  [][now' > now /\ Waiting =>
       \A s \in Sessions : InWindow(s) => Done(s) \/ s \in excused \/ button = s]_schedVars

\* Every session is concluded in the end, unless trading was stopped, its run
\* met an error, or nobody waited for it when it was time.
EverySessionSettles == \A s \in Sessions : <>(Done(s) \/ s \in excused \/ s \in absent)
=============================================================================
