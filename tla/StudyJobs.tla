------------------------------ MODULE StudyJobs ------------------------------
(***************************************************************************)
(* What the research Runner promises whoever starts a job and waits for    *)
(* it: a job is started only when none says that it runs; it goes on until *)
(* it has ended, keeps the verdict it printed, and says how it ended; then *)
(* those who wait are let go.  A cancel may mark it at any time.           *)
(*                                                                         *)
(* ResearchJobs is how the Runner keeps this; Revalidation relies on it.   *)
(* A job is named by its place in the order of starting, and is for the    *)
(* spec its study emits, or for Setup, which runs no study.                *)
(***************************************************************************)
EXTENDS Integers, FiniteSets

CONSTANTS
  Studied,        \* the specs that some study of this build emits
  Verdicts,       \* what a study may print in the end
  MaxJobs         \* bound: jobs one process starts

Setup == 0
Purposes == Studied \union {Setup}
Jobs == 1..MaxJobs

\* The Runner remembers the current job and the twenty before it.
ASSUME JobConstantsOK ==
  /\ Studied \subseteq Nat \ {Setup} /\ IsFiniteSet(Studied)
  /\ "none" \notin Verdicts
  /\ MaxJobs \in 1..20

VARIABLES
  current,        \* the last job started by this process, none when 0
  view            \* the jobs, those not yet started at NoView

viewVars == <<current, view>>

None == "none"
Statuses == {"running", "succeeded", "failed", "cancelled"}
Outcomes == Verdicts \union {None}

\* stage: whether the job has ended, and whether who waits was let go.
\* printed: the verdict in its log.  outcome: the one its view shows at the end.
View == [for : Purposes, status : Statuses \union {None}, stage : {"going", "ended", "over"},
         printed : Outcomes, outcome : Outcomes]

NewView(p) == [for |-> p, status |-> "running", stage |-> "going", printed |-> None, outcome |-> None]
NoView == [for |-> Setup, status |-> None, stage |-> "over", printed |-> None, outcome |-> None]

Known == 1..current
Over(j) == view[j].stage = "over"
Busy == current # 0 /\ view[current].status = "running"

Start(p) ==
  /\ ~Busy
  /\ current < MaxJobs
  /\ current' = current + 1
  /\ view' = [view EXCEPT ![current + 1] = NewView(p)]

Prints(j) ==
  /\ view[j].stage = "going" /\ view[j].for # Setup /\ view[j].printed = None
  /\ \E v \in Verdicts : view' = [view EXCEPT ![j].printed = v]
  /\ UNCHANGED current

\* A study that succeeded has printed its verdict.
Endings(j) ==
  IF view[j].status = "cancelled" THEN {"cancelled"}
  ELSE {"failed"} \union {s \in {"succeeded"} : view[j].for = Setup \/ view[j].printed # None}

Ends(j) ==
  /\ view[j].stage = "going"
  /\ \E s \in Endings(j) : view' = [view EXCEPT ![j].status = s, ![j].stage = "ended",
                                                ![j].outcome = view[j].printed]
  /\ UNCHANGED current

LetsGo(j) ==
  /\ view[j].stage = "ended"
  /\ view' = [view EXCEPT ![j].stage = "over"]
  /\ UNCHANGED current

\* Cancel looks whether the job runs before it marks it, and so may mark one
\* that has ended meanwhile.
Marked(j) ==
  /\ view[j].status # "cancelled"
  /\ view' = [view EXCEPT ![j].status = "cancelled"]
  /\ UNCHANGED current

JobsInit == current = 0 /\ view = [j \in Jobs |-> NoView]

Starts == \E p \in Purposes : Start(p)
Moves == \E j \in Known : Prints(j) \/ Ends(j) \/ LetsGo(j) \/ Marked(j)

JobsNext == Starts \/ Moves

JobsSpec == JobsInit /\ [][JobsNext]_viewVars

\* The process ends, and its jobs with it.
Forgotten == current' = 0 /\ view' = [j \in Jobs |-> NoView]

\* Type correctness of the jobs as their callers see them.
ViewTypeOK == current \in 0..MaxJobs /\ view \in [Jobs -> View]
=============================================================================
