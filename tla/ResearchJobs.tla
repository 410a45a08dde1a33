---------------------------- MODULE ResearchJobs ----------------------------
(***************************************************************************)
(* The research jobs: research.Runner with the goroutine that drives each  *)
(* job, the command it runs, and the cancels that come from the phone.     *)
(*                                                                         *)
(* What it shows its callers is StudyJobs, which this module implements.   *)
(* A Setup stops after the sync.                                           *)
(***************************************************************************)
EXTENDS Integers, Sequences, FiniteSets

CONSTANTS
  Studied,        \* the specs that some study of this build emits
  Verdicts,       \* what a study may print in the end
  Cancellers,     \* requests to cancel that may be under way at once
  MaxJobs         \* bound: jobs the process starts

Setup == 0
Purposes == Studied \union {Setup}
Jobs == 1..MaxJobs

ASSUME JobConstantsOK ==
  /\ Studied \subseteq Nat \ {Setup} /\ IsFiniteSet(Studied)
  /\ "none" \notin Verdicts
  /\ MaxJobs \in 1..20

VARIABLES
  current,        \* the last job started by this process, none when 0
  job,            \* the jobs, those not yet started at NoJob
  uv,             \* uv is on the machine
  can,            \* where each cancel is, and the job it found
  stopped         \* history: jobs a cancel stopped and answered for

jobVars == <<current, job, uv, can, stopped>>

Statuses == {"running", "succeeded", "failed", "cancelled"}
None == "none"
Names == {"install", "sync", "study"}
Places == {"start", "ready", "begun", "live", "back", "read", "finish", "closing", "over"}

Job == [for : Purposes, status : Statuses \union {None}, at : Places,
        step : Names \union {None}, steps : Seq(Statuses), err : BOOLEAN,
        ctx : BOOLEAN, printed : Verdicts \union {None}, outcome : Verdicts \union {None}]

New(p) == [for |-> p, status |-> "running", at |-> "start", step |-> None, steps |-> <<>>,
           err |-> FALSE, ctx |-> FALSE, printed |-> None, outcome |-> None]
NoJob == [New(Setup) EXCEPT !.status = None, !.at = "over"]
NoCancel == [at |-> "idle", job |-> 0]

Known == 1..current
At(j, place) == j \in Known /\ job[j].at = place

\* The command of j is running: uv's, or the download of uv.
Live(j) == job[j].at = "live"
\* The job's channel is closed, and whoever waits for it goes on.
Done(j) == job[j].at = "over"

-----------------------------------------------------------------------------
(* Start. *)

\* A faulty variant of Busy: only a job whose command runs keeps others out.
BusyByProcess == current # 0 /\ Live(current)

Busy == current # 0 /\ job[current].status = "running"

Start(p) ==
  /\ ~Busy
  /\ current < MaxJobs
  /\ current' = current + 1
  /\ job' = [job EXCEPT ![current + 1] = New(p)]
  /\ UNCHANGED <<uv, can, stopped>>

\* handleResearchSetup and handleResearchRun.
PhoneStarts == \E p \in Purposes : Start(p)

-----------------------------------------------------------------------------
(* drive: the job's steps in order. *)

Change(j, new) == job' = [job EXCEPT ![j] = new] /\ UNCHANGED <<current, can, stopped>>

FindUV(j) ==
  /\ At(j, "start")
  /\ Change(j, [job[j] EXCEPT !.at = "ready", !.step = IF uv THEN "sync" ELSE "install"])
  /\ UNCHANGED uv

\* Where the job goes when its step is over: the study's verdict is read off
\* the log whatever the step returned.
AfterStep(j) == IF job[j].step = "study" THEN "read" ELSE "finish"

StepBegins(j) ==
  /\ At(j, "ready")
  /\ Change(j, IF job[j].ctx
                 THEN [job[j] EXCEPT !.err = TRUE, !.at = AfterStep(j)]
                 ELSE [job[j] EXCEPT !.steps = Append(@, "running"), !.at = "begun"])
  /\ UNCHANGED uv

\* Starting a command fails once the context is cancelled, or on its own.
CommandStarts(j) ==
  /\ At(j, "begun")
  /\ \E failed \in BOOLEAN :
       /\ job[j].ctx => failed
       /\ Change(j, [job[j] EXCEPT !.at = IF failed THEN "back" ELSE "live", !.err = failed])
  /\ UNCHANGED uv

StudyPrints(j) ==
  /\ At(j, "live") /\ job[j].step = "study" /\ job[j].printed = None
  /\ \E v \in Verdicts : Change(j, [job[j] EXCEPT !.printed = v])
  /\ UNCHANGED uv

\* A study that succeeds has printed its verdict; one that fails may have too.
CommandEnds(j) ==
  /\ At(j, "live")
  /\ \E err \in BOOLEAN :
       /\ ~err /\ job[j].step = "study" => job[j].printed # None
       /\ Change(j, [job[j] EXCEPT !.at = "back", !.err = err])
       /\ uv' = (uv \/ (job[j].step = "install" /\ ~err))

\* The context's end kills the command's process group, or its download.
CommandKilled(j) ==
  /\ At(j, "live") /\ job[j].ctx
  /\ Change(j, [job[j] EXCEPT !.at = "back", !.err = TRUE])
  /\ UNCHANGED uv

StepStatus(j) ==
  CASE job[j].status = "cancelled"               -> "cancelled"
    [] job[j].status # "cancelled" /\ job[j].err  -> "failed"
    [] OTHER                                      -> "succeeded"

Following(j) == IF job[j].step = "install" THEN "sync" ELSE "study"

\* The last step: a setup stops after the sync.
LastStep(j) == job[j].step = "study" \/ (job[j].step = "sync" /\ job[j].for = Setup)

\* A faulty variant of StepEnds: a failed step does not stop the job.
StepEndsGoesOn(j) ==
  /\ At(j, "back")
  /\ LET Ended == [job[j] EXCEPT !.steps[Len(job[j].steps)] = StepStatus(j)]
     IN Change(j, IF LastStep(j)
                    THEN [Ended EXCEPT !.at = AfterStep(j)]
                    ELSE [Ended EXCEPT !.at = "ready", !.step = Following(j), !.err = FALSE])
  /\ UNCHANGED uv

StepEnds(j) ==
  /\ At(j, "back")
  /\ LET err   == job[j].err \/ job[j].status = "cancelled"
         Ended == [job[j] EXCEPT !.steps[Len(job[j].steps)] = StepStatus(j), !.err = err]
     IN Change(j, IF err \/ LastStep(j)
                    THEN [Ended EXCEPT !.at = AfterStep(j)]
                    ELSE [Ended EXCEPT !.at = "ready", !.step = Following(j)])
  /\ UNCHANGED uv

\* A faulty variant of ReadsVerdict: the verdict of a job that failed is not read.
ReadsVerdictOfSuccess(j) ==
  /\ At(j, "read")
  /\ Change(j, [job[j] EXCEPT !.at = "finish",
                  !.outcome = IF job[j].err THEN None ELSE job[j].printed])
  /\ UNCHANGED uv

ReadsVerdict(j) ==
  /\ At(j, "read")
  /\ Change(j, [job[j] EXCEPT !.at = "finish", !.outcome = job[j].printed])
  /\ UNCHANGED uv

Finish(j) ==
  /\ At(j, "finish")
  /\ Change(j, [job[j] EXCEPT !.at = "closing", !.err = FALSE,
                  !.status = CASE @ = "cancelled" -> @
                               [] @ # "cancelled" /\ job[j].err -> "failed"
                               [] OTHER -> "succeeded"])
  /\ UNCHANGED uv

Close(j) == At(j, "closing") /\ Change(j, [job[j] EXCEPT !.at = "over"]) /\ UNCHANGED uv

\* The steps the goroutine takes by itself, however long a command runs.
Drive(j) ==
  \/ FindUV(j) \/ StepBegins(j) \/ CommandStarts(j) \/ CommandKilled(j)
  \/ StepEnds(j) \/ ReadsVerdict(j) \/ Finish(j) \/ Close(j)

-----------------------------------------------------------------------------
(* Cancel: each of its steps by itself. *)

CancelAt(c, place) == can[c].at = place
CancelGoes(c, place) == can' = [can EXCEPT ![c].at = place]

\* Cancel finds the job and sees it running; of any other it says nothing.
CancelLooks(c) ==
  /\ CancelAt(c, "idle")
  /\ \E j \in Known :
       /\ job[j].status = "running"
       /\ can' = [can EXCEPT ![c] = [at |-> "looked", job |-> j]]
  /\ UNCHANGED <<current, job, uv, stopped>>

\* Whatever the job has become since.
CancelMarks(c) ==
  /\ CancelAt(c, "looked")
  /\ job' = [job EXCEPT ![can[c].job].status = "cancelled"]
  /\ CancelGoes(c, "marked")
  /\ UNCHANGED <<current, uv, stopped>>

\* A faulty variant of CancelEndsContext: only what runs already is killed.
CancelKeepsContext(c) ==
  /\ CancelAt(c, "marked")
  /\ CancelGoes(c, "told")
  /\ UNCHANGED <<current, job, uv, stopped>>

CancelEndsContext(c) ==
  /\ CancelAt(c, "marked")
  /\ job' = [job EXCEPT ![can[c].job].ctx = TRUE]
  /\ CancelGoes(c, "told")
  /\ UNCHANGED <<current, uv, stopped>>

\* killRunning: a download is not a command and has nothing to kill.
CancelKills(c) ==
  /\ CancelAt(c, "told")
  /\ LET j == can[c].job
     IN job' = IF Live(j) /\ job[j].step # "install"
                 THEN [job EXCEPT ![j].at = "back", ![j].err = TRUE] ELSE job
  /\ CancelGoes(c, "waits")
  /\ UNCHANGED <<current, uv, stopped>>

\* A faulty variant of CancelAnswers: without waiting for the job to be done.
CancelAnswersAtOnce(c) ==
  /\ CancelAt(c, "waits")
  /\ stopped' = stopped \union {can[c].job}
  /\ can' = [can EXCEPT ![c] = NoCancel]
  /\ UNCHANGED <<current, job, uv>>

CancelAnswers(c) ==
  /\ CancelAt(c, "waits") /\ Done(can[c].job)
  /\ stopped' = stopped \union {can[c].job}
  /\ can' = [can EXCEPT ![c] = NoCancel]
  /\ UNCHANGED <<current, job, uv>>

CancelMoves(c) == CancelMarks(c) \/ CancelEndsContext(c) \/ CancelKills(c) \/ CancelAnswers(c)

-----------------------------------------------------------------------------
Init ==
  /\ current = 0 /\ job = [j \in Jobs |-> NoJob]
  /\ uv \in BOOLEAN
  /\ can = [c \in Cancellers |-> NoCancel]
  /\ stopped = {}

\* What happens to jobs once they are started.
JobsMove ==
  \/ \E j \in Jobs : Drive(j) \/ StudyPrints(j) \/ CommandEnds(j)
  \/ \E c \in Cancellers : CancelLooks(c) \/ CancelMoves(c)

Next == PhoneStarts \/ JobsMove

\* A goroutine that can go on does.  How long a command runs is not promised.
Fairness ==
  /\ \A j \in Jobs : WF_jobVars(Drive(j))
  /\ \A c \in Cancellers : WF_jobVars(CancelMoves(c))

Spec == Init /\ [][Next]_jobVars /\ Fairness

-----------------------------------------------------------------------------
(* Properties of the jobs. *)

\* Type correctness of the runner's state.
JobsTypeOK ==
  /\ current \in 0..MaxJobs
  /\ job \in [Jobs -> Job]
  /\ \A j \in Known : At(j, "start") \/ job[j].step \in Names
  /\ uv \in BOOLEAN
  /\ can \in [Cancellers -> [at : {"idle", "looked", "marked", "told", "waits"}, job : 0..MaxJobs]]
  /\ stopped \subseteq Jobs

\* research.go:322, as far as the code keeps it: only the last job started can
\* be running, and while another's command still runs, that one was cancelled.
OthersAreCancelled ==
  \A j \in Known \ {current} :
    /\ job[j].status # "running"
    /\ ~Done(j) /\ job[j].at # "closing" => job[j].status = "cancelled"

\* research.go:534: when a cancel that met a running job has answered, the
\* job is over, nothing of it runs, and cancelled it stays.
CancelledIsOver ==
  \A j \in stopped : job[j].status = "cancelled" /\ Done(j)

\* research.go:592: a job that succeeded went through every step it was for,
\* and every one of them succeeded.
SuccessIsWhole ==
  \A j \in Known : job[j].status = "succeeded" =>
    /\ LastStep(j)
    /\ \A i \in DOMAIN job[j].steps : job[j].steps[i] = "succeeded"
    /\ job[j].for # Setup => job[j].outcome # None

\* research.go:397 and revalidate.go:360: to those who start jobs and wait for
\* them the Runner is a StudyJobs: one job at a time says that it runs, and at
\* its end a job keeps the verdict it printed and the cancel it was given.
Stage(at) == CASE at = "over" -> "over" [] at = "closing" -> "ended" [] OTHER -> "going"
ShownAs(r) ==
  [for |-> r.for, status |-> r.status, stage |-> Stage(r.at), printed |-> r.printed,
   outcome |-> IF Stage(r.at) = "going" THEN None ELSE r.outcome]
Shown == [j \in Jobs |-> ShownAs(job[j])]
Promise == INSTANCE StudyJobs WITH view <- Shown
KeepsThePromise == Promise!JobsSpec

\* research.go:534: a cancel that found its job running returns, however long
\* the command would have run.
CancelReturns == \A c \in Cancellers : ~CancelAt(c, "idle") ~> CancelAt(c, "idle")
=============================================================================
