------------------------- MODULE ResearchJobsProofs -------------------------
(***************************************************************************)
(* Proofs about ResearchJobs: its types, that no job but the last one      *)
(* started goes on without having been cancelled, that a cancel which has  *)
(* answered left a job that is over, that ResearchJobs implements          *)
(* StudyJobs: every step of the driving goroutine, of a command, of a      *)
(* start or of a cancel is a step of the promise, or none that shows; and  *)
(* that a job which says it succeeded has every step of it on record.      *)
(***************************************************************************)
EXTENDS ResearchJobs, TLAPS

Ended(at) == at \in {"closing", "over"}

\* A job that goes on either runs or was cancelled.
GoesOnOrCancelled ==
  \A j \in Known : ~Ended(job[j].at) => job[j].status \in {"running", "cancelled"}

\* A cancel holds a job of this process, and has marked it once it went on.
CancelsHold ==
  \A c \in Cancellers :
    /\ can[c].at # "idle" => can[c].job \in Known
    /\ can[c].at \in {"marked", "told", "waits"} => job[can[c].job].status = "cancelled"

StoppedKnown == stopped \subseteq Known

JobsInv ==
  /\ JobsTypeOK
  /\ GoesOnOrCancelled
  /\ OthersAreCancelled
  /\ CancelsHold
  /\ StoppedKnown
  /\ CancelledIsOver

\* What the driving goroutine may make of a job: it leaves the status alone,
\* unless it concludes the job, and then a cancel stands.
Driven(old, new) ==
  /\ new \in Job
  /\ old.at # "over" /\ (new.at = "start" \/ new.step \in Names)
  /\ \/ /\ new.status = old.status
        /\ ~Ended(new.at) /\ ~Ended(old.at)
     \/ /\ old.at = "finish" /\ new.at = "closing"
        /\ new.status \in {"succeeded", "failed", "cancelled"}
        /\ old.status = "cancelled" => new.status = "cancelled"
     \/ /\ new.status = old.status /\ old.at = "closing" /\ new.at = "over"

-----------------------------------------------------------------------------
(* Replacing an element of a sequence gives a sequence. *)
LEMMA ReplacedInSeq ==
  ASSUME NEW S, NEW s \in Seq(S), NEW i, NEW v \in S
  PROVE  [s EXCEPT ![i] = v] \in Seq(S)
<1>1. PICK n \in Nat : s \in [1..n -> S]
  BY SMT
<1>2. [s EXCEPT ![i] = v] \in [1..n -> S]
  BY <1>1
<1> QED BY <1>2, SMT

(* Every job that a driven one replaces leaves the invariant as it was. *)
LEMMA DrivenKeeps ==
  ASSUME JobsInv, JobConstantsOK, NEW j \in Known, NEW new,
         Driven(job[j], new), Change(j, new), uv' \in BOOLEAN
  PROVE  JobsInv'
<1> USE DEF JobsInv, JobsTypeOK, Known, Jobs, Change, Driven
<1>1. j \in Jobs /\ job' = [job EXCEPT ![j] = new] /\ job'[j] = new
      /\ \A k \in Jobs \ {j} : job'[k] = job[k]
  BY DEF JobConstantsOK
<1>2. JobsTypeOK'
  BY <1>1 DEF At
<1>3. GoesOnOrCancelled'
  BY <1>1 DEF GoesOnOrCancelled, Ended
<1>4. OthersAreCancelled'
  BY <1>1 DEF OthersAreCancelled, Ended, Done
<1>5. CancelsHold'
  BY <1>1 DEF CancelsHold, Ended, GoesOnOrCancelled
<1>6. StoppedKnown' /\ CancelledIsOver'
  BY <1>1 DEF StoppedKnown, CancelledIsOver, Done
<1> QED BY <1>2, <1>3, <1>4, <1>5, <1>6

-----------------------------------------------------------------------------
(* Every step of the driving goroutine, and of the command it runs. *)

LEMMA DriveKeeps ==
  ASSUME JobsInv, JobConstantsOK, NEW j \in Jobs, Drive(j)
  PROVE  JobsInv'
<1> USE DEF At, Ended
<1>1. j \in Known /\ job[j] \in Job /\ uv \in BOOLEAN /\ GoesOnOrCancelled
      /\ (At(j, "start") \/ job[j].step \in Names)
  BY DEF JobsInv, JobsTypeOK, Drive, FindUV, StepBegins, CommandStarts, CommandKilled,
         StepEnds, ReadsVerdict, Finish, Close
<1> DEFINE Goes(new) == Change(j, new) /\ Driven(job[j], new)
<1>2. SUFFICES \E new : Goes(new) /\ uv' \in BOOLEAN
  BY <1>1, DrivenKeeps
<1>3. CASE FindUV(j)
  <2> DEFINE new == [job[j] EXCEPT !.at = "ready", !.step = IF uv THEN "sync" ELSE "install"]
  <2> QED BY <1>1, <1>3 DEF FindUV, Driven, Job, Names, Places
<1>4. CASE StepBegins(j)
  <2>1. Append(job[j].steps, "running") \in Seq(Statuses)
    BY <1>1 DEF Job, Statuses
  <2> QED BY <1>1, <1>4, <2>1 DEF StepBegins, Driven, Job, Names, Places, AfterStep
<1>5. CASE CommandStarts(j)
  BY <1>1, <1>5 DEF CommandStarts, Driven, Job, Places
<1>6. CASE CommandKilled(j)
  BY <1>1, <1>6 DEF CommandKilled, Driven, Job, Places
<1>7. CASE StepEnds(j)
  <2>1. [job[j].steps EXCEPT ![Len(job[j].steps)] = StepStatus(j)] \in Seq(Statuses)
    BY <1>1, ReplacedInSeq DEF Job, Statuses, StepStatus
  <2> DEFINE err   == job[j].err \/ job[j].status = "cancelled"
             Back  == [job[j] EXCEPT !.steps[Len(job[j].steps)] = StepStatus(j), !.err = err]
             new   == IF err \/ LastStep(j) THEN [Back EXCEPT !.at = AfterStep(j)]
                      ELSE [Back EXCEPT !.at = "ready", !.step = Following(j)]
  <2>2. Change(j, new) /\ uv' = uv /\ job[j].at = "back"
    BY <1>7 DEF StepEnds, At
  <2>3. new \in Job /\ new.at \in {"ready", "read", "finish"} /\ new.step \in Names /\ new.status = job[j].status
    <3>1. Back \in Job /\ Back.step = job[j].step /\ Back.status = job[j].status
      BY <1>1, <2>1 DEF Job
    <3>2. AfterStep(j) \in {"read", "finish"} /\ Following(j) \in Names /\ job[j].step \in Names
      BY <1>1, <2>2 DEF AfterStep, Following, Names, At
    <3> HIDE DEF Back
    <3>3. CASE err \/ LastStep(j)
      BY <3>1, <3>2, <3>3 DEF Job, Places
    <3>4. CASE ~(err \/ LastStep(j))
      BY <3>1, <3>2, <3>4 DEF Job, Places
    <3> QED BY <3>3, <3>4
  <2> HIDE DEF new
  <2>4. Driven(job[j], new)
    BY <2>2, <2>3 DEF Driven, Ended
  <2> QED BY <1>1, <2>2, <2>4
<1>8. CASE ReadsVerdict(j)
  BY <1>1, <1>8 DEF ReadsVerdict, Driven, Job, Places
<1>9. CASE Finish(j)
  BY <1>1, <1>9 DEF Finish, Driven, Job, Places, Statuses, GoesOnOrCancelled
<1>10. CASE Close(j)
  BY <1>1, <1>10 DEF Close, Driven, Job, Places
<1> QED
  BY <1>3, <1>4, <1>5, <1>6, <1>7, <1>8, <1>9, <1>10 DEF Drive

LEMMA CommandKeeps ==
  ASSUME JobsInv, JobConstantsOK, NEW j \in Jobs, StudyPrints(j) \/ CommandEnds(j)
  PROVE  JobsInv'
<1>1. j \in Known /\ job[j] \in Job /\ uv \in BOOLEAN /\ (At(j, "start") \/ job[j].step \in Names)
  BY DEF JobsInv, JobsTypeOK, StudyPrints, CommandEnds, At
<1>2. SUFFICES \E new : Change(j, new) /\ Driven(job[j], new) /\ uv' \in BOOLEAN
  BY <1>1, DrivenKeeps
<1>3. CASE StudyPrints(j)
  BY <1>1, <1>3 DEF StudyPrints, Driven, Job, Places, At, Ended
<1>4. CASE CommandEnds(j)
  BY <1>1, <1>4 DEF CommandEnds, Driven, Job, Places, At, Ended
<1> QED BY <1>3, <1>4

-----------------------------------------------------------------------------
(* A start, and the steps of a cancel. *)

LEMMA StartKeeps ==
  ASSUME JobsInv, JobConstantsOK, NEW p \in Purposes, Start(p)
  PROVE  JobsInv'
<1> USE DEF JobsInv, JobsTypeOK, Known, Jobs, Start
<1>1. current + 1 \in Jobs /\ current' = current + 1 /\ job'[current + 1] = New(p)
      /\ \A k \in Jobs \ {current + 1} : job'[k] = job[k]
  BY DEF JobConstantsOK
<1>2. New(p) \in Job
  BY DEF New, Job, Statuses, Places
<1>3. JobsTypeOK'
  BY <1>1, <1>2 DEF At, New, JobConstantsOK
<1>4. GoesOnOrCancelled'
  BY <1>1 DEF GoesOnOrCancelled, New, JobConstantsOK
<1>5. OthersAreCancelled'
  BY <1>1 DEF OthersAreCancelled, GoesOnOrCancelled, Ended, Done, Busy, JobConstantsOK
<1>6. CancelsHold'
  BY <1>1 DEF CancelsHold, JobConstantsOK
<1>7. StoppedKnown' /\ CancelledIsOver'
  BY <1>1 DEF StoppedKnown, CancelledIsOver, Done, JobConstantsOK
<1> QED BY <1>3, <1>4, <1>5, <1>6, <1>7

(* A cancel that goes on leaves its job marked, and no further than it was. *)
LEMMA TouchKeeps ==
  ASSUME JobsInv, JobConstantsOK, NEW c \in Cancellers, NEW place \in {"marked", "told", "waits"},
         NEW new \in Job, can[c].at # "idle", CancelGoes(c, place),
         job' = [job EXCEPT ![can[c].job] = new],
         new.status = "cancelled", Ended(new.at) <=> Ended(job[can[c].job].at),
         (new.at = "over") <=> (job[can[c].job].at = "over"),
         new.at = "start" \/ new.step \in Names,
         UNCHANGED <<current, uv, stopped>>
  PROVE  JobsInv'
<1> USE DEF JobsInv, JobsTypeOK, Known, Jobs, CancelGoes
<1> DEFINE j == can[c].job
<1>1. j \in Known /\ j \in Jobs /\ job'[j] = new /\ \A k \in Jobs \ {j} : job'[k] = job[k]
  BY DEF CancelsHold, JobConstantsOK
<1>2. can'[c].at = place /\ can'[c].job = j /\ \A d \in Cancellers \ {c} : can'[d] = can[d]
  OBVIOUS
<1> HIDE DEF j
<1>3. JobsTypeOK'
  <2>1. job' \in [Jobs -> Job] /\ can' \in [Cancellers -> [at : {"idle", "looked", "marked", "told", "waits"}, job : 0..MaxJobs]]
    BY DEF j
  <2>2. \A k \in Known' : At(k, "start")' \/ job'[k].step \in Names
    BY <1>1 DEF At, JobConstantsOK
  <2> QED BY <2>1, <2>2
<1>4. GoesOnOrCancelled'
  BY <1>1 DEF GoesOnOrCancelled, JobConstantsOK
<1>5. OthersAreCancelled'
  BY <1>1 DEF OthersAreCancelled, Ended, Done, JobConstantsOK, j
<1>6. CancelsHold'
  BY <1>1, <1>2 DEF CancelsHold, JobConstantsOK
<1>7. StoppedKnown' /\ CancelledIsOver'
  BY <1>1 DEF StoppedKnown, CancelledIsOver, Done, JobConstantsOK, j
<1> QED BY <1>3, <1>4, <1>5, <1>6, <1>7

LEMMA CancelKeeps ==
  ASSUME JobsInv, JobConstantsOK, NEW c \in Cancellers, CancelLooks(c) \/ CancelMoves(c)
  PROVE  JobsInv'
<1> DEFINE old == job[can[c].job]
<1>1. CASE CancelLooks(c)
  BY <1>1 DEF CancelLooks, CancelAt, JobsInv, JobsTypeOK, Known, Jobs, At, GoesOnOrCancelled,
              OthersAreCancelled, CancelsHold, StoppedKnown, CancelledIsOver, Done, JobConstantsOK
<1>2. ASSUME can[c].at # "idle"
      PROVE  /\ can[c].job \in Known /\ can[c].job \in Jobs /\ old \in Job
             /\ old.at = "start" \/ old.step \in Names
             /\ can[c].at \in {"marked", "told", "waits"} => old.status = "cancelled"
  BY <1>2 DEF JobsInv, JobsTypeOK, CancelsHold, Known, Jobs, At, JobConstantsOK
<1>3. CASE CancelMarks(c)
  <2> DEFINE new == [old EXCEPT !.status = "cancelled"]
  <2>1. new \in Job /\ new.status = "cancelled" /\ new.at = old.at /\ new.step = old.step
    BY <1>2, <1>3 DEF CancelMarks, CancelAt, Job, Statuses
  <2>2. job' = [job EXCEPT ![can[c].job] = new] /\ UNCHANGED <<current, uv, stopped>>
        /\ CancelGoes(c, "marked") /\ can[c].at # "idle"
    BY <1>3 DEF CancelMarks, CancelAt
  <2> QED BY <1>2, <2>1, <2>2, TouchKeeps
<1>4. CASE CancelEndsContext(c)
  <2> DEFINE new == [old EXCEPT !.ctx = TRUE]
  <2>1. new \in Job /\ new.status = "cancelled" /\ new.at = old.at /\ new.step = old.step
    BY <1>2, <1>4 DEF CancelEndsContext, CancelAt, Job
  <2>2. job' = [job EXCEPT ![can[c].job] = new] /\ UNCHANGED <<current, uv, stopped>>
        /\ CancelGoes(c, "told") /\ can[c].at # "idle"
    BY <1>4 DEF CancelEndsContext, CancelAt
  <2> QED BY <1>2, <2>1, <2>2, TouchKeeps
<1>5. CASE CancelKills(c)
  <2> DEFINE new == IF Live(can[c].job) /\ old.step # "install"
                      THEN [old EXCEPT !.at = "back", !.err = TRUE] ELSE old
  <2>1. /\ new \in Job /\ new.status = "cancelled" /\ new.step = old.step
        /\ (new.at = old.at \/ (old.at = "live" /\ new.at = "back"))
    <3>1. old \in Job /\ old.status = "cancelled"
      BY <1>2, <1>5 DEF CancelKills, CancelAt
    <3> QED BY <3>1 DEF Live, Job, Places
  <2>2. job' = [job EXCEPT ![can[c].job] = new]
    BY <1>2, <1>5 DEF CancelKills, JobsInv, JobsTypeOK
  <2>3. UNCHANGED <<current, uv, stopped>> /\ CancelGoes(c, "waits") /\ can[c].at # "idle"
    BY <1>5 DEF CancelKills, CancelAt
  <2>4. new.at = "start" \/ new.step \in Names
    BY <1>2, <2>1, <2>3
  <2>5. (Ended(new.at) <=> Ended(old.at)) /\ ((new.at = "over") <=> (old.at = "over"))
    BY <2>1 DEF Ended
  <2> HIDE DEF new
  <2> QED BY <2>1, <2>2, <2>3, <2>4, <2>5, TouchKeeps
<1>6. CASE CancelAnswers(c)
  <2>1. can[c].job \in Known /\ can[c].job \in Jobs /\ old.status = "cancelled" /\ Done(can[c].job)
    BY <1>2, <1>6 DEF CancelAnswers, CancelAt
  <2>2. can' = [can EXCEPT ![c] = NoCancel] /\ stopped' = stopped \union {can[c].job}
        /\ UNCHANGED <<current, job, uv>>
    BY <1>6 DEF CancelAnswers
  <2>3. can' \in [Cancellers -> [at : {"idle", "looked", "marked", "told", "waits"}, job : 0..MaxJobs]]
        /\ can'[c] = NoCancel /\ \A d \in Cancellers \ {c} : can'[d] = can[d]
    <3>1. NoCancel \in [at : {"idle", "looked", "marked", "told", "waits"}, job : 0..MaxJobs]
      BY DEF NoCancel, JobConstantsOK
    <3> QED BY <2>2, <3>1 DEF JobsInv, JobsTypeOK
  <2>4. JobsTypeOK'
    BY <2>1, <2>2, <2>3 DEF JobsInv, JobsTypeOK, Known, At
  <2>5. GoesOnOrCancelled' /\ OthersAreCancelled'
    BY <2>2 DEF JobsInv, GoesOnOrCancelled, OthersAreCancelled, Known, Done
  <2>6. CancelsHold'
    BY <2>2, <2>3 DEF JobsInv, CancelsHold, Known, NoCancel
  <2>7. StoppedKnown' /\ CancelledIsOver'
    BY <2>1, <2>2 DEF JobsInv, StoppedKnown, CancelledIsOver, Known, Done
  <2> QED BY <2>4, <2>5, <2>6, <2>7 DEF JobsInv
<1> QED
  BY <1>1, <1>3, <1>4, <1>5, <1>6 DEF CancelMoves

-----------------------------------------------------------------------------
(* The results. *)

LEMMA JobsInvInit == ASSUME Init, JobConstantsOK PROVE JobsInv
<1>1. NoJob \in Job
  <2>1. New(Setup) \in Job
    BY DEF New, Job, Statuses, Places, Purposes
  <2>2. ASSUME NEW r \in Job PROVE [r EXCEPT !.status = None, !.at = "over"] \in Job
    BY DEF Job, Places
  <2> QED BY <2>1, <2>2 DEF NoJob
<1> QED
  BY <1>1 DEF Init, JobsInv, JobsTypeOK, GoesOnOrCancelled, OthersAreCancelled, CancelsHold, StoppedKnown,
         CancelledIsOver, Known, Jobs, At, NoCancel, JobConstantsOK

LEMMA JobsInvStep == ASSUME JobsInv, JobConstantsOK, [Next]_jobVars PROVE JobsInv'
<1>1. CASE Next
  BY <1>1, DriveKeeps, CommandKeeps, StartKeeps, CancelKeeps DEF Next, PhoneStarts, JobsMove
<1>2. CASE UNCHANGED jobVars
  BY <1>2 DEF jobVars, JobsInv, JobsTypeOK, GoesOnOrCancelled, OthersAreCancelled, CancelsHold, StoppedKnown,
         CancelledIsOver, Known, At, Done
<1> QED BY <1>1, <1>2

THEOREM JobsInvAlways == Spec => []JobsInv
<1> USE JobConstantsOK
<1> QED BY JobsInvInit, JobsInvStep, PTL DEF Spec

\* The types of research.Runner's state hold always.
THEOREM JobsTypeCorrect == Spec => []JobsTypeOK
<1>1. JobsInv => JobsTypeOK BY DEF JobsInv
<1> QED BY <1>1, JobsInvAlways, PTL

\* research.go:322: of all jobs only the last one started goes on without
\* having been cancelled, for any number of jobs and of cancels at once.
THEOREM OneJobUncancelled == Spec => []OthersAreCancelled
<1>1. JobsInv => OthersAreCancelled BY DEF JobsInv
<1> QED BY <1>1, JobsInvAlways, PTL

\* research.go:534: a cancel that has answered left its job over, and
\* cancelled it stays, whatever the job was about to say of itself.
THEOREM CancelIsFinal == Spec => []CancelledIsOver
<1>1. JobsInv => CancelledIsOver BY DEF JobsInv
<1> QED BY <1>1, JobsInvAlways, PTL

-----------------------------------------------------------------------------
(* The promise. *)

\* What is printed and what is read of it, by where the job is.
VerdictSound(r) ==
  /\ r.step = "study" => r.for # Setup
  /\ r.step # "study" \/ r.at \in {"start", "ready", "begun"} => r.printed = None
  /\ r.outcome = IF r.at \in {"finish", "closing", "over"} THEN r.printed ELSE None
  /\ r.at = "read" => r.step = "study"
  /\ ~r.err /\ r.for # Setup /\ r.at = "finish" => r.step = "study"
  /\ ~r.err /\ r.step = "study" /\ r.at \in {"back", "read", "finish"} => r.printed # None

VerdictsSound == \A j \in Known : VerdictSound(job[j])

PromiseInv == JobsInv /\ VerdictsSound

(* What a changed job means for those who see it. *)
LEMMA ShownChange ==
  ASSUME JobsInv, JobConstantsOK, NEW j \in Jobs, NEW new, job' = [job EXCEPT ![j] = new]
  PROVE  Shown' = [Shown EXCEPT ![j] = ShownAs(new)] /\ Shown[j] = ShownAs(job[j])
<1>1. job \in [Jobs -> Job] BY DEF JobsInv, JobsTypeOK
<1>2. job' \in [Jobs -> Job \union {new}] /\ job'[j] = new
      /\ \A k \in Jobs \ {j} : job'[k] = job[k]
  BY <1>1
<1> QED BY <1>2 DEF Shown

-----------------------------------------------------------------------------
(* What one step makes of a job is what the promise allows, as it shows. *)
ShowsPrint(old, new) ==
  /\ old.stage = "going" /\ old.for # Setup /\ old.printed = None
  /\ \E v \in Verdicts : new = [old EXCEPT !.printed = v]
ShowsEnd(old, new) ==
  /\ old.stage = "going"
  /\ \/ old.status = "cancelled" /\ new.status = "cancelled"
     \/ old.status # "cancelled" /\ new.status = "failed"
     \/ /\ old.status # "cancelled" /\ new.status = "succeeded"
        /\ old.for = Setup \/ old.printed # None
  /\ new = [old EXCEPT !.status = new.status, !.stage = "ended", !.outcome = old.printed]
ShowsLetGo(old, new) == old.stage = "ended" /\ new = [old EXCEPT !.stage = "over"]
ShowsMark(old, new) == old.status # "cancelled" /\ new = [old EXCEPT !.status = "cancelled"]

Allowed(old, new) ==
  new = old \/ ShowsPrint(old, new) \/ ShowsEnd(old, new) \/ ShowsLetGo(old, new) \/ ShowsMark(old, new)

Promised == [Promise!JobsNext]_(Promise!viewVars)

LEMMA AllowedIsPromised ==
  ASSUME JobsInv, JobConstantsOK, NEW j \in Known, NEW new, job' = [job EXCEPT ![j] = new],
         current' = current, Allowed(ShownAs(job[j]), ShownAs(new))
  PROVE  Promised
<1>1. j \in Jobs BY DEF JobsInv, JobsTypeOK, Known, Jobs, JobConstantsOK
<1>2. Shown' = [Shown EXCEPT ![j] = ShownAs(new)] /\ Shown[j] = ShownAs(job[j])
  BY <1>1, ShownChange
<1> DEFINE old == Shown[j]
           shown == ShownAs(new)
<1>3. Allowed(old, shown) /\ Shown' = [Shown EXCEPT ![j] = shown] /\ j \in Promise!Known
      /\ Shown = [Shown EXCEPT ![j] = old]
  BY <1>2 DEF Promise!Known, Known, Shown
<1> HIDE DEF old, shown
<1>4. SUFFICES ASSUME shown # old PROVE Promise!Moves
  BY <1>3 DEF Promised, Promise!JobsNext, Promise!viewVars
<1>5. CASE ShowsPrint(old, shown)
  <2>1. PICK v \in Verdicts : shown = [old EXCEPT !.printed = v]
    BY <1>5 DEF ShowsPrint
  <2>2. Promise!Prints(j)
    BY <1>3, <1>5, <2>1 DEF ShowsPrint, Promise!Prints, Promise!Setup, Setup, Promise!None, None, old
  <2> QED BY <1>3, <2>2 DEF Promise!Moves
<1>6. CASE ShowsEnd(old, shown)
  <2>1. shown.status \in Promise!Endings(j)
    BY <1>6 DEF ShowsEnd, Promise!Endings, Promise!Setup, Setup, Promise!None, None, old
  <2> DEFINE s == shown.status
  <2>2. old = Shown[j] /\ shown = [old EXCEPT !.status = s, !.stage = "ended", !.outcome = old.printed]
    BY <1>6 DEF ShowsEnd, old
  <2>3. j \in DOMAIN Shown
    BY <1>1 DEF Shown
  <2> HIDE DEF s
  <2>4. Shown' = [Shown EXCEPT ![j].status = s, ![j].stage = "ended", ![j].outcome = Shown[j].printed]
    BY <1>3, <2>2, <2>3, Zenon
  <2>5. Promise!Ends(j)
    BY <1>3, <1>6, <2>1, <2>4 DEF ShowsEnd, Promise!Ends, old, s
  <2> QED BY <1>3, <2>5 DEF Promise!Moves
<1>7. CASE ShowsLetGo(old, shown)
  <2>1. Promise!LetsGo(j) BY <1>3, <1>7 DEF ShowsLetGo, Promise!LetsGo, old
  <2> QED BY <1>3, <2>1 DEF Promise!Moves
<1>8. CASE ShowsMark(old, shown)
  <2>1. Promise!Marked(j) BY <1>3, <1>8 DEF ShowsMark, Promise!Marked, old
  <2> QED BY <1>3, <2>1 DEF Promise!Moves
<1> QED BY <1>3, <1>4, <1>5, <1>6, <1>7, <1>8 DEF Allowed

-----------------------------------------------------------------------------
(* The steps of the driving goroutine and of the command. *)

\* A step that shows as one the promise allows, and keeps the verdict sound.
Sim(j, new) == Change(j, new) /\ VerdictSound(new) /\ Allowed(ShownAs(job[j]), ShownAs(new))

LEMMA SimPromised ==
  ASSUME PromiseInv, JobConstantsOK, NEW j \in Known, NEW new, Sim(j, new)
  PROVE  VerdictsSound' /\ Promised
<1>1. j \in Jobs /\ job \in [Jobs -> Job] /\ current \in 0..MaxJobs
  BY DEF PromiseInv, JobsInv, JobsTypeOK, Known, Jobs, JobConstantsOK
<1>2. VerdictsSound'
  BY <1>1 DEF Sim, Change, PromiseInv, VerdictsSound, Known, Jobs
<1>3. Promised
  BY <1>1, AllowedIsPromised DEF Sim, Change, PromiseInv
<1> QED BY <1>2, <1>3

LEMMA DriveSim ==
  ASSUME PromiseInv, JobConstantsOK, NEW j \in Jobs, Drive(j) \/ StudyPrints(j) \/ CommandEnds(j)
  PROVE  VerdictsSound' /\ Promised
<1>1. j \in Known /\ job[j] \in Job /\ VerdictSound(job[j])
      /\ (~Ended(job[j].at) => job[j].status \in {"running", "cancelled"})
      /\ (job[j].at = "start" \/ job[j].step \in Names)
  BY DEF PromiseInv, JobsInv, JobsTypeOK, GoesOnOrCancelled, VerdictsSound, Drive, FindUV, StepBegins,
         CommandStarts, CommandKilled, StepEnds, ReadsVerdict, Finish, Close, StudyPrints, CommandEnds, At
<1>2. SUFFICES \E new : Sim(j, new)
  BY <1>1, SimPromised
<1> USE DEF At
<1>3. CASE FindUV(j)
  <2> DEFINE new == [job[j] EXCEPT !.at = "ready", !.step = IF uv THEN "sync" ELSE "install"]
  <2>1. Change(j, new) BY <1>3 DEF FindUV
  <2>2. VerdictSound(new) BY <1>1, <1>3 DEF FindUV, VerdictSound, Job
  <2>3. ShownAs(new) = ShownAs(job[j]) BY <1>1, <1>3 DEF FindUV, ShownAs, Stage, Job
  <2> QED BY <2>1, <2>2, <2>3 DEF Sim, Allowed
<1>4. CASE StepBegins(j)
  <2>1. CASE job[j].ctx
    <3> DEFINE new == [job[j] EXCEPT !.err = TRUE, !.at = AfterStep(j)]
    <3>1. Change(j, new) BY <1>4, <2>1 DEF StepBegins
    <3>2. /\ new.for = job[j].for /\ new.printed = job[j].printed /\ new.outcome = job[j].outcome
          /\ new.status = job[j].status /\ new.step = job[j].step
          /\ new.err /\ new.at = AfterStep(j) /\ job[j].at = "ready"
      BY <1>1, <1>4 DEF StepBegins, Job
    <3> HIDE DEF new
    <3>3. VerdictSound(new)
      BY <1>1, <3>2 DEF VerdictSound, AfterStep
    <3>4. ShownAs(new) = ShownAs(job[j])
      BY <3>2 DEF ShownAs, Stage, AfterStep
    <3> QED BY <3>1, <3>3, <3>4 DEF Sim, Allowed
  <2>2. CASE ~job[j].ctx
    <3> DEFINE new == [job[j] EXCEPT !.steps = Append(@, "running"), !.at = "begun"]
    <3>1. Change(j, new) BY <1>4, <2>2 DEF StepBegins
    <3>2. VerdictSound(new) BY <1>1, <1>4 DEF StepBegins, VerdictSound, Job
    <3>3. ShownAs(new) = ShownAs(job[j]) BY <1>1, <1>4 DEF StepBegins, ShownAs, Stage, Job
    <3> HIDE DEF new
    <3> QED BY <3>1, <3>2, <3>3 DEF Sim, Allowed
  <2> QED BY <2>1, <2>2
<1>5. CASE CommandStarts(j)
  <2>1. PICK failed \in BOOLEAN :
          Change(j, [job[j] EXCEPT !.at = IF failed THEN "back" ELSE "live", !.err = failed])
    BY <1>5 DEF CommandStarts
  <2> DEFINE new == [job[j] EXCEPT !.at = IF failed THEN "back" ELSE "live", !.err = failed]
  <2>2. VerdictSound(new) BY <1>1, <1>5 DEF CommandStarts, VerdictSound, Job
  <2>3. ShownAs(new) = ShownAs(job[j]) BY <1>1, <1>5 DEF CommandStarts, ShownAs, Stage, Job
  <2> QED BY <2>1, <2>2, <2>3 DEF Sim, Allowed
<1>6. CASE CommandKilled(j)
  <2> DEFINE new == [job[j] EXCEPT !.at = "back", !.err = TRUE]
  <2>1. Change(j, new) BY <1>6 DEF CommandKilled
  <2>2. VerdictSound(new) BY <1>1, <1>6 DEF CommandKilled, VerdictSound, Job
  <2>3. ShownAs(new) = ShownAs(job[j]) BY <1>1, <1>6 DEF CommandKilled, ShownAs, Stage, Job
  <2> QED BY <2>1, <2>2, <2>3 DEF Sim, Allowed
<1>7. CASE StepEnds(j)
  <2> DEFINE err  == job[j].err \/ job[j].status = "cancelled"
             last == [job[j] EXCEPT !.steps[Len(job[j].steps)] = StepStatus(j), !.err = err]
             new  == IF err \/ LastStep(j)
                        THEN [last EXCEPT !.at = AfterStep(j)]
                        ELSE [last EXCEPT !.at = "ready", !.step = Following(j)]
  <2>1. Change(j, new) BY <1>7 DEF StepEnds
  <2>2. /\ new.for = job[j].for /\ new.printed = job[j].printed /\ new.outcome = job[j].outcome
        /\ new.status = job[j].status
        /\ new.err = err
        /\ new.at = (IF err \/ LastStep(j) THEN AfterStep(j) ELSE "ready")
        /\ new.step = (IF err \/ LastStep(j) THEN job[j].step ELSE Following(j))
    BY <1>1 DEF Job
  <2> HIDE DEF new, err
  <2>3. job[j].at = "back" /\ (job[j].err => err)
    BY <1>7 DEF StepEnds, err
  <2>4. VerdictSound(new)
    BY <1>1, <2>2, <2>3 DEF VerdictSound, AfterStep, Following, LastStep, Names
  <2>5. ShownAs(new) = ShownAs(job[j])
    BY <1>1, <2>2, <2>3 DEF ShownAs, Stage, AfterStep
  <2> QED BY <2>1, <2>4, <2>5 DEF Sim, Allowed
<1>8. CASE ReadsVerdict(j)
  <2> DEFINE new == [job[j] EXCEPT !.at = "finish", !.outcome = job[j].printed]
  <2>1. Change(j, new) BY <1>8 DEF ReadsVerdict
  <2>2. VerdictSound(new) BY <1>1, <1>8 DEF ReadsVerdict, VerdictSound, Job
  <2>3. ShownAs(new) = ShownAs(job[j]) BY <1>1, <1>8 DEF ReadsVerdict, ShownAs, Stage, Job
  <2> QED BY <2>1, <2>2, <2>3 DEF Sim, Allowed
<1>9. CASE Finish(j)
  <2> DEFINE status == CASE job[j].status = "cancelled" -> job[j].status
                         [] job[j].status # "cancelled" /\ job[j].err -> "failed"
                         [] OTHER -> "succeeded"
             new == [job[j] EXCEPT !.at = "closing", !.err = FALSE, !.status = status]
  <2>1. Change(j, new) BY <1>9 DEF Finish
  <2>2. VerdictSound(new) BY <1>1, <1>9 DEF Finish, VerdictSound, Job
  <2>3. ShowsEnd(ShownAs(job[j]), ShownAs(new))
    <3> DEFINE old == ShownAs(job[j])
               shown == ShownAs(new)
    <3>1. job[j].at = "finish" /\ new.at = "closing" /\ new.status = status /\ new.for = job[j].for
          /\ new.printed = job[j].printed /\ new.outcome = job[j].printed /\ job[j].outcome = job[j].printed
      BY <1>1, <1>9 DEF Finish, VerdictSound, Job
    <3>2. status = "succeeded" => ~job[j].err
      BY <1>1 DEF Job
    <3>3. status = "succeeded" => job[j].for = Setup \/ job[j].printed # None
      BY <1>1, <3>1, <3>2 DEF VerdictSound
    <3>4. /\ old.stage = "going" /\ old.status = job[j].status /\ old.for = job[j].for
          /\ old.printed = job[j].printed
      BY <3>1 DEF ShownAs, Stage
    <3>5. shown = [old EXCEPT !.status = status, !.stage = "ended", !.outcome = old.printed]
          /\ shown.status = status
      <4>1. Stage(new.at) = "ended" /\ Stage(job[j].at) = "going"
        BY <3>1 DEF Stage
      <4> HIDE DEF new, status
      <4>2. shown = [for |-> new.for, status |-> new.status, stage |-> "ended",
                     printed |-> new.printed, outcome |-> new.outcome]
        BY <4>1 DEF ShownAs
      <4>3. old = [for |-> job[j].for, status |-> job[j].status, stage |-> "going",
                   printed |-> job[j].printed, outcome |-> None]
        BY <4>1 DEF ShownAs
      <4> HIDE DEF old, shown
      <4> DEFINE ended == [old EXCEPT !.status = status, !.stage = "ended", !.outcome = old.printed]
      <4>4. ended.for = old.for /\ ended.status = status /\ ended.stage = "ended"
            /\ ended.printed = old.printed /\ ended.outcome = old.printed
        BY <4>3
      <4>5. ended \in [for : {old.for}, status : {old.status, status}, stage : {"going", "ended"},
                       printed : {old.printed}, outcome : {None, old.printed}]
        BY <4>3
      <4> HIDE DEF ended
      <4>6. shown = ended
        BY <3>1, <4>2, <4>3, <4>4, <4>5
      <4> QED BY <3>1, <4>2, <4>6 DEF ended
    <3>6. \/ old.status = "cancelled" /\ status = "cancelled"
          \/ old.status # "cancelled" /\ status \in {"failed", "succeeded"}
      BY <1>1, <1>9, <3>4 DEF Finish, Ended
    <3> HIDE DEF old, shown, status
    <3>7. ShowsEnd(old, shown)
      BY <3>3, <3>4, <3>5, <3>6 DEF ShowsEnd
    <3> QED BY <3>7 DEF old, shown
  <2> QED BY <2>1, <2>2, <2>3 DEF Sim, Allowed
<1>10. CASE Close(j)
  <2> DEFINE new == [job[j] EXCEPT !.at = "over"]
  <2>1. Change(j, new) BY <1>10 DEF Close
  <2>2. VerdictSound(new) BY <1>1, <1>10 DEF Close, VerdictSound, Job
  <2>3. ShowsLetGo(ShownAs(job[j]), ShownAs(new))
    BY <1>1, <1>10 DEF Close, ShowsLetGo, ShownAs, Stage, Job
  <2> QED BY <2>1, <2>2, <2>3 DEF Sim, Allowed
<1>11. CASE StudyPrints(j)
  <2>1. PICK v \in Verdicts : Change(j, [job[j] EXCEPT !.printed = v])
    BY <1>11 DEF StudyPrints
  <2> DEFINE new == [job[j] EXCEPT !.printed = v]
  <2>2. VerdictSound(new) BY <1>1, <1>11 DEF StudyPrints, VerdictSound, Job
  <2>3. ShowsPrint(ShownAs(job[j]), ShownAs(new))
    BY <1>1, <1>11 DEF StudyPrints, ShowsPrint, ShownAs, Stage, VerdictSound, Job
  <2> QED BY <2>1, <2>2, <2>3 DEF Sim, Allowed
<1>12. CASE CommandEnds(j)
  <2>1. PICK err \in BOOLEAN :
          /\ ~err /\ job[j].step = "study" => job[j].printed # None
          /\ Change(j, [job[j] EXCEPT !.at = "back", !.err = err])
    BY <1>12 DEF CommandEnds
  <2> DEFINE new == [job[j] EXCEPT !.at = "back", !.err = err]
  <2>2. VerdictSound(new) BY <1>1, <1>12, <2>1 DEF CommandEnds, VerdictSound, Job
  <2>3. ShownAs(new) = ShownAs(job[j]) BY <1>1, <1>12 DEF CommandEnds, ShownAs, Stage, Job
  <2> QED BY <2>1, <2>2, <2>3 DEF Sim, Allowed
<1> QED
  BY <1>3, <1>4, <1>5, <1>6, <1>7, <1>8, <1>9, <1>10, <1>11, <1>12 DEF Drive

-----------------------------------------------------------------------------
(* A start and a cancel. *)

LEMMA StartSim ==
  ASSUME PromiseInv, JobConstantsOK, NEW p \in Purposes, Start(p)
  PROVE  VerdictsSound' /\ Promised
<1>1. current + 1 \in Jobs /\ current' = current + 1 /\ job \in [Jobs -> Job]
      /\ job' = [job EXCEPT ![current + 1] = New(p)] /\ current \in 0..MaxJobs
      /\ p \in Promise!Purposes /\ current < MaxJobs
  BY DEF PromiseInv, JobsInv, JobsTypeOK, Start, Jobs, JobConstantsOK, Purposes, Promise!Purposes,
         Setup, Promise!Setup
<1>2. Shown' = [Shown EXCEPT ![current + 1] = ShownAs(New(p))]
  BY <1>1, ShownChange DEF PromiseInv
<1>3. ShownAs(New(p)) = Promise!NewView(p)
  BY DEF ShownAs, Stage, New, Promise!NewView, None, Promise!None
<1>4. ~Promise!Busy
  <2>1. current # 0 => current \in Jobs
    BY <1>1 DEF Jobs
  <2>2. current # 0 => Shown[current].status = job[current].status
    BY <2>1 DEF Shown, ShownAs
  <2> QED BY <2>2 DEF Start, Busy, Promise!Busy
<1>5. Promise!Start(p)
  BY <1>1, <1>2, <1>3, <1>4 DEF Promise!Start
<1>6. VerdictSound(New(p))
  BY DEF VerdictSound, New, None
<1>7. VerdictsSound'
  BY <1>1, <1>6 DEF PromiseInv, VerdictsSound, Known, Jobs
<1> QED BY <1>1, <1>5, <1>7 DEF Promised, Promise!JobsNext, Promise!Starts

\* A cancel that leaves the shape of its job alone, and marks it at most.
LEMMA TouchSim ==
  ASSUME PromiseInv, JobConstantsOK, NEW j \in Known, NEW new,
         job' = [job EXCEPT ![j] = new], UNCHANGED <<current, stopped>>,
         VerdictSound(new), Allowed(ShownAs(job[j]), ShownAs(new))
  PROVE  VerdictsSound' /\ Promised
<1>1. j \in Jobs /\ job \in [Jobs -> Job] /\ current \in 0..MaxJobs
  BY DEF PromiseInv, JobsInv, JobsTypeOK, Known, Jobs, JobConstantsOK
<1>2. VerdictsSound'
  BY <1>1 DEF PromiseInv, VerdictsSound, Known, Jobs
<1>3. Promised
  BY <1>1, AllowedIsPromised DEF PromiseInv
<1> QED BY <1>2, <1>3

LEMMA CancelSim ==
  ASSUME PromiseInv, JobConstantsOK, NEW c \in Cancellers, CancelLooks(c) \/ CancelMoves(c)
  PROVE  VerdictsSound' /\ Promised
<1> DEFINE j == can[c].job
<1>1. CASE CancelLooks(c) \/ CancelAnswers(c)
  <2>1. UNCHANGED <<current, job>>
    BY <1>1 DEF CancelLooks, CancelAnswers
  <2>2. Shown' = Shown
    BY <2>1 DEF Shown
  <2> QED BY <2>1, <2>2 DEF PromiseInv, VerdictsSound, Known, Promised, Promise!viewVars
<1>2. ASSUME can[c].at # "idle" PROVE j \in Known /\ job[j] \in Job /\ VerdictSound(job[j])
  BY <1>2 DEF PromiseInv, JobsInv, JobsTypeOK, CancelsHold, VerdictsSound, Known, Jobs, JobConstantsOK
<1>3. CASE CancelMarks(c)
  <2> DEFINE new == [job[j] EXCEPT !.status = "cancelled"]
  <2>1. j \in Known /\ job[j] \in Job /\ VerdictSound(job[j])
    BY <1>2, <1>3 DEF CancelMarks, CancelAt
  <2>2. job' = [job EXCEPT ![j] = new] /\ UNCHANGED <<current, stopped>>
    BY <1>3 DEF CancelMarks
  <2>3. VerdictSound(new)
    BY <2>1 DEF VerdictSound, Job
  <2>4. ShownAs(new) = [ShownAs(job[j]) EXCEPT !.status = "cancelled"]
    BY <2>1 DEF ShownAs, Job
  <2>5. ShownAs(new) = ShownAs(job[j]) \/ ShowsMark(ShownAs(job[j]), ShownAs(new))
    BY <2>1, <2>4 DEF ShowsMark, ShownAs
  <2> HIDE DEF new, j
  <2> QED BY <2>1, <2>2, <2>3, <2>5, TouchSim DEF Allowed
<1>4. CASE CancelEndsContext(c)
  <2> DEFINE new == [job[j] EXCEPT !.ctx = TRUE]
  <2>1. j \in Known /\ job[j] \in Job /\ VerdictSound(job[j])
    BY <1>2, <1>4 DEF CancelEndsContext, CancelAt
  <2>2. job' = [job EXCEPT ![j] = new] /\ UNCHANGED <<current, stopped>>
    BY <1>4 DEF CancelEndsContext
  <2>3. VerdictSound(new)
    BY <2>1 DEF VerdictSound, Job
  <2>4. ShownAs(new) = ShownAs(job[j])
    BY <2>1 DEF ShownAs, Job
  <2> HIDE DEF new, j
  <2> QED BY <2>1, <2>2, <2>3, <2>4, TouchSim DEF Allowed
<1>5. CASE CancelKills(c)
  <2> DEFINE new == IF Live(j) /\ job[j].step # "install"
                      THEN [job[j] EXCEPT !.at = "back", !.err = TRUE] ELSE job[j]
  <2>1. j \in Known /\ job[j] \in Job /\ VerdictSound(job[j])
    BY <1>2, <1>5 DEF CancelKills, CancelAt
  <2>2. job' = [job EXCEPT ![j] = new] /\ UNCHANGED <<current, stopped>>
    BY <1>5, <2>1 DEF CancelKills, PromiseInv, JobsInv, JobsTypeOK
  <2>3. VerdictSound(new)
    BY <2>1 DEF VerdictSound, Live, Job
  <2>4. ShownAs(new) = ShownAs(job[j])
    BY <2>1 DEF ShownAs, Stage, Live, Job
  <2> HIDE DEF new, j
  <2> QED BY <2>1, <2>2, <2>3, <2>4, TouchSim DEF Allowed
<1> QED BY <1>1, <1>3, <1>4, <1>5 DEF CancelMoves

-----------------------------------------------------------------------------
(* The result. *)

LEMMA PromiseInit == ASSUME Init, JobConstantsOK PROVE PromiseInv /\ Promise!JobsInit
<1>1. PromiseInv
  BY JobsInvInit DEF PromiseInv, VerdictsSound, Known, Init
<1>2. ShownAs(NoJob) = Promise!NoView
  <2>1. NoJob.for = Setup /\ NoJob.status = None /\ NoJob.at = "over" /\ NoJob.printed = None
        /\ NoJob.outcome = None
    BY DEF NoJob, New
  <2>2. Promise!NoView = [for |-> Setup, status |-> None, stage |-> "over", printed |-> None, outcome |-> None]
    BY DEF Promise!NoView, None, Promise!None, Setup, Promise!Setup
  <2> QED BY <2>1, <2>2 DEF ShownAs, Stage
<1>3. Shown = [k \in Promise!Jobs |-> Promise!NoView]
  BY <1>2 DEF Init, Shown, Jobs, Promise!Jobs
<1> QED BY <1>1, <1>3 DEF Init, Promise!JobsInit

LEMMA PromiseStep ==
  ASSUME PromiseInv, JobConstantsOK, [Next]_jobVars
  PROVE  PromiseInv' /\ Promised
<1>1. JobsInv'
  BY JobsInvStep DEF PromiseInv
<1>2. CASE Next
  BY <1>1, <1>2, DriveSim, StartSim, CancelSim DEF Next, PhoneStarts, JobsMove, PromiseInv
<1>3. CASE UNCHANGED jobVars
  <2>1. UNCHANGED <<current, job>> /\ Shown' = Shown
    BY <1>3 DEF jobVars, Shown
  <2> QED BY <1>1, <2>1 DEF PromiseInv, VerdictsSound, Known, Promised, Promise!viewVars
<1> QED BY <1>2, <1>3

\* research.go:397: to those who start jobs and wait for them the Runner is
\* a StudyJobs, for any number of studies, verdicts, jobs and cancels.
THEOREM RunnerKeepsPromise == Spec => KeepsThePromise
<1>1. Init => PromiseInv /\ Promise!JobsInit
  BY PromiseInit, JobConstantsOK
<1>2. PromiseInv /\ [Next]_jobVars => PromiseInv' /\ [Promise!JobsNext]_(Promise!viewVars)
  BY PromiseStep, JobConstantsOK DEF Promised
<1> QED BY <1>1, <1>2, PTL DEF Spec, KeepsThePromise, Promise!JobsSpec

-----------------------------------------------------------------------------
(* A job that succeeded went through all its steps.                        *)

AllSucceeded(s) == \A i \in DOMAIN s : s[i] = "succeeded"
AllButLast(s) == \A i \in DOMAIN s : i # Len(s) => s[i] = "succeeded"
LastOf(r) == r.step = "study" \/ (r.step = "sync" /\ r.for = Setup)

\* What is on record of the steps, by where the job is.
StepsSound(r) ==
  /\ r.at \in {"start", "ready"} => AllSucceeded(r.steps)
  /\ r.at \in {"begun", "live", "back"} => r.steps # <<>> /\ AllButLast(r.steps)
  /\ r.at \in {"read", "finish"} /\ ~r.err => AllSucceeded(r.steps) /\ LastOf(r)
  /\ r.status = "succeeded" =>
       AllSucceeded(r.steps) /\ LastOf(r) /\ (r.for # Setup => r.outcome # None)

StepsAreSound == \A j \in Known : StepsSound(job[j])
WholeInv == PromiseInv /\ StepsAreSound

\* The steps of a job, but for the beginning and the end of one, leave them alone.
LEMMA SameSteps ==
  ASSUME NEW r, NEW new, StepsSound(r), new.steps = r.steps, new.step = r.step, new.for = r.for,
         r.at \in {"begun", "live"}, new.at \in {"begun", "live", "back"},
         r.status # "succeeded", new.status # "succeeded"
  PROVE  StepsSound(new)
BY DEF StepsSound

LEMMA SeqOf ==
  ASSUME NEW s \in Seq(Statuses)
  PROVE  Len(s) \in Nat /\ DOMAIN s = 1..Len(s) /\ (s # <<>> => Len(s) \in DOMAIN s)
<1>1. Len(s) \in Nat /\ DOMAIN s = 1..Len(s)
  OBVIOUS
<1>2. Len(s) = 0 => s = <<>>
  OBVIOUS
<1> QED BY <1>1, <1>2

\* A step that ends well makes the steps on record all succeeded.
LEMMA EndedWell ==
  ASSUME NEW s \in Seq(Statuses), s # <<>>, AllButLast(s)
  PROVE  AllSucceeded([s EXCEPT ![Len(s)] = "succeeded"])
<1> DEFINE t == [s EXCEPT ![Len(s)] = "succeeded"]
<1>1. DOMAIN t = DOMAIN s /\ Len(s) \in DOMAIN s
  BY SeqOf
<1>2. ASSUME NEW i \in DOMAIN s PROVE t[i] = "succeeded"
  BY <1>1, <1>2 DEF AllButLast
<1> QED BY <1>1, <1>2 DEF AllSucceeded

LEMMA DriveWhole ==
  ASSUME WholeInv, JobConstantsOK, NEW j \in Jobs, Drive(j) \/ StudyPrints(j) \/ CommandEnds(j)
  PROVE  StepsAreSound'
<1> DEFINE r == job[j]
<1>1. j \in Known /\ r \in Job /\ VerdictSound(r) /\ StepsSound(r)
      /\ (~Ended(r.at) => r.status \in {"running", "cancelled"})
      /\ job \in [Jobs -> Job] /\ current \in 0..MaxJobs
  BY DEF WholeInv, PromiseInv, JobsInv, JobsTypeOK, GoesOnOrCancelled, VerdictsSound, StepsAreSound,
         Drive, FindUV, StepBegins, CommandStarts, CommandKilled, StepEnds, ReadsVerdict, Finish, Close,
         StudyPrints, CommandEnds, At
<1>2. SUFFICES \E new : Change(j, new) /\ StepsSound(new)
  BY <1>1 DEF Change, WholeInv, StepsAreSound, Known, Jobs
<1> USE DEF At
<1>3. CASE FindUV(j)
  <2> DEFINE new == [job[j] EXCEPT !.at = "ready", !.step = IF uv THEN "sync" ELSE "install"]
  <2>1. Change(j, new) BY <1>3 DEF FindUV
  <2>2. StepsSound(new) BY <1>1, <1>3 DEF FindUV, StepsSound, Job, Ended
  <2> QED BY <2>1, <2>2
<1>4. CASE StepBegins(j)
  <2>1. r.at = "ready" /\ r.status # "succeeded" /\ AllSucceeded(r.steps)
    BY <1>1, <1>4 DEF StepBegins, StepsSound, Ended
  <2>2. CASE r.ctx
    <3> DEFINE new == [job[j] EXCEPT !.err = TRUE, !.at = AfterStep(j)]
    <3>1. Change(j, new) BY <1>4, <2>2 DEF StepBegins
    <3>2. new.err /\ new.at \in {"read", "finish"} /\ new.status # "succeeded"
      BY <1>1, <2>1 DEF Job, AfterStep
    <3>3. StepsSound(new) BY <3>2 DEF StepsSound
    <3> QED BY <3>1, <3>3
  <2>3. CASE ~r.ctx
    <3> DEFINE t == Append(r.steps, "running")
               new == [job[j] EXCEPT !.steps = Append(@, "running"), !.at = "begun"]
    <3>1. Change(j, new) BY <1>4, <2>3 DEF StepBegins
    <3>2. new.steps = t /\ new.at = "begun" /\ new.status # "succeeded"
      BY <1>1, <2>1 DEF Job
    <3>3. r.steps \in Seq(Statuses) BY <1>1 DEF Job
    <3>4. Len(t) = Len(r.steps) + 1 /\ DOMAIN t = 1..Len(r.steps) + 1 /\ t # <<>>
          /\ \A i \in 1..Len(r.steps) : t[i] = r.steps[i]
      BY <3>3
    <3>5. AllButLast(t)
      BY <2>1, <3>3, <3>4, SeqOf DEF AllButLast, AllSucceeded
    <3>6. StepsSound(new) BY <3>2, <3>4, <3>5 DEF StepsSound
    <3> QED BY <3>1, <3>6
  <2> QED BY <2>2, <2>3
<1>5. CASE CommandStarts(j)
  <2>1. PICK failed \in BOOLEAN :
          Change(j, [job[j] EXCEPT !.at = IF failed THEN "back" ELSE "live", !.err = failed])
    BY <1>5 DEF CommandStarts
  <2> DEFINE new == [job[j] EXCEPT !.at = IF failed THEN "back" ELSE "live", !.err = failed]
  <2>2. /\ new.steps = r.steps /\ new.step = r.step /\ new.for = r.for /\ r.at = "begun"
        /\ new.at \in {"back", "live"} /\ r.status # "succeeded" /\ new.status = r.status
    BY <1>1, <1>5 DEF CommandStarts, Job, Ended
  <2> HIDE DEF new
  <2>3. StepsSound(new) BY <1>1, <2>2, SameSteps
  <2> QED BY <2>1, <2>3 DEF new
<1>6. CASE CommandKilled(j)
  <2> DEFINE new == [job[j] EXCEPT !.at = "back", !.err = TRUE]
  <2>1. Change(j, new) BY <1>6 DEF CommandKilled
  <2>2. /\ new.steps = r.steps /\ new.step = r.step /\ new.for = r.for /\ r.at = "live"
        /\ new.at = "back" /\ r.status # "succeeded" /\ new.status = r.status
    BY <1>1, <1>6 DEF CommandKilled, Job, Ended
  <2> HIDE DEF new
  <2>3. StepsSound(new) BY <1>1, <2>2, SameSteps
  <2> QED BY <2>1, <2>3
<1>7. CASE StepEnds(j)
  <2> DEFINE err  == job[j].err \/ job[j].status = "cancelled"
             last == [job[j] EXCEPT !.steps[Len(job[j].steps)] = StepStatus(j), !.err = err]
             new  == IF err \/ LastStep(j)
                        THEN [last EXCEPT !.at = AfterStep(j)]
                        ELSE [last EXCEPT !.at = "ready", !.step = Following(j)]
             t    == [r.steps EXCEPT ![Len(r.steps)] = StepStatus(j)]
  <2>1. Change(j, new) BY <1>7 DEF StepEnds
  <2>2. /\ new.for = r.for /\ new.status = r.status /\ new.err = err /\ new.steps = t
        /\ new.at = (IF err \/ LastStep(j) THEN AfterStep(j) ELSE "ready")
        /\ new.step = (IF err \/ LastStep(j) THEN r.step ELSE Following(j))
    BY <1>1 DEF Job
  <2>3. r.at = "back" /\ r.status # "succeeded" /\ r.steps # <<>> /\ AllButLast(r.steps)
        /\ r.steps \in Seq(Statuses)
    BY <1>1, <1>7 DEF StepEnds, StepsSound, Ended, Job
  <2>4. ~err => AllSucceeded(t)
    BY <2>3, EndedWell DEF StepStatus
  <2> HIDE DEF new, err, t
  <2>5. AfterStep(j) \in {"read", "finish"} BY DEF AfterStep
  <2>6. StepsSound(new)
    BY <2>2, <2>3, <2>4, <2>5 DEF StepsSound, LastStep, LastOf
  <2> QED BY <2>1, <2>6
<1>8. CASE ReadsVerdict(j)
  <2> DEFINE new == [job[j] EXCEPT !.at = "finish", !.outcome = job[j].printed]
  <2>1. Change(j, new) BY <1>8 DEF ReadsVerdict
  <2>2. /\ new.steps = r.steps /\ new.step = r.step /\ new.for = r.for /\ r.at = "read" /\ new.err = r.err
        /\ new.at = "finish" /\ r.status # "succeeded" /\ new.status = r.status
    BY <1>1, <1>8 DEF ReadsVerdict, Job, Ended
  <2> HIDE DEF new
  <2>3. StepsSound(new) BY <1>1, <2>2 DEF StepsSound, LastOf
  <2> QED BY <2>1, <2>3
<1>9. CASE Finish(j)
  <2> DEFINE status == CASE job[j].status = "cancelled" -> job[j].status
                         [] job[j].status # "cancelled" /\ job[j].err -> "failed"
                         [] OTHER -> "succeeded"
             new == [job[j] EXCEPT !.at = "closing", !.err = FALSE, !.status = status]
  <2>1. Change(j, new) BY <1>9 DEF Finish
  <2>2. /\ new.steps = r.steps /\ new.step = r.step /\ new.for = r.for /\ r.at = "finish"
        /\ new.at = "closing" /\ new.status = status /\ new.outcome = r.outcome /\ r.outcome = r.printed
    BY <1>1, <1>9 DEF Finish, Job, VerdictSound
  <2>3. status = "succeeded" => ~r.err
    BY <1>1 DEF Job
  <2> HIDE DEF new, status
  <2>4. status = "succeeded" => AllSucceeded(r.steps) /\ LastOf(r) /\ (r.for # Setup => r.printed # None)
    BY <1>1, <2>2, <2>3 DEF StepsSound, VerdictSound
  <2>5. StepsSound(new) BY <2>2, <2>4 DEF StepsSound, LastOf
  <2> QED BY <2>1, <2>5 DEF status
<1>10. CASE Close(j)
  <2> DEFINE new == [job[j] EXCEPT !.at = "over"]
  <2>1. Change(j, new) BY <1>10 DEF Close
  <2>2. /\ new.steps = r.steps /\ new.step = r.step /\ new.for = r.for /\ new.outcome = r.outcome
        /\ new.at = "over" /\ new.status = r.status
    BY <1>1, <1>10 DEF Close, Job
  <2> HIDE DEF new
  <2>3. StepsSound(new) BY <1>1, <2>2 DEF StepsSound, LastOf
  <2> QED BY <2>1, <2>3
<1>11. CASE StudyPrints(j)
  <2>1. PICK v \in Verdicts : Change(j, [job[j] EXCEPT !.printed = v])
    BY <1>11 DEF StudyPrints
  <2> DEFINE new == [job[j] EXCEPT !.printed = v]
  <2>2. /\ new.steps = r.steps /\ new.step = r.step /\ new.for = r.for /\ r.at = "live"
        /\ new.at = "live" /\ r.status # "succeeded" /\ new.status = r.status
    BY <1>1, <1>11 DEF StudyPrints, Job, Ended
  <2> HIDE DEF new
  <2>3. StepsSound(new) BY <1>1, <2>2, SameSteps
  <2> QED BY <2>1, <2>3 DEF new
<1>12. CASE CommandEnds(j)
  <2>1. PICK err \in BOOLEAN : Change(j, [job[j] EXCEPT !.at = "back", !.err = err])
    BY <1>12 DEF CommandEnds
  <2> DEFINE new == [job[j] EXCEPT !.at = "back", !.err = err]
  <2>2. /\ new.steps = r.steps /\ new.step = r.step /\ new.for = r.for /\ r.at = "live"
        /\ new.at = "back" /\ r.status # "succeeded" /\ new.status = r.status
    BY <1>1, <1>12 DEF CommandEnds, Job, Ended
  <2> HIDE DEF new
  <2>3. StepsSound(new) BY <1>1, <2>2, SameSteps
  <2> QED BY <2>1, <2>3 DEF new
<1> QED
  BY <1>3, <1>4, <1>5, <1>6, <1>7, <1>8, <1>9, <1>10, <1>11, <1>12 DEF Drive

LEMMA StartWhole ==
  ASSUME WholeInv, JobConstantsOK, NEW p \in Purposes, Start(p)
  PROVE  StepsAreSound'
<1>1. current + 1 \in Jobs /\ current' = current + 1 /\ job \in [Jobs -> Job]
      /\ job' = [job EXCEPT ![current + 1] = New(p)] /\ current \in 0..MaxJobs
  BY DEF WholeInv, PromiseInv, JobsInv, JobsTypeOK, Start, Jobs, JobConstantsOK
<1>2. StepsSound(New(p))
  BY DEF StepsSound, New, AllSucceeded
<1> QED BY <1>1, <1>2 DEF WholeInv, StepsAreSound, Known, Jobs

LEMMA CancelWhole ==
  ASSUME WholeInv, JobConstantsOK, NEW c \in Cancellers, CancelLooks(c) \/ CancelMoves(c)
  PROVE  StepsAreSound'
<1> DEFINE j == can[c].job
           r == job[j]
<1>1. ASSUME can[c].at # "idle"
      PROVE  j \in Known /\ j \in Jobs /\ r \in Job /\ StepsSound(r)
             /\ (~Ended(r.at) => r.status \in {"running", "cancelled"})
  BY <1>1 DEF WholeInv, PromiseInv, JobsInv, JobsTypeOK, CancelsHold, GoesOnOrCancelled, StepsAreSound,
              Known, Jobs, JobConstantsOK
<1>2. ASSUME j \in Known, j \in Jobs, current' = current,
             NEW new, job' = [job EXCEPT ![j] = new], StepsSound(new)
      PROVE  StepsAreSound'
  BY <1>2 DEF WholeInv, PromiseInv, JobsInv, JobsTypeOK, StepsAreSound, Known, Jobs
<1>3. CASE CancelLooks(c) \/ CancelAnswers(c)
  BY <1>3 DEF CancelLooks, CancelAnswers, WholeInv, StepsAreSound, Known
<1>4. CASE CancelMarks(c)
  <2> DEFINE new == [job[j] EXCEPT !.status = "cancelled"]
  <2>1. job' = [job EXCEPT ![j] = new] /\ current' = current /\ can[c].at # "idle"
    BY <1>4 DEF CancelMarks, CancelAt
  <2>2. new.steps = r.steps /\ new.step = r.step /\ new.for = r.for /\ new.at = r.at /\ new.err = r.err
        /\ new.status = "cancelled"
    BY <1>1, <2>1 DEF Job
  <2> HIDE DEF new
  <2>3. StepsSound(new) BY <1>1, <2>1, <2>2 DEF StepsSound, LastOf
  <2> QED BY <1>1, <1>2, <2>1, <2>3
<1>5. CASE CancelEndsContext(c)
  <2> DEFINE new == [job[j] EXCEPT !.ctx = TRUE]
  <2>1. job' = [job EXCEPT ![j] = new] /\ current' = current /\ can[c].at # "idle"
    BY <1>5 DEF CancelEndsContext, CancelAt
  <2>2. new.steps = r.steps /\ new.step = r.step /\ new.for = r.for /\ new.at = r.at /\ new.err = r.err
        /\ new.status = r.status /\ new.outcome = r.outcome
    BY <1>1, <2>1 DEF Job
  <2> HIDE DEF new
  <2>3. StepsSound(new) BY <1>1, <2>1, <2>2 DEF StepsSound, LastOf
  <2> QED BY <1>1, <1>2, <2>1, <2>3
<1>6. CASE CancelKills(c)
  <2>1. current' = current /\ can[c].at # "idle"
    BY <1>6 DEF CancelKills, CancelAt
  <2>2. CASE Live(j) /\ r.step # "install"
    <3> DEFINE new == [job[j] EXCEPT !.at = "back", !.err = TRUE]
    <3>1. job' = [job EXCEPT ![j] = new]
      BY <1>6, <2>2 DEF CancelKills
    <3>2. new.steps = r.steps /\ new.step = r.step /\ new.for = r.for /\ r.at = "live" /\ new.at = "back"
          /\ r.status # "succeeded" /\ new.status = r.status
      BY <1>1, <2>1, <2>2 DEF Job, Live, Ended
    <3> HIDE DEF new
    <3>3. StepsSound(new) BY <1>1, <2>1, <3>2, SameSteps
    <3> QED BY <1>1, <1>2, <2>1, <3>1, <3>3
  <2>3. CASE ~(Live(j) /\ r.step # "install")
    <3>1. job' = job BY <1>6, <2>3 DEF CancelKills
    <3> QED BY <2>1, <3>1 DEF WholeInv, StepsAreSound, Known
  <2> QED BY <2>2, <2>3
<1> QED BY <1>3, <1>4, <1>5, <1>6 DEF CancelMoves

\* research.go:592: a job that says it succeeded went through every step it was
\* for, each succeeded, and a study has its verdict, whatever was cancelled.
THEOREM SuccessTellsAll == Spec => []SuccessIsWhole
<1> USE JobConstantsOK
<1>1. Init => WholeInv
  BY PromiseInit DEF WholeInv, StepsAreSound, Known, Init
<1>2. WholeInv /\ [Next]_jobVars => WholeInv'
  <2> SUFFICES ASSUME WholeInv, [Next]_jobVars PROVE WholeInv'
    OBVIOUS
  <2>1. PromiseInv'
    BY PromiseStep DEF WholeInv
  <2>2. CASE Next
    BY <2>1, <2>2, DriveWhole, StartWhole, CancelWhole DEF Next, PhoneStarts, JobsMove, WholeInv
  <2>3. CASE UNCHANGED jobVars
    BY <2>1, <2>3 DEF jobVars, WholeInv, StepsAreSound, Known
  <2> QED BY <2>2, <2>3
<1>3. WholeInv => SuccessIsWhole
  BY DEF WholeInv, StepsAreSound, StepsSound, SuccessIsWhole, AllSucceeded, LastOf, LastStep
<1> QED BY <1>1, <1>2, <1>3, PTL DEF Spec
=============================================================================
