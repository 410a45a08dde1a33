--------------------------- MODULE SessionProofs ---------------------------
(***************************************************************************)
(* Proofs about a spec's sessions: of Scheduler, for any calendar, offset, *)
(* grace and bounds, that a day is run when it is due, in its window and   *)
(* once, and that no day somebody waits for slips by; of LiveReplay, for   *)
(* any plans Parse accepts and any markets whose bars are sound, what a    *)
(* strategy does with the bars of a session: it never looks ahead, so that *)
(* the backtest repeats what the live run was told, and its exits are what *)
(* they say.                                                               *)
(***************************************************************************)
EXTENDS LiveReplay, Scheduler, FiniteSetTheorems, WellFoundedInduction, TLAPS

\* A set of numbers that is not empty has a least one.
LEMMA Least ==
  ASSUME NEW T, T \subseteq Nat, T # {}
  PROVE  \E x \in T : \A y \in T : x <= y
<1>1. PICK x \in T : \A y \in T : ~(<<y, x>> \in OpToRel(<, Nat))
  BY NatLessThanWellFounded, WFMin
<1>2. \A y \in T : ~(y < x)
  BY <1>1 DEF OpToRel
<1> QED BY <1>2

-----------------------------------------------------------------------------
(* The scheduler: its inductive invariant. *)

\* The session that is waited for was not run by this process, and is not over
\* unless Run now had it; on a machine that stays awake it has yet to close.
OpenSession ==
  pc \in {"waiting", "firing"} =>
    /\ session \notin tried
    /\ used.presses = 0 => ~Done(session)
    /\ used.naps = 0 => now < Closing[session]

\* What was run has closed, but for the session that is being waited out.
TriedIsPast ==
  \A s \in tried : now >= Closing[s] \/ (s = session /\ pc \in {"running", "closing"})

\* Sessions are taken in order; one that is waited out is accounted for.
EarlierClosed == pc \notin {"choose", "down"} => \A s \in Sessions : s < session => Closing[s] <= now
Accounted == pc = "closing" => Done(session) \/ session \in excused \/ button = session

OnTime == pc = "firing" => now >= RunTime(session)
Awake == used.naps = 0 => asleep = FALSE
Unpressed == used.presses = 0 => button = 0 /\ (pc = "running" => status[session] = "started")

SchedInv ==
  /\ SchedTypeOK /\ OpenSession /\ TriedIsPast /\ EarlierClosed
  /\ Accounted /\ OnTime /\ Awake /\ Unpressed

-----------------------------------------------------------------------------
(* NextClose is the first session that has yet to close. *)
LEMMA NextIsFirst ==
  ASSUME Upcoming # {}, now \in Nat
  PROVE  /\ NextClose \in Sessions /\ Closing[NextClose] > now
         /\ \A s \in Sessions : s < NextClose => Closing[s] <= now
<1>1. Upcoming \subseteq Nat
  BY SchedulerConstantsOK DEF Upcoming, Sessions
<1>2. \E s \in Upcoming : \A t \in Upcoming : s <= t
  BY <1>1, Least
<1>3. NextClose \in Upcoming /\ \A t \in Upcoming : NextClose <= t
  BY <1>2 DEF NextClose
<1>4. ASSUME NEW s \in Sessions, s < NextClose PROVE Closing[s] <= now
  <2>1. s \notin Upcoming
    BY <1>1, <1>3, <1>4 DEF Sessions
  <2> QED BY <2>1, SchedulerConstantsOK DEF Upcoming
<1> QED BY <1>3, <1>4 DEF Upcoming

(* Sessions do not overlap. *)
LEMMA Times ==
  ASSUME NEW s \in Sessions
  PROVE  /\ s \in Nat /\ Closing[s] \in Nat /\ RunTime(s) \in Nat /\ RunTime(s) < Closing[s]
         /\ \A t \in Sessions : t > s => RunTime(t) > Closing[s] + Grace
         /\ Grace \in Nat
<1>1. s \in Nat /\ Closing[s] \in Nat /\ Offset \in Nat /\ Offset > 0 /\ Offset <= Closing[s] /\ Grace \in Nat
  BY SchedulerConstantsOK DEF Sessions
<1>2. RunTime(s) \in Nat /\ RunTime(s) < Closing[s]
  BY <1>1 DEF RunTime
<1>3. \A t \in Sessions : t > s => RunTime(t) > Closing[s] + Grace
  <2>1. \A t \in Sessions : s < t => Closing[s] + Grace < RunTime(t)
    BY SchedulerConstantsOK
  <2>2. \A t \in Sessions : t \in Nat /\ RunTime(t) \in Int
    BY SchedulerConstantsOK DEF Sessions, RunTime
  <2> QED BY <1>1, <2>1, <2>2
<1> QED BY <1>1, <1>2, <1>3

-----------------------------------------------------------------------------
LEMMA Starts == Init => SchedInv
<1> SUFFICES ASSUME Init PROVE SchedInv
  OBVIOUS
<1>1. used \in [kills : 0 .. MaxKills, naps : 0 .. MaxNaps, halts : 0 .. MaxHalts, presses : 0 .. MaxPresses]
  BY SchedulerConstantsOK DEF Init
<1>2. 0 \in 0 .. Horizon /\ 1 \in Sessions
  BY SchedulerConstantsOK DEF Sessions
<1>3. SchedTypeOK
  BY <1>1, <1>2 DEF Init, SchedTypeOK
<1> QED BY <1>3 DEF Init, SchedInv, OpenSession, TriedIsPast, EarlierClosed, Accounted, OnTime,
  Awake, Unpressed

(* The loop's own steps. *)
LEMMA ChooseSafe == ASSUME SchedInv, Choose PROVE SchedInv'
<1>1. now \in Nat
  BY SchedulerConstantsOK DEF SchedInv, SchedTypeOK
<1>2. /\ session' = NextClose /\ NextClose \in Sessions /\ Closing[NextClose] > now
      /\ \A s \in Sessions : s < NextClose => Closing[s] <= now
  BY <1>1, NextIsFirst DEF Choose
<1>3. pc' = IF Done(NextClose) THEN "closing" ELSE "waiting"
  BY DEF Choose
<1>4. SchedTypeOK'
  BY <1>2, <1>3 DEF Choose, history, SchedInv, SchedTypeOK
<1>5. TriedIsPast' /\ \A s \in tried : now >= Closing[s]
  BY DEF Choose, history, SchedInv, TriedIsPast
<1>6. OpenSession'
  <2>1. NextClose \notin tried
    BY <1>1, <1>2, <1>5, Times
  <2> QED BY <1>2, <1>3, <2>1 DEF Choose, history, OpenSession, Done
<1>7. EarlierClosed' /\ Accounted' /\ OnTime'
  BY <1>2, <1>3 DEF Choose, history, EarlierClosed, Accounted, OnTime, Done
<1>8. Awake' /\ Unpressed'
  BY <1>3 DEF Choose, history, SchedInv, Awake, Unpressed
<1> QED BY <1>4, <1>5, <1>6, <1>7, <1>8 DEF SchedInv

LEMMA FireSafe == ASSUME SchedInv, Fire PROVE SchedInv'
<1>1. SchedTypeOK'
  BY DEF Fire, SchedInv, SchedTypeOK
<1>2. OpenSession' /\ TriedIsPast' /\ EarlierClosed' /\ OnTime'
  BY DEF Fire, SchedInv, OpenSession, TriedIsPast, EarlierClosed, OnTime, Done
<1>3. Accounted'
  BY DEF Fire, SchedInv, Accounted
<1>4. Awake' /\ Unpressed'
  BY DEF Fire, SchedInv, Awake, Unpressed
<1> QED BY <1>1, <1>2, <1>3, <1>4 DEF SchedInv

LEMMA BeginSafe == ASSUME SchedInv, Begin PROVE SchedInv'
<1>1. SchedTypeOK'
  BY DEF Begin, After, SchedInv, SchedTypeOK
<1>2. OpenSession' /\ TriedIsPast' /\ EarlierClosed' /\ OnTime'
  BY DEF Begin, After, SchedInv, OpenSession, TriedIsPast, EarlierClosed, OnTime
<1>3. Accounted'
  BY DEF Begin, After, SchedInv, Accounted
<1>4. Awake' /\ Unpressed'
  BY DEF Begin, After, SchedInv, SchedTypeOK, Awake, Unpressed
<1> QED BY <1>1, <1>2, <1>3, <1>4 DEF SchedInv

LEMMA EndSafe == ASSUME SchedInv, End PROVE SchedInv'
<1>1. SchedTypeOK'
  BY DEF End, After, SchedInv, SchedTypeOK
<1>2. OpenSession' /\ TriedIsPast' /\ EarlierClosed' /\ OnTime'
  BY DEF End, After, SchedInv, OpenSession, TriedIsPast, EarlierClosed, OnTime
<1>3. Accounted'
  BY DEF End, After, SchedInv, SchedTypeOK, Accounted, Done
<1>4. Awake' /\ Unpressed'
  BY DEF End, After, SchedInv, Awake, Unpressed
<1> QED BY <1>1, <1>2, <1>3, <1>4 DEF SchedInv

LEMMA WaitOutSafe == ASSUME SchedInv, WaitOut PROVE SchedInv'
<1>1. SchedTypeOK'
  BY DEF WaitOut, history, SchedInv, SchedTypeOK
<1>2. now >= Closing[session]
  BY Times, SchedulerConstantsOK DEF WaitOut, SchedInv, SchedTypeOK
<1>3. OpenSession' /\ TriedIsPast' /\ EarlierClosed' /\ OnTime' /\ Accounted'
  BY <1>2 DEF WaitOut, history, SchedInv, OpenSession, TriedIsPast, EarlierClosed, OnTime, Accounted
<1>4. Awake' /\ Unpressed'
  BY DEF WaitOut, history, SchedInv, Awake, Unpressed
<1> QED BY <1>1, <1>3, <1>4 DEF SchedInv

(* A press takes one from its bound; a lid closed or a process killed too. *)
LEMMA UsedTypes ==
  ASSUME SchedTypeOK
  PROVE  /\ used.kills \in Nat /\ used.naps \in Nat /\ used.halts \in Nat /\ used.presses \in Nat
         /\ used.kills < MaxKills => [used EXCEPT !.kills = @ + 1] \in
              [kills : 0 .. MaxKills, naps : 0 .. MaxNaps, halts : 0 .. MaxHalts, presses : 0 .. MaxPresses]
         /\ used.naps < MaxNaps => [used EXCEPT !.naps = @ + 1] \in
              [kills : 0 .. MaxKills, naps : 0 .. MaxNaps, halts : 0 .. MaxHalts, presses : 0 .. MaxPresses]
         /\ used.halts < MaxHalts => [used EXCEPT !.halts = @ + 1] \in
              [kills : 0 .. MaxKills, naps : 0 .. MaxNaps, halts : 0 .. MaxHalts, presses : 0 .. MaxPresses]
         /\ used.presses < MaxPresses => [used EXCEPT !.presses = @ + 1] \in
              [kills : 0 .. MaxKills, naps : 0 .. MaxNaps, halts : 0 .. MaxHalts, presses : 0 .. MaxPresses]
<1>1. MaxKills \in Nat /\ MaxNaps \in Nat /\ MaxHalts \in Nat /\ MaxPresses \in Nat
  BY SchedulerConstantsOK
<1> QED BY <1>1 DEF SchedTypeOK

(* The process and what is around it. *)
LEMMA KillSafe == ASSUME SchedInv, Kill PROVE SchedInv'
<1>1. PICK torn \in SUBSET {s \in Sessions : s = button \/ (s = session /\ pc = "running")} :
        status' = [s \in Sessions |-> IF s \in torn THEN "failed" ELSE status[s]]
  BY DEF Kill
<1>2. SchedTypeOK'
  <2>1. status' \in [Sessions -> {"none", "started"} \union Concluded]
    BY <1>1 DEF SchedInv, SchedTypeOK, Concluded
  <2> QED BY <2>1, UsedTypes DEF Kill, SchedInv, SchedTypeOK
<1>3. used'.naps = used.naps
  BY DEF Kill, SchedInv, SchedTypeOK
<1>4. OpenSession' /\ TriedIsPast' /\ EarlierClosed' /\ OnTime' /\ Accounted'
  BY DEF Kill, OpenSession, TriedIsPast, EarlierClosed, OnTime, Accounted
<1>5. Awake' /\ Unpressed'
  BY <1>3 DEF Kill, SchedInv, Awake, Unpressed
<1> QED BY <1>2, <1>4, <1>5 DEF SchedInv

LEMMA RestartSafe == ASSUME SchedInv, Restart PROVE SchedInv'
<1>1. SchedTypeOK'
  BY DEF Restart, history, SchedInv, SchedTypeOK
<1>2. OpenSession' /\ TriedIsPast' /\ EarlierClosed' /\ OnTime' /\ Accounted'
  BY DEF Restart, history, SchedInv, OpenSession, TriedIsPast, EarlierClosed, OnTime, Accounted
<1>3. Awake' /\ Unpressed'
  BY DEF Restart, history, SchedInv, Awake, Unpressed
<1> QED BY <1>1, <1>2, <1>3 DEF SchedInv

LEMMA PressSafe == ASSUME SchedInv, Press PROVE SchedInv'
<1>1. now \in Nat
  BY SchedulerConstantsOK DEF SchedInv, SchedTypeOK
<1>2. NextClose \in Sessions
  BY <1>1, NextIsFirst DEF Press
<1>3. SchedTypeOK'
  <2>1. status' \in [Sessions -> {"none", "started"} \union Concluded]
    BY <1>2 DEF Press, SchedInv, SchedTypeOK
  <2> QED BY <1>2, <2>1, UsedTypes DEF Press, history, SchedInv, SchedTypeOK
<1>4. used'.naps = used.naps /\ used'.presses # 0
  <2>1. used'.naps = used.naps /\ used'.presses = used.presses + 1
    BY DEF Press, SchedInv, SchedTypeOK
  <2> QED BY <2>1, UsedTypes DEF SchedInv
<1>5. OpenSession' /\ TriedIsPast' /\ EarlierClosed' /\ OnTime'
  BY <1>4 DEF Press, history, SchedInv, OpenSession, TriedIsPast, EarlierClosed, OnTime
<1>6. Accounted'
  <2>1. button = 0 /\ button' = NextClose /\ excused' = excused /\ pc' = pc /\ session' = session
        /\ status' = [status EXCEPT ![NextClose] = "started"]
    BY DEF Press, history
  <2>2. session \in Sessions /\ DOMAIN status = Sessions
    BY DEF SchedInv, SchedTypeOK
  <2>3. session # 0
    BY <2>2 DEF Sessions
  <2>4. pc = "closing" => Done(session) \/ session \in excused
    BY <2>1, <2>3 DEF SchedInv, Accounted
  <2> QED BY <1>2, <2>1, <2>2, <2>4 DEF Accounted, Done
<1>7. Awake' /\ Unpressed'
  BY <1>4 DEF Press, history, SchedInv, Awake, Unpressed
<1> QED BY <1>3, <1>5, <1>6, <1>7 DEF SchedInv

LEMMA PressEndsSafe == ASSUME SchedInv, PressEnds PROVE SchedInv'
<1>1. SchedTypeOK'
  BY DEF PressEnds, SchedInv, SchedTypeOK, Concluded
<1>2. used.presses # 0
  BY DEF PressEnds, SchedInv, Unpressed
<1>3. OpenSession' /\ TriedIsPast' /\ EarlierClosed' /\ OnTime'
  BY <1>2 DEF PressEnds, SchedInv, OpenSession, TriedIsPast, EarlierClosed, OnTime
<1>4. Accounted'
  BY DEF PressEnds, SchedInv, SchedTypeOK, Accounted, Done
<1>5. Awake' /\ Unpressed'
  BY <1>2 DEF PressEnds, SchedInv, Awake, Unpressed
<1> QED BY <1>1, <1>3, <1>4, <1>5 DEF SchedInv

LEMMA LidSafe == ASSUME SchedInv, Suspend \/ Wake PROVE SchedInv'
<1>1. UNCHANGED <<now, pc, session, halted, status, button, tried, excused, absent>>
  BY DEF Suspend, Wake, history
<1>2. used'.presses = used.presses /\ (used'.naps = 0 => used.naps = 0 /\ asleep' = FALSE)
  <2>1. CASE Suspend
    <3>1. used'.presses = used.presses /\ used'.naps = used.naps + 1
      BY <2>1 DEF Suspend, SchedInv, SchedTypeOK
    <3> QED BY <3>1, UsedTypes DEF SchedInv
  <2>2. CASE Wake
    BY <2>2 DEF Wake, history
  <2> QED BY <2>1, <2>2
<1>3. SchedTypeOK'
  BY <1>1, UsedTypes DEF Suspend, Wake, SchedInv, SchedTypeOK
<1>4. OpenSession' /\ TriedIsPast' /\ EarlierClosed' /\ OnTime' /\ Accounted'
  BY <1>1, <1>2 DEF SchedInv, OpenSession, TriedIsPast, EarlierClosed, OnTime, Accounted, Done, RunTime
<1>5. Awake' /\ Unpressed'
  BY <1>1, <1>2 DEF SchedInv, Awake, Unpressed
<1> QED BY <1>3, <1>4, <1>5 DEF SchedInv

LEMMA MarkerSafe == ASSUME SchedInv, Halt \/ Resume PROVE SchedInv'
<1>1. UNCHANGED <<now, asleep, pc, session, status, button, tried, excused, absent>>
  BY DEF Halt, Resume, history
<1>2. used'.presses = used.presses /\ used'.naps = used.naps
  BY DEF Halt, Resume, SchedInv, SchedTypeOK
<1>3. SchedTypeOK'
  BY <1>1, UsedTypes DEF Halt, Resume, SchedInv, SchedTypeOK
<1>4. OpenSession' /\ TriedIsPast' /\ EarlierClosed' /\ OnTime' /\ Accounted'
  BY <1>1, <1>2 DEF SchedInv, OpenSession, TriedIsPast, EarlierClosed, OnTime, Accounted, Done, RunTime
<1>5. Awake' /\ Unpressed'
  BY <1>1, <1>2 DEF SchedInv, Awake, Unpressed
<1> QED BY <1>3, <1>4, <1>5 DEF SchedInv

(* Time passes only when nothing is due: a session that is waited for is then
   a whole offset from its close.                                           *)
LEMMA TickSafe == ASSUME SchedInv, Tick PROVE SchedInv'
<1>1. UNCHANGED <<asleep, pc, session, halted, status, button, used, tried, excused>>
      /\ now' = now + 1 /\ now < Horizon /\ ~Due
  BY DEF Tick
<1>2. now \in Nat /\ Horizon \in Nat /\ session \in Sessions
  BY SchedulerConstantsOK DEF SchedInv, SchedTypeOK
<1>3. SchedTypeOK'
  <2>1. now' \in 0 .. Horizon
    BY <1>1, <1>2
  <2>2. absent' \subseteq Sessions
    BY DEF Tick, SchedInv, SchedTypeOK
  <2> QED BY <1>1, <2>1, <2>2 DEF SchedInv, SchedTypeOK
<1>4. OpenSession'
  <2>1. ASSUME pc \in {"waiting", "firing"}, used.naps = 0 PROVE now + 1 < Closing[session]
    <3>1. asleep = FALSE
      BY <2>1 DEF SchedInv, Awake
    <3>2. pc = "waiting" /\ ~(now >= RunTime(session))
      BY <1>1, <2>1, <3>1 DEF Due
    <3> QED BY <1>2, <3>2, Times
  <2> QED BY <1>1, <2>1 DEF SchedInv, OpenSession, Done
<1>5. TriedIsPast' /\ EarlierClosed'
  <2>1. \A s \in Sessions : now >= Closing[s] => now + 1 >= Closing[s]
    BY <1>2, Times
  <2> QED BY <1>1, <1>2, <2>1, Times DEF SchedInv, SchedTypeOK, TriedIsPast, EarlierClosed
<1>6. OnTime'
  <2>1. now >= RunTime(session) => now + 1 >= RunTime(session)
    BY <1>2, Times
  <2> QED BY <1>1, <2>1 DEF SchedInv, OnTime, RunTime
<1>7. Accounted' /\ Awake' /\ Unpressed'
  BY <1>1 DEF SchedInv, Accounted, Awake, Unpressed, Done
<1> QED BY <1>3, <1>4, <1>5, <1>6, <1>7 DEF SchedInv

LEMMA Kept == SchedInv /\ [Next]_schedVars => SchedInv'
<1> SUFFICES ASSUME SchedInv, [Next]_schedVars PROVE SchedInv'
  OBVIOUS
<1>1. CASE Serve
  BY <1>1, ChooseSafe, FireSafe, BeginSafe, EndSafe, WaitOutSafe DEF Serve
<1>2. CASE Kill \/ Restart \/ Press \/ PressEnds
  BY <1>2, KillSafe, RestartSafe, PressSafe, PressEndsSafe
<1>3. CASE Suspend \/ Wake \/ Halt \/ Resume \/ Tick
  BY <1>3, LidSafe, MarkerSafe, TickSafe
<1>4. CASE UNCHANGED schedVars
  BY <1>4 DEF schedVars, SchedInv, SchedTypeOK, OpenSession, TriedIsPast, EarlierClosed, Accounted,
    OnTime, Awake, Unpressed, Done, RunTime
<1> QED BY <1>1, <1>2, <1>3, <1>4 DEF Next

-----------------------------------------------------------------------------
(* The scheduler's state is well typed, and its clock, session and history
   agree, for any sessions and bounds.                                       *)
THEOREM SchedulerInvariant == Spec => []SchedInv
<1> QED BY Starts, Kept, PTL DEF Spec

(* A concluded day is not run again however often the process restarts and the
   machine sleeps, until somebody presses Run now; a run starts in its window
   on a machine that stays awake; an error is not retried (Loop.Run, fire). *)
THEOREM FiresOnce == Spec => FiresOnceInWindow
<1> DEFINE Concludes == used'.presses = 0 => \A s \in Sessions : Done(s) => status'[s] = status[s]
           Fires == pc = "firing" /\ pc' = "running" =>
                      session \notin tried /\ (used.naps = 0 => InWindow(session))
<1>1. ASSUME SchedInv, [Next]_schedVars, used'.presses = 0, NEW s \in Sessions, Done(s)
      PROVE  status'[s] = status[s]
  <2> USE <1>1 DEF Done
  <2>1. used.presses = 0
    <3>1. CASE Press
      <4>1. used'.presses = used.presses + 1
        BY <3>1 DEF Press, SchedInv, SchedTypeOK
      <4> QED BY <4>1, UsedTypes DEF SchedInv
    <3>2. CASE Kill \/ Suspend \/ Halt
      BY <3>2 DEF Kill, Suspend, Halt, SchedInv, SchedTypeOK
    <3>3. CASE UNCHANGED used
      BY <3>3
    <3> QED BY <3>1, <3>2, <3>3 DEF Next, Serve, Choose, Fire, Begin, End, WaitOut, Restart,
          PressEnds, Wake, Resume, Tick, schedVars
  <2>2. button = 0 /\ (pc = "running" => status[session] = "started")
        /\ (pc = "firing" => ~Done(session))
    BY <2>1 DEF SchedInv, Unpressed, OpenSession
  <2>3. s # button /\ "started" \notin Concluded
    BY <2>2 DEF Sessions, Concluded
  <2>4. CASE Begin \/ End
    <3>1. s # session
      BY <2>2, <2>3, <2>4 DEF Begin, End
    <3> QED BY <2>4, <3>1 DEF Begin, End, SchedInv, SchedTypeOK
  <2>5. CASE Kill
    <3>1. PICK torn \in SUBSET {t \in Sessions : t = button \/ (t = session /\ pc = "running")} :
            status' = [t \in Sessions |-> IF t \in torn THEN "failed" ELSE status[t]]
      BY <2>5 DEF Kill
    <3>2. s \notin torn
      BY <2>2, <2>3, <3>1
    <3> QED BY <3>1, <3>2
  <2>6. CASE Press
    <3>1. used'.presses = used.presses + 1
      BY <2>6 DEF Press, SchedInv, SchedTypeOK
    <3> QED BY <2>1, <3>1
  <2>7. CASE PressEnds
    BY <2>2, <2>7 DEF PressEnds
  <2>8. CASE UNCHANGED status
    BY <2>8
  <2> QED BY <2>4, <2>5, <2>6, <2>7, <2>8 DEF Next, Serve, Choose, Fire, WaitOut, Restart,
        Suspend, Wake, Halt, Resume, Tick, schedVars, history
<1>2. ASSUME SchedInv, [Next]_schedVars, pc = "firing", pc' = "running"
      PROVE  session \notin tried /\ (used.naps = 0 => InWindow(session))
  BY <1>2 DEF SchedInv, OpenSession, OnTime, InWindow
<1>3. SchedInv /\ [Next]_schedVars => [Concludes /\ Fires]_schedVars
  BY <1>1, <1>2
<1> QED BY <1>3, SchedulerInvariant, PTL DEF Spec, FiresOnceInWindow

(* No day slips by while the loop waits for another: time passes in a day's
   window only when the day is concluded, was skipped for a halt, met an error
   or is in the hands of Run now (Loop.Run, NextClose).                     *)
THEOREM NoDaySlipsBy == Spec => NoDaySlips
<1> DEFINE Accounts == now' > now /\ Waiting =>
       \A s \in Sessions : InWindow(s) => Done(s) \/ s \in excused \/ button = s
<1>1. ASSUME SchedInv, [Next]_schedVars, now' > now, Waiting, NEW s \in Sessions, InWindow(s)
      PROVE  Done(s) \/ s \in excused \/ button = s
  <2>1. now \in Nat /\ session \in Sessions
    BY <1>1, SchedulerConstantsOK DEF SchedInv, SchedTypeOK
  <2>2. Tick
    <3>1. now' # now
      BY <1>1, <2>1
    <3> QED BY <1>1, <3>1 DEF Next, Serve, Choose, Fire, Begin, End, WaitOut, Kill, Restart, Press,
          PressEnds, Suspend, Wake, Halt, Resume, schedVars
  <2>3. /\ pc \in {"waiting", "closing"}
        /\ pc = "waiting" => ~(now >= RunTime(session))
        /\ pc = "closing" => ~(now >= Closing[session] + Grace)
    BY <1>1, <2>2 DEF Tick, Due, Waiting
  <2>4. \A t \in Sessions : t < session => Closing[t] <= now
    BY <1>1, <2>3 DEF SchedInv, EarlierClosed
  <2>5. RunTime(s) <= now /\ now < Closing[s]
    BY <1>1 DEF InWindow
  <2>6. ~(s < session)
    BY <2>1, <2>4, <2>5, Times
  <2>7. ~(s > session)
    BY <2>1, <2>3, <2>5, Times
  <2>8. s = session
    BY <2>1, <2>6, <2>7, Times
  <2>9. pc = "closing"
    BY <2>3, <2>5, <2>8, <2>1, Times
  <2> QED BY <1>1, <2>8, <2>9 DEF SchedInv, Accounted
<1>2. SchedInv /\ [Next]_schedVars => [Accounts]_schedVars
  BY <1>1
<1> QED BY <1>2, SchedulerInvariant, PTL DEF Spec, NoDaySlips

-----------------------------------------------------------------------------
(* Induction up to a bar, and what a replay is. *)

\* What is good of 0, and of a number when it is of the one before, is good.
LEMMA Along ==
  ASSUME NEW n \in Nat, NEW Good, 0 \in Good,
         \A k \in 1..n : k - 1 \in Good => k \in Good
  PROVE  \A k \in 0..n : k \in Good
<1> DEFINE bad == {k \in 0..n : k \notin Good}
<1>1. CASE bad = {}
  BY <1>1
<1>2. CASE bad # {}
  <2>1. bad \subseteq Nat
    OBVIOUS
  <2> HIDE DEF bad
  <2>2. PICK m \in bad : \A y \in bad : m <= y
    BY <1>2, <2>1, Least
  <2>3. m \in 0..n /\ m \notin Good
    BY DEF bad
  <2>4. m \in 1..n /\ m - 1 \in 0..n /\ m - 1 \notin bad
    BY <2>2, <2>3, <2>1
  <2> QED BY <2>3, <2>4 DEF bad
<1> QED BY <1>1, <1>2

\* f takes step after step from p0, up to n.
Replays(f, n, p0, step) == f[0] = p0 /\ \A t \in 1..n : f[t] = step[t][f[t - 1]]

\* There is one, of as many steps as one likes.
LEMMA ReplayExists ==
  ASSUME NEW n \in Nat, NEW P, NEW p0, p0 \in P,
         NEW step, \A p \in P, t \in 1..n : step[t][p] \in P
  PROVE  \E f \in [0..n -> P] : Replays(f, n, p0, step)
<1> DEFINE good == {k \in 0..n : \E f \in [0..k -> P] : Replays(f, k, p0, step)}
<1>1. 0 \in good
  <2> DEFINE f == [t \in 0..0 |-> p0]
  <2>1. f \in [0..0 -> P] /\ f[0] = p0
    OBVIOUS
  <2> HIDE DEF f
  <2>2. \E g \in [0..0 -> P] : Replays(g, 0, p0, step)
    BY <2>1 DEF Replays
  <2> QED BY <2>2
<1>2. ASSUME NEW k \in 1..n, k - 1 \in good PROVE k \in good
  <2>1. PICK f \in [0..k - 1 -> P] : Replays(f, k - 1, p0, step)
    BY <1>2
  <2> DEFINE g == [t \in 0..k |-> IF t = k THEN step[k][f[k - 1]] ELSE f[t]]
  <2>2. step[k][f[k - 1]] \in P
    <3>1. f[k - 1] \in P
      OBVIOUS
    <3> QED BY <3>1
  <2>3. g \in [0..k -> P]
    BY <2>2
  <2>4. g[0] = p0
    BY <2>1 DEF Replays
  <2>5. ASSUME NEW t \in 1..k PROVE g[t] = step[t][g[t - 1]]
    <3>1. g[t - 1] = f[t - 1] /\ g[k] = step[k][f[k - 1]]
      OBVIOUS
    <3>2. t # k => g[t] = f[t]
      OBVIOUS
    <3> HIDE DEF g
    <3>3. CASE t = k
      BY <3>1, <3>3
    <3>4. CASE t # k
      <4>1. f[t] = step[t][f[t - 1]]
        BY <2>1, <3>4 DEF Replays
      <4> QED BY <3>1, <3>2, <3>4, <4>1
    <3> QED BY <3>3, <3>4
  <2> HIDE DEF g
  <2>6. Replays(g, k, p0, step)
    BY <2>4, <2>5 DEF Replays
  <2> QED BY <2>3, <2>6
<1>3. n \in good
  <2> HIDE DEF good
  <2>1. \A k \in 1..n : k - 1 \in good => k \in good
    BY <1>2
  <2>2. \A k \in 0..n : k \in good
    BY <1>1, <2>1, Along
  <2> QED BY <2>2
<1> QED BY <1>3

\* A function that is tabled is itself.
LEMMA TabledIs == \A f : Tabled(f) = f
BY DEF Tabled

\* A replay is the position after each bar, taken from the one before.
LEMMA Replayed ==
  ASSUME NEW pl, NEW al, NEW s, NEW P, Flat \in P, Len(al.dates) \in Nat,
         \A p \in P, t \in 1..Len(al.dates) : PositionAt(pl, al, s, p, t) \in P
  PROVE  /\ Positions(pl, al, s) \in [0..Len(al.dates) -> P]
         /\ Positions(pl, al, s)[0] = Flat
         /\ \A t \in 1..Len(al.dates) :
              Positions(pl, al, s)[t] = PositionAt(pl, al, s, Positions(pl, al, s)[t - 1], t)
<1> DEFINE n == Len(al.dates)
           Is(f) == f = [t \in 0..n |-> IF t = 0 THEN Flat ELSE PositionAt(pl, al, s, f[t - 1], t)]
           step == [t \in 1..n |-> [p \in P |-> PositionAt(pl, al, s, p, t)]]
<1>0. n \in Nat
  OBVIOUS
<1>1. \E f : Is(f)
  <2>1. \A p \in P, t \in 1..n : step[t][p] = PositionAt(pl, al, s, p, t) /\ step[t][p] \in P
    OBVIOUS
  <2> HIDE DEF step, n
  <2>2. \A p \in P, t \in 1..n : step[t][p] \in P
    BY <2>1
  <2>3. PICK f \in [0..n -> P] : Replays(f, n, Flat, step)
    BY <1>0, <2>2, ReplayExists
  <2>4. ASSUME NEW t \in 1..n PROVE f[t] = PositionAt(pl, al, s, f[t - 1], t)
    <3>1. f[t - 1] \in P /\ f[t] = step[t][f[t - 1]]
      BY <1>0, <2>3 DEF Replays
    <3> QED BY <2>1, <3>1
  <2>5. f = [t \in 0..n |-> IF t = 0 THEN Flat ELSE PositionAt(pl, al, s, f[t - 1], t)]
    BY <2>3, <2>4 DEF Replays
  <2> QED BY <2>5 DEF n
<1>2. Positions(pl, al, s) = CHOOSE f : Is(f)
  BY TabledIs DEF Positions
<1> DEFINE pos == Positions(pl, al, s)
<1>3. Is(pos)
  BY <1>1, <1>2
<1> HIDE DEF pos
<1>4. DOMAIN pos = 0..n /\ pos[0] = Flat /\ \A t \in 1..n : pos[t] = PositionAt(pl, al, s, pos[t - 1], t)
  BY <1>3
<1>5. \A t \in 0..n : pos[t] \in P
  <2> DEFINE good == {t \in 0..n : pos[t] \in P}
  <2>1. 0 \in good
    BY <1>4
  <2>2. \A t \in 1..n : t - 1 \in good => t \in good
    BY <1>4
  <2> HIDE DEF good
  <2>3. \A t \in 0..n : t \in good
    BY <2>1, <2>2, Along
  <2> QED BY <2>3 DEF good
<1> HIDE DEF Is
<1>6. pos = [t \in 0..n |-> pos[t]]
  BY <1>3 DEF Is
<1>7. pos \in [0..n -> P]
  BY <1>5, <1>6
<1> QED BY <1>4, <1>7 DEF pos

-----------------------------------------------------------------------------
(* Positions. *)

Sides(pl) == IF pl.strategy = "pairs_zscore" THEN {-1, 0, 1} ELSE {0, 1}
Held(pl) == [in : Sides(pl), held : Nat]
Replaying == Stateful \cup {"time_series_momentum"}

\* Every step keeps a position one, flat or open on its side.
LEMMA StepTypes ==
  ASSUME NEW pl, pl.strategy \in Replaying, NEW al, NEW s, NEW p \in Held(pl), NEW t
  PROVE  PositionAt(pl, al, s, p, t) \in Held(pl)
<1>1. Flat \in Held(pl) /\ Enter(1) \in Held(pl) /\ Hold(p) \in Held(pl)
  BY DEF Held, Sides, Flat, Enter, Hold
<1>2. CASE pl.strategy = "pairs_zscore"
  <2>1. Enter(-1) \in Held(pl)
    BY <1>2 DEF Held, Sides, Enter
  <2>2. PositionAt(pl, al, s, p, t) = PairsAt(pl.params, al, s, Haven(pl.universe), p, t)
    BY <1>2 DEF PositionAt
  <2> QED BY <1>1, <2>1, <2>2 DEF PairsAt, PairsStep
<1>3. CASE pl.strategy = "ratio_reversion"
  <2>2. PositionAt(pl, al, s, p, t) = RatioAt(pl.params, al, s, Haven(pl.universe), p, t)
    BY <1>3 DEF PositionAt
  <2> QED BY <1>1, <2>2 DEF RatioAt, RatioStep
<1>4. CASE pl.strategy = "sma_trend"
  <2>2. PositionAt(pl, al, s, p, t) = TrendAt(pl.params, al, s, p, t)
    BY <1>4 DEF PositionAt
  <2> QED BY <1>1, <2>2 DEF TrendAt, TrendStep
<1>5. CASE pl.strategy = "donchian_breakout"
  <2>2. PositionAt(pl, al, s, p, t) = DonchianAt(pl.params, al, s, p, t)
    BY <1>5 DEF PositionAt
  <2> QED BY <1>1, <2>2 DEF DonchianAt, DonchianStep
<1>6. CASE pl.strategy = "rsi2_reversion"
  <2>2. PositionAt(pl, al, s, p, t) = RSI2At(pl.params, al, s, p, t)
    BY <1>6 DEF PositionAt
  <2> QED BY <1>1, <2>2 DEF RSI2At, RSI2Step
<1>7. CASE pl.strategy = "time_series_momentum"
  <2>2. PositionAt(pl, al, s, p, t) = TSMomentumAt(pl.params, al, s, p, t)
    BY <1>7 DEF PositionAt
  <2> QED BY <1>1, <2>2 DEF TSMomentumAt
<1> QED BY <1>2, <1>3, <1>4, <1>5, <1>6, <1>7 DEF Replaying, Stateful

\* A position that stays open is the one before, a bar older.
LEMMA OpenIsHeld ==
  ASSUME NEW pl, pl.strategy \in Stateful, NEW al, NEW s, NEW t,
         NEW p \in Held(pl), p.in # 0, PositionAt(pl, al, s, p, t).in # 0
  PROVE  PositionAt(pl, al, s, p, t) = Hold(p)
<1>1. Flat.in = 0
  BY DEF Flat
<1>2. CASE pl.strategy = "pairs_zscore"
  <2>1. PositionAt(pl, al, s, p, t) = PairsAt(pl.params, al, s, Haven(pl.universe), p, t)
    BY <1>2 DEF PositionAt
  <2> QED BY <1>1, <2>1 DEF PairsAt, PairsStep
<1>3. CASE pl.strategy # "pairs_zscore"
  <2>1. p.in = 1
    BY <1>3 DEF Held, Sides
  <2>2. CASE pl.strategy = "ratio_reversion"
    <3>1. PositionAt(pl, al, s, p, t) = RatioAt(pl.params, al, s, Haven(pl.universe), p, t)
      BY <2>2 DEF PositionAt
    <3> QED BY <1>1, <2>1, <3>1 DEF RatioAt, RatioStep
  <2>3. CASE pl.strategy = "sma_trend"
    <3>1. PositionAt(pl, al, s, p, t) = TrendAt(pl.params, al, s, p, t)
      BY <2>3 DEF PositionAt
    <3> QED BY <1>1, <2>1, <3>1 DEF TrendAt, TrendStep
  <2>4. CASE pl.strategy = "donchian_breakout"
    <3>1. PositionAt(pl, al, s, p, t) = DonchianAt(pl.params, al, s, p, t)
      BY <2>4 DEF PositionAt
    <3> QED BY <1>1, <2>1, <3>1 DEF DonchianAt, DonchianStep
  <2>5. CASE pl.strategy = "rsi2_reversion"
    <3>1. PositionAt(pl, al, s, p, t) = RSI2At(pl.params, al, s, p, t)
      BY <2>5 DEF PositionAt
    <3> QED BY <1>1, <2>1, <3>1 DEF RSI2At, RSI2Step
  <2> QED BY <1>3, <2>2, <2>3, <2>4, <2>5 DEF Stateful
<1> QED BY <1>2, <1>3

\* With a time stop, it is not yet as old as that.
LEMMA OpenInTime ==
  ASSUME NEW pl, pl.strategy \in {"pairs_zscore", "ratio_reversion", "rsi2_reversion"},
         NEW al, NEW s, NEW t,
         NEW p \in Held(pl), p.in # 0, PositionAt(pl, al, s, p, t).in # 0
  PROVE  ~(p.held >= Count(pl.params.max_hold_days))
<1>1. Flat.in = 0
  BY DEF Flat
<1>2. CASE pl.strategy = "pairs_zscore"
  <2>1. PositionAt(pl, al, s, p, t) = PairsAt(pl.params, al, s, Haven(pl.universe), p, t)
    BY <1>2 DEF PositionAt
  <2> QED BY <1>1, <2>1 DEF PairsAt, PairsStep
<1>3. CASE pl.strategy # "pairs_zscore"
  <2>1. p.in = 1
    BY <1>3 DEF Held, Sides
  <2>2. CASE pl.strategy = "ratio_reversion"
    <3>1. PositionAt(pl, al, s, p, t) = RatioAt(pl.params, al, s, Haven(pl.universe), p, t)
      BY <2>2 DEF PositionAt
    <3> QED BY <1>1, <2>1, <3>1 DEF RatioAt, RatioStep
  <2>3. CASE pl.strategy = "rsi2_reversion"
    <3>1. PositionAt(pl, al, s, p, t) = RSI2At(pl.params, al, s, p, t)
      BY <2>3 DEF PositionAt
    <3> QED BY <1>1, <2>1, <3>1 DEF RSI2At, RSI2Step
  <2> QED BY <1>3, <2>2, <2>3
<1> QED BY <1>2, <1>3

-----------------------------------------------------------------------------
(* Alignment. *)

\* The i-th of some days has i - 1 of them before it.
LEMMA Ranks ==
  ASSUME NEW days, days \subseteq Nat, IsFiniteSet(days)
  PROVE  /\ Cardinality(days) \in Nat
         /\ \A i \in 1..Cardinality(days) :
              /\ InOrder(days)[i] \in days
              /\ Cardinality({e \in days : e < InOrder(days)[i]}) = i - 1
<1> DEFINE n == Cardinality(days)
           Below(d) == {e \in days : e < d}
           good == {i \in 0..n : i = 0 \/ \E d \in days : Cardinality(Below(d)) = i - 1}
<1>1. n \in Nat
  BY FS_CardinalityType
<1>2. 0 \in good
  BY <1>1
<1>3. ASSUME NEW i \in 1..n, i - 1 \in good PROVE i \in good
  <2>1. CASE i = 1
    <3>1. days # {}
      BY <1>1, FS_EmptySet
    <3>2. PICK d \in days : \A y \in days : d <= y
      BY <3>1, Least
    <3>3. \A e \in Below(d) : FALSE
      BY <3>2
    <3>4. Cardinality(Below(d)) = 0
      <4> HIDE DEF Below
      <4>1. Below(d) = {}
        BY <3>3
      <4> QED BY <4>1, FS_EmptySet
    <3> HIDE DEF Below
    <3>5. \E e \in days : Cardinality(Below(e)) = i - 1
      BY <2>1, <3>4
    <3> QED BY <3>5
  <2>2. CASE i # 1
    <3>1. PICK d \in days : Cardinality(Below(d)) = i - 2
      BY <1>3, <2>2
    <3> DEFINE upto == Below(d) \cup {d}
    <3>2. Below(d) \subseteq days /\ d \notin Below(d) /\ upto \subseteq days /\ i - 2 \in Nat
      BY <2>2
    <3>3. Cardinality(upto) = i - 1
      <4>1. IsFiniteSet(Below(d))
        BY <3>2, FS_Subset
      <4> HIDE DEF Below
      <4>2. Cardinality(upto) = Cardinality(Below(d)) + 1
        BY <3>2, <4>1, FS_AddElement
      <4> QED BY <3>1, <3>2, <4>2
    <3>4. days \ upto # {}
      <4> HIDE DEF upto
      <4>1. SUFFICES ASSUME days \ upto = {} PROVE FALSE
        OBVIOUS
      <4>2. days = upto
        BY <3>2, <4>1
      <4> QED BY <1>1, <3>3, <4>2
    <3>5. days \ upto \subseteq Nat
      OBVIOUS
    <3>6. PICK next \in days \ upto : \A y \in days \ upto : next <= y
      <4> HIDE DEF upto
      <4> QED BY <3>4, <3>5, Least
    <3>7. Below(next) = upto
      <4>1. ASSUME NEW e \in Below(next) PROVE e \in upto
        <5>1. e \in days /\ e \in Nat /\ next \in Nat /\ e < next
          BY <3>6
        <5> HIDE DEF upto
        <5> QED BY <3>6, <5>1
      <4>2. ASSUME NEW e \in upto PROVE e \in Below(next)
        <5>1. e \in days /\ e \in Nat /\ d \in Nat /\ next \in Nat /\ e <= d /\ next \notin Below(d) /\ next # d
          BY <3>6
        <5>2. ~(next < d)
          BY <3>6, <5>1
        <5> QED BY <5>1, <5>2
      <4> HIDE DEF Below, upto
      <4> QED BY <4>1, <4>2
    <3> HIDE DEF Below, upto
    <3>8. next \in days /\ Cardinality(Below(next)) = i - 1
      BY <3>3, <3>6, <3>7
    <3> QED BY <3>8
  <2> QED BY <2>1, <2>2
<1>4. \A i \in 0..n : i \in good
  <2> HIDE DEF good, n
  <2>1. \A i \in 1..n : i - 1 \in good => i \in good
    BY <1>3
  <2> QED BY <1>1, <1>2, <2>1, Along
<1>5. ASSUME NEW i \in 1..n
      PROVE  InOrder(days)[i] \in days /\ Cardinality(Below(InOrder(days)[i])) = i - 1
  <2>1. \E d \in days : Cardinality(Below(d)) = i - 1
    <3>1. i \in good /\ i # 0
      <4>1. i \in 0..n /\ i # 0
        BY <1>1
      <4> HIDE DEF good
      <4> QED BY <1>4, <4>1
    <3> HIDE DEF Below
    <3> QED BY <3>1
  <2>2. InOrder(days)[i] = CHOOSE d \in days : Cardinality(Below(d)) = i - 1
    BY DEF InOrder
  <2>3. InOrder(days)[i] \in days /\ Cardinality(Below(InOrder(days)[i])) = i - 1
    <3> DEFINE pick == CHOOSE d \in days : Cardinality(Below(d)) = i - 1
    <3> HIDE DEF Below
    <3>1. pick \in days /\ Cardinality(Below(pick)) = i - 1
      BY <2>1
    <3> QED BY <2>2, <3>1
  <2> QED BY <2>3
<1> QED BY <1>1, <1>5

(* What an alignment is: the shared days in their order, and as many bars of
   every symbol.                                                             *)
IsAligned(universe, hist, al) ==
  /\ Len(al.dates) \in Nat /\ DOMAIN al.dates = 1..Len(al.dates)
  /\ \A t \in 1..Len(al.dates) : al.dates[t] \in Shared(universe, hist)
  /\ \A t, u \in 1..Len(al.dates) : t < u => al.dates[t] < al.dates[u]
  /\ al.bars = [s \in Range(universe) |-> [t \in 1..Len(al.dates) |-> hist[s][al.dates[t]]]]

\* Align makes one, of any histories with finitely many days.
LEMMA Aligned ==
  ASSUME NEW universe, universe # <<>>, universe \in Seq(Range(universe)), NEW hist,
         NEW D, D \subseteq Nat, IsFiniteSet(D),
         \A s \in Range(universe) : DOMAIN hist[s] \subseteq D
  PROVE  IsAligned(universe, hist, Align(universe, hist))
<1> DEFINE al == Align(universe, hist)
           days == Shared(universe, hist)
           n == Cardinality(days)
<1>1. days \subseteq D /\ days \subseteq Nat /\ IsFiniteSet(days)
  <2>1. universe[1] \in Range(universe)
    BY DEF Range
  <2>2. days \subseteq D
    BY <2>1 DEF Shared
  <2> QED BY <2>2, FS_Subset
<1>2. al.dates = InOrder(days) /\ n \in Nat
  BY <1>1, Ranks, TabledIs DEF Align
<1>3. Len(al.dates) = n /\ DOMAIN al.dates = 1..n
  <2>1. InOrder(days) \in [1..n -> days]
    BY <1>1, Ranks DEF InOrder
  <2> HIDE DEF days, n, al
  <2> QED BY <1>2, <2>1
<1>4. al.bars = [s \in Range(universe) |-> [t \in 1..Len(al.dates) |-> hist[s][al.dates[t]]]]
  BY TabledIs DEF Align
<1>5. \A t \in 1..n : al.dates[t] \in days /\ Cardinality({e \in days : e < al.dates[t]}) = t - 1
  BY <1>1, <1>2, Ranks
<1>6. ASSUME NEW t \in 1..n, NEW u \in 1..n, t < u PROVE al.dates[t] < al.dates[u]
  <2> DEFINE d == al.dates[t]  e == al.dates[u]
             Below(x) == {y \in days : y < x}
  <2>0. t \in Nat /\ u \in Nat
    BY <1>2
  <2>1. d \in Nat /\ e \in Nat /\ Cardinality(Below(d)) = t - 1 /\ Cardinality(Below(e)) = u - 1
    BY <1>1, <1>5
  <2> HIDE DEF d, e
  <2>2. CASE e <= d
    <3>1. Below(e) \subseteq Below(d) /\ Below(d) \subseteq days
      BY <1>1, <2>1, <2>2
    <3>2. Cardinality(Below(e)) <= Cardinality(Below(d))
      <4>1. IsFiniteSet(Below(d))
        BY <1>1, <3>1, FS_Subset
      <4> HIDE DEF Below
      <4> QED BY <3>1, <4>1, FS_Subset
    <3> HIDE DEF Below
    <3> QED BY <1>6, <2>0, <2>1, <3>2
  <2> QED BY <2>1, <2>2 DEF d, e
<1> HIDE DEF n, al, days
<1>7. /\ Len(al.dates) \in Nat /\ DOMAIN al.dates = 1..Len(al.dates)
      /\ \A t \in 1..Len(al.dates) : al.dates[t] \in days
      /\ \A t, u \in 1..Len(al.dates) : t < u => al.dates[t] < al.dates[u]
  BY <1>2, <1>3, <1>5, <1>6
<1> QED BY <1>4, <1>7 DEF al, days, IsAligned

-----------------------------------------------------------------------------
(* The bars on disk and those a run saw. *)

SoundBar(pl, bar) ==
  /\ bar \in [close : Int, high : Int, low : Int]
  /\ bar.low <= bar.close /\ bar.close <= bar.high
  /\ pl.strategy # "ratio_reversion" => bar.low > 0

\* An alignment of sound bars, as many of each symbol as dates.
Seen(pl, al) ==
  /\ Len(al.dates) \in Nat
  /\ \A s \in Range(pl.universe) :
       /\ DOMAIN al.bars[s] = 1..Len(al.dates)
       /\ \A t \in 1..Len(al.dates) : SoundBar(pl, al.bars[s][t])

\* A history of sound bars, none later than a day.
OnFile(pl, hist, day) ==
  \A s \in Range(pl.universe) : \A d \in DOMAIN hist[s] :
    d \in Nat /\ 1 <= d /\ d <= day /\ SoundBar(pl, hist[s][d])

(* The plan is one Parse accepts, the bars are those of days that closed, and
   what the last live run was told are the targets of what it saw.           *)
ReplayInv ==
  /\ plan \in Plans /\ Parse(plan)
  /\ today \in Nat \ {0}
  /\ closed \in Seq(Market) /\ Len(closed) = today - 1
  /\ OnFile(plan, file, today - 1)
  /\ \/ told = NotRun
     \/ /\ told.day \in 1..today
        /\ Seen(plan, told.seen)
        /\ told.targets = Weights(plan, told.seen)[Len(told.seen.dates)]

\* A universe has symbols.
LEMMA PlanTypes ==
  ASSUME NEW pl \in Plans, Parse(pl)
  PROVE  /\ pl.universe # <<>> /\ pl.universe \in Seq(Range(pl.universe))
         /\ Len(pl.universe) >= 2
<1>1. pl.universe \in Seq(Range(pl.universe))
  BY ReplayConstantsOK
<1> DEFINE two == Len(pl.universe) >= 2
<1>2. (SleevesUniverse(pl.universe) => two) /\ (PairsParse(pl) => two)
  <2>1. PairsParse(pl) => Len(pl.universe) = 2
    BY DEF PairsParse
  <2>2. Len(pl.universe) = 2 => two
    BY SMT
  <2>3. SleevesUniverse(pl.universe) => two
    BY DEF SleevesUniverse
  <2> QED BY <2>1, <2>2, <2>3
<1>3. (RatioParse(pl) => two) /\ (TrendParse(pl) => two) /\ (DonchianParse(pl) => two)
  BY <1>2 DEF RatioParse, TrendParse, DonchianParse
<1>4. (RSI2Parse(pl) => two) /\ (MomentumParse(pl) => two)
  BY <1>2 DEF RSI2Parse, MomentumParse
<1>5. (TSMomentumParse(pl) => two) /\ (RiskParityParse(pl) => two)
  BY <1>2 DEF TSMomentumParse, RiskParityParse
<1>6. two
  <2> HIDE DEF two
  <2> QED BY <1>2, <1>3, <1>4, <1>5 DEF Parse
<1> QED BY <1>1, <1>6

\* The bars a market closes at are sound.
LEMMA MarketIsSound ==
  ASSUME NEW pl \in Plans, Parse(pl), NEW bars \in Markets[pl.strategy],
         NEW s \in Range(pl.universe)
  PROVE  SoundBar(pl, bars[s])
BY ReplayConstantsOK DEF SoundBar

\* Of a history on file, the alignment is sound.
LEMMA AlignSound ==
  ASSUME NEW pl \in Plans, Parse(pl), NEW hist, NEW day \in Nat, OnFile(pl, hist, day)
  PROVE  /\ Seen(pl, Align(pl.universe, hist))
         /\ \A t, u \in 1..Len(Align(pl.universe, hist).dates) :
              t < u => Align(pl.universe, hist).dates[t] < Align(pl.universe, hist).dates[u]
         /\ \A t \in 1..Len(Align(pl.universe, hist).dates) :
              Align(pl.universe, hist).dates[t] \in Nat
         /\ DOMAIN Align(pl.universe, hist).dates = 1..Len(Align(pl.universe, hist).dates)
<1> DEFINE D == 1..day
           al == Align(pl.universe, hist)
<1>1. pl.universe # <<>> /\ pl.universe \in Seq(Range(pl.universe))
  BY PlanTypes
<1>2. D \subseteq Nat /\ IsFiniteSet(D)
  BY FS_Interval
<1>3. \A s \in Range(pl.universe) : DOMAIN hist[s] \subseteq D
  BY DEF OnFile
<1> HIDE DEF D
<1>0. IsAligned(pl.universe, hist, al)
  BY <1>1, <1>2, <1>3, Aligned
<1>4. /\ Len(al.dates) \in Nat /\ DOMAIN al.dates = 1..Len(al.dates)
      /\ \A t \in 1..Len(al.dates) : al.dates[t] \in Shared(pl.universe, hist)
      /\ \A t, u \in 1..Len(al.dates) : t < u => al.dates[t] < al.dates[u]
      /\ al.bars = [s \in Range(pl.universe) |-> [t \in 1..Len(al.dates) |-> hist[s][al.dates[t]]]]
  BY <1>0 DEF IsAligned
<1> HIDE DEF al
<1>5. ASSUME NEW s \in Range(pl.universe), NEW t \in 1..Len(al.dates)
      PROVE  al.dates[t] \in Nat /\ SoundBar(pl, al.bars[s][t])
  <2>1. al.dates[t] \in DOMAIN hist[s]
    BY <1>4 DEF Shared
  <2>2. al.bars[s][t] = hist[s][al.dates[t]]
    BY <1>4
  <2> QED BY <2>1, <2>2 DEF OnFile
<1>6. pl.universe[1] \in Range(pl.universe)
  BY <1>1 DEF Range
<1>7. \A s \in Range(pl.universe) : DOMAIN al.bars[s] = 1..Len(al.dates)
  BY <1>4
<1>8. Seen(pl, al)
  BY <1>4, <1>5, <1>7 DEF Seen
<1> QED BY <1>4, <1>5, <1>6, <1>8 DEF al

\* Nothing is on disk and nothing was told.
LEMMA ReplayStart == ReplayInit => ReplayInv
<1> SUFFICES ASSUME ReplayInit PROVE ReplayInv
  OBVIOUS
<1>1. closed \in Seq(Market) /\ Len(closed) = today - 1 /\ today \in Nat \ {0}
  BY DEF ReplayInit
<1>2. OnFile(plan, file, today - 1)
  BY DEF ReplayInit, OnFile, Symbols
<1> QED BY <1>1, <1>2 DEF ReplayInit, ReplayInv

\* What a refill brings are bars of days that closed.
LEMMA AnswerSound ==
  ASSUME ReplayInv, NEW missing, NEW s \in Symbols
  PROVE  \A d \in DOMAIN Answer(missing, s) :
           d \in Nat /\ 1 <= d /\ d <= today - 1 /\ SoundBar(plan, Answer(missing, s)[d])
<1>1. From(s) \in Nat /\ 1 <= From(s)
  <2>1. CASE DOMAIN file[s] = {}
    BY <2>1 DEF From
  <2>2. CASE DOMAIN file[s] # {}
    <3> DEFINE days == DOMAIN file[s]
    <3>1. \A d \in days : d \in Nat /\ 1 <= d
      BY DEF ReplayInv, OnFile, Symbols
    <3>2. From(s) = CHOOSE d \in days : \A other \in days : d <= other
      BY <2>2 DEF From
    <3>3. days \subseteq Nat /\ days # {}
      BY <2>2, <3>1
    <3> HIDE DEF days
    <3>4. \E d \in days : \A other \in days : d <= other
      BY <3>3, Least
    <3>5. From(s) \in days
      BY <3>2, <3>4
    <3> QED BY <3>1, <3>5
  <2> QED BY <2>1, <2>2
<1>2. ASSUME NEW d \in DOMAIN Answer(missing, s)
      PROVE  d \in Nat /\ 1 <= d /\ d <= today - 1 /\ SoundBar(plan, Answer(missing, s)[d])
  <2>1. today \in Nat
    BY DEF ReplayInv
  <2>2. d \in From(s)..today - 1 /\ Answer(missing, s)[d] = closed[d][s]
    BY DEF Answer
  <2>3. d \in Nat /\ 1 <= d /\ d <= today - 1
    BY <1>1, <2>1, <2>2
  <2>4. closed[d] \in Market
    BY <2>1, <2>3 DEF ReplayInv
  <2>5. SoundBar(plan, closed[d][s])
    BY <2>4, MarketIsSound DEF ReplayInv, Symbols, Market
  <2> QED BY <2>2, <2>3, <2>5
<1> QED BY <1>2

\* Today's bar is as sound as the quote it is made of.
LEMMA TodaySound ==
  ASSUME ReplayInv, NEW quotes \in Market
  PROVE  OnFile(plan, WithToday(quotes), today)
<1> SUFFICES ASSUME NEW s \in Symbols, NEW d \in DOMAIN WithToday(quotes)[s]
             PROVE  d \in Nat /\ 1 <= d /\ d <= today /\ SoundBar(plan, WithToday(quotes)[s][d])
  BY DEF OnFile, Symbols
<1> DEFINE made == QuoteBar(quotes[s].close)
<1>1. today \in Nat /\ 1 <= today
  BY DEF ReplayInv
<1>2. SoundBar(plan, made)
  <2>1. SoundBar(plan, quotes[s])
    BY MarketIsSound DEF ReplayInv, Symbols, Market
  <2> QED BY <2>1 DEF SoundBar, QuoteBar
<1> HIDE DEF made
<1>3. \A e \in DOMAIN file[s] : e \in Nat /\ 1 <= e /\ e <= today /\ SoundBar(plan, file[s][e])
  BY <1>1 DEF ReplayInv, OnFile, Symbols
<1>4. CASE today \in DOMAIN file[s]
  <2>1. WithToday(quotes)[s] = file[s]
    BY <1>4 DEF WithToday
  <2> QED BY <1>3, <2>1
<1>5. CASE today \notin DOMAIN file[s]
  <2>1. WithToday(quotes)[s] = [e \in DOMAIN file[s] \cup {today} |-> IF e = today THEN made ELSE file[s][e]]
    BY <1>5 DEF WithToday, WithBar, made
  <2> QED BY <1>1, <1>2, <1>3, <2>1
<1> QED BY <1>4, <1>5

\* A refill brings bars of days that closed, a run is told what it saw, a day closes.
LEMMA ReplayStep == ReplayInv /\ [ReplayNext]_vars => ReplayInv'
<1> SUFFICES ASSUME ReplayInv, [ReplayNext]_vars PROVE ReplayInv'
  OBVIOUS
<1>1. CASE Refill
  <2>0. PICK syms \in SUBSET Symbols :
          \E missing : file' = [s \in Symbols |-> IF s \in syms THEN Answer(missing, s) ELSE file[s]]
    <3>1. PICK syms \in SUBSET Symbols :
            \E missing : LET answer == [s \in syms |-> Answer(missing, s)]
                         IN  file' = [s \in Symbols |-> IF s \in syms THEN answer[s] ELSE file[s]]
      BY <1>1 DEF Refill
    <3>2. PICK missing : LET answer == [s \in syms |-> Answer(missing, s)]
                         IN  file' = [s \in Symbols |-> IF s \in syms THEN answer[s] ELSE file[s]]
      BY <3>1
    <3>3. file' = [s \in Symbols |-> IF s \in syms THEN Answer(missing, s) ELSE file[s]]
      BY <3>2
    <3> QED BY <3>3
  <2>1. UNCHANGED <<plan, today, closed, told>>
    BY <1>1 DEF Refill
  <2>2. OnFile(plan, file', today - 1)
    BY <2>0, AnswerSound DEF ReplayInv, OnFile, Symbols
  <2> QED BY <2>1, <2>2 DEF ReplayInv, Market, NotRun, OnFile
<1>2. ASSUME NEW quotes \in Market, LiveRun(quotes) PROVE ReplayInv'
  <2> DEFINE seen == Align(plan.universe, WithToday(quotes))
  <2>1. /\ told' = [day |-> today, seen |-> seen, targets |-> Weights(plan, seen)[Len(seen.dates)]]
        /\ UNCHANGED <<plan, today, closed, file, troubles>>
    BY <1>2 DEF LiveRun, Targets
  <2>2. Seen(plan, seen)
    BY TodaySound, AlignSound DEF ReplayInv
  <2> HIDE DEF seen
  <2>3. /\ told'.day = today /\ told'.seen = seen
        /\ told'.targets = Weights(plan, seen)[Len(seen.dates)]
    BY <2>1
  <2> QED BY <2>1, <2>2, <2>3 DEF ReplayInv, Market, NotRun
<1>3. ASSUME NEW bars \in Market, Close(bars) PROVE ReplayInv'
  <2>1. closed' \in Seq(Market) /\ Len(closed') = today /\ today' = today + 1 /\ today' - 1 = today
    BY <1>3 DEF Close, ReplayInv
  <2>2. UNCHANGED <<plan, file, told>>
    BY <1>3 DEF Close
  <2>3. OnFile(plan, file, today)
    BY DEF ReplayInv, OnFile
  <2> QED BY <2>1, <2>2, <2>3 DEF ReplayInv, Market, NotRun
<1>4. CASE UNCHANGED vars
  BY <1>4 DEF vars, ReplayInv, Market, NotRun
<1> QED BY <1>1, <1>2, <1>3, <1>4 DEF ReplayNext

(* The strategy is one Parse accepts, what is on disk are bars of days that
   closed, and what the runner was told are the targets of an alignment of
   sound bars (Refill, WithToday, Targets).                                 *)
THEOREM ReplayInvariant == ReplaySpec => []ReplayInv
BY ReplayStart, ReplayStep, PTL DEF ReplaySpec

-----------------------------------------------------------------------------
(* What the positions of a run are. *)

\* What the run of today saw; and what its positions are, bar by bar.
LEMMA JustSeen ==
  ASSUME ReplayInv, JustRan
  PROVE  /\ Seen(plan, told.seen)
         /\ told.targets = Weights(plan, told.seen)[Len(told.seen.dates)]
<1>1. told # NotRun
  BY DEF ReplayInv, JustRan, NotRun
<1> QED BY <1>1 DEF ReplayInv

\* The positions a replay goes through, each a step from the one before.
LEMMA PositionsAre ==
  ASSUME NEW pl, pl.strategy \in Replaying, NEW al, Len(al.dates) \in Nat, NEW s
  PROVE  LET pos == Positions(pl, al, s)
         IN  /\ DOMAIN pos = 0..Len(al.dates)
             /\ pos[0] = Flat
             /\ \A t \in 0..Len(al.dates) : pos[t] \in Held(pl)
             /\ \A t \in 1..Len(al.dates) :
                  pos[t - 1] \in Held(pl) /\ pos[t] = PositionAt(pl, al, s, pos[t - 1], t)
<1> DEFINE P == Held(pl)
           pos == Positions(pl, al, s)
           n == Len(al.dates)
<1>1. Flat \in P
  BY DEF Held, Sides, Flat
<1>2. \A p \in P, t \in 1..n : PositionAt(pl, al, s, p, t) \in P
  BY StepTypes
<1> HIDE DEF P
<1>3. /\ pos \in [0..n -> P] /\ pos[0] = Flat
      /\ \A t \in 1..n : pos[t] = PositionAt(pl, al, s, pos[t - 1], t)
  BY <1>1, <1>2, Replayed
<1> HIDE DEF pos
<1>4. \A t \in 1..n : t - 1 \in 0..n
  OBVIOUS
<1>5. \A t \in 0..n : pos[t] \in P
  BY <1>3
<1> QED BY <1>3, <1>4, <1>5 DEF pos, P

(* A position that is left is flat for a bar, for any plan that Parse accepts
   and any bars (the step functions, exits before entries).                 *)
THEOREM FlatBetweenAlways == ReplaySpec => []FlatBetween
<1>1. ASSUME ReplayInv PROVE FlatBetween
  <2> SUFFICES ASSUME JustRan, plan.strategy \in Stateful, NEW s \in Sleeves,
                      NEW t \in DOMAIN Positions(plan, told.seen, s), t > 0,
                      Positions(plan, told.seen, s)[t].in # 0,
                      Positions(plan, told.seen, s)[t - 1].in # 0
               PROVE  Positions(plan, told.seen, s)[t] = Hold(Positions(plan, told.seen, s)[t - 1])
    BY DEF FlatBetween
  <2> DEFINE pos == Positions(plan, told.seen, s)
             n == Len(told.seen.dates)
  <2>1. n \in Nat /\ plan.strategy \in Replaying
    BY <1>1, JustSeen DEF Seen, Replaying
  <2>2. /\ DOMAIN pos = 0..n
        /\ \A u \in 1..n : pos[u - 1] \in Held(plan)
                         /\ pos[u] = PositionAt(plan, told.seen, s, pos[u - 1], u)
    BY <2>1, PositionsAre
  <2>3. t \in 1..n
    BY <2>1, <2>2
  <2> HIDE DEF pos
  <2>4. pos[t].in # 0 /\ pos[t - 1].in # 0
    BY DEF pos
  <2>5. PositionAt(plan, told.seen, s, pos[t - 1], t) = Hold(pos[t - 1])
    BY <2>2, <2>3, <2>4, OpenIsHeld
  <2> QED BY <2>2, <2>3, <2>5 DEF pos
<1> QED BY <1>1, ReplayInvariant, PTL

\* Of the strategies Parse knows, those with a time stop, whole and above zero.
LEMMA TimeStopped ==
  ASSUME NEW pl \in Plans, Parse(pl), "max_hold_days" \in DOMAIN pl.params
  PROVE  /\ pl.strategy \in {"pairs_zscore", "ratio_reversion", "rsi2_reversion"}
         /\ Count(pl.params.max_hold_days) \in Nat
<1>1. pl.params.max_hold_days \in Int
  BY ReplayConstantsOK
<1> DEFINE three == pl.strategy \in {"pairs_zscore", "ratio_reversion", "rsi2_reversion"}
           whole == Whole(pl.params.max_hold_days, 1)
<1>2. /\ pl.strategy = "pairs_zscore" /\ PairsParse(pl) => three /\ whole
      /\ pl.strategy = "ratio_reversion" /\ RatioParse(pl) => three /\ whole
      /\ pl.strategy = "rsi2_reversion" /\ RSI2Parse(pl) => three /\ whole
  BY DEF PairsParse, RatioParse, RSI2Parse
<1>3. ~TrendParse(pl) /\ ~DonchianParse(pl)
  BY DEF TrendParse, DonchianParse, Known
<1>4. ~MomentumParse(pl) /\ ~TSMomentumParse(pl) /\ ~RiskParityParse(pl)
  BY DEF MomentumParse, TSMomentumParse, RiskParityParse, Known
<1>5. three /\ whole
  <2> HIDE DEF three, whole
  <2> QED BY <1>2, <1>3, <1>4 DEF Parse
<1>6. Count(pl.params.max_hold_days) \in Nat
  BY <1>1, <1>5 DEF Count, Whole
<1> QED BY <1>5, <1>6

(* No position outlives its time stop: as long as it stays one it gets a bar
   older with every bar, and is left at the bar its age is the stop (held).  *)
THEOREM TimeStopAlways == ReplaySpec => []TimeStop
<1>1. ASSUME ReplayInv PROVE TimeStop
  <2> DEFINE most == Count(plan.params.max_hold_days)
  <2> SUFFICES ASSUME JustRan, "max_hold_days" \in DOMAIN plan.params, NEW s \in Sleeves,
                      NEW t \in DOMAIN Positions(plan, told.seen, s), t > most + 1,
                      \A i \in t - most - 1..t - 1 :
                        ~(\/ Positions(plan, told.seen, s)[i].in # Positions(plan, told.seen, s)[t].in
                          \/ Positions(plan, told.seen, s)[t].in = 0)
               PROVE  FALSE
    BY DEF TimeStop
  <2> DEFINE pos == Positions(plan, told.seen, s)
             n == Len(told.seen.dates)
             first == t - most - 1
  <2>1. /\ plan.strategy \in {"pairs_zscore", "ratio_reversion", "rsi2_reversion"}
        /\ most \in Nat
    BY <1>1, TimeStopped DEF ReplayInv
  <2>2. n \in Nat /\ plan.strategy \in Replaying /\ plan.strategy \in Stateful
    BY <1>1, <2>1, JustSeen DEF Seen, Replaying, Stateful
  <2>3. /\ DOMAIN pos = 0..n
        /\ \A u \in 0..n : pos[u] \in Held(plan)
        /\ \A u \in 1..n : pos[u - 1] \in Held(plan)
                         /\ pos[u] = PositionAt(plan, told.seen, s, pos[u - 1], u)
    BY <2>2, PositionsAre
  <2> HIDE DEF pos, most, n
  <2>4. t \in 0..n /\ first \in Nat /\ 0 < first /\ first + most = t - 1 /\ t \in Nat /\ t <= n
    BY <2>1, <2>2, <2>3 DEF pos
  <2> HIDE DEF first
  <2>5. \A k \in 0..most + 1 : first + k \in 0..n /\ pos[first + k].in # 0
    <3> SUFFICES ASSUME NEW k \in 0..most + 1 PROVE first + k \in 0..n /\ pos[first + k].in # 0
      OBVIOUS
    <3>1. first + k \in 0..n /\ (first + k = t \/ first + k \in first..t - 1) /\ first \in first..t - 1
      BY <2>1, <2>2, <2>4
    <3>2. \A i \in first..t - 1 : pos[i].in = pos[t].in /\ pos[t].in # 0
      BY DEF pos, first, most
    <3> QED BY <3>1, <3>2
  <2>6. \A k \in 0..most : pos[first + k].held >= k
    <3> DEFINE Good == {k \in 0..most : pos[first + k].held >= k}
    <3>1. 0 \in Good
      <4>1. pos[first + 0] \in Held(plan) /\ 0 \in 0..most
        BY <2>1, <2>2, <2>3, <2>4
      <4> QED BY <4>1 DEF Held
    <3>2. ASSUME NEW k \in 1..most, k - 1 \in Good PROVE k \in Good
      <4>1. /\ first + k \in 1..n /\ first + k - 1 = first + (k - 1)
            /\ k - 1 \in 0..most + 1 /\ k \in 0..most + 1 /\ k - 1 \in Nat /\ k \in 0..most
        BY <2>1, <2>2, <2>4
      <4> DEFINE was == pos[first + (k - 1)]
      <4>2. was \in Held(plan) /\ pos[first + k] = PositionAt(plan, told.seen, s, was, first + k)
        <5> DEFINE u == first + k
        <5>1. u \in 1..n /\ u - 1 = first + (k - 1)
          <6>1. first \in Nat /\ k \in Nat
            BY <2>1, <2>4
          <6> QED BY <4>1, <6>1
        <5> HIDE DEF u
        <5>2. pos[u - 1] \in Held(plan) /\ pos[u] = PositionAt(plan, told.seen, s, pos[u - 1], u)
          BY <2>3, <5>1
        <5>3. was \in Held(plan) /\ pos[u] = PositionAt(plan, told.seen, s, was, u)
          BY <5>1, <5>2
        <5> QED BY <5>3 DEF u
      <4>3. was.in # 0 /\ pos[first + k].in # 0 /\ was.held >= k - 1
        BY <2>5, <3>2, <4>1
      <4> HIDE DEF was
      <4>4. pos[first + k] = Hold(was)
        BY <2>2, <4>2, <4>3, OpenIsHeld
      <4>5. pos[first + k].held = was.held + 1 /\ was.held \in Nat
        BY <4>2, <4>4 DEF Hold, Held
      <4>6. pos[first + k].held >= k
        BY <4>1, <4>3, <4>5
      <4> QED BY <4>1, <4>6
    <3> HIDE DEF Good
    <3>3. \A k \in 1..most : k - 1 \in Good => k \in Good
      BY <3>2
    <3>4. \A k \in 0..most : k \in Good
      BY <2>1, <3>1, <3>3, Along
    <3> QED BY <3>4 DEF Good
  <2> DEFINE last == pos[first + most]
  <2>7. /\ first + most = t - 1 /\ t \in 1..n /\ most \in 0..most /\ most \in 0..most + 1
        /\ most + 1 \in 0..most + 1 /\ first + (most + 1) = t
    BY <2>1, <2>2, <2>4
  <2>8. last \in Held(plan) /\ pos[t] = PositionAt(plan, told.seen, s, last, t)
    BY <2>3, <2>7
  <2>9. last.in # 0 /\ pos[t].in # 0 /\ last.held >= most
    BY <2>5, <2>6, <2>7
  <2> HIDE DEF last
  <2>10. ~(last.held >= Count(plan.params.max_hold_days))
    BY <2>1, <2>8, <2>9, OpenInTime
  <2> QED BY <2>9, <2>10 DEF most
<1> QED BY <1>1, ReplayInvariant, PTL

-----------------------------------------------------------------------------
(* The indicators look back from a bar, and at nothing after it.           *)

\* Sums, and the windows they are over, look at nothing else.
LEMMA SumSame ==
  ASSUME NEW x, NEW y, NEW bars, \A j \in bars : x[j] = y[j]
  PROVE  SumOver(x, bars) = SumOver(y, bars)
<1>1. [j \in bars |-> x[j]] = [j \in bars |-> y[j]]
  OBVIOUS
<1> QED BY <1>1 DEF SumOver

LEMMA WindowBack ==
  ASSUME NEW t \in Nat, NEW L \in Int, ~(t < L)
  PROVE  \A j \in Window(t, L) : j \in 1..t
BY DEF Window

\* Each indicator at a bar is the same of two series that agree up to it.
LEMMA SMASame ==
  ASSUME NEW t \in Nat, NEW L \in Int, NEW x, NEW y, \A j \in 1..t : x[j] = y[j]
  PROVE  SMA(x, t, L) = SMA(y, t, L)
<1>1. CASE t < L
  BY <1>1 DEF SMA
<1>2. CASE ~(t < L)
  <2>1. \A j \in Window(t, L) : x[j] = y[j]
    BY <1>2, WindowBack
  <2>2. SumOver(x, Window(t, L)) = SumOver(y, Window(t, L))
    BY <2>1, SumSame
  <2> QED BY <2>2 DEF SMA
<1> QED BY <1>1, <1>2

LEMMA ZScoreSame ==
  ASSUME NEW t \in Nat \ {0}, NEW L \in Int, NEW x, NEW y, \A j \in 1..t : x[j] = y[j],
         \A j \in 1..t : j \in DOMAIN x /\ j \in DOMAIN y
  PROVE  ZScore(x, t, L) = ZScore(y, t, L)
<1>1. CASE t < L
  BY <1>1 DEF ZScore
<1>2. CASE ~(t < L)
  <2> DEFINE win == Window(t, L)
             xx == [j \in DOMAIN x |-> x[j] * x[j]]
             yy == [j \in DOMAIN y |-> y[j] * y[j]]
  <2>1. \A j \in win : x[j] = y[j] /\ j \in DOMAIN x /\ j \in DOMAIN y
    BY <1>2, WindowBack
  <2>2. \A j \in win : xx[j] = yy[j]
    BY <2>1
  <2> HIDE DEF xx, yy, win
  <2>3. SumOver(xx, win) = SumOver(yy, win) /\ SumOver(x, win) = SumOver(y, win)
    BY <2>1, <2>2, SumSame
  <2>4. x[t] = y[t]
    OBVIOUS
  <2> QED BY <2>3, <2>4 DEF ZScore, xx, yy, win
<1> QED BY <1>1, <1>2

LEMMA ReturnSame ==
  ASSUME NEW t \in Nat \ {0}, NEW L \in Nat, NEW x, NEW y, \A j \in 1..t : x[j] = y[j]
  PROVE  RollingReturn(x, t, L) = RollingReturn(y, t, L)
<1>1. CASE t <= L
  BY <1>1 DEF RollingReturn
<1>2. CASE ~(t <= L)
  <2>1. x[t] = y[t] /\ x[t - L] = y[t - L]
    BY <1>2
  <2> QED BY <2>1 DEF RollingReturn
<1> QED BY <1>1, <1>2

\* A channel is of the bars before.
LEMMA PriorSame ==
  ASSUME NEW t \in Nat, NEW L \in Nat, ~(t <= L), NEW x, NEW y, \A j \in 1..t - 1 : x[j] = y[j]
  PROVE  Prior(x, t, L) = Prior(y, t, L)
<1>1. \A j \in Window(t - 1, L) : j \in 1..t - 1
  BY DEF Window
<1> QED BY <1>1 DEF Prior

LEMMA UpperSame ==
  ASSUME NEW t \in Nat, NEW L \in Nat, NEW x, NEW y, \A j \in 1..t - 1 : x[j] = y[j]
  PROVE  DonchianUpper(x, t, L) = DonchianUpper(y, t, L)
BY PriorSame DEF DonchianUpper

LEMMA LowerSame ==
  ASSUME NEW t \in Nat, NEW L \in Nat, NEW x, NEW y, \A j \in 1..t - 1 : x[j] = y[j]
  PROVE  DonchianLower(x, t, L) = DonchianLower(y, t, L)
BY PriorSame DEF DonchianLower

LEMMA RSISame ==
  ASSUME NEW t \in Nat, NEW x, NEW y, \A j \in 1..t : x[j] = y[j]
  PROVE  WilderRSI(x, t) = WilderRSI(y, t)
<1> DEFINE bars == 2..t
<1>1. \A j \in bars : x[j] = y[j] /\ x[j - 1] = y[j - 1]
  OBVIOUS
<1>2. \A j \in bars : Up(x, j) = Up(y, j) /\ Down(x, j) = Down(y, j)
  BY <1>1 DEF Up, Down
<1> HIDE DEF bars
<1>3. [j \in bars |-> Scale(j) * Up(x, j)] = [j \in bars |-> Scale(j) * Up(y, j)]
  BY <1>2
<1>4. [j \in bars |-> Scale(j) * Down(x, j)] = [j \in bars |-> Scale(j) * Down(y, j)]
  BY <1>2
<1> QED BY <1>3, <1>4 DEF WilderRSI, bars

LEMMA VolSame ==
  ASSUME NEW t \in Nat \ {0}, NEW L \in Nat, NEW x, NEW y, \A j \in 1..t : x[j] = y[j]
  PROVE  RealisedVol(x, t, L) = RealisedVol(y, t, L)
<1>1. CASE t <= L
  BY <1>1 DEF RealisedVol
<1>2. CASE ~(t <= L)
  <2> DEFINE bars == 0..L
  <2>1. \A j \in bars : x[t - L + j] = y[t - L + j]
    BY <1>2
  <2> HIDE DEF bars
  <2>2. [j \in bars |-> x[t - L + j]] = [j \in bars |-> y[t - L + j]]
    BY <2>1
  <2> QED BY <2>2 DEF RealisedVol, bars
<1> QED BY <1>1, <1>2

-----------------------------------------------------------------------------
(* Two alignments that agree up to a bar have the same positions and weights
   there, whatever comes after: the close of that bar and the bars before it
   are all that is looked at.                                               *)

SameUpto(pl, al, bl, i) ==
  /\ i \in Nat /\ i <= Len(al.dates) /\ i <= Len(bl.dates)
  /\ \A s \in Range(pl.universe), t \in 1..i :
       /\ al.bars[s][t].close = bl.bars[s][t].close
       /\ t # i => al.bars[s][t] = bl.bars[s][t]

\* The closes agree up to the bar itself, highs and lows up to the one before.
LEMMA ClosesSame ==
  ASSUME NEW pl, NEW al, NEW bl, NEW i, Seen(pl, al), Seen(pl, bl), SameUpto(pl, al, bl, i),
         NEW s \in Range(pl.universe)
  PROVE  \A t \in 1..i : /\ Closes(al.bars[s])[t] = al.bars[s][t].close
                        /\ Closes(al.bars[s])[t] = Closes(bl.bars[s])[t]
                        /\ al.bars[s][t].close = bl.bars[s][t].close
<1> SUFFICES ASSUME NEW t \in 1..i
             PROVE  /\ Closes(al.bars[s])[t] = al.bars[s][t].close
                    /\ Closes(bl.bars[s])[t] = bl.bars[s][t].close
                    /\ al.bars[s][t].close = bl.bars[s][t].close
  OBVIOUS
<1>1. t \in DOMAIN al.bars[s] /\ t \in DOMAIN bl.bars[s]
  BY DEF Seen, SameUpto
<1>2. Closes(al.bars[s]) = [u \in DOMAIN al.bars[s] |-> al.bars[s][u].close]
  BY TabledIs DEF Closes
<1>3. Closes(bl.bars[s]) = [u \in DOMAIN bl.bars[s] |-> bl.bars[s][u].close]
  BY TabledIs DEF Closes
<1> QED BY <1>1, <1>2, <1>3 DEF SameUpto

LEMMA ChannelsSame ==
  ASSUME NEW pl, NEW al, NEW bl, NEW i, Seen(pl, al), Seen(pl, bl), SameUpto(pl, al, bl, i),
         NEW s \in Range(pl.universe), NEW t \in 1..i
  PROVE  \A u \in 1..t - 1 : /\ Highs(al.bars[s])[u] = Highs(bl.bars[s])[u]
                            /\ Lows(al.bars[s])[u] = Lows(bl.bars[s])[u]
<1> SUFFICES ASSUME NEW u \in 1..t - 1
             PROVE  /\ Highs(al.bars[s])[u] = Highs(bl.bars[s])[u]
                    /\ Lows(al.bars[s])[u] = Lows(bl.bars[s])[u]
  OBVIOUS
<1>1. u \in 1..i /\ u # i
  BY DEF SameUpto
<1>2. u \in DOMAIN al.bars[s] /\ u \in DOMAIN bl.bars[s] /\ al.bars[s][u] = bl.bars[s][u]
  BY <1>1 DEF Seen, SameUpto
<1>3. /\ Highs(al.bars[s]) = [v \in DOMAIN al.bars[s] |-> al.bars[s][v].high]
      /\ Lows(al.bars[s]) = [v \in DOMAIN al.bars[s] |-> al.bars[s][v].low]
  BY TabledIs DEF Highs, Lows
<1>4. /\ Highs(bl.bars[s]) = [v \in DOMAIN bl.bars[s] |-> bl.bars[s][v].high]
      /\ Lows(bl.bars[s]) = [v \in DOMAIN bl.bars[s] |-> bl.bars[s][v].low]
  BY TabledIs DEF Highs, Lows
<1> QED BY <1>2, <1>3, <1>4

\* The haven, the legs of the pair and the risk assets are in the universe.
LEMMA HavenIn ==
  ASSUME NEW pl \in Plans, Parse(pl)
  PROVE  /\ Haven(pl.universe) \in Range(pl.universe)
         /\ pl.universe[1] \in Range(pl.universe) /\ pl.universe[2] \in Range(pl.universe)
         /\ Risk(pl.universe) \subseteq Range(pl.universe)
<1> DEFINE u == pl.universe  symbols == Range(pl.universe)
<1>1. u \in Seq(symbols) /\ u # <<>> /\ Len(u) >= 2
  BY PlanTypes
<1> HIDE DEF symbols, u
<1>2. Len(u) \in Nat /\ u[1] \in symbols /\ u[2] \in symbols /\ u[Len(u)] \in symbols
  BY <1>1
<1>3. Front(u) \in Seq(symbols)
  BY <1>1 DEF Front
<1>4. Range(Front(u)) \subseteq symbols
  BY <1>3 DEF Range
<1> QED BY <1>2, <1>4 DEF Haven, Risk, Last, symbols, u

\* A parameter that is whole counts bars.
LEMMA Counts ==
  ASSUME NEW pl \in Plans, NEW v \in DOMAIN pl.params, NEW least \in Nat
  PROVE  /\ pl.params[v] \in Int /\ Count(pl.params[v]) \in Int
         /\ Whole(pl.params[v], least) => Count(pl.params[v]) \in Nat /\ Count(pl.params[v]) >= least
<1>1. pl.params[v] \in Int
  BY ReplayConstantsOK
<1> QED BY <1>1 DEF Count, Whole

\* From the same position, the step over the bar is the same.
LEMMA PositionSame ==
  ASSUME NEW pl \in Plans, Parse(pl), pl.strategy \in Replaying,
         NEW al, NEW bl, NEW i, Seen(pl, al), Seen(pl, bl), SameUpto(pl, al, bl, i),
         NEW s \in Range(pl.universe), NEW t \in 1..i, NEW p
  PROVE  PositionAt(pl, al, s, p, t) = PositionAt(pl, bl, s, p, t)
<1> DEFINE pr == pl.params
           haven == Haven(pl.universe)
           x == Closes(al.bars[s])
           y == Closes(bl.bars[s])
<1>1. /\ t \in Nat \ {0} /\ i \in Nat
      /\ \A j \in 1..t : j \in 1..i /\ j \in 1..Len(al.dates) /\ j \in 1..Len(bl.dates)
  BY DEF SameUpto, Seen
<1>2. \A j \in 1..t : x[j] = y[j]
  BY <1>1, ClosesSame
<1>3. al.bars[s][t].close = bl.bars[s][t].close
  BY ClosesSame
<1>4. haven \in Range(pl.universe)
  BY HavenIn
<1>5. \A j \in 1..t : /\ al.bars[s][j].close = bl.bars[s][j].close
                     /\ al.bars[haven][j].close = bl.bars[haven][j].close
  BY <1>1, <1>4, ClosesSame
<1> HIDE DEF x, y, haven
<1>6. CASE pl.strategy = "pairs_zscore"
  <2> DEFINE xs == PairsSpread(pr, al, s, haven)
             ys == PairsSpread(pr, bl, s, haven)
  <2>1. Count(pr.lookback) \in Int
    BY <1>6, Counts DEF Parse, PairsParse, Known
  <2>2. /\ xs = [u \in 1..Len(al.dates) |-> 10 * al.bars[s][u].close - pr.hedge_ratio * al.bars[haven][u].close]
        /\ ys = [u \in 1..Len(bl.dates) |-> 10 * bl.bars[s][u].close - pr.hedge_ratio * bl.bars[haven][u].close]
    BY TabledIs DEF PairsSpread
  <2> HIDE DEF xs, ys
  <2>3. \A j \in 1..t : xs[j] = ys[j] /\ j \in DOMAIN xs /\ j \in DOMAIN ys
    BY <1>1, <1>5, <2>2
  <2>4. ZScore(xs, t, Count(pr.lookback)) = ZScore(ys, t, Count(pr.lookback))
    BY <1>1, <2>1, <2>3, ZScoreSame
  <2> QED BY <1>6, <2>4 DEF PositionAt, PairsAt, xs, ys, haven
<1>7. CASE pl.strategy = "ratio_reversion"
  <2> DEFINE xs == RatioSeries(al, s, haven)
             ys == RatioSeries(bl, s, haven)
  <2>1. Count(pr.lookback) \in Int
    BY <1>7, Counts DEF Parse, RatioParse, Known
  <2>2. /\ xs = [u \in 1..Len(al.dates) |-> al.bars[s][u].close - al.bars[haven][u].close]
        /\ ys = [u \in 1..Len(bl.dates) |-> bl.bars[s][u].close - bl.bars[haven][u].close]
    BY TabledIs DEF RatioSeries
  <2> HIDE DEF xs, ys
  <2>3. \A j \in 1..t : xs[j] = ys[j] /\ j \in DOMAIN xs /\ j \in DOMAIN ys
    BY <1>1, <1>5, <2>2
  <2>4. ZScore(xs, t, Count(pr.lookback)) = ZScore(ys, t, Count(pr.lookback))
    BY <1>1, <2>1, <2>3, ZScoreSame
  <2> QED BY <1>7, <2>4 DEF PositionAt, RatioAt, xs, ys, haven
<1>8. CASE pl.strategy = "sma_trend"
  <2>1. Count(pr.lookback) \in Int
    BY <1>8, Counts DEF Parse, TrendParse, Known
  <2>2. SMA(x, t, Count(pr.lookback)) = SMA(y, t, Count(pr.lookback))
    BY <1>1, <1>2, <2>1, SMASame
  <2> QED BY <1>3, <1>8, <2>2 DEF PositionAt, TrendAt, x, y
<1>9. CASE pl.strategy = "donchian_breakout"
  <2> DEFINE E == Count(pr.entry_lookback)
             X == Count(pr.exit_lookback)
  <2>1. E \in Nat /\ X \in Nat
    BY <1>9, Counts DEF Parse, DonchianParse, Known
  <2>2. \A u \in 1..t - 1 : /\ Highs(al.bars[s])[u] = Highs(bl.bars[s])[u]
                           /\ Lows(al.bars[s])[u] = Lows(bl.bars[s])[u]
    BY ChannelsSame
  <2> DEFINE hx == Highs(al.bars[s])  hy == Highs(bl.bars[s])
             lx == Lows(al.bars[s])   ly == Lows(bl.bars[s])
  <2>3. \A u \in 1..t - 1 : hx[u] = hy[u]
    BY <2>2
  <2>6. \A u \in 1..t - 1 : lx[u] = ly[u]
    BY <2>2
  <2>7. t \in Nat
    BY <1>1
  <2> HIDE DEF E, X, hx, hy, lx, ly
  <2>4. DonchianUpper(hx, t, E) = DonchianUpper(hy, t, E)
    BY <2>1, <2>3, <2>7, UpperSame
  <2>5. DonchianLower(lx, t, X) = DonchianLower(ly, t, X)
    BY <2>1, <2>6, <2>7, LowerSame
  <2> QED BY <1>3, <1>9, <2>4, <2>5 DEF PositionAt, DonchianAt, E, X, hx, hy, lx, ly
<1>10. CASE pl.strategy = "rsi2_reversion"
  <2>1. Count(pr.trend_lookback) \in Int
    BY <1>10, Counts DEF Parse, RSI2Parse, Known
  <2>2. SMA(x, t, Count(pr.trend_lookback)) = SMA(y, t, Count(pr.trend_lookback))
    BY <1>1, <1>2, <2>1, SMASame
  <2>3. WilderRSI(x, t) = WilderRSI(y, t)
    BY <1>1, <1>2, RSISame
  <2> QED BY <1>3, <1>10, <2>2, <2>3 DEF PositionAt, RSI2At, x, y
<1>11. CASE pl.strategy = "time_series_momentum"
  <2>1. Count(pr.lookback) \in Nat
    BY <1>11, Counts DEF Parse, TSMomentumParse, Known
  <2>2. RollingReturn(x, t, Count(pr.lookback)) = RollingReturn(y, t, Count(pr.lookback))
    BY <1>1, <1>2, <2>1, ReturnSame
  <2> QED BY <1>11, <2>2 DEF PositionAt, TSMomentumAt, x, y
<1> QED BY <1>6, <1>7, <1>8, <1>9, <1>10, <1>11 DEF Replaying, Stateful

\* And so is the replay up to it.
LEMMA PositionsSame ==
  ASSUME NEW pl \in Plans, Parse(pl), pl.strategy \in Replaying,
         NEW al, NEW bl, NEW i, Seen(pl, al), Seen(pl, bl), SameUpto(pl, al, bl, i),
         NEW s \in Range(pl.universe)
  PROVE  \A t \in 0..i : Positions(pl, al, s)[t] = Positions(pl, bl, s)[t]
<1> DEFINE x == Positions(pl, al, s)
           y == Positions(pl, bl, s)
           Good == {t \in 0..i : x[t] = y[t]}
<1>1. /\ i \in Nat
      /\ \A t \in 1..i : t \in 1..Len(al.dates) /\ t \in 1..Len(bl.dates) /\ t - 1 \in 0..i
  BY DEF SameUpto, Seen
<1>2. x[0] = Flat /\ \A t \in 1..Len(al.dates) : x[t] = PositionAt(pl, al, s, x[t - 1], t)
  BY PositionsAre DEF Seen
<1>3. y[0] = Flat /\ \A t \in 1..Len(bl.dates) : y[t] = PositionAt(pl, bl, s, y[t - 1], t)
  BY PositionsAre DEF Seen
<1> HIDE DEF x, y
<1>4. 0 \in Good
  BY <1>1, <1>2, <1>3
<1>5. ASSUME NEW t \in 1..i, t - 1 \in Good PROVE t \in Good
  <2>1. x[t] = PositionAt(pl, al, s, x[t - 1], t) /\ y[t] = PositionAt(pl, bl, s, y[t - 1], t)
    BY <1>1, <1>2, <1>3
  <2>2. PositionAt(pl, al, s, x[t - 1], t) = PositionAt(pl, bl, s, x[t - 1], t)
    BY PositionSame
  <2>3. t \in 0..i /\ x[t - 1] = y[t - 1]
    BY <1>1, <1>5
  <2> QED BY <2>1, <2>2, <2>3
<1> HIDE DEF Good
<1>6. \A t \in 1..i : t - 1 \in Good => t \in Good
  BY <1>5
<1>7. \A t \in 0..i : t \in Good
  BY <1>1, <1>4, <1>6, Along
<1> QED BY <1>7 DEF Good, x, y

\* The weights at the bar, in the four ways they are made of positions or ranks.
LEMMA PairsWeightsSame ==
  ASSUME NEW pl \in Plans, Parse(pl), pl.strategy = "pairs_zscore",
         NEW al, NEW bl, NEW i, Seen(pl, al), Seen(pl, bl), SameUpto(pl, al, bl, i), i # 0
  PROVE  PairsWeights(pl, al)[i] = PairsWeights(pl, bl)[i]
<1> DEFINE a == pl.universe[1]
           b == pl.universe[2]
           x == Positions(pl, al, a)
           y == Positions(pl, bl, a)
           W(al1, p) == [s \in {a, b} |->
                           IF p[i].in = 0 THEN <<0, 1>>
                           ELSE <<IF s = a THEN p[i].in * PairsLegs(pl, al1, i)[1]
                                  ELSE -p[i].in * PairsLegs(pl, al1, i)[2],
                                  PairsGross(pl, al1, i)>>]
<1>1. /\ a \in Range(pl.universe) /\ b \in Range(pl.universe)
      /\ i \in 1..i /\ i \in 0..i /\ i \in 1..Len(al.dates) /\ i \in 1..Len(bl.dates)
  BY HavenIn DEF SameUpto, Seen
<1>2. x[i] = y[i]
  BY <1>1, PositionsSame DEF Replaying, Stateful
<1>3. al.bars[a][i].close = bl.bars[a][i].close /\ al.bars[b][i].close = bl.bars[b][i].close
  BY <1>1, ClosesSame
<1>4. PairsLegs(pl, al, i) = PairsLegs(pl, bl, i) /\ PairsGross(pl, al, i) = PairsGross(pl, bl, i)
  BY <1>3 DEF PairsLegs, PairsGross
<1>5. PairsWeights(pl, al)[i] = W(al, x) /\ PairsWeights(pl, bl)[i] = W(bl, y)
  BY <1>1 DEF PairsWeights
<1>6. W(al, x) = W(bl, y)
  <2> HIDE DEF x, y
  <2> QED BY <1>2, <1>4
<1> QED BY <1>5, <1>6

LEMMA SleeveWeightsSame ==
  ASSUME NEW pl \in Plans, Parse(pl), pl.strategy \in Replaying,
         NEW al, NEW bl, NEW i, Seen(pl, al), Seen(pl, bl), SameUpto(pl, al, bl, i), i # 0
  PROVE  SleeveWeights(pl, al)[i] = SleeveWeights(pl, bl)[i]
<1> DEFINE risk == Risk(pl.universe)
           k == Cardinality(risk)
           x == [s \in risk |-> Positions(pl, al, s)]
           y == [s \in risk |-> Positions(pl, bl, s)]
           in(p) == {s \in risk : p[s][i].in = 1}
           W(p) == [s \in Range(pl.universe) |->
                      IF s \notin risk THEN <<k - Cardinality(in(p)), k>>
                      ELSE <<IF s \in in(p) THEN 1 ELSE 0, k>>]
<1>0. risk \subseteq Range(pl.universe)
  BY HavenIn
<1>1. i \in 0..i /\ i \in 1..Len(al.dates) /\ i \in 1..Len(bl.dates)
  BY DEF SameUpto, Seen
<1>2. \A s \in risk : Positions(pl, al, s)[i] = Positions(pl, bl, s)[i]
  BY <1>0, <1>1, PositionsSame
<1>3. \A s \in risk : x[s][i] = y[s][i]
  BY <1>2
<1>4. in(x) = in(y)
  BY <1>3
<1>5. SleeveWeights(pl, al)[i] = W(x) /\ SleeveWeights(pl, bl)[i] = W(y)
  BY <1>1 DEF SleeveWeights
<1>6. W(x) = W(y)
  <2> HIDE DEF x, y, in
  <2> QED BY <1>4
<1> QED BY <1>5, <1>6

\* The last rebalance is one of the bars up to then, or none.
LEMMA RebalancedAt ==
  ASSUME NEW t \in Nat, NEW warmup, NEW every
  PROVE  LastRebalance(t, warmup, every) \in 0..t
<1> DEFINE S == {0} \cup {j \in 1..t : Rebalances(j, warmup, every)}
           back == {t - j : j \in S}
<1>1. \A j \in S : j \in 0..t
  OBVIOUS
<1>2. 0 \in S
  OBVIOUS
<1> HIDE DEF S
<1>3. back \subseteq Nat /\ back # {}
  BY <1>1, <1>2
<1> HIDE DEF back
<1>4. PICK least \in back : \A other \in back : least <= other
  BY <1>3, Least
<1>5. PICK m \in S : least = t - m
  BY DEF back
<1>6. \A j \in S : m >= j
  <2> SUFFICES ASSUME NEW j \in S PROVE m >= j
    OBVIOUS
  <2>1. t - j \in back
    BY DEF back
  <2>2. t - m <= t - j /\ j \in 0..t /\ m \in 0..t
    BY <1>1, <1>4, <1>5, <2>1
  <2> QED BY <2>2
<1> DEFINE most == CHOOSE x \in S : \A y \in S : x >= y
<1>7. most \in S
  BY <1>6
<1>8. LastRebalance(t, warmup, every) = most
  BY DEF LastRebalance, Max, S
<1> HIDE DEF most
<1> QED BY <1>1, <1>7, <1>8

LEMMA MomentumWeightsSame ==
  ASSUME NEW pl \in Plans, Parse(pl), pl.strategy = "dual_momentum",
         NEW al, NEW bl, NEW i, Seen(pl, al), Seen(pl, bl), SameUpto(pl, al, bl, i), i # 0
  PROVE  MomentumWeights(pl, al)[i] = MomentumWeights(pl, bl)[i]
<1> DEFINE pr == pl.params
           L == Count(pr.lookback)
           topK == Count(pr.top_k)
           at == LastRebalance(i, L, Count(pr.rebalance_days))
           ret(cl) == [s \in Range(pl.universe) |-> RollingReturn(Closes(cl.bars[s]), at, L)]
           chosen(cl) == IF at = 0 THEN {} ELSE Pick(pl.universe, ret(cl), topK)
           W(c) == [s \in Range(pl.universe) |->
                      IF s \notin Risk(pl.universe) THEN <<topK - Cardinality(c), topK>>
                      ELSE <<IF s \in c THEN 1 ELSE 0, topK>>]
<1>1. i \in Nat /\ i \in 1..Len(al.dates) /\ i \in 1..Len(bl.dates)
  BY DEF SameUpto, Seen
<1>2. L \in Nat
  BY Counts DEF Parse, MomentumParse, Known
<1>3. at \in 0..i
  BY <1>1, RebalancedAt
<1>4. MomentumWeights(pl, al)[i] = W(chosen(al)) /\ MomentumWeights(pl, bl)[i] = W(chosen(bl))
  BY <1>1 DEF MomentumWeights
<1> HIDE DEF L, at
<1>5. at # 0 => ret(al) = ret(bl)
  <2> SUFFICES ASSUME at # 0, NEW s \in Range(pl.universe)
               PROVE  RollingReturn(Closes(al.bars[s]), at, L) = RollingReturn(Closes(bl.bars[s]), at, L)
    OBVIOUS
  <2> DEFINE x == Closes(al.bars[s])  y == Closes(bl.bars[s])
  <2>1. \A j \in 1..i : x[j] = y[j]
    BY ClosesSame
  <2> HIDE DEF x, y
  <2>2. at \in Nat \ {0} /\ \A j \in 1..at : x[j] = y[j]
    BY <1>1, <1>3, <2>1
  <2>3. RollingReturn(x, at, L) = RollingReturn(y, at, L)
    BY <1>2, <2>2, ReturnSame
  <2> QED BY <2>3 DEF x, y
<1>6. chosen(al) = chosen(bl)
  <2> HIDE DEF ret
  <2> QED BY <1>5
<1> QED BY <1>4, <1>6

LEMMA RiskParityWeightsSame ==
  ASSUME NEW pl \in Plans, Parse(pl), pl.strategy = "risk_parity_trend",
         NEW al, NEW bl, NEW i, Seen(pl, al), Seen(pl, bl), SameUpto(pl, al, bl, i), i # 0
  PROVE  RiskParityWeights(pl, al)[i] = RiskParityWeights(pl, bl)[i]
<1> DEFINE pr == pl.params
           risk == Risk(pl.universe)
           k == Cardinality(risk)
           T == Count(pr.trend_lookback)
           V == Count(pr.vol_lookback)
           W == IF V > T THEN V ELSE T
           at == LastRebalance(i, W, Count(pr.rebalance_days))
           px(cl) == [s \in risk |-> Closes(cl.bars[s])]
           vol(cl) == [s \in risk |-> RealisedVol(px(cl)[s], at, V)]
           active(cl) == {s \in risk : /\ Defined(SMA(px(cl)[s], at, T))
                                       /\ px(cl)[s][at] * T > SMA(px(cl)[s], at, T).num
                                       /\ VolPositive(vol(cl)[s])}
           live(cl) == IF at = 0 THEN {} ELSE active(cl)
           Of(l, v) == [s \in Range(pl.universe) |->
                          IF s \notin risk THEN <<k - Cardinality(l), k>>
                          ELSE IF s \notin l THEN <<0, k>>
                          ELSE <<Cardinality(l), k, v[s], [other \in l |-> v[other]]>>]
<1>1. i \in Nat /\ i \in 1..Len(al.dates) /\ i \in 1..Len(bl.dates)
  BY DEF SameUpto, Seen
<1>2. T \in Nat /\ V \in Nat
  BY Counts DEF Parse, RiskParityParse, Known
<1>3. at \in 0..i
  BY <1>1, RebalancedAt
<1>4. /\ RiskParityWeights(pl, al)[i] = Of(live(al), vol(al))
      /\ RiskParityWeights(pl, bl)[i] = Of(live(bl), vol(bl))
  BY <1>1 DEF RiskParityWeights
<1> HIDE DEF T, V, at
<1>5. ASSUME at # 0, NEW s \in risk
      PROVE  /\ px(al)[s][at] = px(bl)[s][at]
             /\ SMA(px(al)[s], at, T) = SMA(px(bl)[s], at, T)
             /\ vol(al)[s] = vol(bl)[s]
  <2> DEFINE x == Closes(al.bars[s])  y == Closes(bl.bars[s])
  <2>1. s \in Range(pl.universe)
    BY HavenIn
  <2>2. \A j \in 1..i : x[j] = y[j]
    BY <2>1, ClosesSame
  <2>3. px(al)[s] = x /\ px(bl)[s] = y /\ vol(al)[s] = RealisedVol(x, at, V) /\ vol(bl)[s] = RealisedVol(y, at, V)
    OBVIOUS
  <2> HIDE DEF x, y, px, vol
  <2>4. at \in Nat \ {0} /\ at \in Nat /\ T \in Int
    BY <1>1, <1>2, <1>3, <1>5
  <2>5. \A j \in 1..at : x[j] = y[j]
    BY <1>1, <1>3, <2>2
  <2>6. x[at] = y[at]
    BY <2>4, <2>5
  <2>7. SMA(x, at, T) = SMA(y, at, T)
    BY <2>4, <2>5, SMASame
  <2>8. RealisedVol(x, at, V) = RealisedVol(y, at, V)
    BY <1>2, <2>4, <2>5, VolSame
  <2> QED BY <2>3, <2>6, <2>7, <2>8
<1>6. at # 0 => vol(al) = vol(bl)
  <2> SUFFICES ASSUME at # 0 PROVE vol(al) = vol(bl)
    OBVIOUS
  <2>1. \A s \in risk : vol(al)[s] = vol(bl)[s]
    BY <1>5
  <2>2. vol(al) = [s \in risk |-> vol(al)[s]] /\ vol(bl) = [s \in risk |-> vol(bl)[s]]
    OBVIOUS
  <2> HIDE DEF vol
  <2> QED BY <2>1, <2>2
<1>7. live(al) = live(bl)
  <2>1. CASE at = 0
    BY <2>1
  <2>2. CASE at # 0
    <3> HIDE DEF px, vol
    <3>1. active(al) = active(bl)
      BY <1>5, <2>2
    <3> HIDE DEF active
    <3> QED BY <3>1
  <2> QED BY <2>1, <2>2
<1> HIDE DEF vol, live
<1>8. Of(live(al), vol(al)) = Of(live(bl), vol(bl))
  <2>1. CASE at # 0
    BY <1>6, <1>7, <2>1
  <2>2. CASE at = 0
    <3>1. live(al) = {} /\ live(bl) = {}
      BY <2>2 DEF live
    <3>2. \A v : Of({}, v) = [s \in Range(pl.universe) |->
                              IF s \notin risk THEN <<k - Cardinality({}), k>> ELSE <<0, k>>]
      OBVIOUS
    <3> HIDE DEF Of
    <3> QED BY <3>1, <3>2
  <2> QED BY <2>1, <2>2
<1> QED BY <1>4, <1>8

\* The weights of any of the strategies.
LEMMA WeightsSame ==
  ASSUME NEW pl \in Plans, Parse(pl),
         NEW al, NEW bl, NEW i, Seen(pl, al), Seen(pl, bl), SameUpto(pl, al, bl, i), i # 0
  PROVE  Weights(pl, al)[i] = Weights(pl, bl)[i]
<1>1. CASE pl.strategy = "pairs_zscore"
  BY <1>1, PairsWeightsSame DEF Weights
<1>2. CASE pl.strategy = "dual_momentum"
  BY <1>2, MomentumWeightsSame DEF Weights
<1>3. CASE pl.strategy = "risk_parity_trend"
  BY <1>3, RiskParityWeightsSame DEF Weights
<1>4. CASE pl.strategy \in Replaying /\ pl.strategy # "pairs_zscore"
  <2>1. pl.strategy # "dual_momentum" /\ pl.strategy # "risk_parity_trend"
    BY <1>4 DEF Replaying, Stateful
  <2>2. Weights(pl, al) = SleeveWeights(pl, al) /\ Weights(pl, bl) = SleeveWeights(pl, bl)
    BY <1>4, <2>1 DEF Weights
  <2> QED BY <1>4, <2>2, SleeveWeightsSame
<1>5. \/ pl.strategy = "pairs_zscore" \/ pl.strategy = "dual_momentum"
      \/ pl.strategy = "risk_parity_trend" \/ pl.strategy \in Replaying
  BY DEF Parse, Replaying, Stateful
<1> QED BY <1>1, <1>2, <1>3, <1>4, <1>5

-----------------------------------------------------------------------------
(* Live and backtest. *)

\* The bars a run saw are the first of those on disk, when they are the same.
LEMMA SawAre ==
  ASSUME ReplayInv, SawTheSame
  PROVE  /\ Seen(plan, OnDisk) /\ Seen(plan, told.seen)
         /\ SameUpto(plan, told.seen, OnDisk, Len(told.seen.dates))
         /\ Len(told.seen.dates) # 0
         /\ told.targets = Weights(plan, told.seen)[Len(told.seen.dates)]
<1> DEFINE al == OnDisk
           i == Len(told.seen.dates)
           n == Len(al.dates)
           upto == {t \in 1..n : al.dates[t] <= told.day}
<1>1. /\ told # NotRun /\ told.day \in Range(al.dates)
      /\ Cardinality(upto) = i
      /\ \A t \in upto : \A s \in Symbols :
           /\ al.bars[s][t].close = told.seen.bars[s][t].close
           /\ al.dates[t] < told.day => al.bars[s][t] = told.seen.bars[s][t]
  BY DEF SawTheSame
<1>2. /\ told.day \in Nat /\ Seen(plan, told.seen) /\ today \in Nat \ {0}
      /\ told.targets = Weights(plan, told.seen)[i]
  BY <1>1 DEF ReplayInv
<1>3. Seen(plan, al)
  BY <1>2, AlignSound DEF ReplayInv, OnDisk
<1>4. /\ \A t, u \in 1..n : t < u => al.dates[t] < al.dates[u]
      /\ \A t \in 1..n : al.dates[t] \in Nat
      /\ DOMAIN al.dates = 1..n
  BY <1>2, AlignSound DEF ReplayInv, OnDisk
<1>5. n \in Nat /\ i \in Nat
  BY <1>2, <1>3 DEF Seen
<1> HIDE DEF al, n
<1>6. PICK k \in 1..n : al.dates[k] = told.day
  BY <1>1, <1>4 DEF Range
<1>7. upto = 1..k
  <2>1. ASSUME NEW t \in upto PROVE t \in 1..k
    <3>1. t \in 1..n /\ ~(told.day < al.dates[t])
      BY <1>2, <1>4
    <3>2. ~(k < t)
      BY <1>4, <1>6, <3>1
    <3> QED BY <1>5, <3>1, <3>2
  <2>2. ASSUME NEW t \in 1..k PROVE t \in upto
    <3>1. t \in 1..n /\ (t = k \/ t < k)
      BY <1>5
    <3>2. al.dates[t] = told.day \/ al.dates[t] < told.day
      BY <1>4, <1>6, <3>1
    <3> QED BY <1>2, <1>4, <3>1, <3>2
  <2> HIDE DEF upto
  <2> QED BY <2>1, <2>2
<1>8. k = i /\ i # 0
  <2>1. Cardinality(1..k) = k
    BY <1>5, FS_Interval
  <2>2. k # 0
    BY <1>5
  <2> HIDE DEF upto
  <2> QED BY <1>1, <1>7, <2>1, <2>2
<1>9. i <= n
  BY <1>5, <1>8
<1>10. ASSUME NEW s \in Symbols, NEW t \in 1..i
       PROVE  /\ told.seen.bars[s][t].close = al.bars[s][t].close
              /\ t # i => told.seen.bars[s][t] = al.bars[s][t]
  <2>1. t \in upto
    BY <1>7, <1>8
  <2> HIDE DEF upto
  <2>2. t # i => al.dates[t] < told.day
    BY <1>4, <1>5, <1>6, <1>8
  <2> QED BY <1>1, <2>1, <2>2
<1> HIDE DEF i
<1>11. SameUpto(plan, told.seen, al, i)
  BY <1>5, <1>9, <1>10 DEF SameUpto, Symbols, n, i
<1> QED BY <1>2, <1>3, <1>8, <1>11 DEF al, i

(* What the runner was told to hold on a day is what the backtest says of that
   day, for any plan and any bars, however many come after (strategy Targets,
   backtest.go).                                                             *)
THEOREM LiveIsBacktestAlways == ReplaySpec => []LiveIsBacktest
<1>1. ASSUME ReplayInv PROVE LiveIsBacktest
  <2> DEFINE al == OnDisk
             i == Len(told.seen.dates)
             n == Len(al.dates)
             from == StartBar(al)
             w == Weights(plan, al)
             book == Backtest(al)
  <2> SUFFICES ASSUME SawTheSame, from \in 1..i, NEW t \in DOMAIN book
               PROVE  /\ t = (IF plan.fill = "same_close" THEN i ELSE i + 1) => book[t] = told.targets
                      /\ t = from /\ plan.fill = "next_open" => book[t] = NoFill
    BY DEF LiveIsBacktest
  <2>1. /\ Seen(plan, al) /\ Seen(plan, told.seen)
        /\ SameUpto(plan, told.seen, al, i) /\ i # 0
        /\ told.targets = Weights(plan, told.seen)[i]
    BY <1>1, SawAre
  <2>2. i \in Nat /\ n \in Nat
    BY <2>1 DEF Seen
  <2>3. told.targets = w[i]
    BY <1>1, <2>1, WeightsSame DEF ReplayInv
  <2>4. book = [u \in from..n |-> IF FilledAt(u, from) = 0 THEN NoFill ELSE w[FilledAt(u, from)]]
    BY DEF Backtest
  <2> HIDE DEF al, i, n, from, w, book
  <2>5. t \in from..n /\ from \in Nat /\ from >= 1
    BY <2>2, <2>4
  <2>6. ASSUME t = (IF plan.fill = "same_close" THEN i ELSE i + 1) PROVE book[t] = told.targets
    <3>1. FilledAt(t, from) = i
      BY <2>2, <2>5, <2>6 DEF FilledAt
    <3> QED BY <2>1, <2>3, <2>4, <2>5, <3>1
  <2>7. ASSUME t = from, plan.fill = "next_open" PROVE book[t] = NoFill
    <3>1. FilledAt(t, from) = 0
      BY <2>7 DEF FilledAt
    <3> QED BY <2>4, <2>5, <3>1
  <2> QED BY <2>6, <2>7 DEF i, from, book
<1> QED BY <1>1, ReplayInvariant, PTL

-----------------------------------------------------------------------------
(* What the indicators are made of. *)

OneOf(s) == CHOOSE y \in s : TRUE

\* g adds up f over each of the sets in family.
AddsUp(g, family, f) ==
  \A s \in family : g[s] = IF s = {} THEN 0 ELSE f[OneOf(s)] + g[s \ {OneOf(s)}]

\* Sums over finite sets exist, and are among the numbers they add.
LEMMA SumsExist ==
  ASSUME NEW N, 0 \in N, \A a, b \in N : a + b \in N,
         NEW S, IsFiniteSet(S), NEW f, \A j \in S : f[j] \in N
  PROVE  \E g \in [SUBSET S -> N] : AddsUp(g, SUBSET S, f)
<1> DEFINE n == Cardinality(S)
           Upto(k) == {s \in SUBSET S : Cardinality(s) <= k}
           good == {k \in 0..n : \E g \in [Upto(k) -> N] : AddsUp(g, Upto(k), f)}
<1>1. n \in Nat
  BY FS_CardinalityType
<1>2. \A s \in SUBSET S : IsFiniteSet(s) /\ Cardinality(s) \in Nat /\ Cardinality(s) <= n
  BY FS_Subset, FS_CardinalityType
<1>3. \A s \in SUBSET S : s # {} =>
        /\ OneOf(s) \in s /\ f[OneOf(s)] \in N
        /\ s \ {OneOf(s)} \in SUBSET S /\ Cardinality(s \ {OneOf(s)}) = Cardinality(s) - 1
        /\ Cardinality(s) > 0
  <2> SUFFICES ASSUME NEW s \in SUBSET S, s # {}
               PROVE  /\ OneOf(s) \in s /\ f[OneOf(s)] \in N
                      /\ s \ {OneOf(s)} \in SUBSET S /\ Cardinality(s \ {OneOf(s)}) = Cardinality(s) - 1
                      /\ Cardinality(s) > 0
    OBVIOUS
  <2>1. OneOf(s) \in s
    BY DEF OneOf
  <2>2. Cardinality(s \ {OneOf(s)}) = Cardinality(s) - 1
    BY <1>2, <2>1, FS_RemoveElement
  <2>3. Cardinality(s) # 0
    BY <1>2, FS_EmptySet
  <2> QED BY <1>2, <2>1, <2>2, <2>3
<1>4. 0 \in good
  <2> DEFINE g == [s \in Upto(0) |-> 0]
  <2>1. \A s \in Upto(0) : s = {}
    <3> SUFFICES ASSUME NEW s \in SUBSET S, Cardinality(s) <= 0, s # {} PROVE FALSE
      OBVIOUS
    <3>1. Cardinality(s) > 0 /\ Cardinality(s) \in Nat
      BY <1>2, <1>3
    <3> QED BY <3>1
  <2>2. g \in [Upto(0) -> N]
    OBVIOUS
  <2>3. AddsUp(g, Upto(0), f)
    BY <2>1 DEF AddsUp
  <2> HIDE DEF g, Upto
  <2>4. \E h \in [Upto(0) -> N] : AddsUp(h, Upto(0), f)
    BY <2>2, <2>3
  <2> QED BY <1>1, <2>4
<1>5. ASSUME NEW k \in 1..n, k - 1 \in good PROVE k \in good
  <2>1. PICK g \in [Upto(k - 1) -> N] : AddsUp(g, Upto(k - 1), f)
    BY <1>5
  <2> DEFINE h == [s \in Upto(k) |-> IF Cardinality(s) = k THEN f[OneOf(s)] + g[s \ {OneOf(s)}] ELSE g[s]]
  <2>2. k \in Nat /\ k > 0 /\ k - 1 \in Nat
    BY <1>1
  <2>3. ASSUME NEW s \in Upto(k), Cardinality(s) # k PROVE s \in Upto(k - 1)
    BY <1>2, <2>2, <2>3
  <2>4. ASSUME NEW s \in Upto(k), s # {}
        PROVE  /\ s \ {OneOf(s)} \in Upto(k - 1) /\ s \ {OneOf(s)} \in Upto(k)
               /\ Cardinality(s \ {OneOf(s)}) # k
    BY <1>2, <1>3, <2>2, <2>4
  <2>5. ASSUME NEW s \in Upto(k), Cardinality(s) = k PROVE s # {} /\ s \in SUBSET S
    <3>1. s \in SUBSET S
      OBVIOUS
    <3>2. s # {}
      <4>1. Cardinality({}) = 0
        BY FS_EmptySet
      <4>2. k # 0
        BY <2>2
      <4> QED BY <2>5, <4>1, <4>2, Zenon
    <3> QED BY <3>1, <3>2
  <2>6. \A s \in Upto(k) : s \in SUBSET S
    OBVIOUS
  <2> HIDE DEF Upto
  <2>7. h \in [Upto(k) -> N]
    <3> SUFFICES ASSUME NEW s \in Upto(k) PROVE h[s] \in N
      OBVIOUS
    <3>1. CASE Cardinality(s) = k
      <4>1. f[OneOf(s)] \in N /\ g[s \ {OneOf(s)}] \in N
        BY <1>3, <2>1, <2>4, <2>5, <3>1
      <4> QED BY <3>1, <4>1
    <3>2. CASE Cardinality(s) # k
      BY <2>1, <2>3, <3>2
    <3> QED BY <3>1, <3>2
  <2>8. \A s \in Upto(k) : Cardinality(s) # k => h[s] = g[s]
    OBVIOUS
  <2>9. \A s \in Upto(k) : Cardinality(s) = k => h[s] = f[OneOf(s)] + g[s \ {OneOf(s)}]
    OBVIOUS
  <2> HIDE DEF h
  <2>10. AddsUp(h, Upto(k), f)
    <3> SUFFICES ASSUME NEW s \in Upto(k)
                 PROVE  h[s] = IF s = {} THEN 0 ELSE f[OneOf(s)] + h[s \ {OneOf(s)}]
      BY DEF AddsUp
    <3>1. s # {} => h[s \ {OneOf(s)}] = g[s \ {OneOf(s)}]
      BY <2>4, <2>8
    <3>2. CASE Cardinality(s) = k
      BY <2>5, <2>9, <3>1, <3>2
    <3>3. CASE Cardinality(s) # k
      <4>1. h[s] = g[s] /\ s \in Upto(k - 1)
        BY <2>3, <2>8, <3>3
      <4>2. g[s] = IF s = {} THEN 0 ELSE f[OneOf(s)] + g[s \ {OneOf(s)}]
        BY <2>1, <4>1 DEF AddsUp
      <4> QED BY <3>1, <4>1, <4>2
    <3> QED BY <3>2, <3>3
  <2>11. k \in 0..n
    BY <1>1
  <2> QED BY <2>7, <2>10, <2>11
<1>6. n \in good
  <2> HIDE DEF good
  <2>1. \A k \in 1..n : k - 1 \in good => k \in good
    BY <1>5
  <2>2. \A k \in 0..n : k \in good
    BY <1>1, <1>4, <2>1, Along
  <2> QED BY <1>1, <2>2
<1>7. Upto(n) = SUBSET S
  BY <1>2
<1>8. \E g \in [Upto(n) -> N] : AddsUp(g, Upto(n), f)
  <2> HIDE DEF Upto
  <2> QED BY <1>6
<1> HIDE DEF Upto
<1> QED BY <1>7, <1>8

\* A sum that is given is one of the numbers it adds.
LEMMA SumsIn ==
  ASSUME NEW N, 0 \in N, \A a, b \in N : a + b \in N,
         NEW S, IsFiniteSet(S), NEW f, \A j \in S : f[j] \in N,
         NEW g, AddsUp(g, SUBSET S, f)
  PROVE  g[S] \in N
<1> DEFINE n == Cardinality(S)
           Good == {k \in 0..n : \A s \in SUBSET S : Cardinality(s) = k => g[s] \in N}
<1>1. n \in Nat
  BY FS_CardinalityType
<1>2. 0 \in Good
  <2> SUFFICES ASSUME NEW s \in SUBSET S, Cardinality(s) = 0 PROVE g[s] \in N
    BY <1>1
  <2>1. s = {}
    BY FS_Subset, FS_EmptySet
  <2> QED BY <2>1 DEF AddsUp
<1>3. ASSUME NEW k \in 1..n, k - 1 \in Good PROVE k \in Good
  <2> SUFFICES ASSUME NEW s \in SUBSET S, Cardinality(s) = k PROVE g[s] \in N
    BY <1>1
  <2> DEFINE rest == s \ {OneOf(s)}
  <2>1. s # {}
    <3>1. Cardinality({}) = 0
      BY FS_EmptySet
    <3> QED BY <3>1
  <2>2. OneOf(s) \in s /\ f[OneOf(s)] \in N
    BY <2>1 DEF OneOf
  <2>3. rest \in SUBSET S /\ Cardinality(rest) = k - 1
    BY <2>2, FS_Subset, FS_RemoveElement
  <2>4. g[rest] \in N
    BY <1>3, <2>3
  <2> QED BY <2>1, <2>2, <2>4 DEF AddsUp
<1> HIDE DEF Good
<1>4. \A k \in 1..n : k - 1 \in Good => k \in Good
  BY <1>3
<1>5. \A k \in 0..n : k \in Good
  BY <1>1, <1>2, <1>4, Along
<1>6. n \in Good
  BY <1>1, <1>5
<1> QED BY <1>6 DEF Good

\* What SumOver returns is among the numbers it adds.
LEMMA SumIn ==
  ASSUME NEW N, 0 \in N, \A a, b \in N : a + b \in N,
         NEW S, IsFiniteSet(S), NEW x, \A j \in S : x[j] \in N
  PROVE  SumOver(x, S) \in N
<1> DEFINE f == [j \in S |-> x[j]]
           Is(g) == g = [s \in SUBSET S |-> IF s = {} THEN 0 ELSE f[OneOf(s)] + g[s \ {OneOf(s)}]]
           sums == CHOOSE g : Is(g)
<1>1. DOMAIN f = S /\ \A j \in S : f[j] \in N
  OBVIOUS
<1>2. SumOver(x, S) = SumFunctionOnSet(f, S)
  BY <1>1 DEF SumOver, SumFunction
<1> HIDE DEF f
<1>3. SumFunctionOnSet(f, S) = sums[S]
  BY DEF SumFunctionOnSet, FoldFunctionOnSet, MapThenFoldSet, OneOf
<1>4. PICK g \in [SUBSET S -> N] : AddsUp(g, SUBSET S, f)
  BY <1>1, SumsExist
<1>5. Is(g)
  BY <1>4 DEF AddsUp
<1>6. Is(sums)
  BY <1>5
<1> HIDE DEF sums
<1>7. AddsUp(sums, SUBSET S, f)
  BY <1>6 DEF AddsUp
<1>8. sums[S] \in N
  BY <1>1, <1>7, SumsIn
<1> QED BY <1>2, <1>3, <1>8

\* The sums of the indicators are over bars up to one.
LEMMA SumsOfBars ==
  ASSUME NEW t \in Int, NEW first \in Int, NEW x
  PROVE  /\ (\A j \in first..t : x[j] \in Int) => SumOver(x, first..t) \in Int
         /\ (\A j \in first..t : x[j] \in Nat) => SumOver(x, first..t) \in Nat
<1> DEFINE S == first..t
<1>1. IsFiniteSet(S)
  BY FS_Interval
<1>2. \A a, b \in Int : a + b \in Int
  OBVIOUS
<1>3. \A a, b \in Nat : a + b \in Nat
  OBVIOUS
<1> HIDE DEF S
<1>4. (\A j \in S : x[j] \in Int) => SumOver(x, S) \in Int
  BY <1>1, <1>2, SumIn
<1>5. (\A j \in S : x[j] \in Nat) => SumOver(x, S) \in Nat
  BY <1>1, <1>3, SumIn
<1> QED BY <1>4, <1>5 DEF S

\* A window that is full lies among the bars.
LEMMA WindowIn ==
  ASSUME NEW t \in Nat, NEW L \in Int, ~(t < L), NEW x, NEW N, \A j \in 1..t : x[j] \in N
  PROVE  /\ Window(t, L) = (t - L + 1)..t /\ t - L + 1 \in Int
         /\ \A j \in (t - L + 1)..t : x[j] \in N
<1>1. \A j \in (t - L + 1)..t : j \in 1..t
  OBVIOUS
<1> QED BY <1>1 DEF Window

\* A value that is defined is a fraction with a denominator above zero.
LEMMA ZScoreTypes ==
  ASSUME NEW t \in Nat \ {0}, NEW L \in Nat, NEW x, \A j \in 1..t : x[j] \in Int,
         \A j \in 1..t : j \in DOMAIN x, Defined(ZScore(x, t, L))
  PROVE  ZScore(x, t, L).num \in Int /\ ZScore(x, t, L).den \in Int /\ ZScore(x, t, L).den > 0
<1>0. ~Defined(Undefined)
  BY DEF Defined, Undefined
<1>1. ~(t < L)
  BY <1>0 DEF ZScore
<1> DEFINE win == Window(t, L)
           xx == [j \in DOMAIN x |-> x[j] * x[j]]
           sum == SumOver(x, win)
           squares == SumOver(xx, win)
           ss == L * squares - sum * sum
           d == L * x[t] - sum
<1>2. \A j \in 1..t : xx[j] \in Int
  OBVIOUS
<1> HIDE DEF xx
<1>3. sum \in Int
  BY <1>1, WindowIn, SumsOfBars
<1>4. squares \in Int
  BY <1>1, <1>2, WindowIn, SumsOfBars
<1>5. x[t] \in Int
  OBVIOUS
<1> HIDE DEF sum, squares
<1>6. ss \in Int /\ d \in Int
  BY <1>3, <1>4, <1>5
<1> HIDE DEF ss, d
<1>7. ZScore(x, t, L) = IF ss = 0 THEN Undefined ELSE [num |-> SignedSquare(d) * (L - 1), den |-> L * ss]
  BY <1>1 DEF ZScore, ss, d, sum, squares, win, xx
<1>8. ss # 0
  BY <1>0, <1>7
<1>9. SignedSquare(d) \in Int
  BY <1>6 DEF SignedSquare, AbsVal
<1>10. SignedSquare(d) * (L - 1) \in Int /\ L * ss \in Int
  BY <1>6, <1>9
<1> QED BY <1>7, <1>8, <1>10 DEF Defined

LEMMA SMATypes ==
  ASSUME NEW t \in Nat, NEW L \in Nat, NEW x, \A j \in 1..t : x[j] \in Nat,
         Defined(SMA(x, t, L))
  PROVE  SMA(x, t, L).num \in Nat /\ SMA(x, t, L).den = L /\ L > 0
<1>0. ~Defined(Undefined)
  BY DEF Defined, Undefined
<1>1. ~(t < L)
  BY <1>0 DEF SMA
<1>2. SumOver(x, Window(t, L)) \in Nat
  BY <1>1, WindowIn, SumsOfBars
<1>3. SMA(x, t, L) = [num |-> SumOver(x, Window(t, L)), den |-> L]
  BY <1>1 DEF SMA
<1> QED BY <1>2, <1>3 DEF Defined

\* Signed squares are in the order of what they are squares of.
LEMMA SquaresApart ==
  ASSUME NEW a \in Int, NEW b \in Int, a < b
  PROVE  SignedSquare(a) \in Int /\ SignedSquare(b) \in Int /\ SignedSquare(a) < SignedSquare(b)
<1>1. SignedSquare(a) = (IF a < 0 THEN -(a * a) ELSE a * a) /\ a * a \in Int /\ a * a >= 0
  BY DEF SignedSquare, AbsVal
<1>2. SignedSquare(b) = (IF b < 0 THEN -(b * b) ELSE b * b) /\ b * b \in Int /\ b * b >= 0
  BY DEF SignedSquare, AbsVal
<1>3. CASE a >= 0
  <2>1. a * a < b * b
    BY <1>3
  <2> QED BY <1>1, <1>2, <1>3, <2>1
<1>4. CASE b < 0
  <2>1. b * b < a * a
    BY <1>4
  <2> QED BY <1>1, <1>2, <1>4, <2>1
<1>5. CASE a < 0 /\ b >= 0
  <2>1. a * a > 0
    BY <1>5
  <2> QED BY <1>1, <1>2, <1>5, <2>1
<1> QED BY <1>3, <1>4, <1>5

\* A z-score cannot be at most one threshold and at least a higher one.
LEMMA ZApart ==
  ASSUME NEW z, z.num \in Int, z.den \in Int, z.den > 0,
         NEW a \in Int, NEW b \in Int, a < b, ZAtMost(z, a)
  PROVE  ~ZAtLeast(z, b)
<1> DEFINE n == z.num  d == z.den  p == SignedSquare(a)  q == SignedSquare(b)
<1>1. p \in Int /\ q \in Int /\ p < q
  BY SquaresApart
<1>2. n \in Int /\ d \in Int /\ d > 0
  OBVIOUS
<1> HIDE DEF n, d, p, q
<1>3. (q - p) * d > 0 /\ (q - p) * d = q * d - p * d /\ q * d \in Int /\ p * d \in Int
  BY <1>1, <1>2
<1>4. 100 * n <= p * d
  BY DEF ZAtMost, n, d, p
<1>5. ~(100 * n >= q * d)
  BY <1>2, <1>3, <1>4
<1> QED BY <1>5 DEF ZAtLeast, n, d, q

\* The powers of two by which Wilder's averages are scaled.
LEMMA ScaleTypes == \A i \in Nat : Scale(i) \in Nat
<1> SUFFICES ASSUME NEW i \in Nat PROVE Scale(i) \in Nat
  OBVIOUS
<1> DEFINE Is(f) == f = [k \in 0..i |-> IF k <= RSIPeriod + 1 THEN 1 ELSE 2 * f[k - 1]]
           step == [k \in 1..i |-> [p \in Nat |-> IF k <= RSIPeriod + 1 THEN 1 ELSE 2 * p]]
           power == CHOOSE f : Is(f)
<1>1. \A p \in Nat, k \in 1..i : step[k][p] = (IF k <= RSIPeriod + 1 THEN 1 ELSE 2 * p) /\ step[k][p] \in Nat
  BY DEF RSIPeriod
<1> HIDE DEF step
<1>2. \A p \in Nat, k \in 1..i : step[k][p] \in Nat
  BY <1>1
<1>3. PICK f \in [0..i -> Nat] : Replays(f, i, 1, step)
  BY <1>2, ReplayExists
<1>4. \A k \in 0..i : f[k] = IF k <= RSIPeriod + 1 THEN 1 ELSE 2 * f[k - 1]
  <2> SUFFICES ASSUME NEW k \in 0..i PROVE f[k] = IF k <= RSIPeriod + 1 THEN 1 ELSE 2 * f[k - 1]
    OBVIOUS
  <2>1. CASE k = 0
    BY <1>3, <2>1 DEF Replays, RSIPeriod
  <2>2. CASE k # 0
    <3>1. k \in 1..i /\ f[k - 1] \in Nat /\ f[k] = step[k][f[k - 1]]
      BY <1>3, <2>2 DEF Replays
    <3> QED BY <1>1, <3>1
  <2> QED BY <2>1, <2>2
<1>5. Is(f)
  <2>1. f = [k \in 0..i |-> f[k]]
    BY <1>3
  <2> QED BY <1>4, <2>1
<1>6. Is(power)
  BY <1>5
<1>7. Scale(i) = power[i]
  BY DEF Scale
<1> HIDE DEF power
<1> DEFINE Good == {k \in 0..i : power[k] \in Nat}
<1>8. \A k \in 0..i : power[k] = IF k <= RSIPeriod + 1 THEN 1 ELSE 2 * power[k - 1]
  BY <1>6
<1>9. 0 \in Good
  BY <1>8 DEF RSIPeriod
<1>10. ASSUME NEW k \in 1..i, k - 1 \in Good PROVE k \in Good
  <2>1. power[k - 1] \in Nat /\ k \in 0..i
    BY <1>10
  <2>2. power[k] = IF k <= RSIPeriod + 1 THEN 1 ELSE 2 * power[k - 1]
    BY <1>8, <2>1
  <2> QED BY <2>1, <2>2
<1> HIDE DEF Good
<1>11. \A k \in 0..i : k \in Good
  <2>1. \A k \in 1..i : k - 1 \in Good => k \in Good
    BY <1>10
  <2> QED BY <1>9, <2>1, Along
<1>12. i \in Good
  BY <1>11
<1> QED BY <1>7, <1>12 DEF Good

\* The index is a fraction too, whatever the closes.
LEMMA RSITypes ==
  ASSUME NEW t \in Nat, NEW x, \A j \in 1..t : x[j] \in Int, Defined(WilderRSI(x, t))
  PROVE  WilderRSI(x, t).num \in Int /\ WilderRSI(x, t).den \in Int /\ WilderRSI(x, t).den > 0
<1>0. ~Defined(Undefined)
  BY DEF Defined, Undefined
<1> DEFINE ups == [j \in 2..t |-> Scale(j) * Up(x, j)]
           downs == [j \in 2..t |-> Scale(j) * Down(x, j)]
           gain == SumOver(ups, 2..t)
           loss == SumOver(downs, 2..t)
<1>1. \A j \in 2..t : Scale(j) \in Int /\ Up(x, j) \in Int /\ Down(x, j) \in Int
  <2> SUFFICES ASSUME NEW j \in 2..t
               PROVE  Scale(j) \in Int /\ Up(x, j) \in Int /\ Down(x, j) \in Int
    OBVIOUS
  <2>1. x[j] \in Int /\ x[j - 1] \in Int /\ j \in Nat
    OBVIOUS
  <2>2. Scale(j) \in Nat
    BY <2>1, ScaleTypes
  <2> QED BY <2>1, <2>2 DEF Up, Down
<1>2. \A j \in 2..t : ups[j] \in Int /\ downs[j] \in Int
  BY <1>1
<1> HIDE DEF ups, downs
<1>3. gain \in Int /\ loss \in Int
  BY <1>2, SumsOfBars
<1> HIDE DEF gain, loss
<1>4. WilderRSI(x, t) = IF loss = 0 THEN [num |-> IF gain > 0 THEN 100 ELSE 50, den |-> 1]
                        ELSE [num |-> 100 * gain, den |-> gain + loss]
  BY <1>0 DEF WilderRSI, ups, downs, gain, loss
<1>5. WilderRSI(x, t).num \in Int /\ WilderRSI(x, t).den \in Int
  BY <1>3, <1>4
<1> QED BY <1>5 DEF Defined

\* Of some bars, one is the highest and one the lowest.
LEMMA Extremes ==
  ASSUME NEW first \in Int, NEW n \in Nat, NEW x, \A j \in first..first + n : x[j] \in Int
  PROVE  /\ \E j \in first..first + n : \A k \in first..first + n : x[j] >= x[k]
         /\ \E j \in first..first + n : \A k \in first..first + n : x[j] <= x[k]
<1> DEFINE Highest(j, m) == \A k \in first..first + m : x[j] >= x[k]
           Lowest(j, m) == \A k \in first..first + m : x[j] <= x[k]
           Good == {m \in 0..n : /\ \E j \in first..first + m : Highest(j, m)
                                 /\ \E j \in first..first + m : Lowest(j, m)}
<1>1. 0 \in Good
  <2>1. \A k \in first..first + 0 : k = first /\ x[k] \in Int
    OBVIOUS
  <2>2. first \in first..first + 0 /\ Highest(first, 0) /\ Lowest(first, 0)
    BY <2>1
  <2> QED BY <2>2
<1>2. ASSUME NEW m \in 1..n, m - 1 \in Good PROVE m \in Good
  <2>1. PICK hi \in first..first + (m - 1) : Highest(hi, m - 1)
    BY <1>2
  <2>2. PICK lo \in first..first + (m - 1) : Lowest(lo, m - 1)
    BY <1>2
  <2> DEFINE new == first + m
  <2>3. /\ hi \in first..first + m /\ lo \in first..first + m /\ new \in first..first + m
        /\ x[hi] \in Int /\ x[lo] \in Int /\ x[new] \in Int /\ m \in 0..n
    OBVIOUS
  <2>4. \A k \in first..first + m : k = new \/ k \in first..first + (m - 1)
    OBVIOUS
  <2>5. \A k \in first..first + m : x[k] \in Int
    OBVIOUS
  <2> HIDE DEF new
  <2>6. x[hi] >= x[new] => Highest(hi, m)
    BY <2>1, <2>4
  <2>7. x[hi] < x[new] => Highest(new, m)
    BY <2>1, <2>3, <2>4, <2>5
  <2>8. x[lo] <= x[new] => Lowest(lo, m)
    BY <2>2, <2>4
  <2>9. x[lo] > x[new] => Lowest(new, m)
    BY <2>2, <2>3, <2>4, <2>5
  <2> HIDE DEF Highest, Lowest
  <2>10. \E j \in first..first + m : Highest(j, m)
    BY <2>3, <2>6, <2>7
  <2>11. \E j \in first..first + m : Lowest(j, m)
    BY <2>3, <2>8, <2>9
  <2> QED BY <2>3, <2>10, <2>11
<1>3. n \in Good
  <2> HIDE DEF Good
  <2>1. \A m \in 1..n : m - 1 \in Good => m \in Good
    BY <1>2
  <2>2. \A m \in 0..n : m \in Good
    BY <1>1, <2>1, Along
  <2> QED BY <2>2
<1> QED BY <1>3

\* A close above the longer channel is not below the shorter one.
LEMMA ChannelsApart ==
  ASSUME NEW t \in Nat, NEW E \in Nat, NEW X \in Nat, X < E, X >= 1,
         NEW high, NEW low,
         \A j \in 1..t : high[j] \in Int /\ low[j] \in Int /\ low[j] <= high[j],
         NEW close \in Int,
         Defined(DonchianUpper(high, t, E)), close > DonchianUpper(high, t, E).num
  PROVE  Defined(DonchianLower(low, t, X)) /\ ~DonchianLeaves(close, DonchianLower(low, t, X))
<1>0. ~Defined(Undefined)
  BY DEF Defined, Undefined
<1>1. t > E
  BY <1>0 DEF DonchianUpper
<1> DEFINE highs == Prior(high, t, E)
           lows == Prior(low, t, X)
<1>2. /\ Window(t - 1, E) = (t - E)..(t - E) + (E - 1) /\ Window(t - 1, X) = (t - X)..(t - X) + (X - 1)
      /\ E - 1 \in Nat /\ X - 1 \in Nat /\ t - E \in Int /\ t - X \in Int
  BY <1>1 DEF Window
<1>3. /\ \A j \in (t - E)..(t - E) + (E - 1) : j \in 1..t
      /\ \A j \in (t - X)..(t - X) + (X - 1) : j \in 1..t
      /\ t - 1 \in (t - E)..(t - E) + (E - 1) /\ t - 1 \in (t - X)..(t - X) + (X - 1)
  BY <1>1
<1>4. /\ highs = {high[j] : j \in (t - E)..(t - E) + (E - 1)}
      /\ lows = {low[j] : j \in (t - X)..(t - X) + (X - 1)}
  BY <1>2 DEF Prior
<1>5. \E h \in highs : \A k \in highs : h >= k
  <2> DEFINE first == t - E  m == E - 1
  <2>1. first \in Int /\ m \in Nat /\ (\A j \in first..first + m : high[j] \in Int)
    BY <1>2, <1>3
  <2>2. highs = {high[j] : j \in first..first + m}
    BY <1>4
  <2> HIDE DEF first, m, highs
  <2>3. \E j \in first..first + m : \A k \in first..first + m : high[j] >= high[k]
    BY <2>1, Extremes
  <2> QED BY <2>2, <2>3
<1>6. \E l \in lows : \A k \in lows : l <= k
  <2> DEFINE first == t - X  m == X - 1
  <2>1. first \in Int /\ m \in Nat /\ (\A j \in first..first + m : low[j] \in Int)
    BY <1>2, <1>3
  <2>2. lows = {low[j] : j \in first..first + m}
    BY <1>4
  <2> HIDE DEF first, m, lows
  <2>3. \E j \in first..first + m : \A k \in first..first + m : low[j] <= low[k]
    BY <2>1, Extremes
  <2> QED BY <2>2, <2>3
<1>7. high[t - 1] \in highs /\ low[t - 1] \in lows
  BY <1>3, <1>4
<1>8. high[t - 1] \in Int /\ low[t - 1] \in Int /\ low[t - 1] <= high[t - 1]
  BY <1>3
<1>9. (\A h \in highs : h \in Int) /\ (\A l \in lows : l \in Int)
  BY <1>3, <1>4
<1> HIDE DEF highs, lows
<1>10. Max(highs) \in highs /\ Max(highs) >= high[t - 1]
  BY <1>5, <1>7 DEF Max
<1>11. Min(lows) \in lows /\ Min(lows) <= low[t - 1]
  BY <1>6, <1>7 DEF Min
<1>12. DonchianUpper(high, t, E) = [num |-> Max(highs), den |-> 1]
  BY <1>1 DEF DonchianUpper, highs
<1>13. DonchianLower(low, t, X) = [num |-> Min(lows), den |-> 1]
  BY <1>1 DEF DonchianLower, lows
<1>14. close > Max(highs)
  BY <1>12
<1>15. Max(highs) \in Int /\ Min(lows) \in Int
  BY <1>9, <1>10, <1>11
<1>16. ~(close < Min(lows))
  BY <1>8, <1>10, <1>11, <1>14, <1>15
<1> QED BY <1>13, <1>16 DEF Defined, DonchianLeaves

\* The closes, the highs and the lows of sound bars, up to one of them.
LEMMA SeriesTypes ==
  ASSUME NEW pl, NEW al, Seen(pl, al), NEW s \in Range(pl.universe), NEW t \in 1..Len(al.dates)
  PROVE  \A j \in 1..t :
           /\ al.bars[s][j].close \in Int
           /\ Closes(al.bars[s])[j] = al.bars[s][j].close
           /\ Highs(al.bars[s])[j] \in Int /\ Lows(al.bars[s])[j] \in Int
           /\ Lows(al.bars[s])[j] <= Highs(al.bars[s])[j]
           /\ pl.strategy # "ratio_reversion" => al.bars[s][j].close \in Nat
<1> SUFFICES ASSUME NEW j \in 1..t
             PROVE  /\ al.bars[s][j].close \in Int
                    /\ Closes(al.bars[s])[j] = al.bars[s][j].close
                    /\ Highs(al.bars[s])[j] \in Int /\ Lows(al.bars[s])[j] \in Int
                    /\ Lows(al.bars[s])[j] <= Highs(al.bars[s])[j]
                    /\ pl.strategy # "ratio_reversion" => al.bars[s][j].close \in Nat
  OBVIOUS
<1>1. j \in 1..Len(al.dates) /\ j \in DOMAIN al.bars[s]
  BY DEF Seen
<1>2. Closes(al.bars[s]) = [v \in DOMAIN al.bars[s] |-> al.bars[s][v].close]
  BY TabledIs DEF Closes
<1>3. Highs(al.bars[s]) = [v \in DOMAIN al.bars[s] |-> al.bars[s][v].high]
  BY TabledIs DEF Highs
<1>4. Lows(al.bars[s]) = [v \in DOMAIN al.bars[s] |-> al.bars[s][v].low]
  BY TabledIs DEF Lows
<1> DEFINE bar == al.bars[s][j]
<1>5. SoundBar(pl, bar)
  BY <1>1 DEF Seen
<1>6. /\ Closes(al.bars[s])[j] = bar.close
      /\ Highs(al.bars[s])[j] = bar.high
      /\ Lows(al.bars[s])[j] = bar.low
  BY <1>1, <1>2, <1>3, <1>4
<1> HIDE DEF bar
<1>7. /\ bar.close \in Int /\ bar.high \in Int /\ bar.low \in Int
      /\ bar.low <= bar.close /\ bar.close <= bar.high
      /\ pl.strategy # "ratio_reversion" => bar.low > 0
  BY <1>5 DEF SoundBar
<1>8. bar.low <= bar.high /\ (pl.strategy # "ratio_reversion" => bar.close \in Nat)
  BY <1>7
<1> QED BY <1>6, <1>7, <1>8 DEF bar

\* A bar that opens a position does not ask to close it, strategy by strategy.
LEMMA PairsApart ==
  ASSUME NEW pr, NEW z, pr.entry_z \in Int, pr.exit_z \in Int, pr.exit_z >= 0,
         pr.entry_z > pr.exit_z, Defined(z) => z.num \in Int /\ z.den \in Int /\ z.den > 0,
         NEW p, p.in = 0, PairsStep(p, z, pr).in # 0
  PROVE  ~PairsLeaves(PairsStep(p, z, pr), z, pr)
<1>1. Flat.in = 0 /\ Enter(1).in = 1 /\ Enter(-1).in = -1
  BY DEF Flat, Enter
<1>2. z.num \in Int /\ z.den \in Int /\ z.den > 0
  BY <1>1 DEF PairsStep
<1>3. /\ -pr.entry_z \in Int /\ -pr.exit_z \in Int /\ -pr.entry_z < -pr.exit_z
      /\ pr.exit_z < pr.entry_z
  OBVIOUS
<1>4. ~(ZAtMost(z, -pr.entry_z) /\ ZAtLeast(z, -pr.exit_z))
  BY <1>2, <1>3, ZApart
<1>5. ~(ZAtMost(z, pr.exit_z) /\ ZAtLeast(z, pr.entry_z))
  BY <1>2, <1>3, ZApart
<1>6. \/ PairsStep(p, z, pr) = Enter(1) /\ ZAtMost(z, -pr.entry_z)
      \/ PairsStep(p, z, pr) = Enter(-1) /\ ZAtLeast(z, pr.entry_z)
  BY <1>1 DEF PairsStep
<1>7. CASE PairsStep(p, z, pr) = Enter(1) /\ ZAtMost(z, -pr.entry_z)
  <2>1. PairsLeaves(Enter(1), z, pr) => ZAtLeast(z, -pr.exit_z)
    BY <1>1 DEF PairsLeaves
  <2> QED BY <1>4, <1>7, <2>1
<1>8. CASE PairsStep(p, z, pr) = Enter(-1) /\ ZAtLeast(z, pr.entry_z)
  <2>1. PairsLeaves(Enter(-1), z, pr) => ZAtMost(z, pr.exit_z)
    BY <1>1 DEF PairsLeaves
  <2> QED BY <1>5, <1>8, <2>1
<1> QED BY <1>6, <1>7, <1>8

LEMMA RatioApart ==
  ASSUME NEW pr, NEW z, pr.entry_z \in Int, pr.exit_z \in Int, pr.exit_z > -pr.entry_z,
         Defined(z) => z.num \in Int /\ z.den \in Int /\ z.den > 0,
         NEW p, p.in = 0, RatioStep(p, z, pr).in # 0
  PROVE  ~RatioLeaves(z, pr)
<1>1. Defined(z) /\ ZAtMost(z, -pr.entry_z)
  BY DEF RatioStep, Flat
<1>2. -pr.entry_z \in Int /\ -pr.entry_z < pr.exit_z
  OBVIOUS
<1> QED BY <1>1, <1>2, ZApart DEF RatioLeaves

LEMMA TrendApart ==
  ASSUME NEW pr, NEW sma, NEW price \in Nat, pr.band \in Nat,
         Defined(sma) => sma.num \in Nat /\ sma.den \in Nat,
         NEW p, p.in = 0, TrendStep(p, price, sma, pr).in # 0
  PROVE  ~TrendLeaves(price, sma, pr)
<1>1. Defined(sma) /\ 10 * price * sma.den > sma.num * (10 + pr.band)
  BY DEF TrendStep, Flat
<1> DEFINE n == sma.num  d == sma.den  b == pr.band
<1>2. n \in Nat /\ d \in Nat /\ b \in Nat
  BY <1>1
<1>3. 10 * price * d > n * (10 + b)
  BY <1>1
<1> HIDE DEF n, d, b
<1>4. n * b >= 0 /\ n * (10 + b) = 10 * n + n * b /\ n * (10 - b) = 10 * n - n * b /\ n * b \in Int
  BY <1>2
<1>5. 10 * price * d \in Int
  BY <1>2
<1>6. ~(10 * price * d < n * (10 - b))
  BY <1>2, <1>3, <1>4, <1>5
<1> QED BY <1>6 DEF TrendLeaves, n, d, b

LEMMA RSI2Apart ==
  ASSUME NEW pr, NEW rsi, NEW sma, NEW price \in Nat, pr.rsi_entry \in Int, pr.rsi_exit \in Int,
         pr.rsi_entry < pr.rsi_exit,
         Defined(rsi) => rsi.num \in Int /\ rsi.den \in Int /\ rsi.den > 0,
         Defined(sma) => sma.num \in Nat /\ sma.den \in Nat,
         NEW p, p.in = 0, RSI2Step(p, price, rsi, sma, pr).in # 0
  PROVE  ~RSI2Leaves(price, rsi, sma, pr)
<1>1. Defined(rsi) /\ Defined(sma) /\ price * sma.den > sma.num /\ ~AtLeast(rsi, pr.rsi_entry)
  BY DEF RSI2Step, Flat
<1> DEFINE n == rsi.num  d == rsi.den  a == pr.rsi_entry  b == pr.rsi_exit
           m == sma.num  k == sma.den
<1>2. n \in Int /\ d \in Int /\ d > 0 /\ a \in Int /\ b \in Int /\ a < b /\ m \in Int /\ k \in Int
  BY <1>1
<1>3. ~(10 * n >= a * d) /\ price * k > m
  BY <1>1 DEF AtLeast
<1> HIDE DEF n, d, a, b, m, k
<1>4. (b - a) * d > 0 /\ (b - a) * d = b * d - a * d /\ b * d \in Int /\ a * d \in Int
  BY <1>2
<1>5. 10 * n <= b * d
  BY <1>2, <1>3, <1>4
<1>6. ~(price * k < m)
  BY <1>2, <1>3
<1> QED BY <1>5, <1>6 DEF RSI2Leaves, AtMost, n, d, b, m, k

\* The same of a plan Parse accepts and the sound bars a run saw.
LEMMA OpensApart ==
  ASSUME ReplayInv, plan.strategy \in Stateful, NEW al, Seen(plan, al),
         NEW s \in Range(plan.universe), NEW t \in 1..Len(al.dates),
         NEW p, p.in = 0, PositionAt(plan, al, s, p, t).in # 0
  PROVE  ~Leaves(al, s, t, PositionAt(plan, al, s, p, t))
<1> DEFINE pr == plan.params
           haven == Haven(plan.universe)
           x == Closes(al.bars[s])
           price == al.bars[s][t].close
<1>1. plan \in Plans /\ Parse(plan)
  BY DEF ReplayInv
<1>2. /\ t \in Nat \ {0} /\ \A j \in 1..t : j \in 1..Len(al.dates)
      /\ t \in 1..t /\ haven \in Range(plan.universe)
  BY <1>1, HavenIn DEF Seen
<1>3. \A j \in 1..t : /\ x[j] = al.bars[s][j].close /\ x[j] \in Int
                      /\ plan.strategy # "ratio_reversion" => x[j] \in Nat
  BY SeriesTypes
<1> DEFINE y == [j \in 1..t |-> al.bars[haven][j].close]
<1>4. \A j \in 1..t : y[j] = al.bars[haven][j].close /\ y[j] \in Int
  BY <1>2, SeriesTypes
<1> HIDE DEF x, y
<1>10. price = x[t] /\ price \in Int /\ (plan.strategy # "ratio_reversion" => price \in Nat)
  BY <1>2, <1>3
<1> HIDE DEF price, x, haven
<1>5. CASE plan.strategy = "pairs_zscore"
  <2> DEFINE xs == PairsSpread(pr, al, s, haven)
             z == ZScore(xs, t, Count(pr.lookback))
  <2>1. /\ Count(pr.lookback) \in Nat /\ pr.hedge_ratio \in Int
        /\ pr.entry_z \in Int /\ pr.exit_z \in Int
        /\ pr.exit_z >= 0 /\ pr.entry_z > pr.exit_z
    BY <1>1, <1>5, Counts DEF Parse, PairsParse, Known
  <2>2. xs = [u \in 1..Len(al.dates) |-> 10 * al.bars[s][u].close - pr.hedge_ratio * al.bars[haven][u].close]
    BY TabledIs DEF PairsSpread
  <2> HIDE DEF xs
  <2>7. \A j \in 1..t : j \in DOMAIN xs /\ xs[j] = 10 * x[j] - pr.hedge_ratio * y[j]
    BY <1>2, <1>3, <1>4, <2>2
  <2>3. \A j \in 1..t : j \in DOMAIN xs /\ xs[j] \in Int
    <3> SUFFICES ASSUME NEW j \in 1..t PROVE xs[j] \in Int
      BY <2>7
    <3> DEFINE a == x[j]  b == y[j]  ratio == pr.hedge_ratio
    <3>1. a \in Int /\ b \in Int /\ ratio \in Int
      BY <1>3, <1>4, <2>1
    <3>2. xs[j] = 10 * a - ratio * b
      BY <2>7
    <3> HIDE DEF a, b, ratio
    <3> QED BY <3>1, <3>2
  <2>4. Defined(z) => z.num \in Int /\ z.den \in Int /\ z.den > 0
    BY <1>2, <2>1, <2>3, ZScoreTypes
  <2>5. PositionAt(plan, al, s, p, t) = PairsStep(p, z, pr)
    BY <1>5 DEF PositionAt, PairsAt, xs, haven
  <2> HIDE DEF z
  <2>6. ~PairsLeaves(PairsStep(p, z, pr), z, pr)
    BY <2>1, <2>4, <2>5, PairsApart
  <2> QED BY <1>5, <2>5, <2>6 DEF Leaves, z, xs, haven
<1>6. CASE plan.strategy = "ratio_reversion"
  <2> DEFINE xs == RatioSeries(al, s, haven)
             z == ZScore(xs, t, Count(pr.lookback))
  <2>1. /\ Count(pr.lookback) \in Nat
        /\ pr.entry_z \in Int /\ pr.exit_z \in Int /\ pr.exit_z > -pr.entry_z
    BY <1>1, <1>6, Counts DEF Parse, RatioParse, Known
  <2>2. xs = [u \in 1..Len(al.dates) |-> al.bars[s][u].close - al.bars[haven][u].close]
    BY TabledIs DEF RatioSeries
  <2> HIDE DEF xs
  <2>7. \A j \in 1..t : j \in DOMAIN xs /\ xs[j] = x[j] - y[j]
    BY <1>2, <1>3, <1>4, <2>2
  <2>3. \A j \in 1..t : j \in DOMAIN xs /\ xs[j] \in Int
    BY <1>3, <1>4, <2>7
  <2>4. Defined(z) => z.num \in Int /\ z.den \in Int /\ z.den > 0
    BY <1>2, <2>1, <2>3, ZScoreTypes
  <2>5. PositionAt(plan, al, s, p, t) = RatioStep(p, z, pr)
    BY <1>6 DEF PositionAt, RatioAt, xs, haven
  <2> HIDE DEF z
  <2>6. ~RatioLeaves(z, pr)
    BY <2>1, <2>4, <2>5, RatioApart
  <2> QED BY <1>6, <2>6 DEF Leaves, z, xs, haven
<1>7. CASE plan.strategy = "sma_trend"
  <2> DEFINE sma == SMA(x, t, Count(pr.lookback))
  <2>1. Count(pr.lookback) \in Nat /\ pr.band \in Nat
    BY <1>1, <1>7, Counts DEF Parse, TrendParse, Known
  <2>5. t \in Nat /\ \A j \in 1..t : x[j] \in Nat
    BY <1>2, <1>3, <1>7
  <2>2. Defined(sma) => sma.num \in Nat /\ sma.den \in Nat
    <3> DEFINE L == Count(pr.lookback)
    <3> SUFFICES ASSUME Defined(SMA(x, t, L)) PROVE SMA(x, t, L).num \in Nat /\ SMA(x, t, L).den \in Nat
      OBVIOUS
    <3>1. L \in Nat
      BY <2>1
    <3> HIDE DEF L
    <3>2. SMA(x, t, L).num \in Nat /\ SMA(x, t, L).den = L
      BY <2>5, <3>1, SMATypes
    <3> QED BY <3>1, <3>2
  <2>3. PositionAt(plan, al, s, p, t) = TrendStep(p, price, sma, pr)
    BY <1>7 DEF PositionAt, TrendAt, x, price
  <2> HIDE DEF sma
  <2>4. ~TrendLeaves(price, sma, pr)
    BY <1>10, <1>7, <2>1, <2>2, <2>3, TrendApart
  <2> QED BY <1>10, <1>7, <2>4 DEF Leaves, sma, x
<1>8. CASE plan.strategy = "donchian_breakout"
  <2> DEFINE E == Count(pr.entry_lookback)
             X == Count(pr.exit_lookback)
             high == Highs(al.bars[s])
             low == Lows(al.bars[s])
  <2>1. /\ E \in Nat /\ X \in Nat /\ X >= 1 /\ pr.entry_lookback \in Int /\ pr.exit_lookback \in Int
        /\ pr.exit_lookback < pr.entry_lookback
        /\ pr.entry_lookback % 10 = 0 /\ pr.exit_lookback % 10 = 0
    BY <1>1, <1>8, Counts DEF Parse, DonchianParse, Known, Whole
  <2>2. X < E
    BY <2>1 DEF Count
  <2>3. \A j \in 1..t : high[j] \in Int /\ low[j] \in Int /\ low[j] <= high[j]
    BY SeriesTypes
  <2>4. PositionAt(plan, al, s, p, t) = DonchianStep(p, price, DonchianUpper(high, t, E), DonchianLower(low, t, X))
    BY <1>8 DEF PositionAt, DonchianAt, price
  <2> HIDE DEF E, X, high, low
  <2>5. Defined(DonchianUpper(high, t, E)) /\ price > DonchianUpper(high, t, E).num
    BY <2>4 DEF DonchianStep, Flat
  <2>6. Defined(DonchianLower(low, t, X)) /\ ~DonchianLeaves(price, DonchianLower(low, t, X))
    BY <1>2, <1>8, <1>10, <2>1, <2>2, <2>3, <2>5, ChannelsApart
  <2> QED BY <1>10, <1>8, <2>6 DEF Leaves, X, low, x
<1>9. CASE plan.strategy = "rsi2_reversion"
  <2> DEFINE sma == SMA(x, t, Count(pr.trend_lookback))
             rsi == WilderRSI(x, t)
  <2>1. /\ Count(pr.trend_lookback) \in Nat /\ pr.rsi_entry \in Int /\ pr.rsi_exit \in Int
        /\ pr.rsi_entry < pr.rsi_exit
    <3>1. /\ {"trend_lookback", "rsi_entry", "rsi_exit"} \subseteq DOMAIN pr
          /\ Whole(pr.trend_lookback, 2) /\ pr.rsi_entry < pr.rsi_exit
      BY <1>1, <1>9 DEF Parse, RSI2Parse, Known
    <3> QED BY <1>1, <3>1, Counts
  <2>6. t \in Nat /\ \A j \in 1..t : x[j] \in Nat
    BY <1>2, <1>3, <1>9
  <2>2. Defined(sma) => sma.num \in Nat /\ sma.den \in Nat
    <3> DEFINE L == Count(pr.trend_lookback)
    <3> SUFFICES ASSUME Defined(SMA(x, t, L)) PROVE SMA(x, t, L).num \in Nat /\ SMA(x, t, L).den \in Nat
      OBVIOUS
    <3>1. L \in Nat
      BY <2>1
    <3> HIDE DEF L
    <3>2. SMA(x, t, L).num \in Nat /\ SMA(x, t, L).den = L
      BY <2>6, <3>1, SMATypes
    <3> QED BY <3>1, <3>2
  <2>7. \A j \in 1..t : x[j] \in Int
    BY <2>6
  <2>3. Defined(rsi) => rsi.num \in Int /\ rsi.den \in Int /\ rsi.den > 0
    BY <2>6, <2>7, RSITypes
  <2>4. PositionAt(plan, al, s, p, t) = RSI2Step(p, price, rsi, sma, pr)
    BY <1>9 DEF PositionAt, RSI2At, x, price
  <2> HIDE DEF sma, rsi
  <2>5. ~RSI2Leaves(price, rsi, sma, pr)
    BY <1>10, <1>9, <2>1, <2>2, <2>3, <2>4, RSI2Apart
  <2> QED BY <1>10, <1>9, <2>5 DEF Leaves, sma, rsi, x
<1> QED BY <1>5, <1>6, <1>7, <1>8, <1>9 DEF Stateful

(* A bar that opens a position does not already ask to close it, whatever the
   bars: Parse keeps the thresholds of entry and exit apart, and the exit
   channel inside the entry channel (the Parse functions, donchian.go:79).   *)
THEOREM EntryIsNoExitAlways == ReplaySpec => []EntryIsNoExit
<1>1. ASSUME ReplayInv PROVE EntryIsNoExit
  <2> DEFINE al == told.seen
  <2> SUFFICES ASSUME JustRan, plan.strategy \in Stateful, NEW s \in Sleeves,
                      NEW t \in DOMAIN Positions(plan, al, s) \ {0},
                      Positions(plan, al, s)[t].in # 0,
                      Positions(plan, al, s)[t - 1].in = 0
               PROVE  ~Leaves(al, s, t, Positions(plan, al, s)[t])
    BY DEF EntryIsNoExit
  <2> DEFINE pos == Positions(plan, al, s)
             n == Len(al.dates)
  <2>1. Seen(plan, al) /\ n \in Nat /\ plan.strategy \in Replaying
    BY <1>1, JustSeen DEF Seen, Replaying
  <2>2. DOMAIN pos = 0..n /\ \A u \in 1..n : pos[u] = PositionAt(plan, al, s, pos[u - 1], u)
    BY <2>1, PositionsAre
  <2>3. t \in 1..n
    BY <2>1, <2>2
  <2>4. s \in Range(plan.universe)
    BY <1>1, HavenIn DEF ReplayInv, Sleeves
  <2> HIDE DEF pos, al
  <2>5. pos[t].in # 0 /\ pos[t - 1].in = 0
    BY DEF pos, al
  <2>6. ~Leaves(al, s, t, PositionAt(plan, al, s, pos[t - 1], t))
    BY <1>1, <2>1, <2>2, <2>3, <2>4, <2>5, OpensApart
  <2> QED BY <2>2, <2>3, <2>6 DEF pos, al
<1> QED BY <1>1, ReplayInvariant, PTL
=============================================================================
