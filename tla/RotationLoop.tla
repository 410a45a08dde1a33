---------------------------- MODULE RotationLoop ----------------------------
(***************************************************************************)
(* `bnb rotate`: the loop that fires the rotation's cycles through a       *)
(* session (rotation/loop.go, cmd/bnb/rotate.go), on the exchange's        *)
(* calendar, over the broker link, beside the operator's commands: halt    *)
(* and resume, `bnb login`, and a second process that signs in with the    *)
(* same token file (`bnb rotate -once`, `bnb discover`).  What a cycle     *)
(* does with the account is module Rotation.                               *)
(***************************************************************************)
EXTENDS Calendar, BrokerLink

CONSTANTS
  FirstDates,             \* the dates a behavior may begin on
  Days,                   \* bound: the days of a behavior
  Sessions,               \* reference: the sessions among the dates, each with its close
  Instants,               \* the minutes of a day the clock shows, in order
  ManageEvery             \* minutes between two management cycles

\* The loop is one of the callers; the clock shows some minutes of the day.
ASSUME LoopConstantsOK ==
  /\ "loop" \in Callers
  /\ Instants \in Seq(0..24 * 60 - 1) /\ Instants # <<>>
  /\ FirstDates \subseteq Nat /\ Days \in Nat

VARIABLES
  first,                  \* the date of the first day
  doing,                  \* down, starting, idle or cycle
  cycle,                  \* the loop's cycle: its phase and its start
  consulted,              \* the loop has looked at the clock at this instant
  done,                   \* the named phases fired, by session
  lastManage,             \* the start of the last management cycle
  halted,                 \* the halt marker is there
  begun,                  \* history: windows whose cycle has begun
  beganHere,              \* history: those of the process that is running
  free,                   \* history: windows the loop was awake in, not halted
  failed                  \* history: a cycle of the loop has failed

loopVars == <<first, doing, cycle, consulted, done, lastManage, halted,
              begun, beganHere, free, failed>>
vars == <<now, linkVars, loopVars>>

DayLength == 24 * 60
Today == first + now \div DayLength
Minute == now % DayLength

-----------------------------------------------------------------------------
(* The phase of an instant. *)

MarketOpen == 9 * 60 + 30
MarketClose == 16 * 60
Entry == 10 * 60 + 12
Review == 15 * 60 + 7
Window == 5
Closed == "closed"

PhaseAt(minute) ==
  IF Entry <= minute /\ minute < Entry + Window THEN "entry"
  ELSE IF Review <= minute /\ minute < Review + Window THEN "review"
  ELSE IF MarketOpen <= minute /\ minute < MarketClose THEN "manage"
  ELSE Closed

\* A faulty variant of PhaseNow: the early close is forgotten.
PhaseAnyDay(date, minute) ==
  IF IsSession(date) THEN PhaseAt(minute) ELSE Closed

PhaseNow(date, minute) ==
  IF IsSession(date) /\ minute < CloseOf(date) THEN PhaseAt(minute) ELSE Closed

\* A faulty variant of Throttled: every cycle waits for the last, named or not.
ThrottledAll(phase) == lastManage # 0 /\ now - lastManage < ManageEvery

Throttled(phase) ==
  phase = "manage" /\ lastManage # 0 /\ now - lastManage < ManageEvery

NoCycle == [phase |-> Closed, start |-> 0]

-----------------------------------------------------------------------------
(* The loop: one look at the clock for every tick.  A cycle asks the broker many
   things and ends at the first it is refused: one call stands for them.     *)

\* The named windows, if any, that this instant is in: 07:12 and 12:07 Pacific,
\* five minutes each, of the sessions that have not closed.
Span == [entry |-> 612..616, review |-> 907..911]
NamedWindows ==
  {<<Today, phase>> : phase \in {named \in DOMAIN Span :
     Today \in DOMAIN Sessions /\ Minute < Sessions[Today] /\ Minute \in Span[named]}}

Begin(p) == Move(p, Stage("begun"))

ConsultClock ==
  LET phase == PhaseNow(Today, Minute)
      due == /\ phase # Closed
             /\ ~Throttled(phase)
             /\ ~(phase # "manage" /\ <<Today, phase>> \in done)
  IN /\ doing["loop"] = "idle" /\ ~consulted
     /\ consulted' = TRUE
     /\ IF due /\ ~halted
        THEN /\ doing' = [doing EXCEPT !["loop"] = "cycle"]
             /\ cycle' = [phase |-> phase, start |-> now]
             /\ Begin("loop")
             /\ IF phase = "manage" THEN UNCHANGED <<begun, beganHere>>
                ELSE /\ begun' = begun \cup {<<Today, phase>>}
                     /\ beganHere' = beganHere \cup {<<Today, phase>>}
        ELSE UNCHANGED <<doing, cycle, call, begun, beganHere>>
     /\ free' = IF halted THEN free ELSE free \cup NamedWindows
     /\ UNCHANGED <<now, server, disk, memory, session, meddled, spoiled, troubles,
                    first, done, lastManage, halted, failed>>

\* A faulty variant of CycleEnds: a phase whose cycle failed is not marked.
CycleEndsUnmarked ==
  /\ doing["loop"] = "cycle" /\ call["loop"].at \in {"answered", "failed"}
  /\ Move("loop", AtRest)
  /\ doing' = [doing EXCEPT !["loop"] = "idle"]
  /\ cycle' = NoCycle
  /\ IF cycle.phase = "manage"
     THEN lastManage' = cycle.start /\ UNCHANGED done
     ELSE /\ done' = IF call["loop"].at = "failed" THEN done
                     ELSE done \cup {<<first + cycle.start \div DayLength, cycle.phase>>}
          /\ UNCHANGED lastManage
  /\ failed' = (failed \/ call["loop"].at = "failed")
  /\ UNCHANGED <<now, server, disk, memory, session, meddled, spoiled, troubles,
                 first, consulted, halted, begun, beganHere, free>>

(* The cycle is over, well or not; either way its phase is done for the day,
   and a management cycle is timed from its start.                          *)
CycleEnds ==
  /\ doing["loop"] = "cycle" /\ call["loop"].at \in {"answered", "failed"}
  /\ Move("loop", AtRest)
  /\ doing' = [doing EXCEPT !["loop"] = "idle"]
  /\ cycle' = NoCycle
  /\ IF cycle.phase = "manage"
     THEN lastManage' = cycle.start /\ UNCHANGED done
     ELSE /\ done' = done \cup {<<first + cycle.start \div DayLength, cycle.phase>>}
          /\ UNCHANGED lastManage
  /\ failed' = (failed \/ call["loop"].at = "failed")
  /\ UNCHANGED <<now, server, disk, memory, session, meddled, spoiled, troubles,
                 first, consulted, halted, begun, beganHere, free>>

-----------------------------------------------------------------------------
(* The processes: a start is a handshake and a look at the account. *)

Start(p) ==
  /\ doing[p] = "down"
  /\ IF p = "loop" THEN UNCHANGED troubles ELSE Trouble
  /\ doing' = [doing EXCEPT ![p] = "starting"]
  /\ Begin(p)
  /\ UNCHANGED <<now, server, disk, memory, session, meddled, spoiled,
                 first, cycle, consulted, done, lastManage, halted,
                 begun, beganHere, free, failed>>

Started(p) ==
  /\ doing[p] = "starting" /\ call[p].at = "answered"
  /\ IF p = "loop"
     THEN Move(p, AtRest) /\ doing' = [doing EXCEPT ![p] = "idle"]
     ELSE Begin(p) /\ doing' = [doing EXCEPT ![p] = "cycle"]
  /\ UNCHANGED <<now, server, disk, memory, session, meddled, spoiled, troubles,
                 first, cycle, consulted, done, lastManage, halted,
                 begun, beganHere, free, failed>>

\* A process is over: it could not start, its one cycle has ended, or it is killed.
Exit(p) ==
  /\ doing' = [doing EXCEPT ![p] = "down"]
  /\ Forget(p)
  /\ IF p = "loop"
     THEN /\ done' = {} /\ lastManage' = 0 /\ cycle' = NoCycle /\ beganHere' = {}
     ELSE UNCHANGED <<done, lastManage, cycle, beganHere>>
  /\ UNCHANGED <<now, first, consulted, halted, begun, free>>

Ends(p) ==
  /\ \/ doing[p] = "starting" /\ call[p].at = "failed"
     \/ p # "loop" /\ doing[p] = "cycle" /\ call[p].at \in {"answered", "failed"}
  /\ Exit(p)
  /\ failed' = (failed \/ p = "loop")
  /\ UNCHANGED troubles

Crash(p) ==
  /\ doing[p] # "down"
  /\ Trouble
  /\ Exit(p)
  /\ UNCHANGED failed

-----------------------------------------------------------------------------
(* The operator and the clock. *)

SetHalt ==
  /\ halted' = ~halted
  /\ IF halted THEN UNCHANGED troubles ELSE Trouble
  /\ UNCHANGED <<now, server, disk, memory, session, call, meddled, spoiled,
                 first, doing, cycle, consulted, done, lastManage,
                 begun, beganHere, free, failed>>

NextInstant ==
  LET after == {m \in Range(Instants) : m > Minute}
  IN IF after = {} THEN (now \div DayLength + 1) * DayLength + Instants[1]
     ELSE now - Minute + CHOOSE m \in after : \A other \in after : m <= other

\* The loop is asleep for less than the time between two instants.
TimePasses ==
  /\ now < Days * DayLength
  /\ doing["loop"] = "idle" => consulted
  /\ InTime(NextInstant - now)
  /\ now' = NextInstant
  /\ call' = Later(call)
  /\ consulted' = FALSE
  /\ UNCHANGED <<server, disk, memory, session, meddled, spoiled, troubles,
                 first, doing, cycle, done, lastManage, halted,
                 begun, beganHere, free, failed>>

-----------------------------------------------------------------------------
Init ==
  /\ first \in FirstDates
  /\ now = Instants[1]
  /\ LinkInit
  /\ doing = [p \in Callers |-> "down"]
  /\ cycle = NoCycle
  /\ consulted = FALSE
  /\ done = {}
  /\ lastManage = 0
  /\ halted = FALSE
  /\ begun = {}
  /\ beganHere = {}
  /\ free = {}
  /\ failed = FALSE

Next ==
  \/ LinkStep /\ UNCHANGED loopVars
  \/ ConsultClock \/ CycleEnds
  \/ \E p \in Callers : Start(p) \/ Started(p) \/ Ends(p) \/ Crash(p)
  \/ SetHalt \/ TimePasses

Spec == Init /\ [][Next]_vars

-----------------------------------------------------------------------------
(* Properties. *)

(* What the reference says of the dates is what the calendar computes of them
   (calendar.go): what the theorems about hours and windows suppose.        *)
CalendarAgrees ==
  \A date \in {start + day : start \in FirstDates, day \in 0..Days} :
    /\ date \in DOMAIN Sessions <=> IsSession(date)
    /\ date \in DOMAIN Sessions => Sessions[date] = CloseOf(date)

(* A cycle begins on a session of the exchange, before that day's close, and a
   named one in its own window, holidays and early closes included
   (phaseNow, calendar_test.go).                                            *)
CyclesKeepHours ==
  cycle # NoCycle =>
    LET date == first + cycle.start \div DayLength
        minute == cycle.start % DayLength
    IN /\ date \in DOMAIN Sessions /\ 570 <= minute /\ minute < Sessions[date]
       /\ cycle.phase = "entry" <=> minute \in 612..616
       /\ cycle.phase = "review" <=> minute \in 907..911

(* A window the loop was awake in once, not halted, has had its cycle: no
   management cycle before it, no halt lifted within it, no failure and no
   other day's phase takes its place (Serve).                               *)
WindowsAreServed == free \subseteq begun

(* No process fires a named phase twice in a session, not even when its cycle
   failed (Serve, done).                                                    *)
PhaseFiresOnce ==
  [][cycle' # cycle /\ cycle'.phase \in {"entry", "review"} => beganHere' # beganHere]_vars

(* A loop that nothing has meddled with, no fault of the broker and no other
   process on its sign-in, starts and ends every cycle well: the token never
   runs out under a call, and every refresh leads on to the next
   (Source.Token, Expired, Refresh).                                        *)
HealthyLoopSucceeds == failed => meddled # {}
=============================================================================
