------------------------- MODULE RotationLoopProofs -------------------------
(***************************************************************************)
(* Proofs about RotationLoop and the broker link under it, for any set of  *)
(* processes, any lifetime of a token, any clock, any dates and any number *)
(* of faults and logins: the loop's cycles keep the exchange's hours, no   *)
(* window it is awake in goes by, a phase fires once, the token on disk    *)
(* stays good, and a loop nobody meddles with does not fail.               *)
(***************************************************************************)
EXTENDS RotationLoop, WellFoundedInduction, TLAPS

Tokens == [refresh : Nat, expiry : Nat]
Stages ==
  [at : {"none", "begun", "sent", "late", "answered", "failed", "waiting"}]
    \cup [at : {"refreshed", "written"}, token : Tokens]
    \cup [at : {"opened"}, token : Tokens, seen : Nat]

LinkTypeOK ==
  /\ now \in Nat
  /\ rotates \in BOOLEAN
  /\ issued \in Nat /\ accepted \subseteq 1..issued
  /\ file \in Tokens /\ tmp \in Tokens /\ renamed \in Nat
  /\ memory \in [Procs -> Tokens]
  /\ session \in [Procs -> {"none", "open", "gone"}]
  /\ call \in [Procs -> Stages]
  /\ meddled \subseteq {"lost", "other", "refused"} /\ spoiled \in BOOLEAN

\* A refresh the server has answered and the process has not saved.
InFlight(p) == call[p].at \in Unsaved
USE DEF Unsaved

\* The tokens there are copies of.
Held ==
  {file, tmp} \cup {memory[p] : p \in Procs}
    \cup {call[p].token : p \in {q \in Procs : InFlight(q)}}

Live(token) == token.refresh \in accepted

(* Every token is of a refresh the server issued; of a server that replaces
   them, two copies of one refresh token are one token; of another, none is
   ever refused.                                                            *)
GrantsOK ==
  /\ \A t \in Held : t \in Unreadable \/ t.refresh \in 1..issued
  /\ rotates => \A t, u \in Held : t \notin Unreadable /\ t.refresh = u.refresh => t = u
  /\ ~rotates => 1..issued \subseteq accepted

\* While a token is on its way to the file the clock stands, and it is good.
FreshInFlight ==
  \A p \in Procs : InFlight(p) => Live(call[p].token) /\ ~Expired(call[p].token)

\* Where nothing was spoiled one process at a time is at the temporary file, and
\* finds there what it left.
SoleSaver ==
  ~spoiled =>
    /\ \A p, q \in Procs : call[p].at \in Saving /\ call[q].at \in Saving => p = q
    /\ \A p \in Procs : call[p].at = "opened" => call[p].seen = renamed /\ tmp = Emptied
    /\ \A p \in Procs : call[p].at = "written" => tmp = call[p].token

\* The file is good, or somebody will put a good token in it, unless it was spoiled.
FileHeals == spoiled \/ Live(file) \/ \E p \in Procs : InFlight(p)

LinkInv == LinkTypeOK /\ GrantsOK /\ FreshInFlight /\ SoleSaver /\ FileHeals

\* A process that is down, or waits for the clock, calls nobody.
AtRestInv ==
  /\ doing \in [Callers -> {"down", "starting", "idle", "cycle"}]
  /\ \A p \in Callers : doing[p] \in {"down", "idle"} => call[p].at = "none"

\* Another process that refreshes is on record, and stays there.
OthersOnRecord ==
  \A p \in Procs \ {"loop"} : InFlight(p) => "other" \in meddled

(* The loop alone, and nothing gone wrong: the file can be read, what the loop
   holds is what is in the file, and its calls are in time.                 *)
LoopAlone ==
  meddled = {} =>
    /\ file \notin Unreadable /\ ~spoiled
    /\ session["loop"] # "gone"
    /\ ~InFlight("loop") => memory["loop"] \in {NoToken, file}
    /\ call["loop"].at = "sent" => now + 1 <= memory["loop"].expiry
    /\ call["loop"].at = "late" => now <= memory["loop"].expiry
    /\ call["loop"].at # "failed"

HealthInv == OthersOnRecord /\ LoopAlone /\ HealthyLoopSucceeds

PhaseOf(c) == <<first + c.start \div DayLength, c.phase>>
InBound(minutes) == minutes \in Nat /\ minutes < (Days + 1) * DayLength
NamedCycle == cycle.phase \in {"entry", "review"}

(* The cycle that runs began in the phase of its start; a named one is on the
   books as begun, and what has begun in this process is done, or runs.     *)
CycleInv ==
  /\ first \in FirstDates /\ InBound(now)
  /\ doing["loop"] # "cycle" => cycle = NoCycle
  /\ doing["loop"] = "cycle" =>
       /\ cycle.phase \in {"entry", "review", "manage"}
       /\ InBound(cycle.start)
       /\ cycle.phase = PhaseNow(first + cycle.start \div DayLength, cycle.start % DayLength)
  /\ beganHere \subseteq IF NamedCycle THEN done \cup {PhaseOf(cycle)} ELSE done
  /\ done \subseteq begun
  /\ NamedCycle => PhaseOf(cycle) \in begun

-----------------------------------------------------------------------------
(* The clock and the stages of a call. *)

LEMMA Procs2 == "loop" \in Procs /\ SignIn \in Procs /\ "loop" # SignIn /\ Callers \subseteq Procs
BY LoopConstantsOK, LinkConstantsOK DEF Procs

LEMMA TokenTypes ==
  /\ NoToken \in Tokens
  /\ \A t \in Tokens : t.refresh \in Nat /\ t.expiry \in Nat
  /\ \A t \in Unreadable : t \in Tokens /\ t.refresh = 0
  /\ NoToken \in Unreadable /\ Emptied \in Unreadable /\ Garbled \in Unreadable
  /\ NoToken # Emptied /\ NoToken.expiry = 0
BY DEF NoToken, Emptied, Garbled, Unreadable, Tokens

\* A set of numbers that is not empty has a least one.
LEMMA LeastOf ==
  ASSUME NEW T, T \subseteq Nat, T # {}
  PROVE  \E x \in T : \A y \in T : x <= y
<1>1. PICK x \in T : \A y \in T : ~(<<y, x>> \in OpToRel(<, Nat))
  BY NatLessThanWellFounded, WFMin
<1>2. \A y \in T : ~(y < x)
  BY <1>1 DEF OpToRel
<1> QED BY <1>2

\* The instants of a day are minutes of it.
LEMMA FirstInstant ==
  /\ \A m \in Range(Instants) : m \in Nat /\ m < 1440
  /\ Instants[1] \in Range(Instants) /\ Days \in Nat
  /\ Instants[1] \in Nat /\ Instants[1] < (Days + 1) * DayLength
<1> DEFINE minutes == 0..1439
<1>1. Instants \in Seq(minutes) /\ Instants # <<>> /\ Days \in Nat
  BY LoopConstantsOK
<1>2. \A m \in minutes : m \in Nat /\ m < 1440
  OBVIOUS
<1> HIDE DEF minutes
<1>3. DOMAIN Instants = 1..Len(Instants) /\ Len(Instants) \in Nat /\ Len(Instants) # 0
  BY <1>1
<1>4. \A i \in DOMAIN Instants : Instants[i] \in minutes
  BY <1>1
<1>5. 1 \in DOMAIN Instants
  BY <1>3
<1>6. \A m \in Range(Instants) : m \in Nat /\ m < 1440
  BY <1>2, <1>4 DEF Range
<1>7. Instants[1] \in Range(Instants)
  BY <1>5 DEF Range
<1>8. Instants[1] \in Nat /\ Instants[1] < 1440 /\ Days \in Nat
  BY <1>1, <1>6, <1>7
<1>9. Instants[1] < (Days + 1) * DayLength
  BY <1>8 DEF DayLength
<1> QED BY <1>6, <1>7, <1>8, <1>9

\* The clock shows an instant of a day, and none after the bound.
LEMMA ClockMoves ==
  ASSUME now \in Nat
  PROVE  /\ NextInstant \in Nat
         /\ now < Days * DayLength => NextInstant < (Days + 1) * DayLength
<1> DEFINE after == {m \in Range(Instants) : m > Minute}
           next == CHOOSE m \in after : \A other \in after : m <= other
           day == now \div 1440
<1>1. /\ Minute = now % 1440
      /\ NextInstant = IF after = {} THEN (day + 1) * 1440 + Instants[1] ELSE now - Minute + next
  BY DEF Minute, DayLength, NextInstant
<1> SUFFICES /\ NextInstant \in Nat
             /\ now < Days * 1440 => NextInstant < (Days + 1) * 1440
  BY DEF DayLength
<1>2. /\ \A m \in Range(Instants) : m \in Nat /\ m < 1440
      /\ Instants[1] \in Range(Instants) /\ Days \in Nat
  BY FirstInstant
<1>3. Minute \in 0..1439 /\ now = 1440 * day + Minute /\ day \in Nat
  BY <1>1
<1>4. after \subseteq Range(Instants)
  OBVIOUS
<1> HIDE DEF day, after
<1>5. CASE after = {}
  <2>1. NextInstant = (day + 1) * 1440 + Instants[1]
    BY <1>1, <1>5
  <2>2. Instants[1] \in Nat /\ Instants[1] < 1440
    BY <1>2
  <2> QED BY <1>2, <1>3, <2>1, <2>2
<1>6. CASE after # {}
  <2>1. after \subseteq Nat
    BY <1>2, <1>4
  <2>2. \E m \in after : \A other \in after : m <= other
    BY <1>6, <2>1, LeastOf
  <2>3. next \in after
    BY <2>2
  <2> HIDE DEF next
  <2>4. next \in Nat /\ next < 1440
    BY <1>2, <1>4, <2>3
  <2>5. NextInstant = now - Minute + next
    BY <1>1, <1>6 DEF next
  <2> QED BY <1>2, <1>3, <2>4, <2>5
<1> QED BY <1>5, <1>6

LEMMA StageTypes ==
  /\ \A s \in {"none", "begun", "sent", "late", "answered", "failed", "waiting"} :
       Stage(s) \in Stages /\ Stage(s).at = s
  /\ AtRest \in Stages /\ AtRest.at = "none"
  /\ \A s \in {"refreshed", "written"}, t \in Tokens :
       Got(s, t) \in Stages /\ Got(s, t).at = s /\ Got(s, t).token = t
  /\ \A t \in Tokens, n \in Nat :
       LET opened == [at |-> "opened", token |-> t, seen |-> n]
       IN opened \in Stages /\ opened.at = "opened" /\ opened.token = t /\ opened.seen = n
BY DEF Stage, AtRest, Got, Stages

\* A move changes the stage of one process.
LEMMA Moved ==
  ASSUME LinkTypeOK, NEW p \in Procs, NEW stage \in Stages, Move(p, stage)
  PROVE  /\ call' \in [Procs -> Stages] /\ call'[p] = stage
         /\ \A q \in Procs : q # p => call'[q] = call[q]
BY DEF Move, LinkTypeOK

LEMMA TokenInFlight ==
  ASSUME LinkTypeOK, NEW p \in Procs, InFlight(p)
  PROVE  call[p].token \in Tokens
BY DEF LinkTypeOK, InFlight, Stages

\* The clock moves when nobody's token is on its way, and moves no call back.
LEMMA LaterStages ==
  ASSUME LinkTypeOK, NEW minutes, InTime(minutes), call' = Later(call)
  PROVE  /\ call' \in [Procs -> Stages]
         /\ \A p \in Procs : ~InFlight(p) /\ ~InFlight(p)'
         /\ \A p \in Procs : call[p].at # "late"
         /\ \A p \in Procs : IF call[p].at = "sent" THEN call'[p].at = "late" /\ minutes <= 1
                             ELSE call'[p] = call[p]
BY StageTypes DEF LinkTypeOK, InTime, Later, InFlight

-----------------------------------------------------------------------------
(* Types. *)

\* What a refresh makes of an expired token: a good one, of the old refresh token
\* or of the one that was issued for it.
LEMMA Renewed ==
  ASSUME LinkTypeOK, NEW held \in Tokens
  PROVE  LET new == Refreshed(held, TokenEndpoint(held))
         IN  /\ new \in Tokens /\ ~Expired(new)
             /\ new.refresh = IF rotates THEN issued + 1 ELSE held.refresh
             /\ new.expiry = now + Lifetime
<1>1. now \in Nat /\ issued \in Nat /\ Lifetime \in Nat /\ Lifetime >= 1
  BY LinkConstantsOK DEF LinkTypeOK
<1> QED BY <1>1 DEF Refreshed, TokenEndpoint, Tokens, Expired, NotTold

\* One more is issued, or none.
LEMMA MoreGrants ==
  ASSUME issued \in Nat, accepted \subseteq 1..issued,
         \/ issued' = issued + 1 /\ accepted' = accepted \cup {issued + 1}
         \/ issued' = issued /\ accepted' = accepted
  PROVE  issued' \in Nat /\ accepted' \subseteq 1..issued'
<1>1. \A a \in accepted : a \in 1..issued
  OBVIOUS
<1>2. CASE issued' = issued + 1 /\ accepted' = accepted \cup {issued + 1}
  <2> SUFFICES ASSUME NEW a \in accepted' PROVE a \in 1..issued'
    BY <1>2
  <2>1. a = issued + 1 \/ a \in 1..issued
    BY <1>1, <1>2
  <2> QED BY <1>2, <2>1
<1>3. CASE issued' = issued /\ accepted' = accepted
  BY <1>3
<1> QED BY <1>2, <1>3

LEMMA LinkTypeStart == Init => LinkTypeOK
<1> SUFFICES ASSUME Init PROVE LinkTypeOK
  OBVIOUS
<1>1. now \in Nat
  <2>1. Instants \in Seq(0..24 * 60 - 1) /\ Instants # <<>>
    BY LoopConstantsOK
  <2> DEFINE minutes == 0..24 * 60 - 1
  <2>2. minutes \subseteq Nat /\ Instants \in Seq(minutes)
    BY <2>1
  <2> HIDE DEF minutes
  <2>3. Instants[1] \in minutes
    BY <2>1, <2>2
  <2> QED BY <2>2, <2>3 DEF Init
<1>2. [refresh |-> 1, expiry |-> Lifetime] \in Tokens /\ NoToken \in Tokens
  BY LinkConstantsOK, TokenTypes DEF Tokens
<1>3. /\ rotates \in BOOLEAN /\ issued \in Nat /\ accepted \subseteq 1..issued
      /\ file \in Tokens /\ tmp \in Tokens /\ renamed \in Nat
      /\ meddled \subseteq {"lost", "other", "refused"} /\ spoiled \in BOOLEAN
  BY <1>2 DEF Init, LinkInit
<1>4. /\ memory \in [Procs -> Tokens]
      /\ session \in [Procs -> {"none", "open", "gone"}]
      /\ call \in [Procs -> Stages]
  BY <1>2, StageTypes DEF Init, LinkInit
<1> QED BY <1>1, <1>3, <1>4 DEF LinkTypeOK

\* Where a write may land, and what it leaves there.
LEMMA Landed ==
  ASSUME LinkTypeOK, NEW p \in Procs, Write(p) \/ WriteFails(p)
  PROVE  /\ file' \in {file, call[p].token, Garbled} /\ tmp' \in {tmp, call[p].token, Garbled}
         /\ Write(p) /\ renamed = call[p].seen /\ tmp = Emptied => tmp' = call[p].token /\ file' = file
<1> DEFINE seen == call[p].seen
<1>1. call[p].at = "opened"
  BY DEF Write, WriteFails
<1>2. renamed # seen \/ renamed # seen + 1
  BY <1>1 DEF LinkTypeOK, Stages
<1>3. CASE Write(p)
  <2>1. Lands(p, Over(tmp, call[p].token), Over(file, call[p].token))
    BY <1>3 DEF Write
  <2>2. \/ renamed = seen /\ tmp' \in Over(tmp, call[p].token) /\ file' = file
        \/ renamed # seen /\ file' \in Over(file, call[p].token) /\ tmp' = tmp
        \/ renamed # seen /\ file' = file /\ tmp' = tmp
    BY <1>2, <2>1 DEF Lands
  <2>3. /\ Over(tmp, call[p].token) \subseteq {call[p].token, Garbled}
        /\ Over(file, call[p].token) \subseteq {call[p].token, Garbled}
        /\ tmp = Emptied => Over(tmp, call[p].token) = {call[p].token}
    BY DEF Over
  <2> QED BY <2>2, <2>3
<1>4. CASE WriteFails(p)
  <2>1. Lands(p, {tmp, Garbled}, {file, Garbled})
    BY <1>4 DEF WriteFails
  <2>2. /\ file' \in {file, Garbled} /\ tmp' \in {tmp, Garbled}
        /\ ~Write(p)
    <3>1. file' \in {file, Garbled} /\ tmp' \in {tmp, Garbled}
      BY <1>2, <2>1 DEF Lands
    <3>2. ~Write(p)
      <4>1. Stage("failed").at # Got("written", call[p].token).at
        BY DEF Stage, Got
      <4>2. call \in [Procs -> Stages]
        BY DEF LinkTypeOK
      <4> QED BY <1>4, <4>1, <4>2 DEF WriteFails, Write, Move
    <3> QED BY <3>1, <3>2
  <2> QED BY <2>2
<1> QED BY <1>3, <1>4

LEMMA LinkTypeLink ==
  ASSUME LinkTypeOK, LinkStep
  PROVE  LinkTypeOK'
<1> USE DEF LinkTypeOK, server, disk, Trouble, Meddle
<1>1. PICK p \in Procs :
        \/ LoseAnswer(p) \/ OpenTmp(p) \/ Write(p) \/ WriteFails(p) \/ Rename(p)
        \/ p # SignIn /\ (Token(p) \/ Answer(p) \/ SessionGone(p) \/ Unauthorized(p) \/ DropSession(p))
        \/ p = SignIn /\ (LoginBegins \/ Redirected)
  BY DEF LinkStep
<1>2. now' = now
  BY DEF LinkStep
<1>3. CASE LoseAnswer(p)
  <2>1. Move(p, Stage("failed"))
    BY <1>3 DEF LoseAnswer
  <2>2. call' \in [Procs -> Stages]
    BY <2>1, StageTypes, Moved
  <2> QED BY <1>2, <1>3, <2>2 DEF LoseAnswer
<1>4. CASE OpenTmp(p)
  <2> DEFINE opened == [at |-> "opened", token |-> call[p].token, seen |-> renamed]
  <2>1. call[p].token \in Tokens
    BY <1>4, TokenInFlight DEF OpenTmp, InFlight
  <2>2. Move(p, opened) /\ opened \in Stages
    BY <1>4, <2>1, StageTypes DEF OpenTmp
  <2>3. call' \in [Procs -> Stages]
    BY <2>2, Moved
  <2> QED BY <1>2, <1>4, <2>3, TokenTypes DEF OpenTmp
<1>5. CASE Write(p) \/ WriteFails(p)
  <2>1. call[p].token \in Tokens
    BY <1>5, TokenInFlight DEF Write, WriteFails, InFlight
  <2>2. Move(p, Got("written", call[p].token)) \/ Move(p, Stage("failed"))
    BY <1>5 DEF Write, WriteFails
  <2>3. call' \in [Procs -> Stages]
    BY <2>1, <2>2, StageTypes, Moved
  <2>4. file' \in Tokens /\ tmp' \in Tokens
    BY <1>5, <2>1, Landed, TokenTypes
  <2>5. /\ UNCHANGED <<rotates, issued, accepted, renamed, memory, session>>
        /\ meddled' \subseteq {"lost", "other", "refused"} /\ spoiled' \in BOOLEAN
    BY <1>5 DEF Write, WriteFails
  <2> QED BY <1>2, <2>3, <2>4, <2>5
<1>6. CASE Rename(p)
  <2>1. call[p].token \in Tokens
    BY <1>6, TokenInFlight DEF Rename, InFlight
  <2>2. Move(p, Stage("failed")) \/ Move(p, Stage("answered")) \/ Move(p, Stage("sent"))
    BY <1>6 DEF Rename
  <2>3. call' \in [Procs -> Stages]
    BY <2>2, StageTypes, Moved
  <2>4. /\ memory' \in [Procs -> Tokens] /\ file' \in Tokens /\ tmp' \in Tokens
        /\ renamed' \in Nat /\ spoiled' \in BOOLEAN
    <3>1. memory' = memory \/ memory' = [memory EXCEPT ![p] = call[p].token]
      BY <1>6 DEF Rename
    <3>2. /\ file' \in {file, tmp} /\ tmp' \in {tmp, NoToken}
          /\ renamed' \in {renamed, renamed + 1}
      BY <1>6 DEF Rename
    <3>3. \/ spoiled' = spoiled
          \/ spoiled' = (spoiled /\ (tmp # call[p].token \/ OthersSaving(p)))
      BY <1>6 DEF Rename
    <3>4. spoiled' \in BOOLEAN
      BY <3>3, Zenon
    <3> QED BY <2>1, <3>1, <3>2, <3>4, TokenTypes
  <2> QED BY <1>2, <1>6, <2>3, <2>4 DEF Rename
<1>7. CASE p # SignIn /\ Token(p)
  <2> DEFINE held == IF memory[p] = NoToken THEN file ELSE memory[p]
             new == Refreshed(held, TokenEndpoint(held))
  <2>1. held \in Tokens
    OBVIOUS
  <2>2. new \in Tokens
    BY <2>1, Renewed
  <2>3. Move(p, Stage("failed")) \/ Move(p, Stage("sent")) \/ Move(p, Got("refreshed", new))
    BY <1>7 DEF Token
  <2>4. call' \in [Procs -> Stages]
    BY <2>2, <2>3, StageTypes, Moved
  <2>5. memory' \in [Procs -> Tokens]
    BY <1>7, <2>1 DEF Token
  <2>6. /\ issued' \in Nat /\ accepted' \subseteq 1..issued' /\ rotates' = rotates
        /\ meddled' \subseteq {"lost", "other", "refused"}
    BY <1>7 DEF Token
  <2> QED BY <1>2, <1>7, <2>4, <2>5, <2>6 DEF Token
<1>8. CASE p # SignIn /\ Answer(p)
  <2>1. Move(p, Stage("failed")) \/ Move(p, Stage("answered"))
    BY <1>8 DEF Answer
  <2>2. call' \in [Procs -> Stages]
    BY <2>1, StageTypes, Moved
  <2>3. meddled' \subseteq {"lost", "other", "refused"}
    BY <1>8 DEF Answer
  <2> QED BY <1>2, <1>8, <2>2, <2>3 DEF Answer
<1>9. CASE p # SignIn /\ (SessionGone(p) \/ Unauthorized(p))
  <2>1. Move(p, Stage("failed"))
    BY <1>9 DEF SessionGone, Unauthorized
  <2>2. call' \in [Procs -> Stages]
    BY <2>1, StageTypes, Moved
  <2> QED BY <1>2, <1>9, <2>2 DEF SessionGone, Unauthorized
<1>10. CASE p # SignIn /\ DropSession(p)
  BY <1>2, <1>10 DEF DropSession
<1>11. CASE p = SignIn /\ LoginBegins
  <2>1. Move(SignIn, Stage("waiting"))
    BY <1>11 DEF LoginBegins
  <2>2. call' \in [Procs -> Stages]
    BY <2>1, Procs2, StageTypes, Moved
  <2> QED BY <1>2, <1>11, <2>2 DEF LoginBegins
<1>12. CASE p = SignIn /\ Redirected
  <2> DEFINE new == [refresh |-> issued + 1, expiry |-> now + Lifetime]
  <2>1. new \in Tokens
    BY LinkConstantsOK DEF Tokens
  <2>2. Move(SignIn, Stage("failed")) \/ Move(SignIn, Got("refreshed", new))
    BY <1>12 DEF Redirected
  <2>3. call' \in [Procs -> Stages]
    BY <2>1, <2>2, Procs2, StageTypes, Moved
  <2>4. \/ issued' = issued + 1 /\ accepted' = accepted \cup {issued + 1}
        \/ issued' = issued /\ accepted' = accepted
    BY <1>12 DEF Redirected
  <2>5. issued' \in Nat /\ accepted' \subseteq 1..issued'
    BY <2>4, MoreGrants
  <2>6. rotates' = rotates /\ meddled' \subseteq {"lost", "other", "refused"}
    BY <1>12 DEF Redirected
  <2> QED BY <1>2, <1>12, <2>3, <2>5, <2>6 DEF Redirected
<1> QED BY <1>1, <1>3, <1>4, <1>5, <1>6, <1>7, <1>8, <1>9, <1>10, <1>11, <1>12

(* What the loop's own steps, the operator's and the clock's are to the link:
   nothing, a call begun or put away, a process that ends, or time.         *)
Untouched == UNCHANGED <<now, server, disk, memory, session, call, meddled, spoiled>>

Turns(p) ==
  /\ ~InFlight(p)
  /\ \E s \in {"none", "begun"} : Move(p, Stage(s))
  /\ UNCHANGED <<now, server, disk, memory, session, meddled, spoiled>>

Dies(p) == Forget(p) /\ UNCHANGED now

Ticks ==
  /\ InTime(NextInstant - now)
  /\ now' = NextInstant
  /\ call' = Later(call)
  /\ UNCHANGED <<server, disk, memory, session, meddled, spoiled>>

LEMMA LoopOnLink ==
  ASSUME LinkTypeOK, AtRestInv, [Next]_vars, ~LinkStep
  PROVE  Untouched \/ Ticks \/ \E p \in Callers : Turns(p) \/ Dies(p)
<1> USE DEF Stage, AtRest, server, disk
<1>1. CASE ConsultClock
  <2>1. call["loop"].at = "none"
    BY <1>1, LoopConstantsOK DEF ConsultClock, AtRestInv
  <2>2. call' = call \/ Move("loop", Stage("begun"))
    BY <1>1 DEF ConsultClock, Begin
  <2>3. UNCHANGED <<now, server, disk, memory, session, meddled, spoiled>>
    BY <1>1 DEF ConsultClock
  <2> QED BY <2>1, <2>2, <2>3, LoopConstantsOK DEF Untouched, Turns, InFlight
<1>2. CASE CycleEnds
  <2>1. ~InFlight("loop") /\ Move("loop", Stage("none"))
    BY <1>2 DEF CycleEnds, InFlight
  <2>2. UNCHANGED <<now, server, disk, memory, session, meddled, spoiled>>
    BY <1>2 DEF CycleEnds
  <2> QED BY <2>1, <2>2, LoopConstantsOK DEF Turns
<1>3. ASSUME NEW p \in Callers, Start(p) PROVE Turns(p)
  <2>1. call[p].at = "none"
    BY <1>3 DEF Start, AtRestInv
  <2> QED BY <1>3, <2>1 DEF Start, Begin, Turns, InFlight
<1>4. ASSUME NEW p \in Callers, Started(p) PROVE Turns(p)
  BY <1>4 DEF Started, Begin, Turns, InFlight
<1>5. ASSUME NEW p \in Callers, Ends(p) \/ Crash(p) PROVE Dies(p)
  BY <1>5 DEF Ends, Crash, Exit, Dies
<1>6. CASE SetHalt
  BY <1>6 DEF SetHalt, Untouched
<1>7. CASE TimePasses
  BY <1>7 DEF TimePasses, Ticks
<1>8. CASE UNCHANGED vars
  BY <1>8 DEF vars, linkVars, Untouched
<1> QED BY <1>1, <1>2, <1>3, <1>4, <1>5, <1>6, <1>7, <1>8 DEF Next

LEMMA LinkTypeLoop ==
  ASSUME LinkTypeOK, Untouched \/ Ticks \/ \E p \in Callers : Turns(p) \/ Dies(p)
  PROVE  LinkTypeOK'
<1> USE DEF server, disk
<1>1. CASE Untouched
  BY <1>1 DEF Untouched, LinkTypeOK
<1>2. CASE Ticks
  <2>1. call' \in [Procs -> Stages]
    BY <1>2, LaterStages DEF Ticks
  <2>2. now' \in Nat
    BY <1>2, ClockMoves DEF Ticks, LinkTypeOK
  <2> QED BY <1>2, <2>1, <2>2 DEF Ticks, LinkTypeOK
<1>3. ASSUME NEW p \in Callers, Turns(p) PROVE LinkTypeOK'
  <2>1. call' \in [Procs -> Stages]
    BY <1>3, Procs2, StageTypes, Moved DEF Turns
  <2> QED BY <1>3, <2>1 DEF Turns, LinkTypeOK
<1>4. ASSUME NEW p \in Callers, Dies(p) PROVE LinkTypeOK'
  <2>1. call' \in [Procs -> Stages]
    BY <1>4, Procs2, StageTypes, Moved DEF Dies, Forget
  <2>2. memory' \in [Procs -> Tokens] /\ session' \in [Procs -> {"none", "open", "gone"}]
    BY <1>4, TokenTypes DEF Dies, Forget, LinkTypeOK
  <2>3. meddled' \subseteq {"lost", "other", "refused"} /\ spoiled' \in BOOLEAN
    <3>1. \/ meddled' = meddled \cup {"lost"} /\ spoiled' = TRUE
          \/ meddled' = meddled /\ spoiled' = spoiled
      BY <1>4 DEF Dies, Forget, Meddle
    <3> QED BY <3>1 DEF LinkTypeOK
  <2> QED BY <1>4, <2>1, <2>2, <2>3 DEF Dies, Forget, LinkTypeOK
<1> QED BY <1>1, <1>2, <1>3, <1>4

\* A step of the link moves one call, which had begun.
LEMMA OneMoves ==
  ASSUME LinkStep
  PROVE  \E q \in Procs : \E stage :
           call' = call \/ (Move(q, stage) /\ (q = SignIn \/ call[q].at # "none"))
<1>1. PICK q \in Procs :
        \/ LoseAnswer(q) \/ OpenTmp(q) \/ Write(q) \/ WriteFails(q) \/ Rename(q)
        \/ q # SignIn /\ (Token(q) \/ Answer(q) \/ SessionGone(q) \/ Unauthorized(q) \/ DropSession(q))
        \/ q = SignIn /\ (LoginBegins \/ Redirected)
  BY DEF LinkStep
<1>2. CASE LoseAnswer(q) \/ OpenTmp(q) \/ Write(q) \/ WriteFails(q)
  BY <1>2 DEF LoseAnswer, OpenTmp, Write, WriteFails
<1>3. CASE Rename(q)
  BY <1>3 DEF Rename
<1>4. CASE Token(q)
  BY <1>4 DEF Token
<1>5. CASE Answer(q)
  BY <1>5 DEF Answer
<1>6. CASE SessionGone(q) \/ Unauthorized(q) \/ DropSession(q)
  BY <1>6 DEF SessionGone, Unauthorized, DropSession
<1>7. CASE q = SignIn /\ LoginBegins
  BY <1>7 DEF LoginBegins
<1>8. CASE q = SignIn /\ Redirected
  BY <1>8 DEF Redirected
<1> QED BY <1>1, <1>2, <1>3, <1>4, <1>5, <1>6, <1>7, <1>8

LEMMA AtRestStart == Init => AtRestInv
BY Procs2 DEF Init, LinkInit, AtRestInv, AtRest

LEMMA AtRestStep == LinkTypeOK /\ AtRestInv /\ [Next]_vars => AtRestInv'
<1> SUFFICES ASSUME LinkTypeOK, AtRestInv, [Next]_vars PROVE AtRestInv'
  OBVIOUS
<1> USE DEF AtRestInv
<1>1. CASE LinkStep /\ UNCHANGED loopVars
  <2>1. \A p \in Callers : call[p].at = "none" => call'[p] = call[p]
    <3> SUFFICES ASSUME NEW p \in Callers, call[p].at = "none" PROVE call'[p] = call[p]
      OBVIOUS
    <3>1. PICK q \in Procs : \E stage :
            call' = call \/ (Move(q, stage) /\ (q = SignIn \/ call[q].at # "none"))
      BY <1>1, OneMoves
    <3>2. p # SignIn /\ p \in Procs /\ call \in [Procs -> Stages]
      BY LinkConstantsOK, Procs2 DEF LinkTypeOK
    <3> QED BY <3>1, <3>2 DEF Move
  <2> QED BY <1>1, <2>1 DEF loopVars
<1>2. CASE ConsultClock
  <2>1. \/ UNCHANGED <<doing, call>>
        \/ doing' = [doing EXCEPT !["loop"] = "cycle"] /\ Move("loop", Stage("begun"))
    BY <1>2 DEF ConsultClock, Begin
  <2> QED BY <2>1, LoopConstantsOK, Procs2 DEF Move, LinkTypeOK
<1>3. CASE CycleEnds
  BY <1>3, LoopConstantsOK, Procs2 DEF CycleEnds, Move, AtRest, LinkTypeOK
<1>4. ASSUME NEW p \in Callers, Start(p) \/ Started(p) PROVE AtRestInv'
  <2>1. CASE Start(p)
    BY <1>4, <2>1, Procs2 DEF Start, Begin, Move, LinkTypeOK
  <2>2. CASE Started(p) /\ p = "loop"
    BY <1>4, <2>2, Procs2 DEF Started, Move, AtRest, LinkTypeOK
  <2>3. CASE Started(p) /\ p # "loop"
    BY <1>4, <2>3, Procs2 DEF Started, Begin, Move, LinkTypeOK
  <2> QED BY <1>4, <2>1, <2>2, <2>3
<1>5. ASSUME NEW p \in Callers, Ends(p) \/ Crash(p) PROVE AtRestInv'
  BY <1>5, Procs2 DEF Ends, Crash, Exit, Forget, Move, AtRest, LinkTypeOK
<1>6. CASE SetHalt
  BY <1>6 DEF SetHalt
<1>7. CASE TimePasses
  BY <1>7, Procs2 DEF TimePasses, Later, Stage
<1>8. CASE UNCHANGED vars
  BY <1>8 DEF vars, loopVars, linkVars
<1> QED BY <1>1, <1>2, <1>3, <1>4, <1>5, <1>6, <1>7, <1>8 DEF Next

-----------------------------------------------------------------------------
(* The token on disk. *)

LinkSafe == GrantsOK /\ FreshInFlight /\ SoleSaver /\ FileHeals

\* What Held is made of.
LEMMA InHeld ==
  /\ file \in Held /\ tmp \in Held
  /\ \A p \in Procs : memory[p] \in Held /\ (InFlight(p) => call[p].token \in Held)
  /\ \A t \in Held : \/ t = file \/ t = tmp
                      \/ \E p \in Procs : t = memory[p] \/ (InFlight(p) /\ t = call[p].token)
BY DEF Held

LEMMA HeldAreTokens == LinkTypeOK => Held \subseteq Tokens
<1> SUFFICES ASSUME LinkTypeOK, NEW t \in Held PROVE t \in Tokens
  OBVIOUS
<1>1. file \in Tokens /\ tmp \in Tokens /\ \A p \in Procs : memory[p] \in Tokens
  BY DEF LinkTypeOK
<1> QED BY <1>1, InHeld, TokenInFlight

\* A good token can be read.
LEMMA LiveIsReadable ==
  ASSUME LinkTypeOK, NEW t, Live(t)
  PROVE  t \notin Unreadable
<1>1. \A r \in 1..issued : r # 0
  BY DEF LinkTypeOK
<1> QED BY <1>1, TokenTypes DEF Live, LinkTypeOK

\* Copies are made of what there is, or of nothing that can be read.
LEMMA GrantsKept ==
  ASSUME GrantsOK, Held' \subseteq Held \cup Unreadable, UNCHANGED server
  PROVE  GrantsOK'
<1>1. \A t \in Held' : t \in Unreadable \/ t \in Held
  OBVIOUS
<1>2. UNCHANGED <<rotates, accepted, issued>>
  BY DEF server
<1>3. \A t \in Held' : t \in Unreadable \/ t.refresh \in 1..issued
  BY <1>1 DEF GrantsOK
<1>4. ASSUME rotates, NEW t \in Held', NEW u \in Held', t \notin Unreadable, t.refresh = u.refresh
      PROVE  t = u
  <2>1. CASE u \in Unreadable
    <3>1. u.refresh = 0 /\ t.refresh \in 1..issued
      BY <1>3, <1>4, <2>1, TokenTypes
    <3> QED BY <1>4, <3>1
  <2>2. CASE u \in Held
    BY <1>1, <1>4, <2>2 DEF GrantsOK
  <2> QED BY <1>1, <2>1, <2>2
<1> QED BY <1>2, <1>3, <1>4 DEF GrantsOK

\* The token of a grant that has just been issued is like no other.
LEMMA GrantsGrow ==
  ASSUME LinkTypeOK, GrantsOK, NEW new, new.refresh = issued + 1,
         Held' \subseteq Held \cup {new},
         issued' = issued + 1, rotates' = rotates,
         ~rotates => accepted' = accepted \cup {issued + 1}
  PROVE  GrantsOK'
<1>1. \A t \in Held' : t = new \/ t \in Held
  OBVIOUS
<1>2. issued \in Nat
  BY DEF LinkTypeOK
<1>3. \A t \in Held : t \in Unreadable \/ (t.refresh \in 1..issued /\ t.refresh \in 1..issued + 1)
  <2>1. \A r \in 1..issued : r \in 1..issued + 1
    BY <1>2
  <2> QED BY <2>1 DEF GrantsOK
<1>4. \A t \in Held' : t \in Unreadable \/ t.refresh \in 1..issued + 1
  BY <1>1, <1>2, <1>3
<1>5. \A t \in Held : t.refresh # new.refresh
  <2>1. 0 # issued + 1 /\ \A r \in 1..issued : r # issued + 1
    BY <1>2
  <2> QED BY <1>3, <2>1, TokenTypes
<1>6. ASSUME rotates, NEW t \in Held', NEW u \in Held', t \notin Unreadable, t.refresh = u.refresh
      PROVE  t = u
  BY <1>1, <1>5, <1>6 DEF GrantsOK
<1>7. ASSUME ~rotates PROVE 1..issued + 1 \subseteq accepted'
  <2>1. \A r \in 1..issued + 1 : r \in 1..issued \/ r = issued + 1
    BY <1>2
  <2> QED BY <1>7, <2>1 DEF GrantsOK
<1> QED BY <1>4, <1>6, <1>7 DEF GrantsOK

(* A call that is not of a refresh leaves the file as good as it was; one whose
   refresh is lost is known to.                                             *)
LEMMA PutAway ==
  ASSUME LinkTypeOK, LinkSafe, NEW p \in Procs,
         \A q \in Procs : q # p => call'[q] = call[q],
         ~InFlight(p)',
         UNCHANGED <<now, server>>,
         \A q \in Procs : memory'[q] \in Held \cup Unreadable,
         file' \in Held \cup Unreadable, tmp' \in Held \cup Unreadable,
         spoiled' \/ (UNCHANGED <<disk, spoiled>> /\ ~InFlight(p))
  PROVE  LinkSafe'
<1>1. \A q \in Procs : InFlight(q)' => q # p /\ InFlight(q) /\ call'[q] = call[q]
  BY DEF InFlight
<1>2. Held' \subseteq Held \cup Unreadable
  <2> SUFFICES ASSUME NEW t \in Held' PROVE t \in Held \cup Unreadable
    OBVIOUS
  <2>1. \/ t = file' \/ t = tmp'
        \/ \E q \in Procs : t = memory'[q] \/ (InFlight(q)' /\ t = call'[q].token)
    BY DEF Held
  <2> QED BY <1>1, <2>1, InHeld
<1>3. GrantsOK'
  BY <1>2, GrantsKept DEF LinkSafe
<1>4. FreshInFlight'
  BY <1>1 DEF LinkSafe, FreshInFlight, Live, Expired, server
<1>5. CASE spoiled'
  BY <1>3, <1>4, <1>5 DEF LinkSafe, SoleSaver, FileHeals
<1>6. CASE UNCHANGED <<disk, spoiled>> /\ ~InFlight(p)
  <2>1. SoleSaver'
    <3>1. \A q \in Procs : call'[q].at \in Saving => call'[q] = call[q]
      BY <1>1 DEF Saving, InFlight
    <3> QED BY <1>6, <3>1 DEF LinkSafe, SoleSaver, Saving, disk
  <2>2. \A q \in Procs : InFlight(q) => InFlight(q)'
    BY <1>6 DEF InFlight
  <2>3. FileHeals'
    BY <1>6, <2>2 DEF LinkSafe, FileHeals, Live, server, disk
  <2> QED BY <1>3, <1>4, <2>1, <2>3 DEF LinkSafe
<1> QED BY <1>5, <1>6

LEMMA StandsStill ==
  ASSUME LinkTypeOK, LinkSafe, UNCHANGED <<now, server, disk, memory, call, spoiled>>
  PROVE  LinkSafe'
<1> USE DEF server, disk
<1>1. Held' \subseteq Held \cup Unreadable
  BY DEF Held, InFlight
<1>2. GrantsOK'
  BY <1>1, GrantsKept DEF LinkSafe
<1>3. FreshInFlight' /\ SoleSaver' /\ FileHeals'
  BY DEF LinkSafe, FreshInFlight, SoleSaver, FileHeals, InFlight, Live, Expired
<1> QED BY <1>2, <1>3 DEF LinkSafe

\* A step of a save, up to the rename, keeps the token in hand, and puts no other
\* into a file.
LEMMA Carries ==
  ASSUME LinkTypeOK, LinkSafe, NEW p \in Procs, InFlight(p), InFlight(p)',
         call'[p].token = call[p].token,
         \A q \in Procs : q # p => call'[q] = call[q],
         UNCHANGED <<now, server, memory>>,
         file' \in Held \cup Unreadable, tmp' \in Held \cup Unreadable
  PROVE  GrantsOK' /\ FreshInFlight' /\ FileHeals'
<1>1. \A q \in Procs : InFlight(q)' => InFlight(q) /\ call'[q].token = call[q].token
  BY DEF InFlight
<1>2. Held' \subseteq Held \cup Unreadable
  <2> SUFFICES ASSUME NEW t \in Held' PROVE t \in Held \cup Unreadable
    OBVIOUS
  <2>1. \/ t = file' \/ t = tmp'
        \/ \E q \in Procs : t = memory[q] \/ (InFlight(q)' /\ t = call'[q].token)
    BY DEF Held
  <2> QED BY <1>1, <2>1, InHeld
<1>3. GrantsOK'
  BY <1>2, GrantsKept DEF LinkSafe
<1>4. FreshInFlight'
  BY <1>1 DEF LinkSafe, FreshInFlight, Live, Expired, server
<1>5. FileHeals'
  BY DEF FileHeals
<1> QED BY <1>3, <1>4, <1>5

\* The temporary file is opened: by one alone, or the save is spoiled.
LEMMA Opens ==
  ASSUME LinkTypeOK, LinkSafe, NEW p \in Procs, OpenTmp(p), now' = now
  PROVE  LinkSafe'
<1>1. call[p].at = "refreshed" /\ InFlight(p) /\ call[p].token \in Tokens /\ renamed \in Nat
  BY TokenInFlight DEF OpenTmp, InFlight, LinkTypeOK
<1>2. /\ call'[p].at = "opened" /\ call'[p].token = call[p].token /\ call'[p].seen = renamed
      /\ \A q \in Procs : q # p => call'[q] = call[q]
  BY <1>1, StageTypes, Moved DEF OpenTmp
<1>3. /\ tmp' = Emptied /\ spoiled' = (spoiled \/ OthersSaving(p))
      /\ UNCHANGED <<now, server, file, renamed, memory>>
  BY DEF OpenTmp
<1>4. GrantsOK' /\ FreshInFlight' /\ FileHeals'
  BY <1>1, <1>2, <1>3, Carries, InHeld, TokenTypes DEF InFlight
<1>5. SoleSaver'
  <2> SUFFICES ASSUME ~spoiled' PROVE SoleSaver'
    BY DEF SoleSaver
  <2>1. ~OthersSaving(p)
    BY <1>3
  <2>2. \A q \in Procs : call'[q].at \in Saving => q = p
    BY <1>2, <2>1 DEF OthersSaving
  <2> QED BY <1>2, <1>3, <2>2 DEF SoleSaver, Saving
<1> QED BY <1>4, <1>5 DEF LinkSafe

\* It is written: with nobody else there, what is in it is the whole token.
LEMMA Writes ==
  ASSUME LinkTypeOK, LinkSafe, NEW p \in Procs, Write(p), now' = now
  PROVE  LinkSafe'
<1>1. call[p].at = "opened" /\ InFlight(p) /\ call[p].token \in Tokens
  BY TokenInFlight DEF Write, InFlight
<1>2. /\ call'[p].at = "written" /\ call'[p].token = call[p].token
      /\ \A q \in Procs : q # p => call'[q] = call[q]
  BY <1>1, StageTypes, Moved DEF Write
<1>3. UNCHANGED <<now, server, renamed, memory, spoiled>>
  BY DEF Write
<1>4. file' \in Held \cup Unreadable /\ tmp' \in Held \cup Unreadable
  BY <1>1, Landed, InHeld, TokenTypes
<1>5. GrantsOK' /\ FreshInFlight' /\ FileHeals'
  BY <1>1, <1>2, <1>3, <1>4, Carries DEF InFlight
<1>6. SoleSaver'
  <2> SUFFICES ASSUME ~spoiled PROVE SoleSaver'
    BY <1>3 DEF SoleSaver
  <2>1. /\ \A q \in Procs : call[q].at \in Saving => q = p
        /\ call[p].seen = renamed /\ tmp = Emptied
    BY <1>1 DEF LinkSafe, SoleSaver, Saving
  <2>2. tmp' = call[p].token
    BY <2>1, Landed
  <2>3. \A q \in Procs : call'[q].at \in Saving => q = p
    BY <1>2, <2>1
  <2> QED BY <1>2, <2>2, <2>3 DEF SoleSaver, Saving
<1> QED BY <1>5, <1>6 DEF LinkSafe

\* It is renamed: a process that is alone puts its own token in the file; of
\* those that are not, the rename may be of another's or of no token.
LEMMA Renames ==
  ASSUME LinkTypeOK, LinkSafe, NEW p \in Procs, Rename(p), now' = now
  PROVE  LinkSafe'
<1> USE DEF disk
<1>1. call[p].at = "written" /\ InFlight(p) /\ call[p].token \in Tokens
  BY TokenInFlight DEF Rename, InFlight
<1>2. /\ ~InFlight(p)'
      /\ \A q \in Procs : q # p => call'[q] = call[q]
  <2>1. Move(p, Stage("failed")) \/ Move(p, Stage("answered")) \/ Move(p, Stage("sent"))
    BY DEF Rename
  <2>2. call'[p].at \in {"failed", "answered", "sent"}
    BY <2>1, StageTypes, Moved
  <2> QED BY <2>1, <2>2, StageTypes, Moved DEF InFlight
<1>3. UNCHANGED <<now, server>>
  BY DEF Rename
<1>4. \A q \in Procs : memory'[q] \in Held
  <2>1. memory' = memory \/ memory' = [memory EXCEPT ![p] = call[p].token]
    BY DEF Rename
  <2> QED BY <1>1, <2>1, InHeld DEF LinkTypeOK
<1>5. file' \in {file, tmp} /\ tmp' \in {tmp, NoToken}
  BY DEF Rename
<1>6. file' \in Held \cup Unreadable /\ tmp' \in Held \cup Unreadable
  BY <1>5, InHeld, TokenTypes
<1>7. Live(call[p].token) /\ call[p].token # NoToken
  BY <1>1, LiveIsReadable, TokenTypes DEF LinkSafe, FreshInFlight
<1>8. CASE spoiled'
  BY <1>2, <1>3, <1>4, <1>6, <1>8, PutAway
<1>9. CASE ~spoiled'
  <2>1. tmp = call[p].token /\ (spoiled => ~OthersSaving(p))
    BY <1>1, <1>9 DEF Rename, LinkSafe, SoleSaver
  <2>2. \A q \in Procs : call[q].at \in Saving => q = p
    BY <1>1, <2>1 DEF LinkSafe, SoleSaver, OthersSaving, Saving
  <2>3. file' = call[p].token
    BY <1>7, <2>1 DEF Rename
  <2>4. SoleSaver'
    <3>1. \A q \in Procs : call'[q].at \notin Saving
      BY <1>2, <2>2 DEF Saving, InFlight
    <3> QED BY <3>1 DEF SoleSaver, Saving
  <2>5. FileHeals'
    BY <1>3, <1>7, <2>3 DEF FileHeals, Live, server
  <2>6. \A q \in Procs : InFlight(q)' => q # p /\ InFlight(q) /\ call'[q] = call[q]
    BY <1>2 DEF InFlight
  <2>7. Held' \subseteq Held \cup Unreadable
    <3> SUFFICES ASSUME NEW t \in Held' PROVE t \in Held \cup Unreadable
      OBVIOUS
    <3>1. \/ t = file' \/ t = tmp'
          \/ \E q \in Procs : t = memory'[q] \/ (InFlight(q)' /\ t = call'[q].token)
      BY DEF Held
    <3> QED BY <1>4, <1>6, <2>6, <3>1, InHeld
  <2>8. GrantsOK'
    BY <1>3, <2>7, GrantsKept DEF LinkSafe
  <2>9. FreshInFlight'
    BY <1>3, <2>6 DEF LinkSafe, FreshInFlight, Live, Expired, server
  <2> QED BY <2>4, <2>5, <2>8, <2>9 DEF LinkSafe
<1> QED BY <1>8, <1>9

\* A process comes to hold the token of a grant that has just been made, or
\* renewed: what is good stays good, since only what has expired is given up.
LEMMA GrantSafe ==
  ASSUME LinkTypeOK, LinkSafe, NEW p \in Procs, NEW new \in Tokens,
         Move(p, Got("refreshed", new)), ~InFlight(p),
         UNCHANGED <<now, disk, spoiled>>, rotates' = rotates,
         \A q \in Procs : memory'[q] \in Held,
         GrantsOK', new.refresh \in accepted', ~Expired(new),
         \A t \in Held : Live(t) /\ ~Expired(t) => t.refresh \in accepted'
  PROVE  LinkSafe'
<1>1. /\ call'[p].at = "refreshed" /\ call'[p].token = new
      /\ \A q \in Procs : q # p => call'[q] = call[q]
  BY StageTypes, Moved
<1>2. FreshInFlight'
  <2> SUFFICES ASSUME NEW q \in Procs, InFlight(q)'
               PROVE  Live(call[q].token)' /\ ~Expired(call[q].token)'
    BY DEF FreshInFlight
  <2>1. CASE q = p
    BY <1>1, <2>1 DEF Live, Expired
  <2>2. CASE q # p
    <3>1. InFlight(q) /\ call'[q] = call[q]
      BY <1>1, <2>2 DEF InFlight
    <3>2. Live(call[q].token) /\ ~Expired(call[q].token) /\ call[q].token \in Held
      BY <3>1, InHeld DEF LinkSafe, FreshInFlight
    <3> QED BY <3>1, <3>2 DEF Live, Expired
  <2> QED BY <2>1, <2>2
<1>3. SoleSaver'
  <2>1. \A q \in Procs : call'[q].at \in Saving => call'[q] = call[q]
    BY <1>1 DEF Saving
  <2> QED BY <2>1 DEF LinkSafe, SoleSaver, Saving, disk
<1>4. FileHeals'
  BY <1>1 DEF FileHeals, InFlight
<1> QED BY <1>2, <1>3, <1>4 DEF LinkSafe

LEMMA TokenSafe ==
  ASSUME LinkTypeOK, LinkSafe, NEW p \in Procs, Token(p), now' = now
  PROVE  LinkSafe'
<1> USE DEF server
<1> DEFINE held == IF memory[p] = NoToken THEN file ELSE memory[p]
           new == Refreshed(held, TokenEndpoint(held))
<1>1. /\ held \in Held /\ held \in Tokens
      /\ new \in Tokens /\ ~Expired(new)
      /\ new.refresh = IF rotates THEN issued + 1 ELSE held.refresh
  BY InHeld, Renewed, HeldAreTokens
<1>2. /\ ~InFlight(p) /\ memory' \in {memory, [memory EXCEPT ![p] = held]}
      /\ UNCHANGED <<now, disk, session, spoiled>>
  BY DEF Token, InFlight
<1>3. \A q \in Procs : memory'[q] \in Held
  BY <1>1, <1>2, InHeld DEF LinkTypeOK
<1>4. CASE /\ Move(p, Stage("failed")) \/ Move(p, Stage("sent"))
           /\ UNCHANGED <<server, meddled>>
  <2>1. /\ call'[p].at \in {"failed", "sent"}
        /\ \A q \in Procs : q # p => call'[q] = call[q]
    BY <1>4, StageTypes, Moved
  <2>2. ~InFlight(p)'
    BY <2>1 DEF InFlight
  <2>3. file' \in Held \cup Unreadable /\ tmp' \in Held \cup Unreadable
    BY <1>2, InHeld DEF disk
  <2> QED BY <1>2, <1>3, <1>4, <2>1, <2>2, <2>3, PutAway
<1>5. CASE /\ Expired(held) /\ held.refresh \in accepted
           /\ Move(p, Got("refreshed", new))
           /\ issued' = IF rotates THEN issued + 1 ELSE issued
           /\ accepted' = IF rotates THEN (accepted \ {held.refresh}) \cup {issued + 1} ELSE accepted
           /\ UNCHANGED rotates
  <2>1. \A t \in Held : Live(t) /\ ~Expired(t) => t.refresh \in accepted'
    <3>1. ASSUME rotates, NEW t \in Held, Live(t), ~Expired(t) PROVE t.refresh # held.refresh
      BY <1>1, <1>5, <3>1, LiveIsReadable DEF LinkSafe, GrantsOK
    <3> QED BY <1>5, <3>1 DEF Live
  <2>2. new.refresh \in accepted'
    BY <1>1, <1>5
  <2>3. Held' \subseteq Held \cup {new}
    <3>1. /\ call'[p].at = "refreshed" /\ call'[p].token = new
          /\ \A q \in Procs : q # p => call'[q] = call[q]
      BY <1>1, <1>5, StageTypes, Moved
    <3>2. \A q \in Procs : InFlight(q)' => call'[q].token = new \/ (InFlight(q) /\ call'[q] = call[q])
      BY <3>1 DEF InFlight
    <3> SUFFICES ASSUME NEW t \in Held' PROVE t \in Held \cup {new}
      OBVIOUS
    <3>3. \/ t = file \/ t = tmp
          \/ \E q \in Procs : t = memory'[q] \/ (InFlight(q)' /\ t = call'[q].token)
      BY <1>2 DEF Held, disk
    <3> QED BY <1>3, <3>2, <3>3, InHeld
  <2>4. GrantsOK'
    <3>1. CASE rotates
      BY <1>1, <1>5, <2>3, <3>1, GrantsGrow DEF LinkSafe
    <3>2. CASE ~rotates
      <4>1. UNCHANGED <<rotates, issued, accepted>> /\ new.refresh = held.refresh
        BY <1>1, <1>5, <3>2
      <4>2. held.refresh \in 1..issued
        BY <1>5 DEF LinkTypeOK
      <4>3. \A t \in Held' : t \in Unreadable \/ t.refresh \in 1..issued
        BY <2>3, <4>1, <4>2 DEF LinkSafe, GrantsOK
      <4> QED BY <3>2, <4>1, <4>3 DEF LinkSafe, GrantsOK
    <3> QED BY <3>1, <3>2
  <2> QED BY <1>1, <1>2, <1>3, <1>5, <2>1, <2>2, <2>4, GrantSafe
<1> QED BY <1>4, <1>5 DEF Token
LEMMA SignInSafe ==
  ASSUME LinkTypeOK, LinkSafe, Redirected, now' = now
  PROVE  LinkSafe'
<1> USE DEF server
<1> DEFINE new == [refresh |-> issued + 1, expiry |-> now + Lifetime]
<1>1. SignIn \in Procs /\ ~InFlight(SignIn) /\ UNCHANGED <<disk, memory, session, spoiled>>
  BY Procs2 DEF Redirected, InFlight
<1>2. \A q \in Procs : memory'[q] \in Held
  BY <1>1, InHeld
<1>3. CASE Move(SignIn, Stage("failed")) /\ UNCHANGED <<server, meddled>>
  <2>1. /\ call'[SignIn].at = "failed"
        /\ \A q \in Procs : q # SignIn => call'[q] = call[q]
    BY <1>1, <1>3, StageTypes, Moved
  <2>2. ~InFlight(SignIn)'
    BY <2>1 DEF InFlight
  <2>3. file' \in Held \cup Unreadable /\ tmp' \in Held \cup Unreadable
    BY <1>1, InHeld DEF disk
  <2> QED BY <1>1, <1>2, <1>3, <2>1, <2>2, <2>3, PutAway
<1>4. CASE /\ issued' = issued + 1
           /\ accepted' = accepted \cup {issued + 1}
           /\ Move(SignIn, Got("refreshed", new))
           /\ UNCHANGED rotates
  <2>1. new \in Tokens /\ new.refresh = issued + 1 /\ ~Expired(new)
    BY LinkConstantsOK DEF Tokens, Expired, LinkTypeOK
  <2>2. Held' \subseteq Held \cup {new}
    <3>1. /\ call'[SignIn].at = "refreshed" /\ call'[SignIn].token = new
          /\ \A q \in Procs : q # SignIn => call'[q] = call[q]
      BY <1>1, <1>4, <2>1, StageTypes, Moved
    <3>2. \A q \in Procs : InFlight(q)' => call'[q].token = new \/ (InFlight(q) /\ call'[q] = call[q])
      BY <3>1 DEF InFlight
    <3> SUFFICES ASSUME NEW t \in Held' PROVE t \in Held \cup {new}
      OBVIOUS
    <3>3. \/ t = file \/ t = tmp
          \/ \E q \in Procs : t = memory'[q] \/ (InFlight(q)' /\ t = call'[q].token)
      BY <1>1 DEF Held, disk
    <3> QED BY <1>2, <3>2, <3>3, InHeld
  <2> HIDE DEF new
  <2>3. GrantsOK'
    BY <1>4, <2>1, <2>2, GrantsGrow DEF LinkSafe
  <2> QED BY <1>1, <1>2, <1>4, <2>1, <2>3, GrantSafe DEF Live
<1> QED BY <1>1, <1>3, <1>4 DEF Redirected

\* The steps of the link.
LEMMA LinkSafeLink ==
  ASSUME LinkTypeOK, LinkSafe, LinkStep
  PROVE  LinkSafe'
<1> USE DEF server
<1>1. PICK p \in Procs :
        \/ LoseAnswer(p) \/ OpenTmp(p) \/ Write(p) \/ WriteFails(p) \/ Rename(p)
        \/ p # SignIn /\ (Token(p) \/ Answer(p) \/ SessionGone(p) \/ Unauthorized(p) \/ DropSession(p))
        \/ p = SignIn /\ (LoginBegins \/ Redirected)
  BY DEF LinkStep
<1>2. now' = now
  BY DEF LinkStep
<1>3. CASE LoseAnswer(p) \/ WriteFails(p)
  <2>1. /\ Move(p, Stage("failed")) /\ spoiled' = TRUE
        /\ UNCHANGED <<server, memory>>
    BY <1>3 DEF LoseAnswer, WriteFails
  <2>2. /\ call'[p].at = "failed"
        /\ \A q \in Procs : q # p => call'[q] = call[q]
    BY <2>1, StageTypes, Moved
  <2>3. ~InFlight(p)' /\ \A q \in Procs : memory'[q] \in Held
    BY <2>1, <2>2, InHeld DEF InFlight
  <2>4. file' \in Held \cup Unreadable /\ tmp' \in Held \cup Unreadable
    <3>1. CASE LoseAnswer(p)
      BY <3>1, InHeld DEF LoseAnswer, disk
    <3>2. CASE WriteFails(p)
      <4>1. call[p].token \in Held
        BY <3>2, InHeld DEF WriteFails, InFlight
      <4> QED BY <3>2, <4>1, Landed, InHeld, TokenTypes
    <3> QED BY <1>3, <3>1, <3>2
  <2> QED BY <1>2, <2>1, <2>2, <2>3, <2>4, PutAway
<1>4. CASE \/ p # SignIn /\ (Answer(p) \/ SessionGone(p) \/ Unauthorized(p))
           \/ p = SignIn /\ LoginBegins
  <2>1. /\ ~InFlight(p)
        /\ \E s \in {"failed", "answered", "waiting"} : Move(p, Stage(s))
        /\ UNCHANGED <<server, disk, memory, spoiled>>
    <3>1. CASE p # SignIn /\ Answer(p)
      BY <3>1 DEF Answer, InFlight
    <3>2. CASE p # SignIn /\ (SessionGone(p) \/ Unauthorized(p))
      BY <3>2 DEF SessionGone, Unauthorized, InFlight
    <3>3. CASE p = SignIn /\ LoginBegins
      BY <3>3 DEF LoginBegins, InFlight
    <3> QED BY <1>4, <3>1, <3>2, <3>3
  <2>2. /\ call'[p].at \in {"failed", "answered", "waiting"}
        /\ \A q \in Procs : q # p => call'[q] = call[q]
    BY <2>1, StageTypes, Moved
  <2>3. ~InFlight(p)' /\ \A q \in Procs : memory'[q] \in Held
    BY <2>1, <2>2, InHeld DEF InFlight
  <2>4. file' \in Held \cup Unreadable /\ tmp' \in Held \cup Unreadable
    BY <2>1, InHeld DEF disk
  <2> QED BY <1>2, <2>1, <2>2, <2>3, <2>4, PutAway
<1>5. CASE DropSession(p)
  BY <1>2, <1>5, StandsStill DEF DropSession
<1> QED BY <1>1, <1>2, <1>3, <1>4, <1>5, Opens, Writes, Renames, TokenSafe, SignInSafe

LEMMA LinkSafeLoop ==
  ASSUME LinkTypeOK, LinkSafe, Untouched \/ Ticks \/ \E p \in Callers : Turns(p) \/ Dies(p)
  PROVE  LinkSafe'
<1>1. CASE Untouched
  BY <1>1, StandsStill DEF Untouched
<1>2. CASE Ticks
  <2>1. /\ \A p \in Procs : ~InFlight(p) /\ ~InFlight(p)'
        /\ UNCHANGED <<server, disk, memory, spoiled>>
    BY <1>2, LaterStages DEF Ticks
  <2>2. Held' \subseteq Held \cup Unreadable
    <3> SUFFICES ASSUME NEW t \in Held' PROVE t \in Held
      OBVIOUS
    <3>1. \/ t = file \/ t = tmp
          \/ \E q \in Procs : t = memory[q] \/ (InFlight(q)' /\ t = call'[q].token)
      BY <2>1 DEF Held, disk
    <3> QED BY <2>1, <3>1, InHeld
  <2>3. GrantsOK'
    BY <2>1, <2>2, GrantsKept DEF LinkSafe
  <2>4. FreshInFlight' /\ SoleSaver'
    BY <2>1 DEF FreshInFlight, SoleSaver, Saving, InFlight
  <2>5. FileHeals'
    BY <2>1 DEF LinkSafe, FileHeals, Live, server, disk
  <2> QED BY <2>3, <2>4, <2>5 DEF LinkSafe
<1>3. ASSUME NEW p \in Callers, Turns(p) PROVE LinkSafe'
  <2>1. /\ call'[p].at \in {"none", "begun"}
        /\ \A q \in Procs : q # p => call'[q] = call[q]
    BY <1>3, Procs2, StageTypes, Moved DEF Turns
  <2>2. ~InFlight(p)' /\ ~InFlight(p) /\ p \in Procs
    BY <1>3, <2>1, Procs2 DEF InFlight, Turns
  <2>3. UNCHANGED <<now, server, disk, memory, spoiled>>
    BY <1>3 DEF Turns
  <2>4. /\ file' \in Held \cup Unreadable /\ tmp' \in Held \cup Unreadable
        /\ \A q \in Procs : memory'[q] \in Held \cup Unreadable
    BY <2>3, InHeld DEF disk
  <2> QED BY <2>1, <2>2, <2>3, <2>4, PutAway
<1>4. ASSUME NEW p \in Callers, Dies(p) PROVE LinkSafe'
  <2>1. /\ call'[p].at = "none"
        /\ \A q \in Procs : q # p => call'[q] = call[q]
    BY <1>4, Procs2, StageTypes, Moved DEF Dies, Forget
  <2>2. ~InFlight(p)' /\ p \in Procs
    BY <2>1, Procs2 DEF InFlight
  <2>3. UNCHANGED <<now, server, disk>> /\ memory' = [memory EXCEPT ![p] = NoToken]
    BY <1>4 DEF Dies, Forget
  <2>4. /\ file' \in Held \cup Unreadable /\ tmp' \in Held \cup Unreadable
        /\ \A q \in Procs : memory'[q] \in Held \cup Unreadable
    BY <2>3, InHeld, TokenTypes DEF LinkTypeOK, disk
  <2>5. spoiled' \/ (UNCHANGED <<disk, spoiled>> /\ ~InFlight(p))
    BY <1>4 DEF Dies, Forget, InFlight
  <2> QED BY <2>1, <2>2, <2>3, <2>4, <2>5, PutAway
<1> QED BY <1>1, <1>2, <1>3, <1>4

LEMMA LinkSafeStart == Init => LinkSafe
<1> SUFFICES ASSUME Init PROVE LinkSafe
  OBVIOUS
<1>1. \A p \in Procs : ~InFlight(p) /\ call[p].at = "none" /\ memory[p] = NoToken
  BY DEF Init, LinkInit, InFlight, AtRest
<1>2. /\ accepted = {1} /\ issued = 1 /\ tmp = NoToken
      /\ file = NoToken \/ file = [refresh |-> 1, expiry |-> Lifetime]
      /\ file = NoToken => spoiled
  BY DEF Init, LinkInit
<1>3. \A t \in Held : t = NoToken \/ t = [refresh |-> 1, expiry |-> Lifetime]
  BY <1>1, <1>2, InHeld
<1>4. GrantsOK
  <2>1. 1 \in 1..issued /\ 1..issued = {1}
    BY <1>2
  <2> QED BY <1>2, <1>3, <2>1, TokenTypes DEF GrantsOK
<1>5. SoleSaver
  BY <1>1 DEF SoleSaver, Saving
<1> QED BY <1>1, <1>2, <1>4, <1>5 DEF LinkSafe, FreshInFlight, FileHeals, Live

LEMMA LinkInvStep == LinkInv /\ AtRestInv /\ [Next]_vars => LinkInv'
<1> SUFFICES ASSUME LinkInv, AtRestInv, [Next]_vars PROVE LinkInv'
  OBVIOUS
<1>1. LinkTypeOK /\ LinkSafe
  BY DEF LinkInv, LinkSafe
<1>2. CASE LinkStep
  BY <1>1, <1>2, LinkTypeLink, LinkSafeLink DEF LinkInv, LinkSafe
<1>3. CASE ~LinkStep
  <2>1. Untouched \/ Ticks \/ \E p \in Callers : Turns(p) \/ Dies(p)
    BY <1>1, <1>3, LoopOnLink
  <2> QED BY <1>1, <2>1, LinkTypeLoop, LinkSafeLoop DEF LinkInv, LinkSafe
<1> QED BY <1>2, <1>3

(* The link's invariant, whatever the loop, the operator and the other
   processes do: no token is good by accident, none is lost unrecorded.     *)
THEOREM LinkInvariant == Spec => [](LinkInv /\ AtRestInv)
<1>1. Init => LinkInv /\ AtRestInv
  BY LinkTypeStart, LinkSafeStart, AtRestStart DEF LinkInv, LinkSafe
<1>2. (LinkInv /\ AtRestInv) /\ [Next]_vars => (LinkInv /\ AtRestInv)'
  BY LinkInvStep, AtRestStep DEF LinkInv
<1> QED BY <1>1, <1>2, PTL DEF Spec

(* The token on disk is one a restarted process can go on with, but after a loss
   or two saves at once, and again after the next save that stands alone: for any
   number of processes, faults and logins (Store.Save, Source.Token).       *)
THEOREM FileHealsAlways == Spec => []RestartHeals
<1>1. LinkInv => RestartHeals
  BY DEF LinkInv, FileHeals, InFlight, Live, RestartHeals
<1> QED BY <1>1, LinkInvariant, PTL
-----------------------------------------------------------------------------
(* A loop that nobody meddles with. *)

\* The answer that is found is the server's, or there is none: nothing else in a
\* stream passes for it.
LEMMA AnswerFound ==
  ASSUME NEW verdict \in Verdicts, NEW stream \in Streams(verdict)
  PROVE  FindInStream(stream) \in {verdict, "no answer"}
<1> DEFINE noise == {m \in Messages : m.for # "mine" \/ m.says = "notice"}
           mine == [for |-> "mine", says |-> verdict]
           found == {i \in DOMAIN stream : stream[i].for = "mine" /\ stream[i].says \in Verdicts}
           first_ == CHOOSE i \in found : \A j \in found : i <= j
<1>1. \/ stream = <<mine>>
      \/ \E n \in noise : stream = <<n>> \/ stream = <<n, mine>>
  BY DEF Streams
<1>2. DOMAIN stream \subseteq Nat /\ \A i \in DOMAIN stream : stream[i] = mine \/ stream[i] \in noise
  <2>1. CASE stream = <<mine>>
    BY <2>1
  <2>2. ASSUME NEW n \in noise, stream = <<n>> \/ stream = <<n, mine>>
        PROVE  DOMAIN stream \subseteq Nat /\ \A i \in DOMAIN stream : stream[i] = mine \/ stream[i] = n
    BY <2>2
  <2> QED BY <1>1, <2>1, <2>2
<1>3. \A i \in found : stream[i].says = verdict
  BY <1>2 DEF Verdicts
<1>4. CASE found = {}
  BY <1>4 DEF FindInStream
<1>5. CASE found # {}
  <2>1. \E i \in found : \A j \in found : i <= j
    BY <1>2, <1>5, LeastOf
  <2>2. first_ \in found
    BY <2>1
  <2>3. FindInStream(stream) = stream[first_].says
    BY <1>5 DEF FindInStream
  <2> HIDE DEF first_, found
  <2> QED BY <1>3, <2>2, <2>3
<1> QED BY <1>4, <1>5

\* What is on record stays there.
LEMMA MeddledStays ==
  ASSUME LinkTypeOK, AtRestInv, [Next]_vars
  PROVE  meddled \subseteq meddled'
<1>1. CASE LinkStep
  <2>1. PICK p \in Procs :
          \/ LoseAnswer(p) \/ OpenTmp(p) \/ Write(p) \/ WriteFails(p) \/ Rename(p)
          \/ p # SignIn /\ (Token(p) \/ Answer(p) \/ SessionGone(p) \/ Unauthorized(p) \/ DropSession(p))
          \/ p = SignIn /\ (LoginBegins \/ Redirected)
    BY <1>1 DEF LinkStep
  <2>2. CASE LoseAnswer(p) \/ OpenTmp(p) \/ Write(p) \/ WriteFails(p)
    BY <2>2 DEF LoseAnswer, OpenTmp, Write, WriteFails, Meddle
  <2>3. CASE Rename(p)
    BY <2>3 DEF Rename
  <2>4. CASE Token(p)
    BY <2>4 DEF Token, Meddle
  <2>5. CASE Answer(p)
    BY <2>5 DEF Answer, Meddle
  <2>6. CASE SessionGone(p) \/ Unauthorized(p) \/ DropSession(p)
    BY <2>6 DEF SessionGone, Unauthorized, DropSession, Meddle
  <2>7. CASE LoginBegins
    BY <2>7 DEF LoginBegins
  <2>8. CASE Redirected
    BY <2>8 DEF Redirected, Meddle
  <2> QED BY <2>1, <2>2, <2>3, <2>4, <2>5, <2>6, <2>7, <2>8
<1>2. CASE ~LinkStep
  <2>1. Untouched \/ Ticks \/ \E p \in Callers : Turns(p) \/ Dies(p)
    BY <1>2, LoopOnLink
  <2> QED BY <2>1 DEF Untouched, Ticks, Turns, Dies, Forget, Meddle
<1> QED BY <1>1, <1>2

LEMMA OthersStep ==
  ASSUME LinkTypeOK, AtRestInv, OthersOnRecord, [Next]_vars
  PROVE  OthersOnRecord'
<1> SUFFICES ASSUME NEW q \in Procs \ {"loop"}, InFlight(q)', ~InFlight(q)
             PROVE  "other" \in meddled'
  BY MeddledStays DEF OthersOnRecord
<1>1. CASE LinkStep
  <2>1. PICK p \in Procs :
          \/ LoseAnswer(p) \/ OpenTmp(p) \/ Write(p) \/ WriteFails(p) \/ Rename(p)
          \/ p # SignIn /\ (Token(p) \/ Answer(p) \/ SessionGone(p) \/ Unauthorized(p) \/ DropSession(p))
          \/ p = SignIn /\ (LoginBegins \/ Redirected)
    BY <1>1 DEF LinkStep
  <2>2. ASSUME NEW stage, Move(p, stage), stage.at \notin Unsaved \/ InFlight(p)
        PROVE  FALSE
    BY <2>2 DEF Move, InFlight, LinkTypeOK
  <2>3. ~(LoseAnswer(p) \/ OpenTmp(p) \/ Write(p) \/ WriteFails(p) \/ Rename(p))
    <3>1. ~(LoseAnswer(p) \/ OpenTmp(p) \/ Write(p) \/ WriteFails(p))
      BY <2>2 DEF LoseAnswer, OpenTmp, Write, WriteFails, InFlight
    <3>2. ~Rename(p)
      BY <2>2 DEF Rename, InFlight
    <3> QED BY <3>1, <3>2
  <2>4. CASE p # SignIn /\ Token(p)
    <3>1. CASE p = q
      BY <2>2, <2>4, <3>1, StageTypes DEF Token, Meddle
    <3>2. CASE p # q
      <4>1. call'[q] = call[q]
        BY <2>4, <3>2 DEF Token, Move, LinkTypeOK
      <4> QED BY <4>1 DEF InFlight
    <3> QED BY <3>1, <3>2
  <2>5. ~Answer(p)
    BY <2>2, StageTypes DEF Answer
  <2>6. ~SessionGone(p) /\ ~Unauthorized(p)
    BY <2>2, StageTypes DEF SessionGone, Unauthorized
  <2>7. ~DropSession(p)
    BY DEF DropSession, InFlight
  <2>8. CASE p = SignIn /\ LoginBegins
    BY <2>2, <2>8, StageTypes DEF LoginBegins
  <2>9. CASE p = SignIn /\ Redirected
    BY <2>2, <2>9, StageTypes DEF Redirected, Meddle
  <2> QED BY <2>1, <2>3, <2>4, <2>5, <2>6, <2>7, <2>8, <2>9
<1>2. CASE ~LinkStep
  <2>1. Untouched \/ Ticks \/ \E p \in Callers : Turns(p) \/ Dies(p)
    BY <1>2, LoopOnLink
  <2>2. ~Untouched
    BY DEF Untouched, InFlight
  <2>3. ~Ticks
    BY LaterStages DEF Ticks
  <2>4. ASSUME NEW p \in Callers, Turns(p) \/ Dies(p) PROVE FALSE
    <3>1. PICK s \in {"none", "begun"} : Move(p, Stage(s))
      BY <2>4 DEF Turns, Dies, Forget, AtRest, Stage
    <3>2. p \in Procs
      BY Procs2
    <3> QED BY <3>1, <3>2 DEF Move, Stage, InFlight, LinkTypeOK
  <2> QED BY <2>1, <2>2, <2>3, <2>4
<1> QED BY <1>1, <1>2

LEMMA HealthStart == Init => HealthInv
<1> SUFFICES ASSUME Init PROVE HealthInv
  OBVIOUS
<1>1. /\ \A p \in Procs : call[p].at = "none" /\ memory[p] = NoToken /\ session[p] = "none"
      /\ failed = FALSE
  BY DEF Init, LinkInit, AtRest
<1>2. meddled = {} => file # NoToken /\ ~spoiled
  BY DEF Init, LinkInit
<1>3. file # NoToken => file \notin Unreadable
  BY DEF Init, LinkInit, Unreadable, NoToken, Emptied, Garbled
<1>4. OthersOnRecord /\ HealthyLoopSucceeds
  BY <1>1 DEF OthersOnRecord, HealthyLoopSucceeds, InFlight
<1>5. LoopAlone
  BY <1>1, <1>2, <1>3, Procs2 DEF LoopAlone
<1> QED BY <1>4, <1>5 DEF HealthInv

\* A step of another process's, nothing being on record after it.
LEMMA OthersLeaveAlone ==
  ASSUME LinkInv, HealthInv, meddled = {}, NEW p \in Procs \ {"loop"},
         \/ LoseAnswer(p) \/ OpenTmp(p) \/ Write(p) \/ WriteFails(p) \/ Rename(p)
         \/ p # SignIn /\ (Token(p) \/ Answer(p) \/ SessionGone(p) \/ Unauthorized(p) \/ DropSession(p))
         \/ p = SignIn /\ (LoginBegins \/ Redirected)
  PROVE  /\ file' = file /\ spoiled' = spoiled
         /\ call'["loop"] = call["loop"] /\ memory'["loop"] = memory["loop"]
         /\ session'["loop"] = session["loop"]
<1>1. ~InFlight(p)
  BY DEF HealthInv, OthersOnRecord
<1>2. /\ "loop" \in Procs /\ p # "loop" /\ call \in [Procs -> Stages]
      /\ memory \in [Procs -> Tokens] /\ session \in [Procs -> {"none", "open", "gone"}]
  BY Procs2 DEF LinkInv, LinkTypeOK
<1>3. ~LoseAnswer(p) /\ ~OpenTmp(p) /\ ~Write(p) /\ ~WriteFails(p) /\ ~Rename(p)
  BY <1>1 DEF LoseAnswer, OpenTmp, Write, WriteFails, Rename, InFlight
<1> USE DEF disk
<1>4. CASE Token(p)
  BY <1>2, <1>4 DEF Token, Move
<1>5. CASE Answer(p)
  BY <1>2, <1>5 DEF Answer, Move
<1>6. CASE SessionGone(p) \/ Unauthorized(p) \/ DropSession(p)
  BY <1>2, <1>6 DEF SessionGone, Unauthorized, DropSession, Move
<1>7. CASE p = SignIn /\ LoginBegins
  BY <1>2, <1>7 DEF LoginBegins, Move
<1>8. CASE p = SignIn /\ Redirected
  BY <1>2, <1>8 DEF Redirected, Move
<1> QED BY <1>3, <1>4, <1>5, <1>6, <1>7, <1>8

LEMMA LoopAloneLink ==
  ASSUME LinkInv, HealthInv, LinkStep, meddled' = {}, meddled = {}
  PROVE  LoopAlone'
<1> USE DEF server, disk
<1>1. /\ meddled = {} /\ now' = now
      /\ LinkTypeOK /\ "loop" \in Procs /\ now \in Nat /\ call \in [Procs -> Stages]
      /\ memory \in [Procs -> Tokens] /\ session \in [Procs -> {"none", "open", "gone"}]
  BY Procs2 DEF LinkInv, LinkTypeOK, LinkStep
<1>2. /\ file \notin Unreadable /\ ~spoiled
      /\ session["loop"] # "gone"
      /\ ~InFlight("loop") => memory["loop"] \in {NoToken, file}
      /\ call["loop"].at = "sent" => now + 1 <= memory["loop"].expiry
      /\ call["loop"].at = "late" => now <= memory["loop"].expiry
      /\ call["loop"].at # "failed"
  BY <1>1 DEF HealthInv, LoopAlone
<1>3. PICK p \in Procs :
        \/ LoseAnswer(p) \/ OpenTmp(p) \/ Write(p) \/ WriteFails(p) \/ Rename(p)
        \/ p # SignIn /\ (Token(p) \/ Answer(p) \/ SessionGone(p) \/ Unauthorized(p) \/ DropSession(p))
        \/ p = SignIn /\ (LoginBegins \/ Redirected)
  BY DEF LinkStep
<1>4. CASE p # "loop"
  <2>1. /\ file' = file /\ spoiled' = spoiled
        /\ call'["loop"] = call["loop"] /\ memory'["loop"] = memory["loop"]
        /\ session'["loop"] = session["loop"]
    BY <1>1, <1>3, <1>4, OthersLeaveAlone
  <2> QED BY <1>1, <1>2, <2>1 DEF LoopAlone, InFlight
<1>5. ~(LoseAnswer("loop") \/ WriteFails("loop") \/ DropSession("loop"))
  BY DEF LoseAnswer, WriteFails, DropSession, Meddle
<1>6. CASE OpenTmp("loop") \/ Write("loop")
  <2>1. InFlight("loop") /\ call["loop"].token \in Tokens
    BY <1>1, <1>6, TokenInFlight DEF OpenTmp, Write, InFlight
  <2>2. call'["loop"].at \in {"opened", "written"}
    <3>1. renamed \in Nat
      BY <1>1 DEF LinkTypeOK
    <3> QED BY <1>1, <1>6, <2>1, <3>1, StageTypes, Moved DEF OpenTmp, Write
  <2>3. file' = file /\ session' = session /\ ~spoiled'
    <3>1. CASE OpenTmp("loop")
      <4>1. ~OthersSaving("loop")
        BY <1>1 DEF OthersSaving, Saving, HealthInv, OthersOnRecord, InFlight
      <4> QED BY <1>2, <3>1, <4>1 DEF OpenTmp
    <3>2. CASE Write("loop")
      <4>1. renamed = call["loop"].seen /\ tmp = Emptied
        BY <1>1, <1>2, <3>2 DEF Write, LinkInv, SoleSaver
      <4> QED BY <1>1, <1>2, <3>2, <4>1, Landed DEF Write
    <3> QED BY <1>6, <3>1, <3>2
  <2> QED BY <1>2, <2>2, <2>3 DEF LoopAlone, InFlight
<1>7. CASE Rename("loop")
  <2>1. /\ call["loop"].at = "written" /\ InFlight("loop") /\ call["loop"].token \in Tokens
        /\ tmp = call["loop"].token /\ Live(tmp) /\ ~Expired(tmp)
    BY <1>1, <1>2, <1>7, TokenInFlight DEF Rename, InFlight, LinkInv, FreshInFlight, SoleSaver
  <2>2. tmp \notin Unreadable /\ tmp # NoToken /\ now + 1 <= tmp.expiry
    BY <1>1, <2>1, TokenTypes, LiveIsReadable DEF Expired
  <2>3. Move("loop", Stage("sent")) /\ file' = tmp /\ memory' = [memory EXCEPT !["loop"] = tmp] /\ session' = session
        /\ ~spoiled'
    BY <1>2, <1>7, <2>1, <2>2, Procs2 DEF Rename
  <2>4. call'["loop"].at = "sent"
    BY <1>1, <2>3, StageTypes, Moved
  <2> QED BY <1>1, <1>2, <2>2, <2>3, <2>4 DEF LoopAlone
<1>8. CASE Token("loop")
  <2> DEFINE held == IF memory["loop"] = NoToken THEN file ELSE memory["loop"]
             new == Refreshed(held, TokenEndpoint(held))
  <2>1. held = file /\ held \notin Unreadable /\ held \in Tokens /\ call["loop"].at = "begun"
    BY <1>1, <1>2, <1>8, HeldAreTokens, InHeld DEF Token, InFlight
  <2>2. memory'["loop"] = file /\ UNCHANGED <<file, session, spoiled>>
    BY <1>1, <1>8, <2>1 DEF Token
  <2>3. CASE ~Expired(held)
    <3>1. Move("loop", Stage("sent"))
      BY <1>8, <2>1, <2>3 DEF Token
    <3>2. call'["loop"].at = "sent"
      BY <1>1, <3>1, StageTypes, Moved
    <3>3. now + 1 <= held.expiry
      BY <1>1, <2>1, <2>3, TokenTypes DEF Expired
    <3> QED BY <1>1, <1>2, <2>1, <2>2, <3>2, <3>3 DEF LoopAlone
  <2>4. CASE Expired(held)
    <3>1. \A q \in Procs : ~InFlight(q)
      BY <1>1, <2>1 DEF HealthInv, OthersOnRecord, InFlight
    <3>2. held.refresh \in accepted
      BY <1>1, <1>2, <2>1, <3>1 DEF LinkInv, FileHeals, Live
    <3>3. Move("loop", Got("refreshed", new))
      BY <1>8, <2>1, <2>4, <3>2 DEF Token
    <3>4. new \in Tokens
      BY <1>1, <2>1, Renewed
    <3> HIDE DEF new
    <3>5. call'["loop"].at = "refreshed"
      BY <1>1, <3>3, <3>4, StageTypes, Moved
    <3> QED BY <1>2, <2>2, <3>5 DEF LoopAlone, InFlight
  <2> QED BY <2>3, <2>4
<1>9. CASE Answer("loop")
  <2>1. \E verdict \in Verdicts : \E stream \in Streams(verdict) :
          LET got == FindInStream(stream)
          IN  /\ Move("loop", Stage(IF got = "result" THEN "answered" ELSE "failed"))
              /\ IF verdict = "error" \/ got = "no answer"
                 THEN Trouble /\ Meddle("refused")
                 ELSE UNCHANGED <<troubles, meddled>>
    BY <1>9 DEF Answer
  <2>2. ASSUME NEW verdict \in Verdicts, NEW stream \in Streams(verdict),
               Move("loop", Stage(IF FindInStream(stream) = "result" THEN "answered" ELSE "failed")),
               IF verdict = "error" \/ FindInStream(stream) = "no answer"
               THEN Trouble /\ Meddle("refused")
               ELSE UNCHANGED <<troubles, meddled>>
        PROVE  Move("loop", Stage("answered"))
    <3>1. FindInStream(stream) \in {verdict, "no answer"}
      BY AnswerFound
    <3>2. FindInStream(stream) = "result"
      BY <2>2, <3>1 DEF Meddle, Verdicts
    <3> QED BY <2>2, <3>2
  <2>3. Move("loop", Stage("answered"))
    BY <2>1, <2>2
  <2>4. call'["loop"].at = "answered"
    BY <1>1, <2>3, StageTypes, Moved
  <2>5. UNCHANGED <<file, memory, spoiled>> /\ session'["loop"] = "open" /\ ~InFlight("loop")
    BY <1>1, <1>9 DEF Answer, InFlight
  <2> QED BY <1>2, <2>4, <2>5 DEF LoopAlone, InFlight
<1>10. ~SessionGone("loop")
  BY <1>2 DEF SessionGone
<1>11. ~Unauthorized("loop")
  <2>1. memory["loop"].expiry \in Nat
    BY <1>1, TokenTypes
  <2> QED BY <1>1, <1>2, <2>1 DEF Unauthorized, Meddle
<1> QED BY <1>3, <1>4, <1>5, <1>6, <1>7, <1>8, <1>9, <1>10, <1>11, Procs2

LEMMA LoopAloneLoop ==
  ASSUME LinkInv, HealthInv, meddled' = {}, meddled = {},
         Untouched \/ Ticks \/ \E p \in Callers : Turns(p) \/ Dies(p)
  PROVE  LoopAlone'
<1>1. /\ LinkTypeOK /\ "loop" \in Procs /\ now \in Nat /\ call \in [Procs -> Stages]
      /\ memory \in [Procs -> Tokens] /\ session \in [Procs -> {"none", "open", "gone"}]
  BY Procs2 DEF LinkInv, LinkTypeOK
<1>2. /\ file \notin Unreadable /\ ~spoiled
      /\ session["loop"] # "gone"
      /\ ~InFlight("loop") => memory["loop"] \in {NoToken, file}
      /\ call["loop"].at = "sent" => now + 1 <= memory["loop"].expiry
      /\ call["loop"].at = "late" => now <= memory["loop"].expiry
      /\ call["loop"].at # "failed"
  BY DEF HealthInv, LoopAlone
<1> USE DEF disk
<1>3. CASE Untouched
  BY <1>2, <1>3 DEF Untouched, LoopAlone, InFlight
<1>4. CASE Ticks
  <2>1. /\ ~InFlight("loop") /\ ~InFlight("loop")' /\ call["loop"].at # "late"
        /\ IF call["loop"].at = "sent" THEN call'["loop"].at = "late" /\ NextInstant - now <= 1
           ELSE call'["loop"] = call["loop"]
        /\ now' = NextInstant /\ UNCHANGED <<file, memory, session, spoiled>>
    BY <1>1, <1>4, LaterStages DEF Ticks
  <2>2. NextInstant \in Nat /\ memory["loop"].expiry \in Nat
    BY <1>1, ClockMoves, TokenTypes
  <2>3. call["loop"].at = "sent" => now' <= memory["loop"].expiry
    BY <1>1, <1>2, <2>1, <2>2
  <2> QED BY <1>2, <2>1, <2>3 DEF LoopAlone, InFlight
<1>5. ASSUME NEW p \in Callers, Turns(p) PROVE LoopAlone'
  <2>1. UNCHANGED <<now, file, memory, session, spoiled>> /\ p \in Procs /\ ~InFlight(p)
    BY <1>5, Procs2 DEF Turns
  <2>2. /\ call'[p].at \in {"none", "begun"}
        /\ \A q \in Procs : q # p => call'[q] = call[q]
    BY <1>1, <1>5, <2>1, StageTypes, Moved DEF Turns
  <2> QED BY <1>1, <1>2, <2>1, <2>2 DEF LoopAlone, InFlight
<1>6. ASSUME NEW p \in Callers, Dies(p) PROVE LoopAlone'
  <2>1. /\ UNCHANGED <<now, file>> /\ p \in Procs
        /\ memory' = [memory EXCEPT ![p] = NoToken]
        /\ session' = [session EXCEPT ![p] = "none"]
    BY <1>6, Procs2 DEF Dies, Forget
  <2>2. /\ call'[p].at = "none"
        /\ \A q \in Procs : q # p => call'[q] = call[q]
    BY <1>1, <1>6, <2>1, StageTypes, Moved DEF Dies, Forget
  <2>3. ~spoiled'
    BY <1>2, <1>6 DEF Dies, Forget, Meddle
  <2>4. CASE p = "loop"
    BY <1>1, <1>2, <2>1, <2>2, <2>3, <2>4 DEF LoopAlone
  <2>5. CASE p # "loop"
    BY <1>1, <1>2, <2>1, <2>2, <2>3, <2>5 DEF LoopAlone, InFlight
  <2> QED BY <2>4, <2>5
<1> QED BY <1>3, <1>4, <1>5, <1>6

\* A cycle fails when its call has failed, and so does a start.
LEMMA FailedStep ==
  ASSUME HealthInv, [Next]_vars, meddled # {} => meddled' # {}
  PROVE  HealthyLoopSucceeds'
<1>1. call["loop"].at = "failed" => meddled # {}
  BY DEF HealthInv, LoopAlone
<1>2. failed => meddled # {}
  BY DEF HealthInv, HealthyLoopSucceeds
<1>3. failed' => failed \/ call["loop"].at = "failed"
  <2>1. CASE LinkStep /\ UNCHANGED loopVars
    BY <2>1 DEF loopVars
  <2>2. CASE ConsultClock \/ SetHalt \/ TimePasses
    BY <2>2 DEF ConsultClock, SetHalt, TimePasses
  <2>3. CASE CycleEnds
    BY <2>3 DEF CycleEnds
  <2>4. ASSUME NEW p \in Callers, Start(p) \/ Started(p) \/ Crash(p)
        PROVE  failed' => failed
    BY <2>4 DEF Start, Started, Crash
  <2>5. ASSUME NEW p \in Callers, Ends(p)
        PROVE  failed' => failed \/ call["loop"].at = "failed"
    BY <2>5 DEF Ends
  <2>6. CASE UNCHANGED vars
    BY <2>6 DEF vars, loopVars
  <2> QED BY <2>1, <2>2, <2>3, <2>4, <2>5, <2>6 DEF Next
<1> QED BY <1>1, <1>2, <1>3 DEF HealthyLoopSucceeds

LEMMA HealthStep == LinkInv /\ AtRestInv /\ HealthInv /\ [Next]_vars => HealthInv'
<1> SUFFICES ASSUME LinkInv, AtRestInv, HealthInv, [Next]_vars PROVE HealthInv'
  OBVIOUS
<1>1. OthersOnRecord' /\ (meddled # {} => meddled' # {})
  BY MeddledStays, OthersStep DEF LinkInv, HealthInv
<1>2. LoopAlone'
  <2>1. CASE meddled' # {}
    BY <2>1 DEF LoopAlone
  <2>2. CASE meddled' = {} /\ LinkStep
    BY <1>1, <2>2, LoopAloneLink
  <2>3. CASE meddled' = {} /\ ~LinkStep
    BY <1>1, <2>3, LoopOnLink, LoopAloneLoop DEF LinkInv
  <2> QED BY <2>1, <2>2, <2>3
<1> QED BY <1>1, <1>2, FailedStep DEF HealthInv

(* A loop that nothing has meddled with starts and ends every cycle well, for
   any lifetime of a token and any ticking of the clock (Source.Token, Refresh,
   Store.Save).                                                             *)
THEOREM HealthyLoopHolds == Spec => []HealthyLoopSucceeds
<1>1. Init => HealthInv
  BY HealthStart
<1>2. (LinkInv /\ AtRestInv) /\ HealthInv /\ [Next]_vars => HealthInv'
  BY HealthStep
<1>3. HealthInv => HealthyLoopSucceeds
  BY DEF HealthInv
<1> QED BY <1>1, <1>2, <1>3, LinkInvariant, PTL DEF Spec
-----------------------------------------------------------------------------
(* The cycles and the calendar. *)

LEMMA PhasesAt ==
  ASSUME NEW date, NEW minute \in Nat
  PROVE  /\ PhaseNow(date, minute) \in {"entry", "review", "manage", "closed"}
         /\ PhaseNow(date, minute) # "closed" =>
              /\ IsSession(date) /\ minute < CloseOf(date) /\ 570 <= minute
              /\ PhaseNow(date, minute) = "entry" <=> minute \in 612..616
              /\ PhaseNow(date, minute) = "review" <=> minute \in 907..911
         /\ \A named \in {"entry", "review"} :
              IsSession(date) /\ minute < CloseOf(date) /\ minute \in Span[named] =>
                PhaseNow(date, minute) = named
<1>1. /\ PhaseAt(minute) = IF 612 <= minute /\ minute < 617 THEN "entry"
                           ELSE IF 907 <= minute /\ minute < 912 THEN "review"
                           ELSE IF 570 <= minute /\ minute < 960 THEN "manage" ELSE "closed"
      /\ PhaseNow(date, minute) =
           IF IsSession(date) /\ minute < CloseOf(date) THEN PhaseAt(minute) ELSE "closed"
  BY DEF PhaseNow, PhaseAt, Entry, Review, Window, MarketOpen, MarketClose, Closed
<1>2. Span["entry"] = 612..616 /\ Span["review"] = 907..911
  BY DEF Span
<1>3. PhaseNow(date, minute) # "closed" =>
        IsSession(date) /\ minute < CloseOf(date) /\ PhaseNow(date, minute) = PhaseAt(minute)
  BY <1>1
<1>4. PhaseAt(minute) \in {"entry", "review", "manage", "closed"}
  BY <1>1
<1>5. /\ PhaseAt(minute) # "closed" => 570 <= minute
      /\ PhaseAt(minute) = "entry" <=> minute \in 612..616
      /\ PhaseAt(minute) = "review" <=> minute \in 907..911
  BY <1>1
<1> QED BY <1>1, <1>2, <1>3, <1>4, <1>5

\* What the loop does when it looks at the clock.
LEMMA Consulted ==
  ASSUME LinkTypeOK, AtRestInv, CycleInv, ConsultClock
  PROVE  LET phase == PhaseNow(Today, Minute)
         IN  /\ doing["loop"] = "idle" /\ cycle = NoCycle
             /\ UNCHANGED <<now, first, done>>
             /\ \/ /\ phase \in {"entry", "review"} /\ <<Today, phase>> \notin done
                   /\ doing'["loop"] = "cycle" /\ cycle' = [phase |-> phase, start |-> now]
                   /\ begun' = begun \cup {<<Today, phase>>}
                   /\ beganHere' = beganHere \cup {<<Today, phase>>}
                \/ /\ phase = "manage"
                   /\ doing'["loop"] = "cycle" /\ cycle' = [phase |-> phase, start |-> now]
                   /\ UNCHANGED <<begun, beganHere>>
                \/ UNCHANGED <<doing, cycle, begun, beganHere>>
<1> DEFINE phase == PhaseNow(Today, Minute)
<1>1. Minute \in Nat /\ now \in Nat
  BY DEF Minute, DayLength, LinkTypeOK
<1>2. phase \in {"entry", "review", "manage", "closed"}
  BY <1>1, PhasesAt
<1> HIDE DEF phase
<1>3. doing["loop"] = "idle" /\ cycle = NoCycle /\ UNCHANGED <<now, first, done>>
  BY DEF ConsultClock, CycleInv
<1>4. \/ /\ phase # "closed" /\ ~(phase # "manage" /\ <<Today, phase>> \in done)
         /\ doing' = [doing EXCEPT !["loop"] = "cycle"]
         /\ cycle' = [phase |-> phase, start |-> now]
         /\ IF phase = "manage" THEN UNCHANGED <<begun, beganHere>>
            ELSE /\ begun' = begun \cup {<<Today, phase>>}
                 /\ beganHere' = beganHere \cup {<<Today, phase>>}
      \/ UNCHANGED <<doing, cycle, begun, beganHere>>
  BY DEF ConsultClock, Closed, phase
<1>5. doing \in [Callers -> {"down", "starting", "idle", "cycle"}] /\ "loop" \in Callers
  BY LoopConstantsOK DEF AtRestInv
<1> QED BY <1>2, <1>3, <1>4, <1>5 DEF phase

\* Nothing else begins a cycle; one that ends or dies leaves none.
LEMMA CycleMoves ==
  ASSUME AtRestInv, CycleInv, [Next]_vars
  PROVE  \/ ConsultClock
         \/ CycleEnds
         \/ /\ UNCHANGED <<first, cycle, done, begun, beganHere, free>>
            /\ doing'["loop"] = "cycle" <=> doing["loop"] = "cycle"
            /\ now' = now \/ TimePasses
         \/ /\ cycle' = NoCycle /\ doing'["loop"] # "cycle" /\ beganHere' = {} /\ done' = {}
            /\ UNCHANGED <<now, first, begun, free>>
<1> USE DEF loopVars
<1>1. doing \in [Callers -> {"down", "starting", "idle", "cycle"}] /\ "loop" \in Callers
  BY LoopConstantsOK DEF AtRestInv
<1>2. CASE LinkStep /\ UNCHANGED loopVars
  BY <1>2 DEF LinkStep
<1>3. CASE SetHalt
  BY <1>3 DEF SetHalt
<1>4. CASE TimePasses
  BY <1>4 DEF TimePasses
<1>5. ASSUME NEW p \in Callers, Start(p)
      PROVE  /\ UNCHANGED <<now, first, cycle, done, begun, beganHere, free>>
             /\ doing'["loop"] = "cycle" <=> doing["loop"] = "cycle"
  BY <1>1, <1>5 DEF Start
<1>6. ASSUME NEW p \in Callers, Started(p)
      PROVE  /\ UNCHANGED <<now, first, cycle, done, begun, beganHere, free>>
             /\ doing'["loop"] = "cycle" <=> doing["loop"] = "cycle"
  BY <1>1, <1>6 DEF Started
<1>7. ASSUME NEW p \in Callers, Ends(p) \/ Crash(p)
      PROVE  \/ /\ UNCHANGED <<now, first, cycle, done, begun, beganHere, free>>
                /\ doing'["loop"] = "cycle" <=> doing["loop"] = "cycle"
             \/ /\ cycle' = NoCycle /\ doing'["loop"] # "cycle" /\ beganHere' = {} /\ done' = {}
                /\ UNCHANGED <<now, first, begun, free>>
  BY <1>1, <1>7 DEF Ends, Crash, Exit
<1>8. CASE UNCHANGED vars
  BY <1>8 DEF vars
<1> QED BY <1>2, <1>3, <1>4, <1>5, <1>6, <1>7, <1>8 DEF Next

LEMMA CycleStart == Init => CycleInv
<1> SUFFICES ASSUME Init PROVE CycleInv
  OBVIOUS
<1>1. InBound(now)
  BY FirstInstant DEF Init, InBound
<1>2. doing["loop"] # "cycle"
  BY LoopConstantsOK DEF Init
<1> QED BY <1>1, <1>2 DEF Init, CycleInv, NamedCycle, NoCycle, Closed

LEMMA CycleStep == LinkTypeOK /\ AtRestInv /\ CycleInv /\ [Next]_vars => CycleInv'
<1> SUFFICES ASSUME LinkTypeOK, AtRestInv, CycleInv, [Next]_vars PROVE CycleInv'
  OBVIOUS
<1>1. CASE ConsultClock
  <2> DEFINE phase == PhaseNow(Today, Minute)
             new == [phase |-> phase, start |-> now]
  <2>1. /\ doing["loop"] = "idle" /\ cycle = NoCycle
        /\ UNCHANGED <<now, first, done>>
        /\ \/ /\ phase \in {"entry", "review"} /\ <<Today, phase>> \notin done
              /\ doing'["loop"] = "cycle" /\ cycle' = new
              /\ begun' = begun \cup {<<Today, phase>>}
              /\ beganHere' = beganHere \cup {<<Today, phase>>}
           \/ /\ phase = "manage"
              /\ doing'["loop"] = "cycle" /\ cycle' = new
              /\ UNCHANGED <<begun, beganHere>>
           \/ UNCHANGED <<doing, cycle, begun, beganHere>>
    BY <1>1, Consulted
  <2>2. ~NamedCycle /\ beganHere \subseteq done /\ done \subseteq begun /\ InBound(now)
    BY <2>1 DEF CycleInv, NamedCycle, NoCycle, Closed
  <2>3. ASSUME cycle' = new
        PROVE  /\ cycle'.phase = phase /\ InBound(cycle'.start) /\ PhaseOf(cycle)' = <<Today, phase>>
               /\ cycle'.phase = PhaseNow(first' + cycle'.start \div DayLength, cycle'.start % DayLength)
    <3> HIDE DEF phase
    <3>1. cycle'.phase = phase /\ cycle'.start = now
      BY <2>3
    <3>2. PhaseOf(cycle)' = <<Today, phase>>
      BY <2>1, <3>1 DEF PhaseOf, Today
    <3> QED BY <2>1, <2>2, <3>1, <3>2 DEF phase, Today, Minute
  <2>4. first' \in FirstDates /\ InBound(now)'
    BY <2>1, <2>2 DEF CycleInv, InBound
  <2> HIDE DEF phase, new
  <2>5. CASE /\ phase \in {"entry", "review"} /\ <<Today, phase>> \notin done
             /\ doing'["loop"] = "cycle" /\ cycle' = new
             /\ begun' = begun \cup {<<Today, phase>>}
             /\ beganHere' = beganHere \cup {<<Today, phase>>}
    <3>1. NamedCycle' /\ PhaseOf(cycle)' = <<Today, phase>>
      BY <2>3, <2>5 DEF NamedCycle
    <3>2. beganHere' \subseteq done' \cup {PhaseOf(cycle)'} /\ done' \subseteq begun' /\ PhaseOf(cycle)' \in begun'
      BY <2>1, <2>2, <2>5, <3>1
    <3> QED BY <2>3, <2>4, <2>5, <3>1, <3>2 DEF CycleInv, InBound
  <2>6. CASE /\ phase = "manage"
             /\ doing'["loop"] = "cycle" /\ cycle' = new
             /\ UNCHANGED <<begun, beganHere>>
    <3>1. ~NamedCycle'
      BY <2>3, <2>6 DEF NamedCycle
    <3>2. beganHere' \subseteq done' /\ done' \subseteq begun'
      BY <2>1, <2>2, <2>6
    <3> QED BY <2>3, <2>4, <2>6, <3>1, <3>2 DEF CycleInv, InBound
  <2>7. CASE UNCHANGED <<doing, cycle, begun, beganHere>>
    BY <2>1, <2>2, <2>4, <2>7 DEF CycleInv, NamedCycle
  <2> QED BY <2>1, <2>5, <2>6, <2>7
<1>2. CASE CycleEnds
  <2>1. /\ doing["loop"] = "cycle" /\ doing'["loop"] = "idle" /\ cycle' = NoCycle
        /\ UNCHANGED <<now, first, begun, beganHere>>
        /\ IF cycle.phase = "manage" THEN done' = done ELSE done' = done \cup {PhaseOf(cycle)}
    BY <1>2, LoopConstantsOK DEF CycleEnds, AtRestInv, PhaseOf
  <2>2. cycle.phase \in {"entry", "review", "manage"} /\ ~NamedCycle'
    BY <2>1 DEF CycleInv, NamedCycle, NoCycle, Closed
  <2>3. beganHere' \subseteq done' /\ done' \subseteq begun'
    BY <2>1, <2>2 DEF CycleInv, NamedCycle
  <2> QED BY <2>1, <2>2, <2>3 DEF CycleInv, InBound
<1>3. CASE /\ UNCHANGED <<first, cycle, done, begun, beganHere, free>>
           /\ doing'["loop"] = "cycle" <=> doing["loop"] = "cycle"
           /\ now' = now \/ TimePasses
  <2>1. InBound(now')
    BY <1>3, ClockMoves DEF TimePasses, CycleInv, InBound
  <2>2. NamedCycle' = NamedCycle /\ PhaseOf(cycle)' = PhaseOf(cycle)
    BY <1>3 DEF NamedCycle, PhaseOf
  <2>3. InBound(cycle.start)' = InBound(cycle.start)
    BY <1>3 DEF InBound
  <2> QED BY <1>3, <2>1, <2>2, <2>3 DEF CycleInv
<1>4. CASE /\ cycle' = NoCycle /\ doing'["loop"] # "cycle" /\ beganHere' = {} /\ done' = {}
           /\ UNCHANGED <<now, first, begun, free>>
  <2>1. ~NamedCycle'
    BY <1>4 DEF NamedCycle, NoCycle, Closed
  <2> QED BY <1>4, <2>1 DEF CycleInv, InBound
<1> QED BY <1>1, <1>2, <1>3, <1>4, CycleMoves

(* The books of the cycles: what runs, what is done and what has begun agree
   at every step (Serve).                                                   *)
THEOREM CycleInvariant == Spec => [](LinkTypeOK /\ AtRestInv /\ CycleInv)
<1>1. Init => CycleInv
  BY CycleStart
<1>2. LinkTypeOK /\ AtRestInv /\ CycleInv /\ [Next]_vars => CycleInv'
  BY CycleStep
<1>3. LinkInv => LinkTypeOK
  BY DEF LinkInv
<1> QED BY <1>1, <1>2, <1>3, LinkInvariant, PTL DEF Spec

(* No process fires a named phase twice in a session: what has begun in it is
   done or running, and what is done is not due (Serve).                    *)
THEOREM PhasesFireOnce == Spec => PhaseFiresOnce
<1>1. ASSUME LinkTypeOK, AtRestInv, CycleInv, [Next]_vars,
             cycle' # cycle, cycle'.phase \in {"entry", "review"}
      PROVE  beganHere' # beganHere
  <2>1. ConsultClock
    <3>1. NoCycle.phase = "closed"
      BY DEF NoCycle, Closed
    <3> QED BY <1>1, <3>1, CycleMoves DEF CycleEnds
  <2>2. <<Today, PhaseNow(Today, Minute)>> \notin beganHere
    <3>1. /\ cycle = NoCycle /\ cycle' = [phase |-> PhaseNow(Today, Minute), start |-> now]
          /\ <<Today, PhaseNow(Today, Minute)>> \notin done
      BY <1>1, <2>1, Consulted
    <3>2. beganHere \subseteq done
      BY <1>1, <3>1 DEF CycleInv, NamedCycle, NoCycle, Closed
    <3> QED BY <3>1, <3>2
  <2>3. beganHere' = beganHere \cup {<<Today, PhaseNow(Today, Minute)>>}
    BY <1>1, <2>1, Consulted
  <2> QED BY <2>2, <2>3
<1>2. LinkTypeOK /\ AtRestInv /\ CycleInv /\ [Next]_vars =>
        [cycle' # cycle /\ cycle'.phase \in {"entry", "review"} => beganHere' # beganHere]_vars
  BY <1>1
<1> QED BY <1>2, CycleInvariant, PTL DEF Spec, PhaseFiresOnce

-----------------------------------------------------------------------------
(* What follows where the reference's sessions are the calendar's. *)

LEMMA DateInReach ==
  ASSUME first \in FirstDates, NEW minutes, InBound(minutes)
  PROVE  /\ first + minutes \div DayLength \in {start + day : start \in FirstDates, day \in 0..Days}
         /\ minutes % DayLength \in Nat
<1>1. minutes \div 1440 \in 0..Days
  BY FirstInstant DEF InBound, DayLength
<1>2. minutes % 1440 \in Nat
  BY DEF InBound
<1> QED BY <1>1, <1>2 DEF DayLength

(* A cycle begins on a session, before its close, and a named one in its own
   window, whatever the dates and the instants the clock shows (phaseNow).  *)
THEOREM HoursAreKept ==
  ASSUME CalendarAgrees
  PROVE  Spec => []CyclesKeepHours
<1>1. ASSUME CycleInv PROVE CyclesKeepHours
  <2> SUFFICES ASSUME cycle # NoCycle
               PROVE  LET date == first + cycle.start \div DayLength
                          minute == cycle.start % DayLength
                      IN  /\ date \in DOMAIN Sessions /\ 570 <= minute /\ minute < Sessions[date]
                          /\ cycle.phase = "entry" <=> minute \in 612..616
                          /\ cycle.phase = "review" <=> minute \in 907..911
    BY DEF CyclesKeepHours
  <2> DEFINE date == first + cycle.start \div DayLength
             minute == cycle.start % DayLength
  <2>1. /\ cycle.phase \in {"entry", "review", "manage"}
        /\ cycle.phase = PhaseNow(date, minute) /\ InBound(cycle.start)
    BY <1>1 DEF CycleInv
  <2>2. date \in {start + day : start \in FirstDates, day \in 0..Days} /\ minute \in Nat
    BY <1>1, <2>1, DateInReach DEF CycleInv
  <2> HIDE DEF date, minute
  <2>3. /\ IsSession(date) /\ minute < CloseOf(date) /\ 570 <= minute
        /\ cycle.phase = "entry" <=> minute \in 612..616
        /\ cycle.phase = "review" <=> minute \in 907..911
    BY <2>1, <2>2, PhasesAt
  <2>4. date \in DOMAIN Sessions /\ Sessions[date] = CloseOf(date)
    BY <2>2, <2>3 DEF CalendarAgrees
  <2> QED BY <2>3, <2>4 DEF date, minute
<1> QED BY <1>1, CycleInvariant, PTL

(* A window the loop was awake in once, not halted, has had its cycle, for any
   clock, any spacing of the management cycles and any failures (Serve).    *)
THEOREM WindowsServed ==
  ASSUME CalendarAgrees
  PROVE  Spec => []WindowsAreServed
<1>1. Init => WindowsAreServed
  BY DEF Init, WindowsAreServed
<1>2. ASSUME LinkTypeOK, AtRestInv, CycleInv, WindowsAreServed, [Next]_vars
      PROVE  WindowsAreServed'
  <2>1. CASE ConsultClock
    <3>1. CASE halted
      BY <1>2, <2>1, <3>1, Consulted DEF ConsultClock, WindowsAreServed
    <3>2. CASE ~halted
      <4>1. begun \subseteq begun' /\ done \subseteq begun
        BY <1>2, <2>1, Consulted DEF CycleInv
      <4>2. ASSUME NEW window \in NamedWindows PROVE window \in begun'
        <5>1. PICK named \in {"entry", "review"} :
                /\ window = <<Today, named>> /\ Today \in DOMAIN Sessions
                /\ Minute < Sessions[Today] /\ Minute \in Span[named]
          BY DEF NamedWindows, Span
        <5>2. /\ Today \in {start + day : start \in FirstDates, day \in 0..Days}
              /\ Minute \in Nat
          BY <1>2, DateInReach DEF CycleInv, Today, Minute
        <5>3. IsSession(Today) /\ Minute < CloseOf(Today)
          BY <5>1, <5>2 DEF CalendarAgrees
        <5>4. PhaseNow(Today, Minute) = named
          BY <5>1, <5>2, <5>3, PhasesAt
        <5>5. <<Today, named>> \in done \/ begun' = begun \cup {<<Today, named>>}
          BY <2>1, <3>2, <5>4 DEF ConsultClock, Throttled, Closed
        <5> QED BY <4>1, <5>1, <5>5
      <4>3. free' = free \cup NamedWindows
        BY <2>1, <3>2 DEF ConsultClock
      <4> QED BY <1>2, <4>1, <4>2, <4>3 DEF WindowsAreServed
    <3> QED BY <3>1, <3>2
  <2>2. CASE CycleEnds
    BY <1>2, <2>2 DEF CycleEnds, WindowsAreServed
  <2> QED BY <1>2, <2>1, <2>2, CycleMoves DEF WindowsAreServed
<1>3. (LinkInv /\ AtRestInv) /\ CycleInv /\ WindowsAreServed /\ [Next]_vars => WindowsAreServed'
  BY <1>2 DEF LinkInv
<1> QED BY <1>1, <1>3, CycleInvariant, LinkInvariant, PTL DEF Spec

=============================================================================
