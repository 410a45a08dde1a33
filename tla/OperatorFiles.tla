--------------------------- MODULE OperatorFiles ---------------------------
(***************************************************************************)
(* The files the operator's commands change and every run reads: the       *)
(* promotions (stage.go), the halt marker (halt.go), a symbol's bars       *)
(* (refill.go, bars.go) and a spec (install.go).  Each change is written   *)
(* to a temporary file and renamed into place; requests of the phone, the  *)
(* command line and the runner run at once, and nothing locks them.        *)
(***************************************************************************)
EXTENDS Naturals, FiniteSets

CONSTANTS
  Requests,               \* the requests that may be in flight at once
  Names,                  \* the specs that may be promoted
  MaxBars,                \* bound: the bars a vendor may answer
  MaxDone                 \* bound: the requests that begin

VARIABLES
  disk,                   \* the files
  tmp,                    \* the temporary file of each
  renames,                \* how many times each has been renamed into place
  request,                \* what each request in flight is at
  started,                \* how many have begun
  decided,                \* history: the promotions as they were decided
  promised,               \* history: a halt was answered and no resume came since
  overlapped              \* history: the files two requests wrote at once

vars == <<disk, tmp, renames, request, started, decided, promised, overlapped>>

Files == {"stages", "HALT", "bars", "spec.yaml", "spec.yml"}
None == [is |-> "none"]
Torn == [is |-> "torn"]   \* truncated, and not yet written
Whole(value) == [is |-> "whole", value |-> value]
Readable(content) == content.is = "whole"

Idle == [at |-> "idle"]
Writing == {"asking", "opening", "writing", "renaming"}
Writers(f) == {r \in Requests : request[r].at \in Writing /\ request[r].file = f}

Become(r, to) == request' = [request EXCEPT ![r] = to]
Leave(r) == Become(r, Idle)
Goes(r, to) == Become(r, [request[r] EXCEPT !.at = to])

-----------------------------------------------------------------------------
(* A request begins: it reads the file and decides what to write there. *)

Begins(r, f, op, arg, at) ==
  /\ started' = started + 1
  /\ Become(r, [at |-> at, file |-> f, op |-> op, arg |-> arg, seen |-> 0, resumed |-> FALSE])
  /\ overlapped' = IF at \in Writing /\ Writers(f) # {} THEN overlapped \cup {f} ELSE overlapped

\* Load: no file is no promotions, an unreadable one is an error.
Promotions == IF disk["stages"] = None THEN {} ELSE disk["stages"].value
\* A faulty variant of Changed: a return to paper forgets the other names.
ChangedAll(live, name, to) == IF to = "live" THEN live \cup {name} ELSE {}

Changed(live, name, to) == IF to = "live" THEN live \cup {name} ELSE live \ {name}

SetStage(r) ==
  \E name \in Names, to \in {"paper", "live"} :
    /\ disk["stages"] # Torn
    /\ Begins(r, "stages", <<name, to>>, Changed(Promotions, name, to), "opening")
    /\ UNCHANGED <<disk, tmp, renames, decided, promised>>

\* A faulty variant of Halt: a halt that finds the temporary file leaves it to its writer.
HaltTrusting(r) ==
  \E reason \in {"operator", "drawdown"} :
    /\ IF disk["HALT"] # None \/ tmp["HALT"] # None
       THEN /\ promised' = TRUE
            /\ started' = started + 1
            /\ UNCHANGED <<request, overlapped>>
       ELSE Begins(r, "HALT", reason, reason, "opening") /\ UNCHANGED promised
    /\ UNCHANGED <<disk, tmp, renames, decided>>

\* A marker that is there, readable or not, is the first reason: nothing is written.
Halt(r) ==
  \E reason \in {"operator", "drawdown"} :
    /\ IF disk["HALT"] # None
       THEN /\ promised' = TRUE
            /\ started' = started + 1
            /\ UNCHANGED <<request, overlapped>>
       ELSE Begins(r, "HALT", reason, reason, "opening") /\ UNCHANGED promised
    /\ UNCHANGED <<disk, tmp, renames, decided>>

Resume ==
  /\ disk["HALT"] # None
  /\ disk' = [disk EXCEPT !["HALT"] = None]
  /\ promised' = FALSE
  /\ request' = [r \in Requests |->
       IF request[r] # Idle THEN [request[r] EXCEPT !.resumed = TRUE] ELSE Idle]
  /\ UNCHANGED <<tmp, renames, started, decided, overlapped>>

\* The bars on disk are the floor the answer has to clear; none when unreadable.
Refill(r) ==
  /\ Begins(r, "bars", "refill",
            IF Readable(disk["bars"]) THEN disk["bars"].value ELSE 0, "asking")
  /\ UNCHANGED <<disk, tmp, renames, decided, promised>>

\* A faulty variant of Accepts: any answer with bars replaces the file.
AcceptsAny(answer, floor) == answer > 0

Accepts(answer, floor) == answer > 0 /\ answer >= floor

\* The vendor answers that many bars, none for an error.
Fetched(r) ==
  /\ request[r].at = "asking"
  /\ \E answer \in 0..MaxBars :
       IF Accepts(answer, request[r].arg)
       THEN Become(r, [request[r] EXCEPT !.at = "opening", !.arg = answer])
       ELSE Leave(r)
  /\ UNCHANGED <<disk, tmp, renames, started, decided, promised, overlapped>>

Installed == disk["spec.yaml"] # None \/ disk["spec.yml"] # None

(* A spec that passes Check, over nothing or, when asked to, over what is
   there; one that does not pass is refused with nothing written.           *)
Install(r) ==
  \E version \in {"first", "second"}, replace \in BOOLEAN :
    /\ Installed => replace
    /\ Begins(r, "spec.yaml", IF replace THEN "replace" ELSE "import", version, "opening")
    /\ UNCHANGED <<disk, tmp, renames, decided, promised>>

\* The .yaml first; a .yml of the same name stays when both are there.
Remove ==
  /\ Installed
  /\ disk' = [disk EXCEPT ![IF disk["spec.yaml"] # None THEN "spec.yaml" ELSE "spec.yml"] = None]
  /\ UNCHANGED <<tmp, renames, request, started, decided, promised, overlapped>>

-----------------------------------------------------------------------------
(* Written whole and renamed into place. *)

\* The temporary file is opened and truncated, another's with it.
OpenTmp(r) ==
  /\ request[r].at = "opening"
  /\ tmp' = [tmp EXCEPT ![request[r].file] = Torn]
  /\ Become(r, [request[r] EXCEPT !.at = "writing", !.seen = renames[request[r].file]])
  /\ UNCHANGED <<disk, renames, started, decided, promised, overlapped>>

(* What is written goes to the file that was opened, wherever it is by now:
   still the temporary one, renamed into place since, or replaced there.    *)
Write(r) ==
  LET f == request[r].file
      content == Whole(request[r].arg)
  IN /\ request[r].at = "writing"
     /\ CASE renames[f] = request[r].seen ->
               tmp' = [tmp EXCEPT ![f] = content] /\ UNCHANGED disk
          [] renames[f] = request[r].seen + 1 /\ disk[f] # None ->
               disk' = [disk EXCEPT ![f] = content] /\ UNCHANGED tmp
          [] OTHER -> UNCHANGED <<disk, tmp>>
     /\ Goes(r, "renaming")
     /\ UNCHANGED <<renames, started, decided, promised, overlapped>>

WriteFails(r) ==
  /\ request[r].at = "writing"
  /\ tmp' = IF request[r].file = "bars" THEN [tmp EXCEPT !["bars"] = None] ELSE tmp
  /\ Leave(r)
  /\ UNCHANGED <<disk, renames, started, decided, promised, overlapped>>

\* A faulty variant of Rename: what was written is copied over, not moved.
RenameByCopy(r) ==
  LET f == request[r].file
  IN /\ request[r].at = "renaming" /\ tmp[f] # None
     /\ disk' = [disk EXCEPT ![f] = IF disk[f] = Torn THEN tmp[f] ELSE Torn]
     /\ IF disk[f] = Torn THEN Leave(r) ELSE UNCHANGED request
     /\ UNCHANGED <<tmp, renames, started, decided, promised, overlapped>>

Rename(r) ==
  LET f == request[r].file
      op == request[r].op
  IN /\ request[r].at = "renaming"
     /\ IF tmp[f] = None THEN UNCHANGED <<disk, tmp, renames, decided, promised>>
        ELSE /\ disk' = [disk EXCEPT ![f] = tmp[f]]
             /\ tmp' = [tmp EXCEPT ![f] = None]
             /\ renames' = [renames EXCEPT ![f] = @ + 1]
             /\ decided' = IF f = "stages"
                         THEN {n \in Names : IF n = op[1] THEN op[2] = "live" ELSE n \in decided}
                         ELSE decided
             /\ promised' = (promised \/ (f = "HALT" /\ ~request[r].resumed))
     /\ IF f = "spec.yaml" /\ op = "replace" /\ tmp[f] # None THEN Goes(r, "clearing") ELSE Leave(r)
     /\ UNCHANGED <<started, overlapped>>

\* A .yml of the same name is superseded.
ClearYml(r) ==
  /\ request[r].at = "clearing"
  /\ disk' = [disk EXCEPT !["spec.yml"] = None]
  /\ Leave(r)
  /\ UNCHANGED <<tmp, renames, started, decided, promised, overlapped>>

\* The server stops: every request is cut off where it is.
Crash ==
  /\ \E r \in Requests : request[r] # Idle
  /\ request' = [r \in Requests |-> Idle]
  /\ UNCHANGED <<disk, tmp, renames, started, decided, promised, overlapped>>

-----------------------------------------------------------------------------
Init ==
  /\ \E yaml, yml \in {None, Whole("first")} :
       disk = [f \in Files |-> CASE f = "spec.yaml" -> yaml [] f = "spec.yml" -> yml [] OTHER -> None]
  /\ tmp = [f \in Files |-> None]
  /\ renames = [f \in Files |-> 0]
  /\ request = [r \in Requests |-> Idle]
  /\ started = 0
  /\ decided = {}
  /\ promised = FALSE
  /\ overlapped = {}

Next ==
  \/ \E r \in Requests :
       \/ /\ request[r] = Idle /\ started < MaxDone
          /\ SetStage(r) \/ Halt(r) \/ Refill(r) \/ Install(r)
       \/ Fetched(r) \/ OpenTmp(r) \/ Write(r) \/ WriteFails(r) \/ Rename(r) \/ ClearYml(r)
  \/ Resume \/ Remove \/ Crash

Spec == Init /\ [][Next]_vars

-----------------------------------------------------------------------------
(* Properties.  Each is what a file promises while no two requests write it
   at once; what two may do to it is in the README.                         *)

(* A reader never finds half a file, whatever stops its writer and whenever it
   looks (bars.Write, Halt: written whole and renamed into place).          *)
NoTornFile == \A f \in Files \ overlapped : disk[f] # Torn

(* The promotions on disk are those decided, each name by its last decision,
   after any requests, failures and crashes (Set, handleSetStage).          *)
DecisionsStand == "stages" \notin overlapped => Promotions = decided

(* A refill never shortens a symbol's history (refill.one, manage.go).       *)
HistoryKept ==
  [][Readable(disk["bars"]) /\ "bars" \notin overlapped' =>
       /\ Readable(disk'["bars"])
       /\ disk'["bars"].value >= disk["bars"].value]_vars

(* A halt that was answered is in force until it is resumed, two halts at once
   and a crash included (Halt, Status).                                     *)
HaltIsInForce == promised => disk["HALT"] # None
=============================================================================
