----------------------------- MODULE BrokerLink -----------------------------
(***************************************************************************)
(* The sign-in of the trading machine and the calls that rest on it: the   *)
(* token file, the copy each process keeps of it, the refresh when the     *)
(* access token runs out, the session of each client, and the answer found *)
(* in what the server streams (mcp/client.go, mcp/sse.go, oauth/oauth.go). *)
(* The broker's two servers are external: what they accept and answer is   *)
(* what the client code expects of them.                                   *)
(***************************************************************************)
EXTENDS Naturals, Sequences, Functions

CONSTANTS
  Callers,                \* the processes that call the broker
  Lifetime,               \* minutes an access token lasts
  MaxGrants,              \* bound: refresh tokens the server ever issues
  MaxTroubles             \* bound: faults and operator's commands

SignIn == "login"         \* the process that only signs in
Procs == Callers \cup {SignIn}

\* A token lasts a while; a process that only signs in calls nobody.
ASSUME LinkConstantsOK ==
  /\ Lifetime \in Nat \ {0}
  /\ SignIn \notin Callers

VARIABLES
  now,                    \* minutes since the first midnight
  rotates,                \* the server replaces a refresh token at each use
  accepted,               \* the refresh tokens the server accepts
  issued,                 \* how many it has issued
  file,                   \* robinhood-token.json
  tmp,                    \* the temporary file a save renames
  renamed,                \* how many times it has been renamed into place
  memory,                 \* the token a process holds
  session,                \* the session id of a process's client
  call,                   \* how far the call of a process is
  meddled,                \* history: why a call may fail (see Meddle)
  spoiled,                \* history: a token was lost or saves overlapped, and no
                          \* save that stood alone has come since
  troubles

linkVars == <<rotates, accepted, issued, file, tmp, renamed, memory, session, call,
              meddled, spoiled, troubles>>
server == <<rotates, accepted, issued>>
disk == <<file, tmp, renamed>>

NotTold == 0              \* the answer to a refresh names no refresh token

\* What a file may be in place of a token: not there, truncated and not yet
\* written, or half a token or the ends of two.  Load makes an error of each.
NoToken == [refresh |-> 0, expiry |-> 0]
Emptied == [refresh |-> 0, expiry |-> 1]
Garbled == [refresh |-> 0, expiry |-> 2]
Unreadable == {NoToken, Emptied, Garbled}

-----------------------------------------------------------------------------
(* The token. *)

Expired(token) == now + 1 > token.expiry

\* A faulty variant of Refreshed: the answer replaces the token whole.
RefreshedBare(token, answer) == answer

Refreshed(token, answer) ==
  [answer EXCEPT !.refresh = IF answer.refresh = NotTold THEN token.refresh ELSE @]

\* External: the token endpoint accepts each refresh token it has not replaced.
TokenEndpoint(token) ==
  [refresh |-> IF rotates THEN issued + 1 ELSE NotTold, expiry |-> now + Lifetime]

-----------------------------------------------------------------------------
(* The stages of a call. *)

AtRest == [at |-> "none"]
Stage(s) == [at |-> s]
Got(s, token) == [at |-> s, token |-> token]
Move(p, stage) == call' = [call EXCEPT ![p] = stage]

Trouble ==
  /\ troubles < MaxTroubles
  /\ troubles' = troubles + 1

\* What makes a later call fail though nothing in the calling process is wrong.
Meddle(why) == meddled' = meddled \cup {why}

(* Source.Token: the process's copy, or the file's the first time, refreshed
   when it has expired.  Nobody reads the file again.                       *)
Token(p) ==
  LET held == IF memory[p] = NoToken THEN file ELSE memory[p]
  IN /\ call[p].at = "begun"
     /\ memory' = IF held \in Unreadable THEN memory ELSE [memory EXCEPT ![p] = held]
     /\ CASE held \in Unreadable ->
               Move(p, Stage("failed")) /\ UNCHANGED <<server, meddled>>
          [] held \notin Unreadable /\ ~Expired(held) ->
               Move(p, Stage("sent")) /\ UNCHANGED <<server, meddled>>
          [] OTHER ->
               IF held.refresh \in accepted
               THEN /\ issued < MaxGrants
                    /\ Move(p, Got("refreshed", Refreshed(held, TokenEndpoint(held))))
                    /\ issued' = IF rotates THEN issued + 1 ELSE issued
                    /\ accepted' = IF rotates THEN (accepted \ {held.refresh}) \cup {issued + 1}
                                   ELSE accepted
                    /\ UNCHANGED rotates
                    /\ IF p = "loop" THEN UNCHANGED meddled ELSE Meddle("other")
               ELSE Move(p, Stage("failed")) /\ UNCHANGED <<server, meddled>>
     /\ UNCHANGED <<disk, session, spoiled, troubles>>

\* The server has answered a refresh; the answer never arrives, or there is no
\* opening a file to save it in.
LoseAnswer(p) ==
  /\ call[p].at = "refreshed"
  /\ Trouble
  /\ Move(p, Stage("failed"))
  /\ Meddle("lost")
  /\ spoiled' = TRUE
  /\ UNCHANGED <<server, disk, memory, session>>

(* Store.Save: the temporary file is opened, truncated and written, and then
   renamed.  Its name is every process's: whoever opens it truncates what
   another has in it, and a rename may find another's token, or none.       *)
Unsaved == {"refreshed", "opened", "written"}
Saving == {"opened", "written"}
OthersSaving(p) == \E q \in Procs \ {p} : call[q].at \in Saving

OpenTmp(p) ==
  /\ call[p].at = "refreshed"
  /\ tmp' = Emptied
  /\ Move(p, [at |-> "opened", token |-> call[p].token, seen |-> renamed])
  /\ spoiled' = (spoiled \/ OthersSaving(p))
  /\ UNCHANGED <<server, file, renamed, memory, session, meddled, troubles>>

\* What is written goes to the file that was opened, wherever it is by now:
\* still the temporary one, renamed into place since, or replaced there.
Lands(p, inTmp, inFile) ==
  CASE renamed = call[p].seen     -> tmp' \in inTmp /\ UNCHANGED file
    [] renamed = call[p].seen + 1 -> file' \in inFile /\ UNCHANGED tmp
    [] OTHER                      -> UNCHANGED <<file, tmp>>

\* Written from the start of the file, over what another may have put there
\* since it was truncated: the longer of the two shows.
Over(content, token) == IF content = Emptied THEN {token} ELSE {token, Garbled}

Write(p) ==
  /\ call[p].at = "opened"
  /\ Lands(p, Over(tmp, call[p].token), Over(file, call[p].token))
  /\ Move(p, Got("written", call[p].token))
  /\ UNCHANGED <<server, renamed, memory, session, meddled, spoiled, troubles>>

\* A disk that fills up takes nothing, or half.
WriteFails(p) ==
  /\ call[p].at = "opened"
  /\ Trouble
  /\ Lands(p, {tmp, Garbled}, {file, Garbled})
  /\ Move(p, Stage("failed"))
  /\ Meddle("lost")
  /\ spoiled' = TRUE
  /\ UNCHANGED <<server, renamed, memory, session>>

\* A faulty variant of Rename: the refreshed token is kept in memory alone.
RenameNothing(p) ==
  /\ call[p].at = "written"
  /\ Move(p, IF p = SignIn THEN Stage("answered") ELSE Stage("sent"))
  /\ tmp' = NoToken
  /\ memory' = IF p = SignIn THEN memory ELSE [memory EXCEPT ![p] = call[p].token]
  /\ UNCHANGED <<server, file, renamed, session, meddled, spoiled, troubles>>

\* A save that stood alone makes up for all that was lost before.
Rename(p) ==
  /\ call[p].at = "written"
  /\ IF tmp = NoToken
     THEN /\ Move(p, Stage("failed"))
          /\ UNCHANGED <<disk, memory, spoiled>>
     ELSE /\ file' = tmp
          /\ tmp' = NoToken
          /\ renamed' = renamed + 1
          /\ Move(p, IF p = SignIn THEN Stage("answered") ELSE Stage("sent"))
          /\ memory' = IF p = SignIn THEN memory
                       ELSE [memory EXCEPT ![p] = call[p].token]
          /\ spoiled' = (spoiled /\ (tmp # call[p].token \/ OthersSaving(p)))
  /\ UNCHANGED <<server, session, meddled, troubles>>

-----------------------------------------------------------------------------
(* A request and its answer. *)

\* What may come down a stream: messages of whose request, with what they say.
Messages == [for : {"mine", "other", "nobody"}, says : {"result", "error", "notice"}]
Verdicts == {"result", "error"}

FindInStream(stream) ==
  LET found == {i \in DOMAIN stream : stream[i].for = "mine" /\ stream[i].says \in Verdicts}
  IN IF found = {} THEN "no answer"
     ELSE stream[CHOOSE i \in found : \A j \in found : i <= j].says

(* External: a server that did what was asked, or refused it, streams that
   answer, unless the stream is cut, after whatever else it has to say.     *)
Streams(verdict) ==
  LET noise == {m \in Messages : m.for # "mine" \/ m.says = "notice"}
      mine == [for |-> "mine", says |-> verdict]
  IN {<<mine>>} \cup {<<n>> : n \in noise} \cup {<<n, mine>> : n \in noise}

(* Call and post: the server's answer to what was sent, while it knows the
   session.  A 401, a session gone and a transport error are answers too.   *)
Answer(p) ==
  /\ call[p].at \in {"sent", "late"}
  /\ now <= memory[p].expiry
  /\ session[p] # "gone"
  /\ \E verdict \in Verdicts :
       /\ verdict = "error" => troubles < MaxTroubles
       /\ \E stream \in Streams(verdict) :
            LET got == FindInStream(stream)
            IN /\ Move(p, Stage(IF got = "result" THEN "answered" ELSE "failed"))
               /\ IF verdict = "error" \/ got = "no answer"
                  THEN Trouble /\ Meddle("refused")
                  ELSE UNCHANGED <<troubles, meddled>>
  /\ session' = [session EXCEPT ![p] = "open"]
  /\ UNCHANGED <<server, disk, memory, spoiled>>

\* The session was dropped by the server: nothing opens another but Initialize.
SessionGone(p) ==
  /\ call[p].at \in {"sent", "late"}
  /\ session[p] = "gone"
  /\ Move(p, Stage("failed"))
  /\ UNCHANGED <<server, disk, memory, session, meddled, spoiled, troubles>>

\* A 401: the access token has run out on the way, or the server revoked it.
Unauthorized(p) ==
  /\ call[p].at \in {"sent", "late"}
  /\ IF now > memory[p].expiry THEN UNCHANGED <<meddled, troubles>>
     ELSE Trouble /\ Meddle("refused")
  /\ Move(p, Stage("failed"))
  /\ UNCHANGED <<server, disk, memory, session, spoiled>>

DropSession(p) ==
  /\ session[p] = "open"
  /\ Trouble
  /\ session' = [session EXCEPT ![p] = "gone"]
  /\ Meddle("refused")
  /\ UNCHANGED <<server, disk, memory, call, spoiled>>

-----------------------------------------------------------------------------
(* Sign-in: a person authorizes in a browser, the code is exchanged for a
   token of its own grant, and the token is saved (mcpCommand, Login).      *)
LoginBegins ==
  /\ call[SignIn].at \in {"none", "failed", "answered"}
  /\ Trouble
  /\ Move(SignIn, Stage("waiting"))
  /\ UNCHANGED <<server, disk, memory, session, meddled, spoiled>>

\* The redirect: with our state and a code, or not.
Redirected ==
  /\ call[SignIn].at = "waiting"
  /\ \/ /\ issued < MaxGrants
        /\ issued' = issued + 1
        /\ accepted' = accepted \cup {issued + 1}
        /\ Move(SignIn, Got("refreshed", [refresh |-> issued + 1, expiry |-> now + Lifetime]))
        /\ Meddle("other")
        /\ UNCHANGED rotates
     \/ /\ Move(SignIn, Stage("failed"))
        /\ UNCHANGED <<server, meddled>>
  /\ UNCHANGED <<disk, memory, session, spoiled, troubles>>

-----------------------------------------------------------------------------
(* The transport gives up after sixty seconds: a call that was on its way is
   late when the clock has moved a minute, and is over before it moves again;
   a refresh, whose answer lasts for hours, is taken to be over at once.  Only
   the loop, whose call stands for all those of a cycle, lingers before it.  *)
InTime(minutes) ==
  \A p \in Procs :
    /\ call[p].at \notin Unsaved \cup {"late"}
    /\ call[p].at = "sent" => minutes <= 1
    /\ p \in Callers \ {"loop"} => call[p].at \in {"none", "sent"}
Later(stages) == [p \in Procs |-> IF stages[p].at = "sent" THEN Stage("late") ELSE stages[p]]

\* A process ends: what it held is gone, its refresh unsaved if it had one.
Forget(p) ==
  /\ memory' = [memory EXCEPT ![p] = NoToken]
  /\ session' = [session EXCEPT ![p] = "none"]
  /\ Move(p, AtRest)
  /\ IF call[p].at \in Unsaved
     THEN Meddle("lost") /\ spoiled' = TRUE
     ELSE UNCHANGED <<meddled, spoiled>>
  /\ UNCHANGED <<server, disk>>

LinkInit ==
  /\ rotates \in BOOLEAN
  /\ accepted = {1}
  /\ issued = 1
  /\ file \in {NoToken, [refresh |-> 1, expiry |-> Lifetime]}
  /\ tmp = NoToken /\ renamed = 0
  /\ memory = [p \in Procs |-> NoToken]
  /\ session = [p \in Procs |-> "none"]
  /\ call = [p \in Procs |-> AtRest]
  /\ meddled = IF file = NoToken THEN {"lost"} ELSE {}
  /\ spoiled = (file = NoToken)
  /\ troubles = 0

LinkStep ==
  /\ \E p \in Procs :
       \/ LoseAnswer(p) \/ OpenTmp(p) \/ Write(p) \/ WriteFails(p) \/ Rename(p)
       \/ p # SignIn /\ (Token(p) \/ Answer(p) \/ SessionGone(p) \/ Unauthorized(p) \/ DropSession(p))
       \/ p = SignIn /\ (LoginBegins \/ Redirected)
  /\ UNCHANGED now

-----------------------------------------------------------------------------
(* Properties. *)

(* The token on disk is one a restarted process can go on with: the server
   accepts it, unless a refresh it had answered was lost before it was saved
   or two processes saved at once, and until the next that saves alone
   (Store.Save before the memory, Source.Token).                            *)
RestartHeals ==
  ~spoiled /\ (\A p \in Procs : call[p].at \notin Unsaved) => file.refresh \in accepted
=============================================================================
