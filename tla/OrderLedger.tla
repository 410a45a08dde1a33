---------------------------- MODULE OrderLedger ----------------------------
(***************************************************************************)
(* What the journal promises about orders (package journal, its comment:   *)
(* "no order is submitted without an allowed risk decision for the same    *)
(* intent"), free of files, runs and crashes.  A ticket is one intent of   *)
(* one run at the quantity the risk gate let through.  It is allowed, then *)
(* submitted, then executed, in that order and each at most once; nothing  *)
(* that was recorded is ever taken back.                                   *)
(***************************************************************************)
VARIABLES
  allowed,    \* tickets with an allowed risk_decision on disk
  submitted,  \* tickets with an order_submitted on disk
  executed    \* tickets the broker has executed

ledgerVars == <<allowed, submitted, executed>>

LedgerInit == allowed = {} /\ submitted = {} /\ executed = {}

Allow(t) ==
  /\ t \notin allowed
  /\ allowed' = allowed \union {t}
  /\ UNCHANGED <<submitted, executed>>

Submit(t) ==
  /\ t \in allowed \ submitted
  /\ submitted' = submitted \union {t}
  /\ UNCHANGED <<allowed, executed>>

Execute(t) ==
  /\ t \in submitted \ executed
  /\ executed' = executed \union {t}
  /\ UNCHANGED <<allowed, submitted>>

LedgerNext ==
  \/ \E t \in allowed' : Allow(t)
  \/ \E t \in allowed : Submit(t)
  \/ \E t \in submitted : Execute(t)

LedgerSpec == LedgerInit /\ [][LedgerNext]_ledgerVars

=============================================================================
