---------------------------- MODULE MCScheduler ----------------------------
(* Two sessions of five ticks; the second closes early, a tick sooner. *)
EXTENDS Scheduler

EarlySecond == <<3, 7>>
=============================================================================
