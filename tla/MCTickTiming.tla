---------------------------- MODULE MCTickTiming ----------------------------
(* Both kinds of ticks over the pools of MCTaskScheduler.                  *)
EXTENDS TickTiming, MCTaskScheduler
=============================================================================
