-------------------------- MODULE MCTaskScheduler --------------------------
(* A kernel pool of a 1 ms and a slower task, a client pool of two, the    *)
(* idle and the dummy thread, and a tick counter that stops after one      *)
(* common period of the rates and a tick.                                  *)
EXTENDS TaskScheduler

MCKernelRate == <<1, 2>>
MCClientRate == <<3, 1>>
=============================================================================
