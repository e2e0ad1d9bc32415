------------------------- MODULE CooperativeKernel -------------------------
(***************************************************************************)
(* What the scheduler promises its tasks, without queues, locals or        *)
(* interrupts: tasks are released together once all earlier ones are done, *)
(* a started task is never pre-empted by another, client tasks wait for    *)
(* the kernel's, and a thread only runs while no task is ready.            *)
(***************************************************************************)
CONSTANTS KernelTask, ClientTask

VARIABLES
  ready,    \* tasks released and not finished
  running,  \* the started one, as a set
  thread    \* whether a thread has the core

vars == <<ready, running, thread>>
Task == KernelTask \cup ClientTask

Init == ready = ClientTask /\ running = {} /\ thread = FALSE

Release ==
  /\ ready = {}
  /\ ready' \in SUBSET Task
  /\ thread' = FALSE
  /\ UNCHANGED running

Start(t) ==
  /\ running = {} /\ t \in ready /\ ~thread
  /\ t \in KernelTask \/ ready \cap KernelTask = {}
  /\ running' = {t}
  /\ UNCHANGED <<ready, thread>>

Finish ==
  /\ running # {}
  /\ ready' = ready \ running
  /\ running' = {}
  /\ UNCHANGED thread

RunThread ==
  /\ ready = {} /\ ~thread
  /\ thread' = TRUE
  /\ UNCHANGED <<ready, running>>

Next == Release \/ (\E t \in Task : Start(t)) \/ Finish \/ RunThread
Spec == Init /\ [][Next]_vars
=============================================================================
