---------------------------- MODULE MCScheduler ----------------------------
(* Model checking of the scheduler and the semaphores on small instances.  *)
EXTENDS Scheduler
=============================================================================
