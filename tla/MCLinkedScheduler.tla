------------------------ MODULE MCLinkedScheduler ------------------------
(* Model checking of scheduler, semaphores and the pointers of their lists.*)
EXTENDS LinkedScheduler
=============================================================================
