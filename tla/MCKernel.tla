------------------------------ MODULE MCKernel ------------------------------
(* Model checking of scheduler and keyboard together on small instances.   *)
EXTENDS Kernel
=============================================================================
