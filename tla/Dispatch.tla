------------------------------ MODULE Dispatch ------------------------------
(***************************************************************************)
(* What the scheduler promises to the tasks: the processor always belongs  *)
(* to a task that is ready, and that task keeps it until it leaves of its  *)
(* own accord or the last tic of its turn is counted.  Waking a task never *)
(* takes the processor from another, and the idle task never leaves.       *)
(***************************************************************************)
EXTENDS Naturals

CONSTANTS Task, Idle, MaxQuantum    \* Idle \in Task, MaxQuantum > 0

VARIABLES ready,      \* tasks that can use the processor, the running one too
          running,    \* the task that has it
          tics        \* tics left of its turn

vars == <<ready, running, tics>>

Init == ready = {Idle} /\ running = Idle /\ tics \in 1 .. MaxQuantum

(* Any ready task may get the next turn.                                   *)
NewTurn == running' \in ready' /\ tics' \in 1 .. MaxQuantum

Tick == tics > 1 /\ tics' = tics - 1 /\ UNCHANGED <<ready, running>>

Preempt == tics = 1 /\ UNCHANGED ready /\ NewTurn

(* The running task blocks or ends; others may become ready on that.       *)
Leave ==
  /\ running # Idle
  /\ \E woken \in SUBSET (Task \ ready) :
       ready' = (ready \ {running}) \cup woken
  /\ NewTurn

Admit ==
  /\ \E woken \in SUBSET (Task \ ready) : ready' = ready \cup woken
  /\ UNCHANGED <<running, tics>>

Next == Tick \/ Preempt \/ Leave \/ Admit

Spec == Init /\ [][Next]_vars
=============================================================================
