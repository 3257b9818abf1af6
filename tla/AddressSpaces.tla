--------------------------- MODULE AddressSpaces ---------------------------
(***************************************************************************)
(* What the memory manager promises: every process has a data memory of    *)
(* its own.  Only the process that runs writes it, or the kernel when it   *)
(* delivers what the process has asked for; a child starts with a copy of  *)
(* its parent's.                                                           *)
(***************************************************************************)
CONSTANTS First,        \* the initial process
          Page, Value

VARIABLES running,      \* the process whose instructions are executed
          memory        \* memory[p][page], for the processes that exist

vars == <<running, memory>>

Live == DOMAIN memory

Init ==
  /\ running = First
  /\ memory \in [{First} -> [Page -> Value]]

Store(page, v) ==
  /\ memory' = [memory EXCEPT ![running][page] = v]
  /\ UNCHANGED running

Deliver(p, pages, v) ==
  /\ memory' = [memory EXCEPT ![p] =
       [page \in Page |-> IF page \in pages THEN v ELSE memory[p][page]]]
  /\ UNCHANGED running

Fork(child) ==
  /\ child \notin Live
  /\ memory' = [p \in Live \cup {child} |->
                  IF p = child THEN memory[running] ELSE memory[p]]
  /\ UNCHANGED running

Exit ==
  /\ running' \in Live \ {running}
  /\ memory' = [p \in Live \ {running} |-> memory[p]]

Switch == running' \in Live /\ UNCHANGED memory

Next ==
  \/ \E page \in Page, v \in Value : Store(page, v)
  \/ \E p \in Live, pages \in SUBSET Page, v \in Value : Deliver(p, pages, v)
  \/ \E child \in DOMAIN memory' : Fork(child)
  \/ Exit
  \/ Switch

Step == Next \/ UNCHANGED vars

Spec == Init /\ [][Next]_vars
=============================================================================
