----------------------------- MODULE Processes -----------------------------
(***************************************************************************)
(* What the kernel promises to the code of its processes: each has         *)
(* registers and an errno of its own.  Only its own instructions change    *)
(* them, and the end of its own system call, which changes EAX and nothing *)
(* else (one service may also spoil the argument in EBX).  Interrupts,     *)
(* switches and the system calls of others leave no trace.  A process is   *)
(* born as the exact copy of its parent, but for EAX.                      *)
(***************************************************************************)
EXTENDS Libc

CONSTANTS Process, First,   \* the processes; the one that starts
          Start,            \* its registers
          Spoiling          \* numbers of the services that may spoil EBX

VARIABLES regs, errno,      \* of each process
          running,
          able, waiting,    \* processes that may run; that wait for a result
          halted

vars == <<regs, errno, running, able, waiting, halted>>

Init ==
  /\ regs = [p \in Process |-> Start]
  /\ errno = [p \in Process |-> 0]
  /\ running = First
  /\ able = {First}
  /\ waiting = {}
  /\ ~halted

Become(c) == regs' = [regs EXCEPT ![running] = c]

(* The instructions of the running process.                                *)
Execute ==
  /\ \/ /\ regs[running]["eip"] = OWN
        /\ regs'[running]["eip"] \in {OWN, INT}
        /\ UNCHANGED errno
     \/ /\ regs[running]["eip"] = TEST
        /\ regs'[running] = return(regs[running])
        /\ errno' = [errno EXCEPT
                       ![running] = errno_after(regs[running], @)]
  /\ Become(regs'[running])
  /\ UNCHANGED <<running, able, waiting, halted>>

Calling == regs[running]["eip"] = INT

(* The result that process p has got, whatever it is.                      *)
Result(p) == regs'[p]["eax"]

(* The registers when the processes ws that waited have got theirs.        *)
Woken(ws) ==
  [p \in Process |-> IF p \in ws THEN [regs[p] EXCEPT !["eax"] = Result(p)]
                     ELSE regs[p]]

(* A call of the running process: it goes on with a result, and processes  *)
(* that wait may get theirs.                                               *)
Call ==
  /\ Calling
  /\ \E ws \in SUBSET waiting :
       /\ LET c   == regs[running]
              ebx == regs'[running]["ebx"]
          IN  /\ ebx = c["ebx"] \/ c["eax"] \in Spoiling
              /\ regs' = [Woken(ws) EXCEPT ![running] =
                   [c EXCEPT !["eax"] = Result(running), !["ebx"] = ebx,
                             !["eip"] = TEST]]
       /\ able' = able \cup ws
       /\ waiting' = waiting \ ws
  /\ UNCHANGED <<errno, running, halted>>

(* fork: the child continues where the parent does, with 0.                *)
Fork ==
  /\ Calling
  /\ \E child \in Process \ (able \cup waiting) :
       /\ regs' = [regs EXCEPT
            ![running] = [@ EXCEPT !["eax"] = Result(running), !["eip"] = TEST],
            ![child]   = [regs[running] EXCEPT !["eax"] = 0, !["eip"] = TEST]]
       /\ Result(running) > 0
       /\ errno' = [errno EXCEPT ![child] = errno[running]]
       /\ able' = able \cup {child}
  /\ UNCHANGED <<running, waiting, halted>>

(* A call that waits for its result: another process goes on.              *)
Wait ==
  /\ Calling
  /\ Become([regs[running] EXCEPT !["eip"] = TEST])
  /\ able' = able \ {running}
  /\ waiting' = waiting \cup {running}
  /\ running' \in able'
  /\ UNCHANGED <<errno, halted>>

(* The end of a process, by a call or a fault; what it leaves behind is of *)
(* no interest.  Processes that waited for it get a result.                *)
End ==
  /\ \E ws \in SUBSET waiting :
       /\ able' = (able \cup ws) \ {running}
       /\ waiting' = waiting \ ws
       /\ regs' = [Woken(ws)
                     EXCEPT ![running] = regs'[running]]
  /\ running' \in able'
  /\ errno' = [errno EXCEPT ![running] = errno'[running]]
  /\ UNCHANGED halted

(* An interrupt: another process may go on, one that waits may get its     *)
(* result.                                                                 *)
Interrupt ==
  /\ \E ws \in SUBSET waiting :
       /\ regs' = Woken(ws)
       /\ able' = able \cup ws
       /\ waiting' = waiting \ ws
  /\ running' \in able'
  /\ UNCHANGED <<errno, halted>>

(* Any other fault stops the machine.                                      *)
Halt == ~halted /\ halted' /\ UNCHANGED <<regs, errno, running, able, waiting>>

Next ==
  /\ ~halted
  /\ Execute \/ Call \/ Fork \/ Wait \/ End \/ Interrupt \/ Halt

Spec == Init /\ [][Next]_vars
=============================================================================
