------------------------------ MODULE Contexts ------------------------------
(***************************************************************************)
(* How the 0s kernel is entered and left: entry.S, task_switch of sched.c, *)
(* and the words of the kernel stacks that other handlers write.           *)
(*                                                                         *)
(* The processor saves the place of the interrupted process on the stack   *)
(* that the TSS points to, SAVE_ALL pushes the other registers, and either *)
(* RESTORE_ALL pops them again, or task_switch pops those that another     *)
(* task left on its own stack when it entered.  Each handler is one action *)
(* (interrupts are off).  Which task is next is left to Scheduler.         *)
(***************************************************************************)
EXTENDS Libc, Sequences, FiniteSets

CONSTANTS NrTasks,      \* NR_TASKS
          Calls,        \* bound: the numbers that processes put in EAX
          Args,         \* bound: what they put in EBX
          Outcomes,     \* bound: results of the services
          Files         \* bound: indices of files, for sys_unlink

ASSUME ContextsAssumption ==
  /\ NrTasks \in Nat \ {0}
  /\ Calls \subseteq Int /\ Args \subseteq Int
  /\ Outcomes \subseteq Int /\ Files \subseteq Int

Slots == 0 .. NrTasks-1
Idle  == 0

RESTORE_SIZE == 16
EAX_POS == 10
ENOSYS  == 38
EAGAIN  == 11

(* What is pushed, in this order.  The word that is pushed i-th is         *)
(* stack[KERNEL_STACK_SIZE - i]; below it is called the word i.            *)
By_processor == <<"ss", "esp", "eflags", "cs", "eip">>
SAVE_ALL == <<"gs", "fs", "es", "ds", "eax", "ebp", "edi", "esi", "edx",
              "ecx", "ebx">>

(* What is popped, in this order, by RESTORE_ALL and task_switch and then  *)
(* by iret.                                                                *)
RESTORE_ALL == <<"ebx", "ecx", "edx", "esi", "edi", "ebp", "eax", "ds",
                 "es", "fs", "gs">>
task_switch_pops == RESTORE_ALL
iret == <<"eip", "cs", "eflags", "esp", "ss">>

VARIABLES
  cpu,              \* the registers of the process that runs
  stack,            \* [Slots -> [1..RESTORE_SIZE -> word]]: kernel stacks
  esp0,             \* slot on whose stack tss.esp0 makes the next entry save
  pages,            \* slot whose pages are mapped: the process that runs
  errno,            \* a variable of the library, in the pages of each process
  ready, blocked,   \* slots on the run queue; slots on another queue
  halted            \* a handler loops for ever

vars == <<cpu, stack, esp0, pages, errno, ready, blocked, halted>>

----------------------------------------------------------------------------
(* Stack frames.                                                           *)

(* The registers in the order of a push or pop, as words of the frame.     *)
pushed == By_processor \o SAVE_ALL
WordsOf(pops) ==
  [r \in Registers |->
     RESTORE_SIZE + 1 - CHOOSE i \in 1..RESTORE_SIZE : (pops \o iret)[i] = r]
by_RESTORE_ALL == WordsOf(RESTORE_ALL)
by_task_switch == WordsOf(task_switch_pops)

saved(c) == [i \in 1..RESTORE_SIZE |-> c[pushed[i]]]

(* The registers after popping from the word RESTORE_SIZE upwards.  What   *)
(* remains of the frame is overwritten at the next entry: Empty.           *)
popped(frame, words) == [r \in Registers |-> frame[words[r]]]

Empty == [i \in 1..RESTORE_SIZE |-> 0]

(* The stacks when the running process has entered the kernel.             *)
Entered == [stack EXCEPT ![esp0] = saved(cpu)]

(* The slot of the running process: ESP is in its stack.                   *)
current == esp0

(* Deliberate defects, for the checks of the properties: an offset of      *)
(* system_call beside EAX, a position of the other handlers beside it, and *)
(* a switch that leaves the TSS as it was.                                 *)
Answer_beside(st, t, result) == [st EXCEPT ![t][RESTORE_SIZE - 28 \div 4] = result]
Stored_beside(st, ts, result) ==
  [t \in Slots |-> IF t \in ts THEN [st[t] EXCEPT ![EAX_POS+1] = result]
                   ELSE st[t]]
task_switch_keeps_esp0(st, t) ==
  /\ esp0' = esp0
  /\ pages' = t
  /\ cpu' = popped(st[t], by_task_switch)
  /\ stack' = [st EXCEPT ![t] = Empty]

(* 24(%esp) in system_call: the word from which EAX will be popped.        *)
Answer(st, t, result) == [st EXCEPT ![t][RESTORE_SIZE - 24 \div 4] = result]

(* The other handlers count from the top.                                  *)
Stored(st, ts, result) ==
  [t \in Slots |-> IF t \in ts THEN [st[t] EXCEPT ![EAX_POS] = result]
                   ELSE st[t]]

(* RESTORE_ALL and iret: from the stack of the current task.               *)
Return(st) ==
  /\ cpu' = popped(st[current], by_RESTORE_ALL)
  /\ stack' = [st EXCEPT ![current] = Empty]
  /\ UNCHANGED <<esp0, pages>>

(* task_switch to t.                                                       *)
task_switch(st, t) ==
  /\ esp0' = t
  /\ pages' = t
  /\ cpu' = popped(st[t], by_task_switch)
  /\ stack' = [st EXCEPT ![t] = Empty]
----------------------------------------------------------------------------
(* What main and return_gate leave in the registers.  Those that neither   *)
(* the library's code nor a result changes keep for ever what they had;    *)
(* they differ from each other, so that no two can change places unseen.   *)
Untouched == Registers \ {"eax", "ebx", "eip"}

Start == [r \in Registers |->
            CASE r \in Untouched -> 1000 + by_task_switch[r]
              [] r = "eip"       -> OWN
              [] OTHER           -> 0]

Init ==
  /\ cpu = Start
  /\ stack = [t \in Slots |-> Empty]
  /\ esp0 = Idle
  /\ pages = Idle
  /\ errno = [t \in Slots |-> 0]
  /\ ready = {Idle}
  /\ blocked = {}
  /\ halted = FALSE
----------------------------------------------------------------------------
(* Code of the running process.                                            *)
Library(id, arg0) ==
  /\ ~halted
  /\ cpu["eip"] = OWN
  /\ cpu' = movl_id(cpu, id, arg0)
  /\ UNCHANGED <<stack, esp0, pages, errno, ready, blocked, halted>>

LibraryReturns ==
  /\ ~halted
  /\ cpu["eip"] = TEST
  /\ cpu' = return(cpu)
  /\ errno' = [errno EXCEPT ![pages] = errno_after(cpu, @)]
  /\ UNCHANGED <<stack, esp0, pages, ready, blocked, halted>>
----------------------------------------------------------------------------
(* Interrupts and exceptions.                                              *)

(* clock_handler and keyboard_handler, when they return; the key may have  *)
(* completed the read of a blocked task.                                   *)
Interrupt ==
  /\ ~halted
  /\ \/ Return(Entered) /\ UNCHANGED <<ready, blocked>>
     \/ \E t \in blocked, count \in Outcomes :
          /\ Return(Stored(Entered, {t}, count))
          /\ ready' = ready \cup {t}
          /\ blocked' = blocked \ {t}
  /\ UNCHANGED <<errno, halted>>

(* clock_handler at the end of a turn.                                     *)
Preempt ==
  /\ ~halted
  /\ \E t \in ready : task_switch(Entered, t)
  /\ UNCHANGED <<errno, ready, blocked, halted>>

(* exit: another task goes on.  The tasks that waited for a semaphore of   *)
(* the process get -1.                                                     *)
Exit(st) ==
  /\ ~halted
  /\ current # Idle
  /\ \E ws \in SUBSET blocked :
       /\ ready' = (ready \cup ws) \ {current}
       /\ blocked' = blocked \ ws
       /\ LET left == [Stored(st, ws, -1) EXCEPT ![current] = Empty]
          IN  \E t \in ready' : task_switch(left, t)
  /\ errno' = [errno EXCEPT ![current] = 0]
  /\ UNCHANGED halted

(* page_fault_handler finds an error code between the two parts of the     *)
(* frame.  It never returns: the process ends.                             *)
PageFault == Exit(Entered)

(* The routines of the other exceptions, and page_fault_routine in task 0, *)
(* loop for ever with interrupts off.                                      *)
Exception ==
  /\ ~halted
  /\ halted' = TRUE
  /\ UNCHANGED <<cpu, stack, esp0, pages, errno, ready, blocked>>
----------------------------------------------------------------------------
(* System calls.                                                           *)

syscall_table_size == 41

sys_call_table ==
  [n \in 0..41 |->
     CASE n = 1  -> "sys_exit"
       [] n = 2  -> "sys_fork"
       [] n = 3  -> "sys_read"
       [] n = 10 -> "sys_unlink"
       [] n = 22 -> "sys_sem_wait"
       [] n = 23 -> "sys_sem_signal"
       [] n = 24 -> "sys_sem_destroy"
       [] n \in {4, 5, 6, 20, 21, 32, 34, 35, 41} -> "returns"
       [] OTHER  -> "sys_ni_syscall"]

(* What system_call does for number n.  Its own error path gives what      *)
(* sys_ni_syscall gives, without a word on the screen.                     *)
Service(n) ==
  IF n < 0 \/ n > syscall_table_size THEN "sys_ni_syscall" ELSE sys_call_table[n]

Serves(services) ==
  ~halted /\ cpu["eip"] = INT /\ Service(cpu["eax"]) \in services

(* The processor saves the place that follows the int 0x80.                *)
entered == [stack EXCEPT ![esp0] = saved([cpu EXCEPT !["eip"] = TEST])]

(* The service returns, and system_call with it.                           *)
Returns(st, result) == Return(Answer(st, current, result))

no_such_call ==
  /\ Serves({"sys_ni_syscall"})
  /\ Returns(entered, -ENOSYS)
  /\ UNCHANGED <<errno, ready, blocked, halted>>

(* Services that give a result at once, or may do so; exit of task 0       *)
(* returns too, with whatever is in EAX.                                   *)
returns ==
  /\ Serves({"returns", "sys_read", "sys_sem_wait", "sys_sem_signal",
             "sys_sem_destroy", "sys_unlink"}
            \cup (IF current = Idle THEN {"sys_exit"} ELSE {}))
  /\ \E result \in Outcomes : Returns(entered, result)
  /\ UNCHANGED <<errno, ready, blocked, halted>>

(* sys_unlink ends in a tail call of f_unlink(f), for which the compiler   *)
(* takes the word of its own argument: the EBX that SAVE_ALL pushed.       *)
sys_unlink ==
  /\ Serves({"sys_unlink"})
  /\ \E f \in Files, result \in Outcomes :
       Returns([entered EXCEPT ![current][RESTORE_SIZE] = f], result)
  /\ UNCHANGED <<errno, ready, blocked, halted>>

sys_exit == Serves({"sys_exit"}) /\ Exit(entered)

(* The child gets a copy of the stack of its parent, and of its memory.    *)
sys_fork ==
  /\ Serves({"sys_fork"})
  /\ \/ /\ Slots = ready \cup blocked
        /\ Returns(entered, -EAGAIN)
        /\ UNCHANGED <<errno, ready>>
     \/ \E child \in Slots \ (ready \cup blocked), pid \in Outcomes :
          /\ pid > 0
          /\ Returns(Stored([entered EXCEPT ![child] = entered[current]],
                            {child}, 0), pid)
          /\ errno' = [errno EXCEPT ![child] = errno[current]]
          /\ ready' = ready \cup {child}
  /\ UNCHANGED <<blocked, halted>>

(* read of the keyboard and sem_wait: the frame stays, EAX with it, until  *)
(* somebody stores the result.  Task 0 may do neither.                     *)
blocks ==
  /\ Serves({"sys_read", "sys_sem_wait"})
  /\ current # Idle
  /\ ready' = ready \ {current}
  /\ blocked' = blocked \cup {current}
  /\ \E t \in ready' : task_switch(entered, t)
  /\ UNCHANGED <<errno, halted>>

(* sem_signal wakes one with 0, sem_destroy all that wait with -1.         *)
wakes ==
  /\ \E service \in {"sys_sem_signal", "sys_sem_destroy"}, ws \in SUBSET blocked :
       /\ Serves({service})
       /\ service = "sys_sem_signal" => Cardinality(ws) = 1
       /\ LET code == IF service = "sys_sem_signal" THEN 0 ELSE -1
          IN  Returns(Stored(entered, ws, code), 0)
       /\ ready' = ready \cup ws
       /\ blocked' = blocked \ ws
  /\ UNCHANGED <<errno, halted>>
----------------------------------------------------------------------------
Next ==
  \/ \E id \in Calls, arg0 \in Args : Library(id, arg0)
  \/ LibraryReturns
  \/ Interrupt \/ Preempt \/ PageFault \/ Exception
  \/ no_such_call \/ returns \/ blocks \/ wakes
  \/ sys_unlink \/ sys_exit \/ sys_fork

Spec == Init /\ [][Next]_vars
----------------------------------------------------------------------------
(* Properties.                                                             *)

(* Types; and the registers that nobody touches never change.              *)
TypeOK ==
  /\ cpu \in [Registers -> Int]
  /\ \A r \in Untouched : cpu[r] = Start[r]
  /\ cpu["eip"] \in Places
  /\ stack \in [Slots -> [1..RESTORE_SIZE -> Int]]
  /\ esp0 \in Slots
  /\ pages \in Slots
  /\ errno \in [Slots -> Nat]
  /\ ready \subseteq Slots
  /\ blocked \subseteq Slots \ ready
  /\ halted \in BOOLEAN

(* The next entry saves on the stack of the process that runs, which is    *)
(* how current() knows it, and that process is able to run: after any      *)
(* number of switches, stack, pages and queues name the same task.         *)
EntersOwnStack == esp0 = pages /\ pages \in ready

(* The kernel keeps the promise of Processes: the registers of a process   *)
(* that does not run are the ones its stack will give back.                *)
Saved(t) == IF t = pages THEN cpu
            ELSE IF t \in ready \cup blocked THEN popped(stack[t], by_task_switch)
            ELSE Start

Promise == INSTANCE Processes
  WITH Process  <- Slots,
       First    <- Idle,
       Spoiling <- {n \in 0..41 : sys_call_table[n] = "sys_unlink"},
       regs     <- [t \in Slots |-> Saved(t)],
       running  <- pages,
       able     <- ready,
       waiting  <- blocked
ImplementsProcesses == Promise!Spec
=============================================================================
