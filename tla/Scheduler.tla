----------------------------- MODULE Scheduler -----------------------------
(***************************************************************************)
(* Tasks, the round-robin scheduler and the semaphores of the 0s kernel:   *)
(* sched.c, sem.c, and the process and semaphore services of sys.c.        *)
(*                                                                         *)
(* Every gate of the IDT is an interrupt gate, so a handler runs with      *)
(* interrupts off from its entry to the iret that ends it, also when it    *)
(* ends in task_switch and never returns to its caller: one handler is one *)
(* action.  The states of this specification are those in which the        *)
(* current task runs in user mode; any system call of its and any hardware *)
(* interrupt may come next.  Calls refused with an error change nothing    *)
(* and are stuttering steps.                                               *)
(*                                                                         *)
(* Left to other modules: the frames and page tables that fork and exit    *)
(* handle, the channels that exit closes, and the ring buffer that decides *)
(* when the keyboard driver blocks and wakes a reader.                     *)
(***************************************************************************)
EXTENDS Integers, Lists

CONSTANTS NrTasks,          \* NR_TASKS, size of the task array
          NrSem,            \* NR_SEM, size of the sems array
          MaxInt,           \* largest int; 2^31-1 in the code
          DefaultQuantum,   \* DEFAULT_QUANTUM, quantum of task 0
          MaxQuantum,       \* bound: largest quantum passed to nice
          MaxPid,           \* bound: last pid handed out by getNewPid
          MemoryMayRunOut   \* may alloc_frame fail in fork?

ASSUME SchedulerAssumption ==
  /\ NrTasks \in Nat \ {0}
  /\ NrSem \in Nat
  /\ MaxInt \in Nat \ {0}
  /\ MaxQuantum \in Nat
  /\ DefaultQuantum \in 1..MaxQuantum
  /\ MaxPid \in Nat
  /\ MemoryMayRunOut \in BOOLEAN

Slots == 0 .. NrTasks-1     \* elements of the task array
Idle  == 0                  \* task[0], the initial process
Sems  == 0 .. NrSem-1       \* elements of the sems array

(* List heads: sems[s].queue is s itself, followed by the three globals.   *)
runqueue      == NrSem
freequeue     == NrSem + 1
keyboardqueue == NrSem + 2
WaitQueues    == Sems \cup {keyboardqueue}
Heads         == 0 .. NrSem+2

FREE_SEM == -1
NULL_PID == -1
RUNNING  == "RUNNING"
READY    == "READY"
BLOCKED  == "BLOCKED"
Modes    == {RUNNING, READY, BLOCKED}

(* What the saved EAX of a task on a wait queue holds: still the number of *)
(* the system call, or the result that its waker stored there.             *)
Results == {"number", "ok", "error", "count"}

VARIABLES
  lists,              \* [Heads -> Seq(Slots)]: the task lists
  current,            \* slot whose kernel stack ESP points into
  pid, state, quantum, remaining_quantum,     \* fields of task[t].t.task
  eax,                \* EAX in the context saved on the stack of a task
  pid_counter,
  roundtics,          \* tics the current task has left
  sems,               \* [Sems -> [owner, value]]
  eoi_from_interrupt, \* task_switch must acknowledge an interrupt
  in_service          \* the PIC waits for an end of interrupt

vars == <<lists, current, pid, state, quantum, remaining_quantum, eax,
          pid_counter, roundtics, sems, eoi_from_interrupt, in_service>>

taskvars == <<pid, state, quantum, remaining_quantum, eax>>
picvars  == <<eoi_from_interrupt, in_service>>

On(head)  == Entries(lists, head)
Live      == UNION {On(head) : head \in WaitQueues \cup {runqueue}}

(* An unsigned int stored in an int.                                       *)
ToInt(u) == IF u > MaxInt THEN u - 2*(MaxInt+1) ELSE u

----------------------------------------------------------------------------
(* Deliberate defects.  No action uses them: substituted for the operator  *)
(* they are named after, they make a property fail.                        *)
Requeue_linked(ls, tsk, queue)    == list_add_tail(ls, tsk, queue)
Requeue_stack(ls, tsk, queue)     == list_add(list_del(ls, tsk), tsk, queue)
IsProcess_if_not_alone            == Len(lists[runqueue]) > 1
Unblocked_silently(waiters)       == state
Stored_nowhere(waiters, result)   == eax
ValidQuantum_zero(q)              == q >= 0
getNewPid_post_increment          == pid_counter
Released_not(p)                   == lists
sched_switch_needed_late(tics)    == tics < 0
task_switch_returning(irq, eoi)   == in_service' = irq /\ eoi_from_interrupt' = FALSE
----------------------------------------------------------------------------
(* The instruction that increments an int wraps around.                    *)
Increment(n) == IF n = MaxInt THEN -MaxInt-1 ELSE n + 1

(* Task 0 may not exit and may not block.                                  *)
IsProcess == pid[current] # 0

(* What waiters that are unblocked find in their structure and their EAX.  *)
Unblocked(waiters) ==
  [t \in Slots |-> IF t \in waiters THEN READY ELSE state[t]]
Stored(waiters, result) ==
  [t \in Slots |-> IF t \in waiters THEN result ELSE eax[t]]
----------------------------------------------------------------------------
(* The state main leaves when it enters user mode: task[0] runs, the other *)
(* slots are stacked on freequeue, their memory still zero.                *)
Init ==
  /\ lists = [head \in Heads |->
       CASE head = runqueue  -> <<Idle>>
         [] head = freequeue -> [i \in 1..NrTasks-1 |-> NrTasks - i]
         [] OTHER            -> <<>>]
  /\ current = Idle
  /\ pid = [t \in Slots |-> 0]
  /\ state = [t \in Slots |-> RUNNING]
  /\ quantum = [t \in Slots |-> IF t = Idle THEN DefaultQuantum ELSE 0]
  /\ remaining_quantum = quantum
  /\ eax = [t \in Slots |-> "ok"]
  /\ pid_counter = 0
  /\ roundtics = DefaultQuantum
  /\ sems = [s \in Sems |-> [owner |-> FREE_SEM, value |-> 0]]
  /\ eoi_from_interrupt = FALSE
  /\ in_service = FALSE
----------------------------------------------------------------------------
(* Scheduler primitives.                                                   *)

(* The end of task_switch: an interrupt in service is acknowledged only    *)
(* when the flag tells that the switch replaces the return of its handler. *)
task_switch(irq, eoi) ==
  /\ in_service' = (irq /\ ~eoi)
  /\ eoi_from_interrupt' = FALSE

(* sched_continue(sched_select_next()), from the lists, states and         *)
(* statistics that the calling handler has reached.                        *)
sched_continue(ls, st, rem) ==
  LET tsk == list_first(ls, runqueue)
  IN  /\ lists' = ls
      /\ current' = tsk
      /\ roundtics' = quantum[tsk]
      /\ remaining_quantum' = [rem EXCEPT ![tsk] = quantum[tsk]]
      /\ state' = [st EXCEPT ![tsk] = RUNNING]

(* A task leaves the list it is on for the tail of queue: the list part of *)
(* sched_pause, sched_block and sched_unblock.                             *)
Requeue(ls, tsk, queue) == list_add_tail(list_del(ls, tsk), tsk, queue)

(* sched_block(current(), queue) and the switch that follows it.  EAX of   *)
(* the blocked task keeps the number of the system call.                   *)
BlockOn(queue) ==
  /\ sched_continue(Requeue(lists, current, queue),
                    [state EXCEPT ![current] = BLOCKED],
                    remaining_quantum)
  /\ task_switch(in_service, eoi_from_interrupt)
  /\ eax' = [eax EXCEPT ![current] = "number"]
  /\ UNCHANGED <<pid, quantum, pid_counter>>

(* Deliberate defect, for WakeFirst: the waiters are served last come      *)
(* first served.                                                           *)
WakeFirst_last(queue, result) ==
  LET tsk == Last(lists[queue])
  IN  /\ lists' = Requeue(lists, tsk, runqueue)
      /\ state' = Unblocked({tsk})
      /\ eax' = Stored({tsk}, result)

(* Store the result in EAX of the first waiter, then sched_unblock it.     *)
WakeFirst(queue, result) ==
  LET tsk == list_first(lists, queue)
  IN  /\ lists' = Requeue(lists, tsk, runqueue)
      /\ state' = Unblocked({tsk})
      /\ eax' = Stored({tsk}, result)
----------------------------------------------------------------------------
(* Clock interrupt: sched().                                               *)
sched_switch_needed(tics) == tics = 0

Clock ==
  LET rem == [remaining_quantum EXCEPT ![current] = @ - 1]
  IN  /\ ~in_service
      /\ \/ /\ sched_switch_needed(roundtics - 1)
            /\ sched_continue(Requeue(lists, current, runqueue),
                              [state EXCEPT ![current] = READY], rem)
            /\ task_switch(TRUE, TRUE)
         \/ /\ ~sched_switch_needed(roundtics - 1)
            /\ roundtics' = roundtics - 1
            /\ remaining_quantum' = rem
            /\ eoi_from_interrupt' = TRUE
            /\ in_service' = FALSE       \* EOI of clock_handler
            /\ UNCHANGED <<lists, current, state>>
      /\ UNCHANGED <<pid, quantum, eax, pid_counter, sems>>
----------------------------------------------------------------------------
(* Process services.                                                       *)

getNewPid == pid_counter + 1

(* get_new_task_struct pops a slot, the child copies its parent and goes   *)
(* to the front of the run queue, ahead of the parent that keeps running.  *)
sys_fork ==
  LET child == list_first(lists, freequeue)
  IN  /\ ~list_empty(lists, freequeue)                      \* else EAGAIN
      /\ pid_counter < MaxPid
      /\ pid_counter' = pid_counter + 1
      /\ lists' = list_add(list_del(lists, child), child, runqueue)
      /\ pid' = [pid EXCEPT ![child] = getNewPid]
      /\ state' = [state EXCEPT ![child] = state[current]]
      /\ quantum' = [quantum EXCEPT ![child] = quantum[current]]
      /\ remaining_quantum' =
           [remaining_quantum EXCEPT ![child] = quantum[current]]
      /\ eax' = [eax EXCEPT ![child] = "ok"]
      /\ UNCHANGED <<current, roundtics, sems, picvars>>

(* fork when alloc_frame fails: the slot has left freequeue and holds a    *)
(* copy of the parent, and nothing takes either back.                      *)
sys_fork_ENOMEM ==
  LET child == list_first(lists, freequeue)
  IN  /\ MemoryMayRunOut
      /\ ~list_empty(lists, freequeue)
      /\ lists' = list_del(lists, child)
      /\ pid' = [pid EXCEPT ![child] = pid[current]]
      /\ state' = [state EXCEPT ![child] = state[current]]
      /\ quantum' = [quantum EXCEPT ![child] = quantum[current]]
      /\ remaining_quantum' =
           [remaining_quantum EXCEPT ![child] = remaining_quantum[current]]
      /\ eax' = [eax EXCEPT ![child] = "number"]
      /\ UNCHANGED <<current, pid_counter, roundtics, sems, picvars>>

(* The lists once exit has destroyed the semaphores 0 .. n-1 that the      *)
(* process p owns: their waiters are at the tail of the run queue.         *)
Released(p) ==
  LET after[n \in 0..NrSem] ==
        IF n = 0 THEN lists
        ELSE IF sems[n-1].owner = p
             THEN list_move_all(after[n-1], n-1, runqueue)
             ELSE after[n-1]
  IN  after[NrSem]

(* exit, also the end of a process (not task 0) that causes a page fault.  *)
sys_exit ==
  LET owned  == {s \in Sems : sems[s].owner = pid[current]}
      woken  == UNION {On(s) : s \in owned}
      after  == list_add(list_del(Released(pid[current]), current),
                         current, freequeue)
  IN  /\ IsProcess
      /\ sems' = [s \in Sems |-> IF s \in owned
                    THEN [sems[s] EXCEPT !.owner = FREE_SEM] ELSE sems[s]]
      /\ pid' = [pid EXCEPT ![current] = NULL_PID]
      /\ eax' = Stored(woken, "error")
      /\ sched_continue(after, Unblocked(woken), remaining_quantum)
      /\ task_switch(in_service, eoi_from_interrupt)
      /\ UNCHANGED <<quantum, pid_counter>>

ValidQuantum(q) == q > 0

(* The new quantum counts from the next time the task is continued.        *)
sys_nice(q) ==
  /\ ValidQuantum(q)                                        \* else EINVAL
  /\ quantum' = [quantum EXCEPT ![current] = q]
  /\ UNCHANGED <<lists, current, pid, state, remaining_quantum, eax,
                 pid_counter, roundtics, sems, picvars>>
----------------------------------------------------------------------------
(* Semaphore services.                                                     *)

sys_sem_init(s, value) ==
  /\ sems[s].owner = FREE_SEM                               \* else EBUSY
  /\ sems' = [sems EXCEPT ![s] = [owner |-> pid[current],
                                  value |-> ToInt(value)]]
  /\ lists' = INIT_LIST_HEAD(lists, s)
  /\ UNCHANGED <<current, taskvars, pid_counter, roundtics, picvars>>

sys_sem_wait(s) ==
  /\ sems[s].owner # FREE_SEM                               \* else EINVAL
  /\ IsProcess                                              \* else EPERM
  /\ \/ /\ sems[s].value > 0
        /\ sems' = [sems EXCEPT ![s].value = @ - 1]
        /\ UNCHANGED <<lists, current, taskvars, pid_counter, roundtics,
                       picvars>>
     \/ /\ ~(sems[s].value > 0)
        /\ BlockOn(s)
        /\ UNCHANGED sems

sys_sem_signal(s) ==
  /\ sems[s].owner # FREE_SEM                               \* else EINVAL
  /\ \/ /\ list_empty(lists, s)
        /\ sems' = [sems EXCEPT ![s].value = Increment(@)]
        /\ UNCHANGED <<lists, state, eax>>
     \/ /\ ~list_empty(lists, s)
        /\ WakeFirst(s, "ok")
        /\ UNCHANGED sems
  /\ UNCHANGED <<current, pid, quantum, remaining_quantum, pid_counter,
                 roundtics, picvars>>

sys_sem_destroy(s) ==
  /\ sems[s].owner # FREE_SEM                               \* else EINVAL
  /\ sems[s].owner = pid[current]                           \* else EPERM
  /\ sems' = [sems EXCEPT ![s].owner = FREE_SEM]
  /\ lists' = list_move_all(lists, s, runqueue)
  /\ state' = Unblocked(On(s))
  /\ eax' = Stored(On(s), "error")
  /\ UNCHANGED <<current, pid, quantum, remaining_quantum, pid_counter,
                 roundtics, picvars>>
----------------------------------------------------------------------------
(* The part of the keyboard driver that moves tasks.  Whether a read finds *)
(* its characters, and which key completes a read, is for the module of    *)
(* the driver to say; here either may happen at any time.                  *)

sys_read_keyboard ==
  /\ IsProcess                                              \* else EPERM
  /\ BlockOn(keyboardqueue)
  /\ UNCHANGED sems

keyboard_routine ==
  /\ ~in_service
  /\ ~list_empty(lists, keyboardqueue)
  /\ WakeFirst(keyboardqueue, "count")
  /\ UNCHANGED <<current, pid, quantum, remaining_quantum, pid_counter,
                 roundtics, sems, picvars>>
----------------------------------------------------------------------------
Next ==
  \/ Clock
  \/ sys_fork
  \/ sys_fork_ENOMEM
  \/ sys_exit
  \/ \E q \in 0..MaxQuantum : sys_nice(q)
  \/ \E s \in Sems, value \in 0 .. 2*MaxInt+1 : sys_sem_init(s, value)
  \/ \E s \in Sems : sys_sem_wait(s)
  \/ \E s \in Sems : sys_sem_signal(s)
  \/ \E s \in Sems : sys_sem_destroy(s)
  \/ sys_read_keyboard
  \/ keyboard_routine

(* The timer never stops: the only fairness the machine provides.          *)
Spec == Init /\ [][Next]_vars /\ WF_vars(Clock)
----------------------------------------------------------------------------
(* Properties.                                                             *)

(* Types: in particular no order of tics, voluntary switches, nice and     *)
(* fork takes roundtics or the statistics of a turn below zero.            *)
TypeOK ==
  /\ lists \in [Heads -> Seq(Slots)]
  /\ current \in Slots
  /\ pid \in [Slots -> -1 .. MaxPid]
  /\ state \in [Slots -> Modes]
  /\ quantum \in [Slots -> 0 .. MaxQuantum]
  /\ remaining_quantum \in [Slots -> 0 .. MaxQuantum]
  /\ eax \in [Slots -> Results]
  /\ pid_counter \in 0 .. MaxPid
  /\ roundtics \in 0 .. MaxQuantum
  /\ sems \in [Sems -> [owner : -1 .. MaxPid, value : -MaxInt-1 .. MaxInt]]
  /\ eoi_from_interrupt \in BOOLEAN
  /\ in_service \in BOOLEAN

(* list_del takes no head and list_add does not look whether the entry is  *)
(* linked: whatever the order of forks, exits, waits and wake-ups, a task  *)
(* structure is never on two lists or twice on one, and, unless fork has   *)
(* failed half-way, never on none.                                         *)
ListsPartition ==
  /\ OnOneList(lists)
  /\ ~MemoryMayRunOut => Slots = Linked(lists)

(* sched_select_next dereferences the first entry of runqueue without      *)
(* asking whether there is one: task[0], which the guards of wait, read    *)
(* and exit keep from leaving, is always there, and so is the current task *)
(* after every switch.                                                     *)
RunqueueNeverEmpty == {Idle, current} \subseteq On(runqueue)

(* The state byte, which get_stats reports, says BLOCKED exactly for the   *)
(* tasks on a wait queue, and RUNNING for the task that runs.              *)
StateMatchesList ==
  /\ state[current] = RUNNING
  /\ \A t \in Slots :
       state[t] = BLOCKED <=> \E queue \in WaitQueues : t \in On(queue)

(* The clock preempts when roundtics is exactly 0, so a task that started  *)
(* with a quantum of 0, or whose tics were lost, would keep the processor  *)
(* for ever: there is always a tic left, and it is the one get_stats shows.*)
QuantumInSync ==
  /\ roundtics >= 1
  /\ roundtics = remaining_quantum[current]
  /\ \A t \in Live : quantum[t] >= 1

(* Semaphore ownership and pid_to_task_struct go by pid: no two live tasks *)
(* share one, and none has the pid of task[0], NULL_PID or one not yet     *)
(* handed out.                                                             *)
UniquePids ==
  /\ \A t, u \in Live : pid[t] = pid[u] => t = u
  /\ pid[Idle] = 0
  /\ \A t \in Live : pid[t] \in 0 .. pid_counter

(* A task can only wait on a semaphore that is in use and has no unit to   *)
(* give (sem_init would forget the waiters of a free one), and the owner   *)
(* of a semaphore, the only one who may destroy it, is alive.              *)
NoForgottenWaiter ==
  \A s \in Sems :
    /\ ~list_empty(lists, s) => sems[s].owner # FREE_SEM /\ sems[s].value <= 0
    /\ sems[s].owner # FREE_SEM => \E t \in Live : pid[t] = sems[s].owner

(* A task that was blocked goes back to user mode with what its waker      *)
(* stored in EAX, never with the number of its system call.                *)
WokenWithResult == \A t \in On(runqueue) : eax[t] # "number"

(* Between two handlers the PIC waits for no end of interrupt: whether a   *)
(* handler returned or was left through task_switch, the next tic comes.   *)
InterruptsAcknowledged == ~in_service

(* A waiter is released by a signal, first come first served and with 0,   *)
(* or with every other waiter, with -1, when the semaphore ceases to exist.*)
WaitersReleasedInOrder ==
  [][\A s \in Sems : lists'[s] # lists[s] =>
       \/ /\ Len(lists'[s]) = Len(lists[s]) + 1
          /\ lists'[s] = Append(lists[s], current)
       \/ /\ lists'[s] = Tail(lists[s])
          /\ sems'[s] = sems[s]
          /\ eax'[Head(lists[s])] = "ok"
       \/ /\ lists'[s] = <<>>
          /\ sems'[s].owner = FREE_SEM
          /\ \A t \in On(s) : eax'[t] = "error"]_vars

(* Under the tics of the clock every task on the run queue gets the        *)
(* processor, whatever the others call, if there comes a time when fork    *)
(* creates no more children: a child goes to the front of the queue, and a *)
(* chain of children that fork and exit passes the others over for ever.   *)
EveryReadyTaskRuns ==
  <>[][pid_counter' = pid_counter]_vars =>
    \A t \in Slots : t \in On(runqueue) ~> current = t

(* The scheduler keeps the promise of Dispatch: the run queue is the set of *)
(* ready tasks, and no call of a task takes the processor from another     *)
(* before the last tic of its turn.                                        *)
Promise == INSTANCE Dispatch
  WITH Task <- Slots, ready <- On(runqueue), running <- current,
       tics <- roundtics
ImplementsDispatch == Promise!Spec

(* sys.c:282 rejects a negative initial value.                             *)
NoNegativeValue == \A s \in Sems : sems[s].value >= 0
=============================================================================
