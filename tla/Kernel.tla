------------------------------- MODULE Kernel -------------------------------
(***************************************************************************)
(* The scheduler and the keyboard driver together: sys_read_keyboard       *)
(* blocks the current task when the ring lacks keys, the interrupt of a    *)
(* key unblocks the reader it completes, and the fields of the structure   *)
(* of a task that the driver uses are copied by fork and reset by          *)
(* sched_unblock.                                                          *)
(*                                                                         *)
(* What Scheduler leaves open (when a reader blocks, which key wakes it)   *)
(* Keyboard decides here; what Keyboard leaves open (which task has the    *)
(* processor, and which runs next) Scheduler decides.  The semaphores have *)
(* no part in this and are left out.                                       *)
(***************************************************************************)
EXTENDS Integers, Sequences

CONSTANTS NrTasks, DefaultQuantum, MaxQuantum,      \* see Scheduler
          MaxPid, MemoryMayRunOut,
          Keys, CIRC_BUFF_SIZE, Counts              \* see Keyboard

VARIABLES lists, current, pid, state, quantum, remaining_quantum, eax,
          pid_counter, roundtics, eoi_from_interrupt, in_service,
          circular_buffer,
          remain, offset,   \* fields of task[t].t.task
          buff,             \* bytes stored by the last read in slot t
          result            \* what that read returned

S == INSTANCE Scheduler WITH NrSem <- 0, MaxInt <- 1, sems <- <<>>
Processes == S!Slots \ {S!Idle}
K == INSTANCE Keyboard
  WITH Tasks         <- Processes,
       keyboardqueue <- lists[S!keyboardqueue],
       eax           <- result

(* The kernel has no constants but those of the two.                       *)
ASSUME KernelAssumption == S!SchedulerAssumption /\ K!KeyboardAssumption

tasks  == <<lists, current, pid, state, quantum, remaining_quantum, eax,
            pid_counter, roundtics, eoi_from_interrupt, in_service>>
driver == <<circular_buffer, remain, offset, buff, result>>
vars   == <<tasks, driver>>

Readers   == S!On(S!keyboardqueue)

Init == S!Init /\ K!Init
----------------------------------------------------------------------------
(* Without semaphores these unblock no reader, and have no use for the     *)
(* driver.                                                                 *)
Clock    == S!Clock /\ UNCHANGED driver
sys_exit == S!sys_exit /\ UNCHANGED driver
sys_nice == (\E q \in 0..MaxQuantum : S!sys_nice(q)) /\ UNCHANGED driver

(* The structure of the child is a copy; task[0] never blocks, and its     *)
(* fields stay 0.                                                          *)
sys_fork ==
  LET child == Head(lists[S!freequeue])
      Copied(field) ==
        [field EXCEPT ![child] = IF current = S!Idle THEN 0 ELSE field[current]]
  IN  /\ S!sys_fork \/ S!sys_fork_ENOMEM
      /\ remain' = Copied(remain)
      /\ offset' = Copied(offset)
      /\ UNCHANGED <<circular_buffer, buff, result>>

(* Deliberate defect: the keys stay in the ring.                           *)
sys_read_keyboard_peeking(size) ==
  /\ S!IsProcess
  /\ K!ReadAtOnce(size)
  /\ LET got == K!get_character(circular_buffer, size)
     IN  /\ buff' = [buff EXCEPT
                       ![current] = K!copy_to_user(got.chars, <<>>, 0, size)]
         /\ result' = [result EXCEPT ![current] = Len(got.chars)]
  /\ UNCHANGED <<tasks, remain, offset, circular_buffer>>

(* read of the keyboard: it returns, or the task blocks and another goes   *)
(* on.                                                                     *)
sys_read_keyboard(size) ==
  /\ S!IsProcess                                            \* else EPERM
  /\ \/ /\ K!ReadAtOnce(size)
        /\ LET got == K!get_character(circular_buffer, size)
           IN  /\ circular_buffer' = got.cb
               /\ buff' = [buff EXCEPT
                             ![current] = K!copy_to_user(got.chars, <<>>, 0, size)]
               /\ result' = [result EXCEPT ![current] = Len(got.chars)]
        /\ UNCHANGED <<tasks, remain, offset>>
     \/ /\ ~K!ReadAtOnce(size)
        /\ S!sys_read_keyboard
        /\ remain' = [remain EXCEPT ![current] = size]
        /\ offset' = [offset EXCEPT ![current] = 0]
        /\ buff' = [buff EXCEPT ![current] = <<>>]
        /\ result' = [result EXCEPT ![current] = K!NUMBER]
        /\ UNCHANGED circular_buffer

(* Deliberate defect: sched_unblock leaves the fields of the reader.       *)
keyboard_routine_without_reset(c) ==
  LET saved  == K!save_character(circular_buffer, c)
      tsk    == Head(lists[S!keyboardqueue])
      got    == K!get_character(saved, remain[tsk])
  IN  /\ ~in_service
      /\ IF lists[S!keyboardqueue] = <<>>
         THEN circular_buffer' = saved /\ UNCHANGED <<tasks, remain, offset, buff, result>>
         ELSE /\ K!get_size(saved) = remain[tsk]
              /\ result' = [result EXCEPT ![tsk] = offset[tsk] + Len(got.chars)]
              /\ S!keyboard_routine
              /\ K!DrainFull(tsk, got.cb, remain[tsk], offset[tsk] + Len(got.chars),
                   K!copy_to_user(got.chars, buff[tsk], offset[tsk], remain[tsk]))

(* The interrupt of a key.  The handler takes the first reader, tsk, once: *)
(* its last part is for tsk also when the part before has unblocked it.    *)
keyboard_routine(c) ==
  LET saved  == K!save_character(circular_buffer, c)
      nobody == lists[S!keyboardqueue] = <<>>
      tsk    == Head(lists[S!keyboardqueue])
      got    == K!get_character(saved, remain[tsk])
  IN  /\ ~in_service
      /\ \/ /\ nobody
            /\ circular_buffer' = saved
            /\ UNCHANGED <<tasks, remain, offset, buff, result>>
         \/ /\ ~nobody /\ K!get_size(saved) = remain[tsk]
            /\ result' = [result EXCEPT ![tsk] = offset[tsk] + Len(got.chars)]
            /\ S!keyboard_routine
            /\ K!DrainFull(tsk, got.cb, 0, 0,
                 K!copy_to_user(got.chars, buff[tsk], offset[tsk], remain[tsk]))
         \/ /\ ~nobody /\ K!get_size(saved) # remain[tsk]
            /\ K!DrainFull(tsk, saved, remain[tsk], offset[tsk], buff[tsk])
            /\ UNCHANGED <<tasks, result>>

KeyPressed == \E c \in Keys : keyboard_routine(c)

Next ==
  \/ Clock
  \/ sys_exit
  \/ sys_nice
  \/ sys_fork
  \/ \E size \in Counts : sys_read_keyboard(size)
  \/ KeyPressed

(* The timer never stops, and somebody goes on typing.                     *)
Spec == Init /\ [][Next]_vars /\ WF_vars(Clock) /\ WF_vars(KeyPressed)
----------------------------------------------------------------------------
(* Properties.                                                             *)

(* What is in the structure of a task when it is not reading: nothing that *)
(* a later read, or that of a child, would find.  A reader is blocked, its *)
(* EAX still to be stored.  Both hold through fork, exit and reuse of the  *)
(* slot.                                                                   *)
FieldsOfReaders ==
  \A t \in Processes :
    IF t \in Readers
    THEN state[t] = S!BLOCKED /\ eax[t] = "number" /\ result[t] = K!NUMBER
    ELSE remain[t] = 0 /\ offset[t] = 0 /\ result[t] # K!NUMBER

(* With processes that come and go, the driver is still the one that       *)
(* Keyboard describes: none of their calls but read reaches it.            *)
ImplementsKeyboard == K!Init /\ [][K!Next]_K!vars

(* If fork ceases to create children, every task on the run queue gets the *)
(* processor, also when the tasks ahead of it read, block and are woken.   *)
EveryReadyTaskRuns == S!EveryReadyTaskRuns

(* If fork ceases to create children, a process blocked in a read of n     *)
(* keys goes back to user mode with n in EAX, as long as keys and tics     *)
(* come: no reader ahead of it, no wake-up before it waits, no task on the *)
(* run queue holds it up for ever.                                         *)
EveryReaderReturns ==
  <>[][pid_counter' = pid_counter]_vars =>
    \A t \in Processes, n \in Counts :
      t \in Readers /\ offset[t] + remain[t] = n
        ~> current = t /\ t \notin Readers /\ result[t] = n
=============================================================================
