---------------------------- MODULE KernelProofs ----------------------------
(***************************************************************************)
(* Theorems about the composition of scheduler and keyboard, for any       *)
(* number of tasks, a ring of any size and any counts.  What is known of   *)
(* the two modules is taken from their own proofs, which are instantiated  *)
(* as Kernel instantiates the modules.                                     *)
(***************************************************************************)
EXTENDS Kernel, TLAPS

SP == INSTANCE SchedulerProofs
  WITH NrSem <- 0, MaxInt <- 1, sems <- <<>>, links <- <<>>
KP == INSTANCE KeyboardProofs
  WITH Tasks         <- Processes,
       keyboardqueue <- lists[S!keyboardqueue],
       eax           <- result

(* What the theorems of the two modules assume of the constants.           *)
LEMMA Assumptions == SP!SchedulerAssumption /\ KP!KeyboardAssumption
  BY KernelAssumption DEF S!SchedulerAssumption, SP!SchedulerAssumption,
     K!KeyboardAssumption, KP!KeyboardAssumption

(* The lists and slots of the kernel, in both instances.                   *)
LEMMA Names ==
  /\ S!runqueue = 0 /\ SP!runqueue = 0
  /\ S!freequeue = 1 /\ SP!freequeue = 1
  /\ S!keyboardqueue = 2 /\ SP!keyboardqueue = 2
  /\ SP!Heads = 0..2 /\ SP!Sems = {}
  /\ SP!Slots = S!Slots /\ SP!Idle = S!Idle
  BY DEF S!runqueue, SP!runqueue, S!freequeue, SP!freequeue, S!keyboardqueue,
         SP!keyboardqueue, SP!Heads, SP!Sems, S!Slots, SP!Slots, S!Idle, SP!Idle

(***************************************************************************)
(* The proofs speak of instances of their own, SP and KP: the definitions  *)
(* that they share with S and K are the same.                              *)
(***************************************************************************)
LEMMA SameDel ==
  \A ls, e : S!list_del(ls, e) = SP!list_del(ls, e)
  <1>1. \A s, e : S!SelectInSeq(s, LAMBDA v : v = e)
                    = SP!SelectInSeq(s, LAMBDA v : v = e)
    BY DEF S!SelectInSeq, SP!SelectInSeq, S!Min, SP!Min
  <1>2. \A s, e : S!RemoveFirst(s, e) = SP!RemoveFirst(s, e)
    BY <1>1 DEF S!RemoveFirst, SP!RemoveFirst, S!RemoveAt, SP!RemoveAt
  <1> QED BY <1>2 DEF S!list_del, SP!list_del

(* The initial states.                                                     *)
LEMMA SameInit == (S!Init => SP!Init) /\ (K!Init => KP!Init)
  <1>1. S!Init => SP!Init
    BY DEF S!Init, SP!Init, S!Heads, SP!Heads, S!runqueue, SP!runqueue,
           S!freequeue, SP!freequeue, S!Idle, SP!Idle, S!Slots, SP!Slots,
           S!RUNNING, SP!RUNNING, S!Sems, SP!Sems, S!FREE_SEM, SP!FREE_SEM
  <1>2. K!Init => KP!Init
    BY DEF K!Init, KP!Init, K!init_circ_buff, KP!init_circ_buff, K!NUL, KP!NUL
  <1> QED BY <1>1, <1>2

(* The actions of the scheduler: a tic.                                    *)
LEMMA SameClock == S!Clock => SP!Clock
  BY SameDel DEF S!Clock, SP!Clock, S!sched_switch_needed,
                 SP!sched_switch_needed, S!sched_continue, SP!sched_continue,
                 S!list_first, SP!list_first, S!runqueue, SP!runqueue,
                 S!RUNNING, SP!RUNNING, S!READY, SP!READY, S!Requeue,
                 SP!Requeue, S!list_add_tail, SP!list_add_tail, S!task_switch,
                 SP!task_switch

(* nice.                                                                   *)
LEMMA SameNice == ASSUME NEW q, S!sys_nice(q) PROVE SP!sys_nice(q)
  BY DEF S!sys_nice, SP!sys_nice, S!ValidQuantum, SP!ValidQuantum, S!picvars,
         SP!picvars

(* fork, with its outcome.                                                 *)
LEMMA SameFork == S!sys_fork => SP!sys_fork
  BY SameDel DEF S!sys_fork, SP!sys_fork, S!list_first, SP!list_first,
                 S!list_empty, SP!list_empty, S!freequeue, SP!freequeue,
                 S!runqueue, SP!runqueue, S!list_add, SP!list_add, S!getNewPid,
                 SP!getNewPid, S!picvars, SP!picvars

(* fork when there is no memory.                                           *)
LEMMA SameENOMEM == S!sys_fork_ENOMEM => SP!sys_fork_ENOMEM
  BY SameDel DEF S!sys_fork_ENOMEM, SP!sys_fork_ENOMEM, S!list_first,
                 SP!list_first, S!list_empty, SP!list_empty, S!freequeue,
                 SP!freequeue, S!picvars, SP!picvars

(* The loop of exit, which without semaphores has no rounds.               *)
LEMMA SameReleased == \A p : S!Released(p) = SP!Released(p)
  BY DEF S!Released, SP!Released, S!list_move_all, SP!list_move_all,
         S!runqueue, SP!runqueue

(* exit.                                                                   *)
LEMMA SameExit == S!sys_exit => SP!sys_exit
  BY SameDel, SameReleased DEF S!sys_exit, SP!sys_exit, S!Sems, SP!Sems, S!On,
                               SP!On, S!Entries, SP!Entries, S!ToSet, SP!ToSet,
                               S!list_add, SP!list_add, S!freequeue,
                               SP!freequeue, S!IsProcess, SP!IsProcess,
                               S!FREE_SEM, SP!FREE_SEM, S!NULL_PID,
                               SP!NULL_PID, S!Stored, SP!Stored, S!Slots,
                               SP!Slots, S!Unblocked, SP!Unblocked, S!READY,
                               SP!READY, S!sched_continue, SP!sched_continue,
                               S!list_first, SP!list_first, S!runqueue,
                               SP!runqueue, S!RUNNING, SP!RUNNING,
                               S!task_switch, SP!task_switch

(* A reader that blocks.                                                   *)
LEMMA SameRead == S!sys_read_keyboard => SP!sys_read_keyboard
  BY SameDel DEF S!sys_read_keyboard, SP!sys_read_keyboard, S!IsProcess,
                 SP!IsProcess, S!BlockOn, SP!BlockOn, S!keyboardqueue,
                 SP!keyboardqueue, S!BLOCKED, SP!BLOCKED, S!Requeue,
                 SP!Requeue, S!list_add_tail, SP!list_add_tail,
                 S!sched_continue, SP!sched_continue, S!list_first,
                 SP!list_first, S!runqueue, SP!runqueue, S!RUNNING, SP!RUNNING,
                 S!task_switch, SP!task_switch

(* A reader that is woken.                                                 *)
LEMMA SameKey == S!keyboard_routine => SP!keyboard_routine
  BY SameDel DEF S!keyboard_routine, SP!keyboard_routine, S!list_empty,
                 SP!list_empty, S!WakeFirst, SP!WakeFirst, S!keyboardqueue,
                 SP!keyboardqueue, S!Requeue, SP!Requeue, S!list_add_tail,
                 SP!list_add_tail, S!list_first, SP!list_first, S!runqueue,
                 SP!runqueue, S!Stored, SP!Stored, S!Slots, SP!Slots,
                 S!Unblocked, SP!Unblocked, S!READY, SP!READY, S!picvars,
                 SP!picvars

(* The actions of the driver: a read.                                      *)
LEMMA SameKRead ==
  ASSUME NEW t, NEW n, K!sys_read_keyboard(t, n)
  PROVE  KP!sys_read_keyboard(t, n)
  BY DEF K!sys_read_keyboard, KP!sys_read_keyboard, K!Blocked, KP!Blocked,
         K!ReadAtOnce, KP!ReadAtOnce, K!get_size, KP!get_size, K!get_character,
         KP!get_character, K!is_empty, KP!is_empty, K!Consumed, KP!Consumed,
         K!Advance, KP!Advance, K!copy_to_user, KP!copy_to_user, K!STALE,
         KP!STALE, K!NUMBER, KP!NUMBER

(* A key.                                                                  *)
LEMMA SameKKey == ASSUME NEW c, K!keyboard_routine(c) PROVE KP!keyboard_routine(c)
  BY DEF K!keyboard_routine, KP!keyboard_routine, K!save_character,
         KP!save_character, K!is_full, KP!is_full, K!DrainFull, KP!DrainFull,
         K!get_size, KP!get_size, K!get_character, KP!get_character,
         K!is_empty, KP!is_empty, K!Consumed, KP!Consumed, K!Advance,
         KP!Advance, K!copy_to_user, KP!copy_to_user, K!STALE, KP!STALE
----------------------------------------------------------------------------
(* Who waits has its EAX still to be stored; of who does not, the fields   *)
(* that its next read, or its child, will find are 0.                      *)
Resting ==
  \A t \in Processes :
    IF t \in Readers THEN eax[t] = "number" ELSE remain[t] = 0 /\ offset[t] = 0

(* The invariant: those of the two modules, and this.                      *)
IInv == SP!IInv /\ KP!IInv /\ Resting

Queue == lists[S!keyboardqueue]

(* The queue of the keyboard holds neither the current task nor a free     *)
(* slot.                                                                   *)
LEMMA QueueFacts ==
  ASSUME SP!IInv
  PROVE  /\ Queue = lists[2] /\ Queue \in Seq(S!Slots) /\ 2 \in SP!Heads
         /\ Readers = SP!Entries(lists, 2) /\ Readers \subseteq S!Slots
         /\ \A t : t \in Readers <=> \E i \in 1..Len(Queue) : Queue[i] = t
         /\ \A t : t \in Readers <=> KP!Blocked(t)
         /\ \A t : t \in Readers <=> K!Blocked(t)
         /\ SP!WellLinked(lists, SP!Heads, SP!Slots)
         /\ current \notin Readers /\ S!Idle \notin Readers
         /\ current \in S!Slots
         /\ Queue # <<>> => Head(Queue) \in Readers
         /\ lists[1] # <<>> => /\ Head(lists[1]) \in Processes \ Readers
  <1>1. /\ SP!WellLinked(lists, SP!Heads, SP!Slots)
        /\ \A h \in SP!Heads : SP!Entries(lists, h) \subseteq SP!Slots
        /\ \A h \in SP!Heads : ~SP!list_empty(lists, h) =>
              SP!list_first(lists, h) \in SP!Entries(lists, h)
        /\ \A g, h \in SP!Heads : \A x :
              x \in SP!Entries(lists, g) /\ x \in SP!Entries(lists, h) => g = h
        /\ SP!Idle \in SP!Entries(lists, SP!runqueue)
        /\ current \in SP!Entries(lists, SP!runqueue)
    BY Assumptions, SP!ListFacts
  <1>2. 0 \in SP!Heads /\ 1 \in SP!Heads /\ 2 \in SP!Heads
    BY Names
  <1>3. Queue = lists[2] /\ Queue \in Seq(S!Slots)
    BY <1>1, <1>2, Names DEF Queue, SP!WellLinked
  <1>4. Readers = SP!Entries(lists, 2)
    BY Names DEF Readers, S!On, S!Entries, SP!Entries, S!ToSet, SP!ToSet
  <1>5. \A t : t \in Readers <=> \E i \in 1..Len(Queue) : Queue[i] = t
    BY <1>3, <1>4 DEF SP!Entries, SP!ToSet
  <1>6. \A t : (t \in Readers <=> KP!Blocked(t)) /\ (t \in Readers <=> K!Blocked(t))
    BY <1>5 DEF KP!Blocked, K!Blocked, Queue
  <1>7. \A h \in SP!Heads : lists[h] # <<>> => Head(lists[h]) \in SP!Entries(lists, h)
    BY <1>1 DEF SP!list_empty, SP!list_first
  <1>8. current \notin Readers /\ S!Idle \notin Readers /\ current \in S!Slots
    BY <1>1, <1>2, <1>4, Names
  <1>9. Queue # <<>> => Head(Queue) \in Readers
    BY <1>2, <1>3, <1>4, <1>7
  <1>10. lists[1] # <<>> => Head(lists[1]) \in Processes \ Readers
    BY <1>1, <1>2, <1>4, <1>7, Names DEF Processes
  <1> QED BY <1>1, <1>2, <1>3, <1>4, <1>5, <1>6, <1>8, <1>9, <1>10, Names

(* Neither clock, exit, nice nor fork touches the queue of the keyboard.   *)
LEMMA QueueStays ==
  ASSUME SP!IInv, \/ SP!Clock \/ SP!sys_exit \/ (\E q \in 0..MaxQuantum : SP!sys_nice(q))
                  \/ SP!sys_fork \/ SP!sys_fork_ENOMEM
  PROVE  /\ Queue' = Queue
         /\ \A t \in Readers : eax'[t] = eax[t]
  <1>1. /\ SP!WellLinked(lists, SP!Heads, SP!Slots) /\ 2 \in SP!Heads
        /\ current \notin SP!On(2) /\ Readers = SP!On(2)
        /\ Queue = lists[2] /\ Queue' = lists'[2]
        /\ Readers \subseteq SP!Slots
    BY QueueFacts, Names DEF SP!On, Queue
  <1>2. SP!runqueue \in SP!Heads /\ SP!freequeue \in SP!Heads /\ SP!runqueue # 2 /\ SP!freequeue # 2
    BY Names
  <1>3. CASE SP!Clock
    <2>1. eax' = eax /\ (lists' = lists \/ lists' = SP!Requeue(lists, current, SP!runqueue))
      BY <1>3 DEF SP!Clock, SP!sched_continue
    <2>2. SP!Requeue(lists, current, SP!runqueue)[2] = lists[2]
      BY <1>1, <1>2, Assumptions, SP!RequeueLists
    <2> QED BY <1>1, <2>1, <2>2
  <1>4. CASE SP!sys_exit
    <2>1. PICK p : p = pid[current]
      OBVIOUS
    <2>2. /\ lists' = SP!list_add(SP!list_del(SP!Released(p), current), current, SP!freequeue)
          /\ eax' = SP!Stored({}, "error")
      BY <1>4, <2>1, Names DEF SP!sys_exit, SP!sched_continue
    <2>3. SP!Released(p) = lists
      <3>1. PICK f : /\ f = [n \in 0..0 |-> IF n = 0 THEN lists ELSE SP!Release(f, n, p)]
                     /\ SP!Released(p) = f[0]
        BY Assumptions, SP!ReleasedDef
      <3> QED BY <3>1
    <2>4. lists'[2] = lists[2]
      BY <1>1, <1>2, <2>2, <2>3, Assumptions, SP!StackLists DEF SP!On
    <2> QED BY <1>1, <2>2, <2>4 DEF SP!Stored
  <1>5. CASE \E q \in 0..MaxQuantum : SP!sys_nice(q)
    BY <1>1, <1>5 DEF SP!sys_nice
  <1>6. CASE SP!sys_fork \/ SP!sys_fork_ENOMEM
    <2>1. PICK child : child = Head(lists[1])
      OBVIOUS
    <2>2. /\ lists[1] # <<>>
          /\ \/ lists' = SP!list_add(SP!list_del(lists, child), child, SP!runqueue)
             \/ lists' = SP!list_del(lists, child)
          /\ eax' = [eax EXCEPT ![child] = "ok"] \/ eax' = [eax EXCEPT ![child] = "number"]
      BY <1>6, <2>1, Names DEF SP!sys_fork, SP!sys_fork_ENOMEM, SP!list_first,
                               SP!list_empty
    <2>3. child \notin SP!Entries(lists, 2)
      BY <2>1, <2>2, QueueFacts
    <2>4. lists'[2] = lists[2]
      BY <1>1, <1>2, <2>2, <2>3, Assumptions, SP!StackLists
    <2>5. \A t \in Readers : eax'[t] = eax[t]
      BY <1>1, <2>2, <2>3, QueueFacts DEF SP!IInv, SP!TypeOK
    <2> QED BY <1>1, <2>4, <2>5
  <1> QED BY <1>3, <1>4, <1>5, <1>6

(* A read that blocks puts the current task at its end.                    *)
LEMMA QueueGrows ==
  ASSUME SP!IInv, SP!sys_read_keyboard
  PROVE  /\ Queue' = Append(Queue, current)
         /\ eax' = [eax EXCEPT ![current] = "number"]
  <1>1. /\ SP!WellLinked(lists, SP!Heads, SP!Slots) /\ 2 \in SP!Heads
        /\ current \notin SP!On(2)
        /\ Queue = lists[2] /\ Queue' = lists'[2] /\ SP!keyboardqueue = 2
    BY QueueFacts, Names DEF SP!On, Queue
  <1>2. /\ lists' = SP!Requeue(lists, current, 2)
        /\ eax' = [eax EXCEPT ![current] = "number"]
    BY <1>1 DEF SP!sys_read_keyboard, SP!BlockOn, SP!sched_continue
  <1>3. SP!Requeue(lists, current, 2)[2] = Append(lists[2], current)
    BY <1>1, Assumptions, SP!RequeueLists
  <1> QED BY <1>1, <1>2, <1>3

(* A key that completes a read takes the first reader off.                 *)
LEMMA QueueShrinks ==
  ASSUME SP!IInv, SP!keyboard_routine
  PROVE  /\ Queue # <<>> /\ Queue' = Tail(Queue)
         /\ \A t \in S!Slots : t # Head(Queue) => eax'[t] = eax[t]
         /\ Head(Queue) \notin Readers'
         /\ \A t : t # Head(Queue) => (t \in Readers' <=> t \in Readers)
  <1>1. /\ SP!WellLinked(lists, SP!Heads, SP!Slots) /\ 2 \in SP!Heads
        /\ Queue = lists[2] /\ Queue' = lists'[2] /\ SP!keyboardqueue = 2
        /\ SP!runqueue \in SP!Heads /\ SP!runqueue # 2
        /\ Queue \in Seq(S!Slots)
    BY QueueFacts, Names DEF SP!On, Queue
  <1>2. PICK tsk : tsk = Head(Queue)
    OBVIOUS
  <1>3. /\ Queue # <<>>
        /\ lists' = SP!Requeue(lists, tsk, SP!runqueue)
        /\ eax' = SP!Stored({tsk}, "count")
    BY <1>1, <1>2 DEF SP!keyboard_routine, SP!WakeFirst, SP!list_empty, SP!list_first
  <1>4. Queue' = Tail(Queue)
    BY <1>1, <1>2, <1>3, Assumptions, SP!RequeueLists
  <1>5. PICK q \in Seq(S!Slots) : q = Queue
    BY <1>1
  <1>6. \A i, j \in 1..Len(q) : q[i] = q[j] => i = j
    BY <1>1, <1>5 DEF SP!WellLinked, SP!OnOneList
  <1>7. \A t : t \in Readers <=> \E i \in 1..Len(q) : q[i] = t
    BY <1>5, QueueFacts
  <1>8. \A t : t \in Readers' <=> \E i \in 1..Len(Tail(q)) : Tail(q)[i] = t
    <2>1. Readers' = {lists'[2][i] : i \in DOMAIN lists'[2]}
      BY Names DEF Readers, S!On, S!Entries, S!ToSet
    <2>2. PICK r \in Seq(S!Slots) : r = Tail(q)
      <3>1. Tail(q) \in Seq(S!Slots)
        BY <1>3, <1>5
      <3> QED BY <3>1
    <2>3. lists'[2] = r
      BY <1>1, <1>4, <1>5, <2>2, Zenon
    <2>4. DOMAIN r = 1..Len(r)
      OBVIOUS
    <2>5. \A t : t \in Readers' <=> \E i \in DOMAIN r : r[i] = t
      BY <2>1, <2>3, Zenon
    <2> QED BY <2>2, <2>4, <2>5, Zenon
  <1>9. /\ Len(q) \in Nat \ {0} /\ Len(Tail(q)) = Len(q) - 1 /\ q[1] = tsk
        /\ \A i \in 1..Len(q)-1 : Tail(q)[i] = q[i+1]
    BY <1>2, <1>3, <1>5
  <1>10. tsk \notin Readers'
    <2> SUFFICES ASSUME NEW i \in 1..Len(q)-1, q[i+1] = tsk PROVE FALSE
      BY <1>8, <1>9
    <2>1. 1 \in 1..Len(q) /\ i+1 \in 1..Len(q) /\ i+1 # 1
      BY <1>9
    <2> QED BY <1>6, <1>9, <2>1
  <1>11. ASSUME NEW t, t # tsk PROVE t \in Readers' <=> t \in Readers
    <2>1. ASSUME NEW i \in 1..Len(q), q[i] = t PROVE \E j \in 1..Len(Tail(q)) : Tail(q)[j] = t
      <3>1. i # 1 /\ i-1 \in 1..Len(q)-1 /\ (i-1)+1 = i
        BY <1>9, <1>11, <2>1
      <3>2. Tail(q)[i-1] = t
        BY <1>9, <2>1, <3>1
      <3> QED BY <1>9, <3>1, <3>2
    <2>2. ASSUME NEW j \in 1..Len(q)-1, q[j+1] = t PROVE \E i \in 1..Len(q) : q[i] = t
      <3>1. j+1 \in 1..Len(q)
        BY <1>9
      <3> QED BY <2>2, <3>1
    <2> QED BY <1>7, <1>8, <1>9, <2>1, <2>2
  <1>12. \A t \in S!Slots : t # tsk => eax'[t] = eax[t]
    BY <1>3, Names DEF SP!Stored
  <1> QED BY <1>2, <1>3, <1>4, <1>10, <1>11, <1>12

Driver == <<circular_buffer, Queue, remain, offset, buff, result>>

(* The state of the driver as Keyboard sees it.                            *)
LEMMA DriverVars ==
  ASSUME UNCHANGED Driver
  PROVE  UNCHANGED KP!vars /\ UNCHANGED K!vars
  BY DEF KP!vars, K!vars, Driver, Queue

(* The fields of readers are numbers.                                      *)
LEMMA DriverTypes ==
  ASSUME KP!IInv
  PROVE  remain \in [Processes -> Nat] /\ offset \in [Processes -> Nat]
  <1>1. Counts \cup {0} \subseteq Nat
    BY KernelAssumption DEF K!KeyboardAssumption
  <1> QED BY <1>1 DEF KP!IInv, KP!TypeOK

(* A step that leaves the driver alone.                                    *)
LEMMA DriverStays ==
  ASSUME IInv, SP!Next, Queue' = Queue, \A t \in Readers : eax'[t] = eax[t],
         UNCHANGED driver
  PROVE  IInv' /\ UNCHANGED K!vars
  <1>1. SP!IInv'
    BY Assumptions, SP!NextInv DEF IInv
  <1>2. UNCHANGED Driver
    BY DEF driver, Driver
  <1>3. UNCHANGED KP!vars /\ UNCHANGED K!vars
    BY <1>2, DriverVars
  <1>4. KP!IInv'
    BY <1>3, Assumptions, KP!Stutter DEF IInv
  <1>5. Readers' = Readers
    BY DEF Queue, Readers, S!On, S!Entries
  <1>6. Resting'
    BY <1>5 DEF IInv, Resting, driver
  <1> QED BY <1>1, <1>3, <1>4, <1>6 DEF IInv

(* fork copies fields that are 0 to a slot in which they are 0.            *)
LEMMA ForkCopiesNothing ==
  ASSUME IInv, sys_fork
  PROVE  UNCHANGED driver
  <1>1. PICK child : child = Head(lists[1])
    OBVIOUS
  <1>2. lists[1] # <<>>
    BY Names DEF sys_fork, S!sys_fork, S!sys_fork_ENOMEM, S!list_empty
  <1>3. child \in Processes /\ remain[child] = 0 /\ offset[child] = 0
    BY <1>1, <1>2, QueueFacts DEF IInv, Resting
  <1>4. current # S!Idle => remain[current] = 0 /\ offset[current] = 0
    BY QueueFacts DEF IInv, Resting, Processes
  <1>5. /\ remain' = [remain EXCEPT ![child] = 0]
        /\ offset' = [offset EXCEPT ![child] = 0]
        /\ UNCHANGED <<circular_buffer, buff, result>>
    BY <1>1, <1>4, Names DEF sys_fork
  <1> QED BY <1>3, <1>5, DriverTypes DEF IInv, driver

(* The current task, if it is not task[0], does not wait.                  *)
LEMMA CurrentProcess ==
  ASSUME IInv, S!IsProcess
  PROVE  current \in Processes /\ ~K!Blocked(current) /\ current \notin Readers
  <1>1. pid[S!Idle] = 0
    BY Names DEF IInv, SP!IInv, SP!UniquePids
  <1> QED BY <1>1, QueueFacts DEF IInv, S!IsProcess, Processes

(* A read is a read of Keyboard and keeps the invariant.                   *)
LEMMA ReadStep ==
  ASSUME IInv, NEW n \in Counts, sys_read_keyboard(n)
  PROVE  IInv' /\ K!sys_read_keyboard(current, n)
  <1>1. current \in Processes /\ ~K!Blocked(current) /\ current \notin Readers
    BY CurrentProcess DEF sys_read_keyboard
  <1>2. CASE K!ReadAtOnce(n)
    <2>1. /\ UNCHANGED <<tasks, remain, offset>>
          /\ UNCHANGED <<Queue, remain, offset>>
      BY <1>2 DEF sys_read_keyboard, tasks, Queue
    <2>2. K!sys_read_keyboard(current, n)
      BY <1>1, <1>2, <2>1 DEF sys_read_keyboard, K!sys_read_keyboard, Queue
    <2>3. KP!IInv'
      BY <1>1, <2>2, SameKRead, Assumptions, KP!NextStep DEF IInv, KP!Next
    <2>4. UNCHANGED SP!vars
      BY <2>1 DEF SP!vars, tasks
    <2>5. SP!IInv'
      BY <2>4, Assumptions, SP!NextInv DEF IInv
    <2>6. Readers' = Readers /\ eax' = eax
      BY <2>1 DEF Readers, S!On, S!Entries, tasks
    <2>7. Resting'
      BY <2>1, <2>6 DEF IInv, Resting
    <2> QED BY <2>2, <2>3, <2>5, <2>7 DEF IInv
  <1>3. CASE ~K!ReadAtOnce(n)
    <2>1. SP!sys_read_keyboard
      BY <1>3, SameRead DEF sys_read_keyboard
    <2>2. Queue' = Append(Queue, current) /\ eax' = [eax EXCEPT ![current] = "number"]
      BY <2>1, QueueGrows DEF IInv
    <2>3. /\ remain' = [remain EXCEPT ![current] = n]
          /\ offset' = [offset EXCEPT ![current] = 0]
      BY <1>3 DEF sys_read_keyboard
    <2>4. K!sys_read_keyboard(current, n)
      BY <1>1, <1>3, <2>2 DEF sys_read_keyboard, K!sys_read_keyboard, Queue
    <2>5. KP!IInv'
      BY <1>1, <2>4, SameKRead, Assumptions, KP!NextStep DEF IInv, KP!Next
    <2>6. SP!IInv'
      BY <2>1, Assumptions, SP!NextInv DEF IInv, SP!Next
    <2>7. \A t : t \in Readers' <=> t \in Readers \/ t = current
      <3>1. PICK q \in Seq(S!Slots) : q = Queue
        BY QueueFacts DEF IInv
      <3>2. current \in S!Slots /\ \A t : t \in Readers <=> \E i \in 1..Len(q) : q[i] = t
        BY <3>1, QueueFacts DEF IInv
      <3>3. \A t : t \in Readers' <=> \E i \in 1..Len(Append(q, current)) : Append(q, current)[i] = t
        <4>1. Readers' = {lists'[2][i] : i \in DOMAIN lists'[2]}
          BY Names DEF Readers, S!On, S!Entries, S!ToSet
        <4>2. Append(q, current) \in Seq(S!Slots)
          BY <3>2
        <4>3. lists'[2] = Append(q, current)
          BY <2>2, <3>1, Names, Zenon DEF Queue
        <4> QED BY <4>1, <4>2, <4>3
      <3>4. /\ Len(Append(q, current)) = Len(q) + 1 /\ Len(q) \in Nat
            /\ Append(q, current)[Len(q)+1] = current
            /\ \A i \in 1..Len(q) : Append(q, current)[i] = q[i]
        BY <3>2
      <3> QED BY <3>2, <3>3, <3>4
    <2>8. Resting'
      <3>1. eax \in [S!Slots -> SP!Results]
        BY Names DEF IInv, SP!IInv, SP!TypeOK
      <3>2. \A t \in Processes : t # current => /\ eax'[t] = eax[t] /\ remain'[t] = remain[t]
                                               /\ offset'[t] = offset[t]
        BY <2>2, <2>3, <3>1, DriverTypes DEF IInv, Processes
      <3>3. eax'[current] = "number"
        BY <1>1, <2>2, <3>1 DEF Processes
      <3> QED BY <2>7, <3>2, <3>3 DEF IInv, Resting
    <2> QED BY <2>4, <2>5, <2>6, <2>8 DEF IInv
  <1> QED BY <1>2, <1>3

(* A key is a key of Keyboard and keeps the invariant.                     *)
LEMMA KeyStep ==
  ASSUME IInv, NEW c \in Keys, keyboard_routine(c)
  PROVE  IInv' /\ K!keyboard_routine(c)
  <1>1. PICK saved : saved = K!save_character(circular_buffer, c)
    OBVIOUS
  <1>2. ASSUME K!keyboard_routine(c), UNCHANGED tasks, UNCHANGED <<remain, offset>>
        PROVE  IInv'
    <2>1. KP!IInv'
      BY <1>2, SameKKey, Assumptions, KP!NextStep DEF IInv, KP!Next, KP!KeyPressed
    <2>2. UNCHANGED SP!vars
      BY <1>2 DEF SP!vars, tasks
    <2>3. SP!IInv'
      BY <2>2, Assumptions, SP!NextInv DEF IInv
    <2>4. Readers' = Readers /\ eax' = eax
      BY <1>2 DEF Readers, S!On, S!Entries, tasks
    <2>5. Resting'
      BY <1>2, <2>4 DEF IInv, Resting
    <2> QED BY <2>1, <2>3, <2>5 DEF IInv
  <1>3. CASE Queue = <<>>
    <2>1. UNCHANGED <<tasks, remain, offset, buff, result>> /\ circular_buffer' = saved
      BY <1>1, <1>3, Zenon DEF keyboard_routine, Queue
    <2>2. UNCHANGED Queue
      BY <2>1 DEF tasks, Queue
    <2>3. K!keyboard_routine(c)
      BY <1>1, <1>3, <2>1, <2>2, Zenon DEF K!keyboard_routine, Queue
    <2> QED BY <1>2, <2>1, <2>3
  <1>4. CASE Queue # <<>> /\ K!get_size(saved) # remain[Head(Queue)]
    <2>1. K!keyboard_routine(c) /\ UNCHANGED tasks
      <3>1. /\ K!DrainFull(Head(Queue), saved, remain[Head(Queue)], offset[Head(Queue)],
                           buff[Head(Queue)])
            /\ UNCHANGED <<tasks, result>>
        BY <1>1, <1>4, Zenon DEF keyboard_routine, Queue
      <3>2. UNCHANGED <<Queue, result>>
        BY <3>1 DEF tasks, Queue
      <3> QED BY <1>1, <1>4, <3>1, <3>2, Zenon DEF K!keyboard_routine, Queue
    <2>2. UNCHANGED <<remain, offset>>
      <3>1. KP!keyboard_routine(c) /\ KP!IInv
        BY <2>1, SameKKey DEF IInv
      <3>2. \/ KP!Stores(KP!save_character(circular_buffer, c))
            \/ KP!Wakes(KP!save_character(circular_buffer, c))
        BY <3>1, Assumptions, KP!KeySteps
      <3>3. ~KP!Wakes(KP!save_character(circular_buffer, c))
        <4>1. KP!save_character(circular_buffer, c) = saved
          BY <1>1 DEF KP!save_character, K!save_character, KP!is_full, K!is_full,
                      KP!Advance, K!Advance
        <4> QED BY <1>4, <4>1 DEF KP!Wakes, K!get_size, Queue
      <3> QED BY <3>2, <3>3 DEF KP!Stores
    <2> QED BY <1>2, <2>1, <2>2
  <1>5. CASE Queue # <<>> /\ K!get_size(saved) = remain[Head(Queue)]
    <2>1. PICK tsk : tsk = Head(Queue)
      OBVIOUS
    <2>2. PICK got : got = K!get_character(saved, remain[tsk])
      OBVIOUS
    <2>3. /\ result' = [result EXCEPT ![tsk] = offset[tsk] + Len(got.chars)]
          /\ S!keyboard_routine
          /\ K!DrainFull(tsk, got.cb, 0, 0,
               K!copy_to_user(got.chars, buff[tsk], offset[tsk], remain[tsk]))
      BY <1>1, <1>5, <2>1, <2>2, Zenon DEF keyboard_routine, Queue
    <2>4. SP!keyboard_routine
      BY <2>3, SameKey
    <2>5. /\ Queue' = Tail(Queue)
          /\ \A t \in S!Slots : t # tsk => eax'[t] = eax[t]
          /\ tsk \notin Readers'
          /\ \A t : t # tsk => (t \in Readers' <=> t \in Readers)
      BY <2>1, <2>4, QueueShrinks DEF IInv
    <2>6. K!keyboard_routine(c)
      BY <1>1, <1>5, <2>1, <2>2, <2>3, <2>5, Zenon DEF K!keyboard_routine, Queue
    <2>7. KP!IInv'
      BY <2>6, SameKKey, Assumptions, KP!NextStep DEF IInv, KP!Next, KP!KeyPressed
    <2>8. SP!IInv'
      BY <2>4, Assumptions, SP!NextInv DEF IInv, SP!Next
    <2>9. remain' = [remain EXCEPT ![tsk] = 0] /\ offset' = [offset EXCEPT ![tsk] = 0]
      <3>1. KP!keyboard_routine(c) /\ KP!IInv
        BY <2>6, SameKKey DEF IInv
      <3>2. \/ KP!Stores(KP!save_character(circular_buffer, c))
            \/ KP!Wakes(KP!save_character(circular_buffer, c))
        BY <3>1, Assumptions, KP!KeySteps
      <3>3. ~KP!Stores(KP!save_character(circular_buffer, c))
        <4>1. KP!save_character(circular_buffer, c) = saved
          BY <1>1 DEF KP!save_character, K!save_character, KP!is_full, K!is_full,
                      KP!Advance, K!Advance
        <4> QED BY <1>5, <4>1 DEF KP!Stores, K!get_size, Queue
      <3> QED BY <2>1, <3>2, <3>3 DEF KP!Wakes, Queue
    <2>10. Resting'
      <3>1. \A t \in Processes : t # tsk => /\ eax'[t] = eax[t] /\ remain'[t] = remain[t]
                                            /\ offset'[t] = offset[t]
        BY <2>5, <2>9, DriverTypes DEF IInv, Processes
      <3>2. tsk \in Processes => remain'[tsk] = 0 /\ offset'[tsk] = 0
        BY <2>9, DriverTypes DEF IInv
      <3> QED BY <2>5, <3>1, <3>2 DEF IInv, Resting
    <2> QED BY <2>6, <2>7, <2>8, <2>10 DEF IInv
  <1> QED BY <1>3, <1>4, <1>5

(* Every step keeps the invariant, and is one of the driver or none.       *)
LEMMA NextStep ==
  ASSUME IInv, Next
  PROVE  IInv' /\ (K!Next \/ UNCHANGED K!vars)
  <1>1. CASE Clock
    <2>1. SP!Clock /\ UNCHANGED driver
      BY <1>1, SameClock DEF Clock
    <2> QED BY <2>1, QueueStays, DriverStays DEF IInv, SP!Next
  <1>2. CASE sys_exit
    <2>1. SP!sys_exit /\ UNCHANGED driver
      BY <1>2, SameExit DEF sys_exit
    <2> QED BY <2>1, QueueStays, DriverStays DEF IInv, SP!Next
  <1>3. CASE sys_nice
    <2>1. (\E q \in 0..MaxQuantum : SP!sys_nice(q)) /\ UNCHANGED driver
      BY <1>3, SameNice DEF sys_nice
    <2> QED BY <2>1, QueueStays, DriverStays DEF IInv, SP!Next
  <1>4. CASE sys_fork
    <2>1. SP!sys_fork \/ SP!sys_fork_ENOMEM
      BY <1>4, SameFork, SameENOMEM DEF sys_fork
    <2>2. UNCHANGED driver
      BY <1>4, ForkCopiesNothing
    <2> QED BY <2>1, <2>2, QueueStays, DriverStays DEF IInv, SP!Next
  <1>5. ASSUME NEW n \in Counts, sys_read_keyboard(n)
        PROVE  IInv' /\ K!Next
    <2>1. current \in Processes
      BY <1>5, CurrentProcess DEF sys_read_keyboard
    <2> QED BY <1>5, <2>1, ReadStep DEF K!Next
  <1>6. ASSUME NEW c \in Keys, keyboard_routine(c)
        PROVE  IInv' /\ K!Next
    BY <1>6, KeyStep DEF K!Next, K!KeyPressed
  <1> QED BY <1>1, <1>2, <1>3, <1>4, <1>5, <1>6 DEF Next, KeyPressed

(* A step that changes nothing.                                            *)
LEMMA StutterStep ==
  ASSUME IInv, UNCHANGED vars
  PROVE  IInv' /\ UNCHANGED K!vars
  <1>1. UNCHANGED tasks /\ UNCHANGED driver
    BY DEF vars
  <1>2. UNCHANGED SP!vars /\ Queue' = Queue
    BY <1>1 DEF tasks, SP!vars, Queue
  <1>3. SP!IInv'
    BY <1>2, Assumptions, SP!NextInv DEF IInv
  <1>4. UNCHANGED KP!vars /\ UNCHANGED K!vars
    <2>1. UNCHANGED Driver
      BY <1>1, <1>2 DEF driver, Driver
    <2> QED BY <2>1, DriverVars
  <1>5. KP!IInv'
    BY <1>4, Assumptions, KP!Stutter DEF IInv
  <1>6. Resting'
    BY <1>1 DEF IInv, Resting, Readers, S!On, S!Entries, tasks, driver
  <1> QED BY <1>3, <1>4, <1>5, <1>6 DEF IInv

(* The initial states.                                                     *)
LEMMA InitStep == Init => IInv
  <1> SUFFICES ASSUME Init PROVE IInv
    OBVIOUS
  <1>1. SP!Init /\ KP!Init
    BY SameInit DEF Init
  <1>2. SP!IInv
    BY <1>1, Assumptions, SP!InitInv
  <1>3. KP!IInv
    BY <1>1, Assumptions, KP!InitStep
  <1>4. Resting
    <2>1. Queue = <<>>
      BY DEF Init, K!Init, Queue
    <2>2. \A t : t \notin Readers
      BY <1>2, <2>1, QueueFacts
    <2> QED BY <2>2 DEF Init, K!Init, Resting
  <1> QED BY <1>2, <1>3, <1>4 DEF IInv

(* The invariant holds in every state: in particular all the invariants of *)
(* Scheduler and of Keyboard hold of the composition.                      *)
THEOREM Invariance == Spec => []IInv
  <1>1. IInv /\ [Next]_vars => IInv'
    BY NextStep, StutterStep
  <1> QED BY <1>1, InitStep, PTL DEF Spec

(* Through fork, exit, reuse of slots and wake-ups no field of a reader    *)
(* outlives its read, and every task on the queue is blocked, its result   *)
(* still to come.                                                          *)
THEOREM FieldsAreReset == Spec => []FieldsOfReaders
  <1>1. IInv => FieldsOfReaders
    <2> SUFFICES ASSUME IInv, NEW t \in Processes
                 PROVE  IF t \in Readers
                        THEN state[t] = S!BLOCKED /\ eax[t] = "number" /\ result[t] = K!NUMBER
                        ELSE remain[t] = 0 /\ offset[t] = 0 /\ result[t] # K!NUMBER
      BY DEF FieldsOfReaders
    <2>1. CASE t \in Readers
      <3>1. state[t] = S!BLOCKED
        <4>1. t \in SP!On(2) /\ 2 \in SP!WaitQueues /\ t \in SP!Slots
          BY <2>1, QueueFacts, Names DEF IInv, SP!On, SP!WaitQueues
        <4>2. state[t] = SP!BLOCKED
          BY <4>1 DEF IInv, SP!IInv, SP!StateMatchesList
        <4> QED BY <4>2 DEF S!BLOCKED, SP!BLOCKED
      <3>2. result[t] = K!NUMBER
        BY <2>1, QueueFacts DEF IInv, KP!IInv, KP!GivenNothing, KP!NUMBER, K!NUMBER
      <3> QED BY <2>1, <3>1, <3>2 DEF IInv, Resting
    <2>2. CASE t \notin Readers
      <3>1. result[t] # K!NUMBER
        BY <2>2, QueueFacts DEF IInv, KP!IInv, KP!GivenNothing, KP!NUMBER, K!NUMBER
      <3> QED BY <2>2, <3>1 DEF IInv, Resting
    <2> QED BY <2>1, <2>2
  <1> QED BY <1>1, Invariance, PTL

(* With processes that come and go the driver is the one that Keyboard     *)
(* describes.                                                              *)
THEOREM DriverRefinement == Spec => ImplementsKeyboard
  <1>1. Init => K!Init
    BY DEF Init
  <1>2. IInv /\ [Next]_vars => [K!Next]_K!vars
    BY NextStep, StutterStep
  <1> QED BY <1>1, <1>2, Invariance, PTL DEF Spec, ImplementsKeyboard

(* The composition does to the tasks only what Scheduler allows, and so    *)
(* all that is proved of it holds here: by the form of each action.        *)
THEOREM SchedulerRefinement == Spec => S!Init /\ [][S!Next]_S!vars
  <1>1. Init => S!Init
    BY DEF Init
  <1>2. [Next]_vars => [S!Next]_S!vars
    <2> SUFFICES ASSUME [Next]_vars PROVE S!Next \/ UNCHANGED S!vars
      OBVIOUS
    <2>1. CASE Clock \/ sys_exit \/ sys_nice \/ sys_fork
      BY <2>1 DEF Clock, sys_exit, sys_nice, sys_fork, S!Next
    <2>2. ASSUME NEW n \in Counts, sys_read_keyboard(n)
          PROVE  S!sys_read_keyboard \/ UNCHANGED tasks
      BY <2>2, Zenon DEF sys_read_keyboard
    <2>3. ASSUME NEW c \in Keys, keyboard_routine(c)
          PROVE  S!keyboard_routine \/ UNCHANGED tasks
      BY <2>3, Zenon DEF keyboard_routine
    <2>4. UNCHANGED vars => UNCHANGED tasks
      BY DEF vars
    <2>5. UNCHANGED tasks => UNCHANGED S!vars
      BY DEF tasks, S!vars
    <2> QED BY <2>1, <2>2, <2>3, <2>4, <2>5 DEF Next, KeyPressed, S!Next
  <1> QED BY <1>1, <1>2, PTL DEF Spec

(* Whatever tasks come, go, wait and are woken, keys are delivered once,   *)
(* in order, to readers in order, until the buffer is full: what is proved *)
(* of the driver alone.                                                    *)
THEOREM TerminalRefinement == Spec => KP!ImplementsTerminal
  <1>1. Init => KP!Init
    BY SameInit DEF Init
  <1>2. IInv /\ [Next]_vars => [KP!Next]_KP!vars
    <2> SUFFICES ASSUME IInv, [Next]_vars PROVE KP!Next \/ UNCHANGED KP!vars
      OBVIOUS
    <2>1. K!Next \/ UNCHANGED K!vars
      BY NextStep, StutterStep
    <2>2. K!Next => KP!Next
      BY SameKRead, SameKKey DEF K!Next, KP!Next, K!KeyPressed, KP!KeyPressed
    <2>3. UNCHANGED K!vars => UNCHANGED KP!vars
      BY DEF K!vars, KP!vars
    <2> QED BY <2>1, <2>2, <2>3
  <1>3. Spec => KP!Spec
    BY <1>1, <1>2, Invariance, PTL DEF Spec, KP!Spec
  <1>4. KP!Spec => KP!ImplementsTerminal
    BY Assumptions, KP!Refinement
  <1> QED BY <1>3, <1>4
=============================================================================
