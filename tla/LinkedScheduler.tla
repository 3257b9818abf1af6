-------------------------- MODULE LinkedScheduler --------------------------
(***************************************************************************)
(* The scheduler and the semaphores with the pointers of their lists:      *)
(* beside each step of Scheduler, whose lists are sequences, what the same *)
(* service does to the list_head structures in memory.  The branches that  *)
(* the code takes on a list are taken here on its pointers.                *)
(***************************************************************************)
EXTENDS Scheduler

VARIABLE links      \* next and prev of every list_head

P == INSTANCE ListPointers

linkedvars == <<vars, links>>

(* Addresses: the queue of task[t] is t, the heads come after the tasks.   *)
Node(head) == NrTasks + head
Nodes      == Slots \cup {Node(head) : head \in Heads}

(* sched_pause, sched_block, sched_unblock.                                *)
Relink(l, tsk, head) == P!list_add_tail(P!list_del(l, tsk), tsk, Node(head))

(* The loop of sys_sem_destroy; a queue has no more than NrTasks waiters.  *)
Emptied(l, s) ==
  LET loop[n \in 0 .. NrTasks] ==
        IF n = 0 THEN l
        ELSE IF P!list_empty(loop[n-1], Node(s)) THEN loop[n-1]
        ELSE Relink(loop[n-1], P!list_first(loop[n-1], Node(s)), runqueue)
  IN  loop[NrTasks]
----------------------------------------------------------------------------
(* init_queues, init_task_structs and init_task0; the queues of semaphores *)
(* are all zero until sem_init.                                            *)
LinkedInit ==
  LET Started(l, heads) == P!INIT_LIST_HEAD(l, Node(heads))
      empty == Started(Started(Started(P!Zero(Nodes), runqueue), freequeue),
                       keyboardqueue)
      stacked[t \in Slots] ==
        IF t = 0 THEN empty
        ELSE P!list_add(stacked[t-1], t, Node(freequeue))
  IN  /\ Init
      /\ links = P!list_add(stacked[NrTasks-1], Idle, Node(runqueue))

LinkedClock ==
  /\ Clock
  /\ links' = IF sched_switch_needed(roundtics - 1)
              THEN Relink(links, current, runqueue) ELSE links

(* Deliberate defect, for ForkLinks: the child is linked before the copy.  *)
ForkLinks_copied_last ==
  LET child == P!list_first(links, Node(freequeue))
  IN  P!Copied(P!list_add(P!list_del(links, child), child, Node(runqueue)),
               current, child)

(* The child is unlinked, the copy of the parent's structure overwrites    *)
(* its pointers with the parent's, and list_add overwrites these again.    *)
ForkLinks ==
  LET child == P!list_first(links, Node(freequeue))
  IN  P!list_add(P!Copied(P!list_del(links, child), current, child), child,
                 Node(runqueue))

LinkedFork == sys_fork /\ links' = ForkLinks

(* Without a frame the child stays on no list, with the parent's pointers. *)
LinkedFork_ENOMEM ==
  LET child == P!list_first(links, Node(freequeue))
  IN  /\ sys_fork_ENOMEM
      /\ links' = P!Copied(P!list_del(links, child), current, child)

LinkedExit ==
  LET after[n \in 0 .. NrSem] ==
        IF n = 0 THEN links
        ELSE IF sems[n-1].owner = pid[current] THEN Emptied(after[n-1], n-1)
        ELSE after[n-1]
  IN  /\ sys_exit
      /\ links' = P!list_add(P!list_del(after[NrSem], current), current,
                             Node(freequeue))

LinkedInitSem(s, value) ==
  sys_sem_init(s, value) /\ links' = P!INIT_LIST_HEAD(links, Node(s))

LinkedWait(s) ==
  /\ sys_sem_wait(s)
  /\ links' = IF sems[s].value > 0 THEN links ELSE Relink(links, current, s)

LinkedSignal(s) ==
  /\ sys_sem_signal(s)
  /\ links' = IF P!list_empty(links, Node(s)) THEN links
              ELSE Relink(links, P!list_first(links, Node(s)), runqueue)

LinkedDestroy(s) == sys_sem_destroy(s) /\ links' = Emptied(links, s)

LinkedRead ==
  sys_read_keyboard /\ links' = Relink(links, current, keyboardqueue)

LinkedKey ==
  /\ keyboard_routine
  /\ links' = Relink(links, P!list_first(links, Node(keyboardqueue)), runqueue)

LinkedNext ==
  \/ LinkedClock
  \/ LinkedFork
  \/ LinkedFork_ENOMEM
  \/ LinkedExit
  \/ \E q \in 0..MaxQuantum : sys_nice(q) /\ UNCHANGED links
  \/ \E s \in Sems, value \in 0 .. 2*MaxInt+1 : LinkedInitSem(s, value)
  \/ \E s \in Sems : LinkedWait(s)
  \/ \E s \in Sems : LinkedSignal(s)
  \/ \E s \in Sems : LinkedDestroy(s)
  \/ LinkedRead
  \/ LinkedKey

LinkedSpec == LinkedInit /\ [][LinkedNext]_linkedvars
----------------------------------------------------------------------------
(* The pointers denote the sequences: a walk from any head meets its tasks *)
(* in their order and comes back, and prev, which list_del and             *)
(* list_add_tail trust and nobody ever follows, undoes next.  So whatever  *)
(* links fork copies, list_del clears or INIT_LIST_HEAD cuts, no stale     *)
(* pointer is on a list, and the other modules may do without pointers.    *)
LinksDenoteLists ==
  \A head \in Heads :
    \/ P!Denotes(links, Node(head), lists[head])
    \/ /\ head \in Sems /\ sems[head].owner = FREE_SEM /\ lists[head] = <<>>
       /\ P!IsZero(links, Node(head))
=============================================================================
