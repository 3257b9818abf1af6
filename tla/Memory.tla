------------------------------- MODULE Memory -------------------------------
(***************************************************************************)
(* Physical frames, the page table and the TLB of the 0s kernel: mm.c, and *)
(* what fork, exit, task_switch and the keyboard handler do with them.     *)
(*                                                                         *)
(* There is one page table.  Its data window shows the pages of the        *)
(* current task; right above it fork opens a temporary window onto the     *)
(* frames of the child.  The TLB remembers translations until CR3 is       *)
(* written, and a forgotten flush shows only if the stale translation is   *)
(* used: between two handlers the user may touch any page.                 *)
(*                                                                         *)
(* Which task is switched to, and which slot fork takes, is for Scheduler  *)
(* to say: here it is any live task and any free slot.                     *)
(***************************************************************************)
EXTENDS Integers, FiniteSetsExt

CONSTANTS NrTasks,        \* NR_TASKS
          NUM_PAG_DATA,   \* data pages of a task
          NrFrames,       \* frames that alloc_frame looks at
          Values          \* bound: what a page may contain

ASSUME MemoryAssumption ==
  /\ NrTasks \in Nat \ {0}
  /\ NUM_PAG_DATA \in Nat \ {0}
  /\ NrFrames \in Nat
  /\ NUM_PAG_DATA <= NrFrames
  /\ Values # {}

Slots  == 0 .. NrTasks-1
Data   == 0 .. NUM_PAG_DATA-1                       \* the data window
Temp   == NUM_PAG_DATA .. 2*NUM_PAG_DATA-1          \* the temporary one
Window == Data \cup Temp
Frames == 0 .. NrFrames-1

FREE_FRAME == 0
USED_FRAME == 1
NONE == -1      \* not present in the page table, not cached in the TLB

VARIABLES mmu,        \* [pagusr_table, tlb, ram]
          phys_mem,   \* [Frames -> {FREE_FRAME, USED_FRAME}]
          phpages,    \* phpages[t][page]: frame of a data page of task t
          live,       \* slots of the processes
          free,       \* slots on freequeue
          current

vars == <<mmu, phys_mem, phpages, live, free, current>>

----------------------------------------------------------------------------
(* The processor.  A translation that is used stays cached.                *)

Translation(m, page) ==
  IF m.tlb[page] # NONE THEN m.tlb[page] ELSE m.pagusr_table[page]

Touch(m, page) == [m EXCEPT !.tlb[page] = Translation(m, page)]

Write(m, page, v) ==
  [Touch(m, page) EXCEPT !.ram[Translation(m, page)] = v]

(* copy_data from one page to another.                                     *)
CopyPage(m, src, dst) ==
  Write(Touch(m, src), dst, m.ram[Translation(m, src)])

set_cr3(m) == [m EXCEPT !.tlb = [page \in Window |-> NONE]]
----------------------------------------------------------------------------
(* The page table and the frames.                                          *)

set_ss_pag(m, page, f) == [m EXCEPT !.pagusr_table[page] = f]
del_ss_pag(m, page)    == set_cr3([m EXCEPT !.pagusr_table[page] = NONE])

(* Deliberate defect: the loop over the data window without the flush.     *)
Remap_unflushed(m, pages) ==
  [m EXCEPT !.pagusr_table = [page \in Window |->
      IF page \in Data THEN pages[page] ELSE m.pagusr_table[page]]]

(* The data window shows pages: the loop of set_ss_pag and the set_cr3 of  *)
(* task_switch, and twice of keyboard_routine.                             *)
Remap(m, pages) ==
  set_cr3([m EXCEPT !.pagusr_table = [page \in Window |->
             IF page \in Data THEN pages[page] ELSE m.pagusr_table[page]]])

alloc_frame(phys) ==
  LET available == {f \in Frames : phys[f] = FREE_FRAME}
  IN  IF available = {} THEN -1 ELSE Min(available)

(* Deliberate defect: the loop starts from the second page.                *)
Freed_but_first(phys, pages, n) ==
  [f \in Frames |-> IF \E page \in 1 .. n-1 : pages[page] = f
                    THEN FREE_FRAME ELSE phys[f]]

(* free_frame(pages[j]) for every j below n.                               *)
Freed(phys, pages, n) ==
  [f \in Frames |-> IF \E page \in 0 .. n-1 : pages[page] = f
                    THEN FREE_FRAME ELSE phys[f]]

(* Deliberate defects: the child keeps the frame of its parent, or gets    *)
(* the one after the frame that was allocated.                             *)
Assigned_not(pages, i, f)  == pages
Assigned_next(pages, i, f) == [pages EXCEPT ![i] = f + 1]

Assigned(pages, i, f) == [pages EXCEPT ![i] = f]
----------------------------------------------------------------------------
(* set_user_pages gives task[0] its frames, init_mm leaves the window      *)
(* above unmapped.                                                         *)
Init ==
  /\ \E v \in Values :
       mmu = [pagusr_table |-> [page \in Window |->
                                  IF page \in Data THEN page ELSE NONE],
              tlb |-> [page \in Window |-> NONE],
              ram |-> [f \in Frames |-> v]]
  /\ phys_mem = [f \in Frames |->
                   IF f \in Data THEN USED_FRAME ELSE FREE_FRAME]
  /\ phpages = [t \in Slots |-> [page \in Data |-> IF t = 0 THEN page ELSE 0]]
  /\ live = {0}
  /\ free = Slots \ {0}
  /\ current = 0
----------------------------------------------------------------------------
(* An instruction of the current task that reads or writes a page of one   *)
(* of the windows, if the processor finds a translation for it.            *)
Load(page) ==
  /\ Translation(mmu, page) # NONE
  /\ mmu' = Touch(mmu, page)
  /\ UNCHANGED <<phys_mem, phpages, live, free, current>>

Store(page, v) ==
  /\ Translation(mmu, page) # NONE
  /\ mmu' = Write(mmu, page, v)
  /\ UNCHANGED <<phys_mem, phpages, live, free, current>>

(* The processor may forget a translation at any time.                     *)
Evict(page) ==
  /\ mmu' = [mmu EXCEPT !.tlb[page] = NONE]
  /\ UNCHANGED <<phys_mem, phpages, live, free, current>>

task_switch(t) ==
  /\ t \in live
  /\ mmu' = Remap(mmu, phpages[t])
  /\ current' = t
  /\ UNCHANGED <<phys_mem, phpages, live, free>>

(* The loop of fork after n iterations.  The child's structure is a copy   *)
(* of the parent's, so pages[i] is a frame of the parent until iteration i *)
(* assigns it; the iteration that gets no frame frees pages[i] .. pages[0].*)
ForkLoop[n \in 0 .. NUM_PAG_DATA] ==
  IF n = 0
  THEN [mmu |-> mmu, phys |-> phys_mem, pages |-> phpages[current],
        failed |-> FALSE]
  ELSE
    LET sofar == ForkLoop[n-1]
        i     == n - 1
        lpag  == NUM_PAG_DATA + i
        f     == alloc_frame(sofar.phys)
        open  == set_ss_pag(sofar.mmu, lpag, f)
    IN  IF sofar.failed THEN sofar
        ELSE IF f = -1
        THEN [sofar EXCEPT !.failed = TRUE,
                           !.phys = Freed(sofar.phys, sofar.pages, n)]
        ELSE [sofar EXCEPT !.mmu = del_ss_pag(CopyPage(open, i, lpag), lpag),
                           !.phys[f] = USED_FRAME,
                           !.pages = Assigned(@, i, f)]

sys_fork(child) ==
  LET copy == ForkLoop[NUM_PAG_DATA]
  IN  /\ child \in free
      /\ free' = free \ {child}
      /\ phys_mem' = copy.phys
      /\ phpages' = [phpages EXCEPT ![child] = copy.pages]
      /\ mmu' = set_cr3(copy.mmu)
      /\ \/ ~copy.failed /\ live' = live \cup {child}
         \/ copy.failed /\ UNCHANGED live                   \* ENOMEM
      /\ UNCHANGED current

(* exit closes the temporary window, frees the frames and switches to t.   *)
(* The data window goes on showing the freed frames until the switch.      *)
sys_exit(t) ==
  LET closed == set_cr3([mmu EXCEPT !.pagusr_table = [page \in Window |->
                           IF page \in Temp THEN NONE ELSE @[page]]])
  IN  /\ current # 0
      /\ t \in live \ {current}
      /\ phys_mem' = Freed(phys_mem, phpages[current], NUM_PAG_DATA)
      /\ live' = live \ {current}
      /\ free' = free \cup {current}
      /\ current' = t
      /\ mmu' = Remap(closed, phpages[t])
      /\ UNCHANGED phpages

(* keyboard_routine writes v to some pages of a blocked task t, through    *)
(* the data window, and gives the window back to the current task.         *)
keyboard_routine(t, pages, v) ==
  LET shown == Remap(mmu, phpages[t])
      copied == [shown EXCEPT
                   !.ram = [f \in Frames |->
                      IF \E page \in pages : Translation(shown, page) = f
                      THEN v ELSE @[f]],
                   !.tlb = [page \in Window |->
                      IF page \in pages THEN Translation(shown, page)
                      ELSE @[page]]]
  IN  /\ t \in live \ {current}
      /\ mmu' = Remap(copied, phpages[current])
      /\ UNCHANGED <<phys_mem, phpages, live, free, current>>
----------------------------------------------------------------------------
Next ==
  \/ \E page \in Window : Load(page) \/ Evict(page)
  \/ \E page \in Window, v \in Values : Store(page, v)
  \/ \E t \in Slots : task_switch(t) \/ sys_fork(t) \/ sys_exit(t)
  \/ \E t \in Slots, pages \in SUBSET Data, v \in Values :
       keyboard_routine(t, pages, v)

Spec == Init /\ [][Next]_vars
----------------------------------------------------------------------------
(* Properties.                                                             *)

(* Types: page table, TLB and task structures name frames that exist, and  *)
(* the current task is not on freequeue.                                   *)
TypeOK ==
  /\ mmu \in [pagusr_table : [Window -> Frames \cup {NONE}],
              tlb : [Window -> Frames \cup {NONE}],
              ram : [Frames -> Values]]
  /\ phys_mem \in [Frames -> {FREE_FRAME, USED_FRAME}]
  /\ phpages \in [Slots -> [Data -> Frames]]
  /\ live \subseteq Slots
  /\ free \subseteq Slots \ live
  /\ current \in live

(* Whatever handlers came before, the user reaches its own data pages and  *)
(* nothing else: neither the page table nor a translation that the         *)
(* processor still remembers shows the pages of another task, and the      *)
(* temporary window is closed.                                             *)
UserReachesOwnPages ==
  /\ \A page \in Data :
       /\ mmu.pagusr_table[page] = phpages[current][page]
       /\ mmu.tlb[page] \in {NONE, phpages[current][page]}
  /\ \A page \in Temp : Translation(mmu, page) = NONE

(* Until a fork has found no frame left.  Such a fork loses its slot, and  *)
(* also frees a frame of the parent: from then on memory may be shared.    *)
NoForkFailed == live \cup free = Slots

(* No frame holds two data pages, and alloc_frame cannot give one away     *)
(* that is in use.                                                         *)
FramesPrivate ==
  NoForkFailed =>
    /\ \A t, u \in live : \A p, q \in Data :
         phpages[t][p] = phpages[u][q] => t = u /\ p = q
    /\ \A t \in live, p \in Data : phys_mem[phpages[t][p]] = USED_FRAME

(* The frames in use are those of the processes: exit gives back all that  *)
(* fork has taken, so that memory does not run out after many processes.   *)
NoFrameLost ==
  NoForkFailed =>
    \A f \in Frames : phys_mem[f] = USED_FRAME =>
      \E t \in live, p \in Data : phpages[t][p] = f

(* What the data pages of the processes contain.                           *)
Contents == [t \in live |-> [p \in Data |-> mmu.ram[phpages[t][p]]]]

(* Frames, page table and TLB keep the promise of AddressSpaces, step by   *)
(* step, as long as no fork fails.                                         *)
Promise == INSTANCE AddressSpaces
  WITH First <- 0, Page <- Data, Value <- Values, running <- current,
       memory <- Contents
ImplementsAddressSpaces ==
  Promise!Init /\ [][NoForkFailed' => Promise!Step]_vars
=============================================================================
