---------------------------- MODULE MemoryProofs ----------------------------
(* Theorems about Memory, for any number of tasks, pages and frames.       *)
EXTENDS Memory, SequenceTheorems, WellFoundedInduction, TLAPS

(* A set of natural numbers has a smallest element.                        *)
LEMMA NatWellOrdered ==
  ASSUME NEW T, T \subseteq Nat, T # {}
  PROVE  \E m \in T : \A k \in T : ~(k < m)
  <1>1. \E R : IsWellFoundedOn(R, Nat) /\ \A k, m \in Nat : k < m => <<k, m>> \in R
    <2>1. IsWellFoundedOn(OpToRel(<, Nat), Nat)
      BY NatLessThanWellFounded, Zenon
    <2>2. \A k, m \in Nat : k < m => <<k, m>> \in OpToRel(<, Nat)
      BY Zenon DEF OpToRel
    <2> QED BY <2>1, <2>2, Zenon
  <1>2. PICK R : IsWellFoundedOn(R, Nat) /\ \A k, m \in Nat : k < m => <<k, m>> \in R
    BY <1>1
  <1>3. PICK m \in T : \A k \in T : ~(<<k, m>> \in R)
    <2>1. IsWellFoundedOn(R, Nat)
      BY <1>2
    <2> QED BY <2>1, WFMin, Zenon
  <1> QED BY <1>2, <1>3

(* An inductive set of natural numbers holds them all.                     *)
LEMMA NatSetInduction ==
  ASSUME NEW I, 0 \in I, \A n \in Nat : n \in I => n+1 \in I
  PROVE  Nat \subseteq I
  <1> SUFFICES ASSUME Nat \ I # {} PROVE FALSE
    OBVIOUS
  <1>1. PICK m \in Nat \ I : \A k \in Nat \ I : ~(k < m)
    BY NatWellOrdered
  <1>2. m-1 \in Nat /\ m-1 < m /\ (m-1)+1 = m
    BY <1>1
  <1> QED BY <1>1, <1>2


(* What a page table or a TLB may hold.                                    *)
Tables == [Window -> Frames \cup {NONE}]
Mmus   == [pagusr_table : Tables, tlb : Tables, ram : [Frames -> Values]]

(* The windows of m show pages and nothing else.                           *)
Shows(m, pages) ==
  /\ m \in Mmus
  /\ \A p \in Data : m.pagusr_table[p] = pages[p] /\ m.tlb[p] \in {NONE, pages[p]}
  /\ \A p \in Temp : m.pagusr_table[p] = NONE /\ m.tlb[p] = NONE

(* The two windows do not overlap, and frames are numbers.                 *)
LEMMA Windows ==
  /\ NUM_PAG_DATA \in Nat \ {0} /\ NrFrames \in Nat /\ NONE \notin Frames
  /\ Data \subseteq Window /\ Temp \subseteq Window /\ Window = Data \cup Temp
  /\ \A i \in Data : NUM_PAG_DATA + i \in Temp
  /\ \A p \in Data : p \notin Temp
  BY MemoryAssumption DEF Data, Temp, Window, Frames, NONE

(* Using a page of the windows leaves them as they are.                    *)
LEMMA TouchShows ==
  ASSUME NEW pages \in [Data -> Frames], NEW m, Shows(m, pages),
         NEW page \in Window, Translation(m, page) # NONE
  PROVE  /\ page \in Data /\ Translation(m, page) = pages[page]
         /\ Shows(Touch(m, page), pages) /\ Touch(m, page).ram = m.ram
  <1>1. page \in Data /\ Translation(m, page) = pages[page]
    BY Windows DEF Shows, Translation
  <1>2. pages[page] \in Frames
    BY <1>1
  <1>3. PICK u : u = Touch(m, page)
    OBVIOUS
  <1>4. u = [m EXCEPT !.tlb[page] = pages[page]]
    BY <1>1, <1>3 DEF Touch
  <1>5. /\ u \in Mmus /\ u.ram = m.ram /\ u.pagusr_table = m.pagusr_table
        /\ u.tlb = [m.tlb EXCEPT ![page] = pages[page]]
    BY <1>2, <1>4 DEF Shows, Mmus, Tables
  <1>6. m.tlb \in Tables
    BY DEF Shows, Mmus
  <1>7. Shows(u, pages)
    <2>1. \A p \in Data : u.pagusr_table[p] = pages[p] /\ u.tlb[p] \in {NONE, pages[p]}
      BY <1>5, <1>6, Windows DEF Shows, Tables
    <2>2. \A p \in Temp : u.pagusr_table[p] = NONE /\ u.tlb[p] = NONE
      BY <1>1, <1>5, <1>6, Windows DEF Shows, Tables
    <2> QED BY <1>5, <2>1, <2>2 DEF Shows
  <1> QED BY <1>1, <1>3, <1>5, <1>7

(* A store changes the frame of its page alone.                            *)
LEMMA WriteShows ==
  ASSUME NEW pages \in [Data -> Frames], NEW m, Shows(m, pages),
         NEW page \in Window, Translation(m, page) # NONE, NEW v \in Values
  PROVE  /\ Shows(Write(m, page, v), pages)
         /\ \A g \in Frames : Write(m, page, v).ram[g] = IF g = pages[page] THEN v
                                                          ELSE m.ram[g]
  <1>1. /\ page \in Data /\ Translation(m, page) = pages[page]
        /\ Shows(Touch(m, page), pages) /\ Touch(m, page).ram = m.ram
    BY TouchShows
  <1>2. PICK u : u = Touch(m, page)
    OBVIOUS
  <1>3. PICK f \in Frames : f = pages[page]
    BY <1>1
  <1>4. PICK w : w = Write(m, page, v)
    OBVIOUS
  <1>5. w = [u EXCEPT !.ram[f] = v]
    BY <1>1, <1>2, <1>3, <1>4 DEF Write
  <1>6. u \in Mmus
    BY <1>1, <1>2 DEF Shows
  <1>7. /\ w \in Mmus /\ w.ram = [u.ram EXCEPT ![f] = v]
        /\ w.pagusr_table = u.pagusr_table /\ w.tlb = u.tlb
    BY <1>5, <1>6 DEF Mmus
  <1>8. Shows(w, pages)
    BY <1>1, <1>2, <1>7 DEF Shows
  <1>9. u.ram \in [Frames -> Values]
    BY <1>6 DEF Mmus
  <1> QED BY <1>1, <1>2, <1>3, <1>4, <1>7, <1>8, <1>9

(* When the processor drops a translation the windows stay.                    *)
LEMMA EvictShows ==
  ASSUME NEW pages, NEW m, Shows(m, pages), NEW page \in Window
  PROVE  /\ Shows([m EXCEPT !.tlb[page] = NONE], pages)
         /\ [m EXCEPT !.tlb[page] = NONE].ram = m.ram
  <1>1. PICK u : u = [m EXCEPT !.tlb[page] = NONE]
    OBVIOUS
  <1>2. /\ u \in Mmus /\ u.ram = m.ram /\ u.pagusr_table = m.pagusr_table
        /\ u.tlb = [m.tlb EXCEPT ![page] = NONE]
    BY <1>1 DEF Shows, Mmus, Tables
  <1>3. m.tlb \in Tables
    BY DEF Shows, Mmus
  <1>4. Shows(u, pages)
    BY <1>2, <1>3, Windows DEF Shows, Tables
  <1> QED BY <1>1, <1>2, <1>4

(* Whatever the window showed, Remap makes it show pages.                  *)
LEMMA RemapShows ==
  ASSUME NEW pages \in [Data -> Frames], NEW m \in Mmus,
         \A p \in Temp : m.pagusr_table[p] = NONE
  PROVE  /\ Shows(Remap(m, pages), pages) /\ Remap(m, pages).ram = m.ram
         /\ \A p \in Data : Translation(Remap(m, pages), p) = pages[p]
  <1>1. PICK tab : tab = [page \in Window |->
                           IF page \in Data THEN pages[page] ELSE m.pagusr_table[page]]
    OBVIOUS
  <1>2. PICK none : none = [page \in Window |-> NONE]
    OBVIOUS
  <1>3. tab \in Tables /\ none \in Tables
    BY <1>1, <1>2 DEF Tables, Mmus
  <1>4. PICK u : u = [m EXCEPT !.pagusr_table = tab]
    OBVIOUS
  <1>5. u \in Mmus /\ u.ram = m.ram /\ u.pagusr_table = tab
    BY <1>3, <1>4 DEF Mmus
  <1>6. PICK w : w = [u EXCEPT !.tlb = none]
    OBVIOUS
  <1>7. w \in Mmus /\ w.ram = m.ram /\ w.pagusr_table = tab /\ w.tlb = none
    BY <1>3, <1>5, <1>6 DEF Mmus
  <1>8. w = Remap(m, pages)
    BY <1>1, <1>2, <1>4, <1>6 DEF Remap, set_cr3
  <1>9. \A p \in Data : tab[p] = pages[p] /\ none[p] = NONE
    BY <1>1, <1>2, Windows
  <1>10. \A p \in Temp : tab[p] = NONE /\ none[p] = NONE
    BY <1>1, <1>2, Windows
  <1>11. Shows(w, pages)
    BY <1>7, <1>9, <1>10 DEF Shows
  <1> QED BY <1>7, <1>8, <1>9, <1>11 DEF Translation

(* One iteration of fork: the temporary window opens onto frame f, a page  *)
(* is copied into it, and it closes.                                       *)
Filled(m, i, f) ==
  del_ss_pag(CopyPage(set_ss_pag(m, NUM_PAG_DATA + i, f), i, NUM_PAG_DATA + i),
             NUM_PAG_DATA + i)

(* An iteration leaves the windows as they were and f with a copy.         *)
LEMMA CopyShows ==
  ASSUME NEW pages \in [Data -> Frames], NEW m, Shows(m, pages),
         NEW i \in Data, NEW f \in Frames
  PROVE  /\ Shows(Filled(m, i, f), pages)
         /\ \A g \in Frames : Filled(m, i, f).ram[g] = IF g = f THEN m.ram[pages[i]]
                                                        ELSE m.ram[g]
  <1>0. PICK r, l : r = Filled(m, i, f) /\ l = NUM_PAG_DATA + i
    OBVIOUS
  <1>1. l \in Temp /\ l \in Window /\ i \in Window /\ l \notin Data /\ i # l
    BY <1>0, Windows
  <1>2. m \in Mmus /\ m.pagusr_table \in Tables /\ m.tlb \in Tables
        /\ m.ram \in [Frames -> Values]
    BY DEF Shows, Mmus
  <1>3. PICK a : a = set_ss_pag(m, l, f)
    OBVIOUS
  <1>4. /\ a \in Mmus /\ a.pagusr_table = [m.pagusr_table EXCEPT ![l] = f]
        /\ a.tlb = m.tlb /\ a.ram = m.ram
    BY <1>2, <1>3 DEF set_ss_pag, Mmus, Tables
  <1>5. Translation(a, i) = pages[i] /\ pages[i] \in Frames
    BY <1>1, <1>2, <1>4 DEF Translation, Shows, Tables
  <1>6. PICK b : b = Touch(a, i)
    OBVIOUS
  <1>7. b = [a EXCEPT !.tlb[i] = pages[i]]
    BY <1>5, <1>6 DEF Touch
  <1>8. /\ b \in Mmus /\ b.pagusr_table = a.pagusr_table /\ b.ram = m.ram
        /\ b.tlb = [m.tlb EXCEPT ![i] = pages[i]]
    BY <1>4, <1>5, <1>7 DEF Mmus, Tables
  <1>9. Translation(b, l) = f
    <2>1. b.tlb[l] = NONE /\ b.pagusr_table[l] = f
      BY <1>1, <1>2, <1>4, <1>8 DEF Shows, Tables
    <2> QED BY <2>1 DEF Translation
  <1>10. PICK v \in Values : v = m.ram[pages[i]]
    BY <1>2, <1>5
  <1>11. PICK c : c = Write(b, l, v)
    OBVIOUS
  <1>12. PICK t : t = Touch(b, l)
    OBVIOUS
  <1>13. t = [b EXCEPT !.tlb[l] = f]
    BY <1>9, <1>12 DEF Touch
  <1>14. t \in Mmus /\ t.pagusr_table = b.pagusr_table /\ t.ram = m.ram
    BY <1>8, <1>13 DEF Mmus, Tables
  <1>15. c = [t EXCEPT !.ram[f] = v]
    BY <1>9, <1>11, <1>12 DEF Write
  <1>16. /\ c \in Mmus /\ c.pagusr_table = b.pagusr_table
         /\ c.ram = [m.ram EXCEPT ![f] = v]
    BY <1>14, <1>15 DEF Mmus
  <1>17. c = CopyPage(a, i, l)
    BY <1>4, <1>5, <1>6, <1>10, <1>11 DEF CopyPage
  <1>18. PICK none : none = [page \in Window |-> NONE]
    OBVIOUS
  <1>19. none \in Tables
    BY <1>18 DEF Tables
  <1>20. PICK d : d = [c EXCEPT !.pagusr_table[l] = NONE]
    OBVIOUS
  <1>21. /\ d \in Mmus /\ d.pagusr_table = [c.pagusr_table EXCEPT ![l] = NONE]
         /\ d.ram = c.ram
    BY <1>16, <1>20 DEF Mmus, Tables
  <1>22. r = [d EXCEPT !.tlb = none]
    <2>1. r = del_ss_pag(c, l)
      BY <1>0, <1>3, <1>17 DEF Filled
    <2> QED BY <1>18, <1>20, <2>1 DEF del_ss_pag, set_cr3
  <1>23. r \in Mmus /\ r.pagusr_table = d.pagusr_table /\ r.ram = c.ram /\ r.tlb = none
    BY <1>19, <1>21, <1>22 DEF Mmus
  <1>24. r.pagusr_table = [[m.pagusr_table EXCEPT ![l] = f] EXCEPT ![l] = NONE]
    BY <1>4, <1>8, <1>16, <1>21, <1>23
  <1>25. \A p \in Window : r.pagusr_table[p] = m.pagusr_table[p] /\ r.tlb[p] = NONE
    BY <1>1, <1>2, <1>18, <1>23, <1>24 DEF Shows, Tables
  <1>26. Shows(r, pages)
    BY <1>23, <1>25, Windows DEF Shows
  <1> QED BY <1>0, <1>2, <1>10, <1>16, <1>23, <1>26

----------------------------------------------------------------------------
(* What phys_mem may hold.                                                 *)
Physical == [Frames -> {FREE_FRAME, USED_FRAME}]

(* alloc_frame returns a free frame, or -1 when there is none.             *)
LEMMA AllocFrame ==
  ASSUME NEW phys \in Physical, alloc_frame(phys) # -1
  PROVE  alloc_frame(phys) \in Frames /\ phys[alloc_frame(phys)] = FREE_FRAME
  <1>1. PICK A : A = {f \in Frames : phys[f] = FREE_FRAME}
    OBVIOUS
  <1>2. A # {}
    BY <1>1 DEF alloc_frame
  <1>3. A \subseteq Nat
    BY <1>1, Windows DEF Frames
  <1>4. PICK m \in A : \A k \in A : ~(k < m)
    BY <1>2, <1>3, NatWellOrdered
  <1>5. \A k \in A : m <= k
    BY <1>3, <1>4
  <1>6. Min(A) \in A
    BY <1>5, Zenon DEF Min
  <1>7. alloc_frame(phys) = Min(A)
    BY <1>1, <1>2 DEF alloc_frame
  <1> QED BY <1>1, <1>6, <1>7

(* free_frame on some of the pages of a task.                              *)
LEMMA FreedFrames ==
  ASSUME NEW phys \in Physical, NEW pages, NEW n
  PROVE  Freed(phys, pages, n) \in Physical
  BY DEF Freed, Physical

(* An iteration of fork.                                                   *)
ForkBody(loop, n) ==
  IF n = 0
  THEN [mmu |-> mmu, phys |-> phys_mem, pages |-> phpages[current],
        failed |-> FALSE]
  ELSE
    LET sofar == loop[n-1]
        i     == n - 1
        lpag  == NUM_PAG_DATA + i
        f     == alloc_frame(sofar.phys)
        open  == set_ss_pag(sofar.mmu, lpag, f)
    IN  IF sofar.failed THEN sofar
        ELSE IF f = -1
        THEN [sofar EXCEPT !.failed = TRUE,
                           !.phys = Freed(sofar.phys, sofar.pages, n)]
        ELSE [sofar EXCEPT !.mmu = del_ss_pag(CopyPage(open, i, lpag), lpag),
                           !.phys[f] = USED_FRAME,
                           !.pages = Assigned(@, i, f)]

(* The recursive definition of ForkLoop has a solution.                    *)
LEMMA ForkLoopDef ==
  \E g : g = ForkLoop /\ g = [n \in 0..NUM_PAG_DATA |-> ForkBody(g, n)]
  <1> DEFINE Sol(f, m) == f = [n \in 0..m |-> ForkBody(f, n)]
             I == {m \in Nat : \E f : Sol(f, m)}
  <1>1. 0 \in I
    <2>1. PICK f : f = [n \in 0..0 |-> ForkBody(<<>>, 0)]
      OBVIOUS
    <2>2. ForkBody(f, 0) = ForkBody(<<>>, 0)
      BY DEF ForkBody
    <2>3. Sol(f, 0)
      <3> HIDE DEF Sol
      <3>1. \A n \in 0..0 : n = 0
        OBVIOUS
      <3>2. PICK b : b = ForkBody(f, 0)
        OBVIOUS
      <3>3. f = [n \in 0..0 |-> b]
        BY <2>1, <2>2, <3>2
      <3> QED BY <3>1, <3>2, <3>3 DEF Sol
    <2> QED BY <2>3
  <1>2. ASSUME NEW m \in Nat, m \in I PROVE m+1 \in I
    <2>1. PICK f : Sol(f, m)
      BY <1>2
    <2>2. PICK g : g = [n \in 0..m+1 |-> IF n = m+1 THEN ForkBody(f, m+1) ELSE f[n]]
      OBVIOUS
    <2>3. \A n \in 0..m : g[n] = f[n]
      BY <2>2
    <2>4. ASSUME NEW n \in 0..m+1 PROVE g[n] = ForkBody(g, n)
      <3>1. ForkBody(g, n) = ForkBody(f, n)
        <4>1. CASE n = 0
          BY <4>1, Zenon DEF ForkBody
        <4>2. CASE n # 0
          <5>1. g[n-1] = f[n-1]
            BY <4>2, <2>3
          <5> QED BY <5>1, Zenon DEF ForkBody
        <4> QED BY <4>1, <4>2
      <3>2. CASE n = m+1
        BY <2>2, <3>1, <3>2
      <3>3. CASE n # m+1
        <4>1. n \in 0..m
          BY <3>3
        <4>2. f[n] = ForkBody(f, n)
          BY <4>1, <2>1
        <4> QED BY <2>3, <3>1, <4>1, <4>2
      <3> QED BY <3>2, <3>3
    <2>5. Sol(g, m+1)
      BY <2>2, <2>4
    <2> QED BY <2>5
  <1>3. NUM_PAG_DATA \in I
    <2> HIDE DEF I
    <2> QED BY <1>1, <1>2, NatSetInduction, Windows
  <1>4. \E f : Sol(f, NUM_PAG_DATA)
    BY <1>3
  <1> QED BY <1>4, Zenon DEF ForkLoop, ForkBody

----------------------------------------------------------------------------
(* The inductive invariant is what the run checks.                         *)
IInv == TypeOK /\ UserReachesOwnPages /\ FramesPrivate /\ NoFrameLost

(* The types of the variables, in the form the steps use.                  *)
LEMMA Typed ==
  ASSUME IInv
  PROVE  /\ mmu \in Mmus /\ phys_mem \in Physical
         /\ phpages \in [Slots -> [Data -> Frames]] /\ live \subseteq Slots
         /\ current \in Slots /\ phpages[current] \in [Data -> Frames]
  BY DEF IInv, TypeOK, Mmus, Tables, Physical

(* UserReachesOwnPages says that the windows show the current task.        *)
LEMMA ShowsCurrent ==
  ASSUME TypeOK
  PROVE  UserReachesOwnPages <=> Shows(mmu, phpages[current])
  <1>1. mmu \in Mmus
    BY DEF TypeOK, Mmus, Tables
  <1>2. \A p \in Temp : mmu.tlb[p] # NONE => Translation(mmu, p) = mmu.tlb[p]
    BY DEF Translation
  <1>3. \A p \in Temp : mmu.tlb[p] = NONE => Translation(mmu, p) = mmu.pagusr_table[p]
    BY DEF Translation
  <1> QED BY <1>1, <1>2, <1>3 DEF UserReachesOwnPages, Shows

(* What the loop of fork hands from one iteration to the next.             *)
Copies == [mmu : Mmus, phys : Physical, pages : [Data -> Frames], failed : BOOLEAN]

(* After n iterations that found a frame: the child has n frames that were *)
(* free and are now in use, each with a copy of a page of the parent.      *)
Copied(r, n) ==
  /\ \A i \in Data : i >= n => r.pages[i] = phpages[current][i]
  /\ \A i \in Data : i < n => phys_mem[r.pages[i]] = FREE_FRAME
  /\ \A i, j \in Data : i < n /\ j < n /\ r.pages[i] = r.pages[j] => i = j
  /\ \A f \in Frames : r.phys[f] = USED_FRAME <=>
       phys_mem[f] = USED_FRAME \/ \E i \in Data : i < n /\ r.pages[i] = f
  /\ \A f \in Frames : phys_mem[f] = USED_FRAME => r.mmu.ram[f] = mmu.ram[f]
  /\ (\A i \in Data : phys_mem[phpages[current][i]] = USED_FRAME) =>
       \A i \in Data : i < n => r.mmu.ram[r.pages[i]] = mmu.ram[phpages[current][i]]

(* The invariant of that loop, until an iteration finds no frame.          *)
LoopInv(r, n) ==
  /\ r \in Copies
  /\ Shows(r.mmu, phpages[current])
  /\ ~r.failed => Copied(r, n)

(* It holds before the first iteration.                                    *)
LEMMA LoopStarts ==
  ASSUME IInv, NEW loop
  PROVE  LoopInv(ForkBody(loop, 0), 0)
  <1>1. PICK r : r = [mmu |-> mmu, phys |-> phys_mem, pages |-> phpages[current],
                      failed |-> FALSE]
    OBVIOUS
  <1>2. r = ForkBody(loop, 0)
    BY <1>1, Zenon DEF ForkBody
  <1>3. /\ r.mmu = mmu /\ r.phys = phys_mem /\ r.pages = phpages[current]
        /\ r.failed = FALSE
    BY <1>1
  <1>4. r \in Copies
    BY <1>1, Typed DEF Copies
  <1>5. Shows(r.mmu, phpages[current])
    BY <1>3, ShowsCurrent DEF IInv
  <1>6. \A i \in Data : ~(i < 0)
    BY DEF Data
  <1>7. Copied(r, 0)
    BY <1>3, <1>6 DEF Copied
  <1> QED BY <1>2, <1>4, <1>5, <1>7 DEF LoopInv

(* An iteration keeps it.                                                  *)
LEMMA LoopGoesOn ==
  ASSUME IInv, NEW loop, NEW n \in 1..NUM_PAG_DATA, LoopInv(loop[n-1], n-1)
  PROVE  LoopInv(ForkBody(loop, n), n)
  <1>1. PICK s \in Copies : s = loop[n-1]
    BY DEF LoopInv
  <1>2. Shows(s.mmu, phpages[current]) /\ (~s.failed => Copied(s, n-1))
    BY <1>1 DEF LoopInv
  <1>3. PICK i \in Data : i = n-1 /\ n # 0
    BY Windows DEF Data
  <1>4. PICK f : f = alloc_frame(s.phys)
    OBVIOUS
  <1>5. PICK l : l = NUM_PAG_DATA + i
    OBVIOUS
  <1>6. PICK m : m = del_ss_pag(CopyPage(set_ss_pag(s.mmu, l, f), i, l), l)
    OBVIOUS
  <1>7. PICK r : r = ForkBody(loop, n)
    OBVIOUS
  <1>8. r = IF s.failed THEN s
            ELSE IF f = -1
            THEN [s EXCEPT !.failed = TRUE, !.phys = Freed(s.phys, s.pages, n)]
            ELSE [s EXCEPT !.mmu = m, !.phys[f] = USED_FRAME,
                           !.pages = Assigned(s.pages, i, f)]
    BY <1>1, <1>3, <1>4, <1>5, <1>6, <1>7, Zenon DEF ForkBody
  <1>9. CASE s.failed
    BY <1>2, <1>7, <1>8, <1>9 DEF LoopInv
  <1>10. CASE ~s.failed /\ f = -1
    <2>1. PICK phys \in Physical : phys = Freed(s.phys, s.pages, n)
      BY FreedFrames DEF Copies
    <2>2. r = [s EXCEPT !.failed = TRUE, !.phys = phys]
      BY <1>8, <1>10, <2>1
    <2>3. r \in Copies /\ r.mmu = s.mmu /\ r.failed = TRUE
      BY <2>2 DEF Copies
    <2> QED BY <1>2, <1>7, <2>3 DEF LoopInv
  <1>11. CASE ~s.failed /\ f # -1
    <2>1. f \in Frames /\ s.phys[f] = FREE_FRAME
      BY <1>4, <1>11, AllocFrame DEF Copies
    <2>2. PICK own \in [Data -> Frames] : own = phpages[current]
      BY Typed
    <2>3. /\ Shows(m, own)
          /\ \A g \in Frames : m.ram[g] = IF g = f THEN s.mmu.ram[own[i]]
                                           ELSE s.mmu.ram[g]
      <3>1. PICK u : u = s.mmu /\ Shows(u, own)
        BY <1>2, <2>2
      <3>2. m = Filled(u, i, f)
        BY <1>5, <1>6, <3>1 DEF Filled
      <3>3. /\ Shows(Filled(u, i, f), own)
            /\ \A g \in Frames : Filled(u, i, f).ram[g] = IF g = f THEN u.ram[own[i]]
                                                           ELSE u.ram[g]
        BY <2>1, <3>1, CopyShows
      <3> QED BY <3>1, <3>2, <3>3
    <2>4. PICK p \in [Data -> Frames] : p = [s.pages EXCEPT ![i] = f]
      BY <2>1 DEF Copies
    <2>5. r = [s EXCEPT !.mmu = m, !.phys[f] = USED_FRAME, !.pages = p]
      BY <1>8, <1>11, <2>4 DEF Assigned
    <2>6. m \in Mmus
      BY <2>3 DEF Shows
    <2>7. r \in Copies
      BY <2>1, <2>4, <2>5, <2>6 DEF Copies, Physical
    <2>8. /\ r.mmu = m /\ r.phys = [s.phys EXCEPT ![f] = USED_FRAME]
          /\ r.pages = p /\ r.failed = s.failed
      BY <2>1, <2>4, <2>5, <2>6 DEF Copies, Physical
    <2>9. Copied(s, n-1)
      BY <1>2, <1>11
    <2>10. phys_mem[f] = FREE_FRAME
      BY <2>1, <2>9, Typed DEF Copied, Physical, FREE_FRAME, USED_FRAME
    <2>11. \A j \in Data : j < i => s.pages[j] # f
      BY <1>3, <2>1, <2>9 DEF Copied, FREE_FRAME, USED_FRAME
    <2>12. \A j \in Data : /\ j < n <=> j < i \/ j = i
                           /\ j >= n => j >= n-1 /\ j # i
                           /\ j < i <=> j < n-1
      BY <1>3, Windows DEF Data
    <2>13. p[i] = f /\ \A j \in Data : j # i => p[j] = s.pages[j]
      BY <2>4 DEF Copies
    <2>14. \A j \in Data : j < i => p[j] = s.pages[j]
      BY <2>13, <1>3 DEF Data
    <2>15. \A j \in Data : j >= n => p[j] = phpages[current][j]
      BY <2>9, <2>12, <2>13 DEF Copied
    <2>16. \A j \in Data : j < n => phys_mem[p[j]] = FREE_FRAME
      BY <2>9, <2>10, <2>12, <2>13, <2>14 DEF Copied
    <2>17. \A j, k \in Data : j < n /\ k < n /\ p[j] = p[k] => j = k
      BY <2>9, <2>11, <2>12, <2>13, <2>14 DEF Copied
    <2>18. \A g \in Frames : r.phys[g] = USED_FRAME <=>
             phys_mem[g] = USED_FRAME \/ \E j \in Data : j < n /\ p[j] = g
      <3> TAKE g \in Frames
      <3>1. CASE g = f
        BY <2>1, <2>8, <2>12, <2>13, <3>1 DEF Copies, Physical
      <3>2. CASE g # f
        <4>1. r.phys[g] = s.phys[g]
          BY <2>1, <2>8, <3>2 DEF Copies, Physical
        <4>2. s.phys[g] = USED_FRAME <=>
                phys_mem[g] = USED_FRAME \/ \E j \in Data : j < n-1 /\ s.pages[j] = g
          BY <2>9 DEF Copied
        <4>3. \A j \in Data : j < n /\ p[j] = g <=> j < n-1 /\ s.pages[j] = g
          BY <2>12, <2>13, <2>14, <3>2
        <4> QED BY <4>1, <4>2, <4>3
      <3> QED BY <3>1, <3>2
    <2>19. \A g \in Frames : g # f => m.ram[g] = s.mmu.ram[g]
      BY <2>3 DEF Copies, Mmus
    <2>20. \A g \in Frames : phys_mem[g] = USED_FRAME => m.ram[g] = mmu.ram[g]
      BY <2>9, <2>10, <2>19 DEF Copied, FREE_FRAME, USED_FRAME
    <2>21. ASSUME \A j \in Data : phys_mem[phpages[current][j]] = USED_FRAME
           PROVE  \A j \in Data : j < n => m.ram[p[j]] = mmu.ram[phpages[current][j]]
      <3> TAKE j \in Data
      <3> SUFFICES ASSUME j < n PROVE m.ram[p[j]] = mmu.ram[phpages[current][j]]
        OBVIOUS
      <3>1. CASE j = i
        <4>1. m.ram[f] = s.mmu.ram[own[i]]
          BY <2>1, <2>3 DEF Copies, Mmus
        <4>2. s.mmu.ram[own[i]] = mmu.ram[own[i]]
          BY <2>2, <2>9, <2>21 DEF Copied
        <4> QED BY <2>2, <2>13, <3>1, <4>1, <4>2
      <3>2. CASE j # i
        <4>1. j < n-1 /\ p[j] = s.pages[j] /\ p[j] # f
          BY <2>11, <2>12, <2>13, <3>2
        <4>2. p[j] \in Frames
          OBVIOUS
        <4>3. s.mmu.ram[s.pages[j]] = mmu.ram[phpages[current][j]]
          BY <2>9, <2>21, <4>1 DEF Copied
        <4> QED BY <2>19, <4>1, <4>2, <4>3
      <3> QED BY <3>1, <3>2
    <2>22. Copied(r, n)
      BY <2>8, <2>15, <2>16, <2>17, <2>18, <2>20, <2>21 DEF Copied
    <2> QED BY <1>7, <2>2, <2>3, <2>7, <2>8, <2>22 DEF LoopInv
  <1> QED BY <1>9, <1>10, <1>11

(* So the child has a copy of every page when fork does not fail.          *)
LEMMA ForkCopies ==
  ASSUME IInv
  PROVE  LoopInv(ForkLoop[NUM_PAG_DATA], NUM_PAG_DATA)
  <1>1. PICK g : g = ForkLoop /\ g = [n \in 0..NUM_PAG_DATA |-> ForkBody(g, n)]
    BY ForkLoopDef
  <1> DEFINE I == {n \in Nat : n <= NUM_PAG_DATA => LoopInv(g[n], n)}
  <1>2. 0 \in I
    <2>1. g[0] = ForkBody(g, 0)
      BY <1>1, Windows
    <2> QED BY <2>1, LoopStarts
  <1>3. ASSUME NEW n \in Nat, n \in I PROVE n+1 \in I
    <2> SUFFICES ASSUME n+1 <= NUM_PAG_DATA PROVE LoopInv(g[n+1], n+1)
      OBVIOUS
    <2>1. g[n+1] = ForkBody(g, n+1)
      BY <1>1, Windows
    <2>2. n+1 \in 1..NUM_PAG_DATA /\ (n+1)-1 = n
      BY Windows
    <2>3. LoopInv(g[(n+1)-1], (n+1)-1)
      BY <1>3, <2>2, Windows
    <2> QED BY <2>1, <2>2, <2>3, LoopGoesOn
  <1>4. NUM_PAG_DATA \in I
    <2> HIDE DEF I
    <2> QED BY <1>2, <1>3, NatSetInduction, Windows
  <1> QED BY <1>1, <1>4, Windows

----------------------------------------------------------------------------
(* Handlers that change the processor only keep the invariant if they      *)
(* leave the windows with the pages of the current task.                   *)
LEMMA ProcessorKeeps ==
  ASSUME IInv, Shows(mmu', phpages[current]),
         UNCHANGED <<phys_mem, phpages, live, free, current>>
  PROVE  IInv'
  <1>1. TypeOK'
    <2>1. mmu' \in Mmus
      BY DEF Shows
    <2> QED BY <2>1 DEF IInv, TypeOK, Mmus, Tables
  <1>2. UserReachesOwnPages'
    <2>1. /\ \A p \in Data : mmu'.pagusr_table[p] = phpages[current][p]
          /\ \A p \in Data : mmu'.tlb[p] \in {NONE, phpages[current][p]}
          /\ \A p \in Temp : mmu'.pagusr_table[p] = NONE /\ mmu'.tlb[p] = NONE
      BY DEF Shows
    <2>2. \A p \in Temp : Translation(mmu', p) = NONE
      BY <2>1 DEF Translation
    <2> QED BY <2>1, <2>2 DEF UserReachesOwnPages
  <1>3. FramesPrivate' /\ NoFrameLost'
    BY DEF IInv, FramesPrivate, NoFrameLost, NoForkFailed
  <1> QED BY <1>1, <1>2, <1>3 DEF IInv

(* The contents of a task depend on its frames and on what they hold.      *)
LEMMA SameContents ==
  ASSUME mmu'.ram = mmu.ram, UNCHANGED <<phpages, live>>
  PROVE  Contents' = Contents
  BY DEF Contents

(* A load may fill the TLB and changes nothing else.                       *)
LEMMA LoadStep ==
  ASSUME IInv, NEW page \in Window, Load(page)
  PROVE  IInv' /\ UNCHANGED Promise!vars
  <1>1. PICK pages \in [Data -> Frames] : pages = phpages[current]
    BY Typed
  <1>2. Shows(mmu, pages)
    BY <1>1, ShowsCurrent DEF IInv
  <1>3. Shows(Touch(mmu, page), pages) /\ Touch(mmu, page).ram = mmu.ram
    BY <1>2, TouchShows DEF Load
  <1>4. mmu' = Touch(mmu, page) /\ UNCHANGED <<phys_mem, phpages, live, free, current>>
    BY DEF Load
  <1>5. IInv'
    BY <1>1, <1>3, <1>4, ProcessorKeeps
  <1>6. Contents' = Contents
    BY <1>3, <1>4, SameContents
  <1> QED BY <1>4, <1>5, <1>6 DEF Promise!vars

(* The processor may drop a translation at any time.                       *)
LEMMA EvictStep ==
  ASSUME IInv, NEW page \in Window, Evict(page)
  PROVE  IInv' /\ UNCHANGED Promise!vars
  <1>1. PICK m : m = [mmu EXCEPT !.tlb[page] = NONE]
    OBVIOUS
  <1>2. Shows(mmu, phpages[current])
    BY ShowsCurrent DEF IInv
  <1>3. Shows(m, phpages[current]) /\ m.ram = mmu.ram
    BY <1>1, <1>2, EvictShows
  <1>4. mmu' = m /\ UNCHANGED <<phys_mem, phpages, live, free, current>>
    BY <1>1 DEF Evict
  <1>5. IInv'
    BY <1>3, <1>4, ProcessorKeeps
  <1>6. Contents' = Contents
    BY <1>3, <1>4, SameContents
  <1> QED BY <1>4, <1>5, <1>6 DEF Promise!vars

(* A store of the user changes its own page and no other.                  *)
LEMMA StoreStep ==
  ASSUME IInv, NEW page \in Window, NEW v \in Values, Store(page, v)
  PROVE  IInv' /\ (NoForkFailed => Promise!Step)
  <1>1. PICK pages \in [Data -> Frames] : pages = phpages[current]
    BY Typed
  <1>2. Shows(mmu, pages) /\ Translation(mmu, page) # NONE
    BY <1>1, ShowsCurrent DEF IInv, Store
  <1>3. page \in Data
    BY <1>2, TouchShows
  <1>4. PICK m : m = Write(mmu, page, v)
    OBVIOUS
  <1>5. /\ Shows(m, pages)
        /\ \A g \in Frames : m.ram[g] = IF g = pages[page] THEN v ELSE mmu.ram[g]
    BY <1>2, <1>4, WriteShows
  <1>6. mmu' = m /\ UNCHANGED <<phys_mem, phpages, live, free, current>>
    BY <1>4 DEF Store
  <1>7. IInv'
    BY <1>1, <1>5, <1>6, ProcessorKeeps
  <1>8. ASSUME NoForkFailed PROVE Promise!Step
    <2>1. \A t \in live, p \in Data :
            phpages[t][p] = pages[page] => t = current /\ p = page
      BY <1>1, <1>3, <1>8 DEF IInv, FramesPrivate, TypeOK
    <2>2. \A t \in live, p \in Data : phpages[t][p] \in Frames
      BY Typed
    <2>3. \A t \in live, p \in Data :
            mmu'.ram[phpages[t][p]] = IF t = current /\ p = page THEN v
                                      ELSE mmu.ram[phpages[t][p]]
      BY <1>1, <1>5, <1>6, <2>1, <2>2
    <2>4. Contents' = [t \in live |-> [p \in Data |->
                         IF t = current /\ p = page THEN v
                         ELSE mmu.ram[phpages[t][p]]]]
      BY <1>6, <2>3 DEF Contents
    <2>5. Contents' = [Contents EXCEPT ![current][page] = v]
      BY <1>3, <2>4 DEF Contents
    <2>6. Promise!Store(page, v)
      BY <1>6, <2>5 DEF Promise!Store
    <2> QED BY <1>3, <2>6 DEF Promise!Step, Promise!Next
  <1> QED BY <1>7, <1>8

(* A switch maps the pages of the next task over those of the last.        *)
LEMMA SwitchStep ==
  ASSUME IInv, NEW t \in Slots, task_switch(t)
  PROVE  IInv' /\ Promise!Step
  <1>1. PICK pages \in [Data -> Frames] : pages = phpages[t]
    BY Typed
  <1>2. mmu \in Mmus /\ \A p \in Temp : mmu.pagusr_table[p] = NONE
    BY Typed, ShowsCurrent DEF IInv, Shows
  <1>3. PICK m : m = Remap(mmu, pages)
    OBVIOUS
  <1>4. Shows(m, pages) /\ m.ram = mmu.ram
    BY <1>2, <1>3, RemapShows
  <1>5. /\ t \in live /\ mmu' = m /\ current' = t
        /\ UNCHANGED <<phys_mem, phpages, live, free>>
    BY <1>1, <1>3 DEF task_switch
  <1>6. TypeOK'
    <2>1. mmu' \in Mmus
      BY <1>4, <1>5 DEF Shows
    <2> QED BY <1>5, <2>1 DEF IInv, TypeOK, Mmus, Tables
  <1>7. UserReachesOwnPages'
    <2>1. /\ \A p \in Data : mmu'.pagusr_table[p] = phpages'[current'][p]
          /\ \A p \in Data : mmu'.tlb[p] \in {NONE, phpages'[current'][p]}
          /\ \A p \in Temp : mmu'.pagusr_table[p] = NONE /\ mmu'.tlb[p] = NONE
      BY <1>1, <1>4, <1>5 DEF Shows
    <2>2. \A p \in Temp : Translation(mmu', p) = NONE
      BY <2>1 DEF Translation
    <2> QED BY <2>1, <2>2 DEF UserReachesOwnPages
  <1>8. FramesPrivate' /\ NoFrameLost'
    BY <1>5 DEF IInv, FramesPrivate, NoFrameLost, NoForkFailed
  <1>9. Contents' = Contents
    BY <1>4, <1>5, SameContents
  <1>10. current' \in DOMAIN Contents
    BY <1>5 DEF Contents
  <1>11. Promise!Switch
    BY <1>9, <1>10 DEF Promise!Switch, Promise!Live
  <1>12. Promise!Step
    BY <1>11 DEF Promise!Step, Promise!Next
  <1> QED BY <1>6, <1>7, <1>8, <1>12 DEF IInv

(* What the pages of t contain, and of no other task, changes.             *)
LEMMA KeyboardStep ==
  ASSUME IInv, NEW t \in Slots, NEW pages \in SUBSET Data, NEW v \in Values,
         keyboard_routine(t, pages, v)
  PROVE  IInv' /\ (NoForkFailed => Promise!Step)
  <1>1. PICK of \in [Data -> Frames], own \in [Data -> Frames] :
          of = phpages[t] /\ own = phpages[current]
    BY Typed
  <1>2. mmu \in Mmus /\ \A p \in Temp : mmu.pagusr_table[p] = NONE
    BY Typed, ShowsCurrent DEF IInv, Shows
  <1>3. PICK s : s = Remap(mmu, of)
    OBVIOUS
  <1>4. /\ Shows(s, of) /\ s.ram = mmu.ram
        /\ \A p \in Data : Translation(s, p) = of[p]
    BY <1>2, <1>3, RemapShows
  <1>5. PICK ram : ram = [f \in Frames |->
                       IF \E p \in pages : Translation(s, p) = f THEN v ELSE s.ram[f]]
    OBVIOUS
  <1>6. PICK tlb : tlb = [p \in Window |->
                       IF p \in pages THEN Translation(s, p) ELSE s.tlb[p]]
    OBVIOUS
  <1>7. PICK c : c = [s EXCEPT !.ram = ram, !.tlb = tlb]
    OBVIOUS
  <1>8. s \in Mmus /\ s.ram \in [Frames -> Values] /\ s.tlb \in Tables
    BY <1>4 DEF Shows, Mmus
  <1>9. ram \in [Frames -> Values] /\ tlb \in Tables
    BY <1>4, <1>5, <1>6, <1>8 DEF Tables
  <1>10. c \in Mmus /\ c.ram = ram /\ c.pagusr_table = s.pagusr_table
    BY <1>7, <1>8, <1>9 DEF Mmus
  <1>11. \A p \in Temp : c.pagusr_table[p] = NONE
    BY <1>4, <1>10 DEF Shows
  <1>12. PICK m : m = Remap(c, own)
    OBVIOUS
  <1>13. Shows(m, own) /\ m.ram = ram
    BY <1>10, <1>11, <1>12, RemapShows
  <1>14. /\ t \in live \ {current} /\ mmu' = m
         /\ UNCHANGED <<phys_mem, phpages, live, free, current>>
    BY <1>1, <1>3, <1>5, <1>6, <1>7, <1>12, Zenon DEF keyboard_routine
  <1>15. IInv'
    BY <1>1, <1>13, <1>14, ProcessorKeeps
  <1>16. ASSUME NoForkFailed PROVE Promise!Step
    <2>1. \A u \in live, p, q \in Data :
            phpages[u][p] = of[q] => u = t /\ p = q
      BY <1>1, <1>14, <1>16 DEF IInv, FramesPrivate
    <2>2. \A u \in live, p \in Data : phpages[u][p] \in Frames
      BY Typed
    <2>3. \A u \in live, p \in Data :
            (\E q \in pages : Translation(s, q) = phpages[u][p]) <=> u = t /\ p \in pages
      BY <1>1, <1>4, <2>1
    <2>4. \A u \in live, p \in Data :
            mmu'.ram[phpages[u][p]] = IF u = t /\ p \in pages THEN v
                                      ELSE mmu.ram[phpages[u][p]]
      BY <1>4, <1>5, <1>13, <1>14, <2>2, <2>3
    <2>5. Contents' = [u \in live |-> [p \in Data |->
                         IF u = t /\ p \in pages THEN v ELSE mmu.ram[phpages[u][p]]]]
      BY <1>14, <2>4 DEF Contents
    <2>6. Contents' = [Contents EXCEPT ![t] =
                         [p \in Data |-> IF p \in pages THEN v ELSE Contents[t][p]]]
      BY <1>14, <2>5 DEF Contents
    <2>7. Promise!Deliver(t, pages, v)
      BY <1>14, <2>6 DEF Promise!Deliver
    <2>8. t \in DOMAIN Contents
      BY <1>14 DEF Contents
    <2> QED BY <2>7, <2>8 DEF Promise!Step, Promise!Next, Promise!Live
  <1> QED BY <1>15, <1>16

----------------------------------------------------------------------------
(* A flush leaves to the windows what the page table shows.                *)
LEMMA FlushShows ==
  ASSUME NEW pages, NEW m, Shows(m, pages)
  PROVE  Shows(set_cr3(m), pages) /\ set_cr3(m).ram = m.ram
  <1>1. PICK none : none = [page \in Window |-> NONE]
    OBVIOUS
  <1>2. none \in Tables /\ m \in Mmus
    BY <1>1 DEF Tables, Shows
  <1>3. PICK u : u = set_cr3(m)
    OBVIOUS
  <1>4. u = [m EXCEPT !.tlb = none]
    BY <1>1, <1>3 DEF set_cr3
  <1>5. /\ u \in Mmus /\ u.pagusr_table = m.pagusr_table /\ u.ram = m.ram
        /\ u.tlb = none
    BY <1>2, <1>4 DEF Mmus
  <1>6. \A p \in Window : none[p] = NONE
    BY <1>1
  <1>7. Shows(u, pages)
    BY <1>5, <1>6, Windows DEF Shows
  <1> QED BY <1>3, <1>5, <1>7

(* A child gets frames that nobody has and a copy of what its parent's     *)
(* contain; a fork that fails loses the slot for good.                     *)
LEMMA ForkStep ==
  ASSUME IInv, NEW child \in Slots, sys_fork(child)
  PROVE  IInv' /\ (NoForkFailed' => Promise!Step)
  <1>1. PICK r : r = ForkLoop[NUM_PAG_DATA]
    OBVIOUS
  <1>2. LoopInv(r, NUM_PAG_DATA)
    BY <1>1, ForkCopies
  <1>3. PICK m : m = r.mmu
    OBVIOUS
  <1>4. PICK n : n = set_cr3(m)
    OBVIOUS
  <1>5. Shows(n, phpages[current]) /\ n.ram = m.ram /\ r \in Copies
    <2>1. Shows(m, phpages[current]) /\ r \in Copies
      BY <1>2, <1>3 DEF LoopInv
    <2> QED BY <1>4, <2>1, FlushShows
  <1>6. /\ child \in free /\ child \notin live
        /\ free' = free \ {child} /\ phys_mem' = r.phys
        /\ phpages' = [phpages EXCEPT ![child] = r.pages]
        /\ mmu' = n /\ current' = current
        /\ \/ ~r.failed /\ live' = live \cup {child}
           \/ r.failed /\ live' = live
    BY <1>1, <1>3, <1>4 DEF sys_fork, IInv, TypeOK
  <1>7. /\ phpages'[child] = r.pages
        /\ \A t \in live : phpages'[t] = phpages[t] /\ t # child
        /\ phpages'[current] = phpages[current]
    BY <1>6, Typed DEF IInv, TypeOK
  <1>8. TypeOK'
    <2>1. mmu' \in Mmus
      BY <1>5, <1>6 DEF Shows
    <2>2. phys_mem' \in Physical /\ phpages' \in [Slots -> [Data -> Frames]]
      BY <1>5, <1>6, Typed DEF Copies
    <2>3. live' \subseteq Slots /\ free' \subseteq Slots \ live' /\ current' \in live'
      BY <1>6 DEF IInv, TypeOK
    <2> QED BY <2>1, <2>2, <2>3 DEF TypeOK, Mmus, Tables, Physical
  <1>9. UserReachesOwnPages'
    <2>1. /\ \A p \in Data : mmu'.pagusr_table[p] = phpages'[current'][p]
          /\ \A p \in Data : mmu'.tlb[p] \in {NONE, phpages'[current'][p]}
          /\ \A p \in Temp : mmu'.pagusr_table[p] = NONE /\ mmu'.tlb[p] = NONE
      BY <1>5, <1>6, <1>7 DEF Shows
    <2>2. \A p \in Temp : Translation(mmu', p) = NONE
      BY <2>1 DEF Translation
    <2> QED BY <2>1, <2>2 DEF UserReachesOwnPages
  <1>10. NoForkFailed' => NoForkFailed /\ ~r.failed
    BY <1>6 DEF NoForkFailed
  <1>11. ASSUME NoForkFailed'
         PROVE  /\ Copied(r, NUM_PAG_DATA) /\ live' = live \cup {child}
                /\ \A i \in Data : i < NUM_PAG_DATA
                /\ \A t \in live, p \in Data : phys_mem[phpages[t][p]] = USED_FRAME
                /\ \A t \in live, p \in Data : phpages[t][p] \in Frames
                /\ \A p \in Data : r.pages[p] \in Frames
    <2>1. NoForkFailed /\ ~r.failed
      BY <1>10, <1>11
    <2>2. Copied(r, NUM_PAG_DATA) /\ live' = live \cup {child}
      BY <1>2, <1>6, <2>1 DEF LoopInv
    <2>3. \A i \in Data : i < NUM_PAG_DATA
      BY Windows DEF Data
    <2>4. \A t \in live, p \in Data : phys_mem[phpages[t][p]] = USED_FRAME
      BY <2>1 DEF IInv, FramesPrivate
    <2>5. /\ \A t \in live, p \in Data : phpages[t][p] \in Frames
          /\ \A p \in Data : r.pages[p] \in Frames
      BY <1>5, Typed DEF Copies
    <2> QED BY <2>2, <2>3, <2>4, <2>5
  <1>12. FramesPrivate'
    <2> SUFFICES ASSUME NoForkFailed'
                 PROVE  /\ \A t, u \in live' : \A p, q \in Data :
                             phpages'[t][p] = phpages'[u][q] => t = u /\ p = q
                        /\ \A t \in live', p \in Data : phys_mem'[phpages'[t][p]] = USED_FRAME
      BY DEF FramesPrivate
    <2>1. \A p, q \in Data : r.pages[p] = r.pages[q] => p = q
      BY <1>11 DEF Copied
    <2>2. \A t \in live, p, q \in Data : r.pages[p] # phpages[t][q]
      BY <1>11 DEF Copied, FREE_FRAME, USED_FRAME
    <2>3. \A t, u \in live : \A p, q \in Data :
            phpages[t][p] = phpages[u][q] => t = u /\ p = q
      BY <1>10 DEF IInv, FramesPrivate
    <2>4. ASSUME NEW t \in live', NEW u \in live', NEW p \in Data, NEW q \in Data,
                 phpages'[t][p] = phpages'[u][q]
          PROVE  t = u /\ p = q
      <3>1. CASE t = child /\ u = child
        BY <1>7, <2>1, <2>4, <3>1
      <3>2. CASE t = child /\ u \in live
        BY <1>7, <2>2, <2>4, <3>2
      <3>3. CASE t \in live /\ u = child
        BY <1>7, <2>2, <2>4, <3>3
      <3>4. CASE t \in live /\ u \in live
        BY <1>7, <2>3, <2>4, <3>4
      <3> QED BY <1>11, <3>1, <3>2, <3>3, <3>4
    <2>5. ASSUME NEW t \in live', NEW p \in Data
          PROVE  phys_mem'[phpages'[t][p]] = USED_FRAME
      <3>1. CASE t = child
        BY <1>6, <1>7, <1>11, <3>1 DEF Copied
      <3>2. CASE t \in live
        <4>1. phys_mem[phpages[t][p]] = USED_FRAME /\ phpages[t][p] \in Frames
          BY <1>11, <3>2
        <4> QED BY <1>6, <1>7, <1>11, <3>2, <4>1 DEF Copied
      <3> QED BY <1>11, <3>1, <3>2
    <2> QED BY <2>4, <2>5
  <1>13. NoFrameLost'
    <2> SUFFICES ASSUME NoForkFailed', NEW f \in Frames, phys_mem'[f] = USED_FRAME
                 PROVE  \E t \in live', p \in Data : phpages'[t][p] = f
      BY DEF NoFrameLost
    <2>1. phys_mem[f] = USED_FRAME \/ \E i \in Data : r.pages[i] = f
      BY <1>6, <1>11 DEF Copied
    <2>2. CASE phys_mem[f] = USED_FRAME
      <3>1. PICK t \in live, p \in Data : phpages[t][p] = f
        BY <1>10, <2>2 DEF IInv, NoFrameLost
      <3> QED BY <1>7, <1>11, <3>1
    <2>3. CASE \E i \in Data : r.pages[i] = f
      BY <1>7, <1>11, <2>3
    <2> QED BY <2>1, <2>2, <2>3
  <1>14. ASSUME NoForkFailed' PROVE Promise!Step
    <2>1. \A p \in Data : mmu'.ram[r.pages[p]] = mmu.ram[phpages[current][p]]
      <3>1. \A i \in Data : phys_mem[phpages[current][i]] = USED_FRAME
        BY <1>11, <1>14 DEF IInv, TypeOK
      <3> QED BY <1>3, <1>5, <1>6, <1>11, <1>14, <3>1 DEF Copied
    <2>2. \A t \in live, p \in Data : mmu'.ram[phpages[t][p]] = mmu.ram[phpages[t][p]]
      BY <1>3, <1>5, <1>6, <1>11, <1>14 DEF Copied
    <2>3. Contents' = [t \in live \cup {child} |->
                         [p \in Data |-> IF t = child THEN mmu.ram[phpages[current][p]]
                                         ELSE mmu.ram[phpages[t][p]]]]
      <3>1. \A t \in live \cup {child}, p \in Data :
              mmu'.ram[phpages'[t][p]] = IF t = child THEN mmu.ram[phpages[current][p]]
                                         ELSE mmu.ram[phpages[t][p]]
        BY <1>7, <2>1, <2>2
      <3> QED BY <1>11, <1>14, <3>1 DEF Contents
    <2>4. DOMAIN Contents = live /\ current \in live
      BY DEF Contents, IInv, TypeOK
    <2>5. Contents' = [t \in live \cup {child} |->
                         IF t = child THEN Contents[current] ELSE Contents[t]]
      <3>1. \A t \in live : Contents[t] = [p \in Data |-> mmu.ram[phpages[t][p]]]
        BY DEF Contents
      <3>2. \A t \in live \cup {child} :
              [p \in Data |-> IF t = child THEN mmu.ram[phpages[current][p]]
                              ELSE mmu.ram[phpages[t][p]]]
                = IF t = child THEN Contents[current] ELSE Contents[t]
        BY <2>4, <3>1
      <3> QED BY <2>3, <3>2
    <2>6. Promise!Fork(child)
      BY <1>6, <2>4, <2>5 DEF Promise!Fork, Promise!Live
    <2>7. child \in DOMAIN Contents'
      BY <2>3
    <2> QED BY <2>6, <2>7 DEF Promise!Step, Promise!Next
  <1> QED BY <1>8, <1>9, <1>12, <1>13, <1>14 DEF IInv

(* exit frees the frames of its task and of no other.                      *)
LEMMA ExitStep ==
  ASSUME IInv, NEW t \in Slots, sys_exit(t)
  PROVE  IInv' /\ (NoForkFailed => Promise!Step)
  <1>1. PICK of \in [Data -> Frames], own \in [Data -> Frames] :
          of = phpages[t] /\ own = phpages[current]
    BY Typed
  <1>2. Shows(mmu, own) /\ mmu \in Mmus
    BY <1>1, Typed, ShowsCurrent DEF IInv
  <1>3. PICK tab : tab = [page \in Window |->
                           IF page \in Temp THEN NONE ELSE mmu.pagusr_table[page]]
    OBVIOUS
  <1>4. tab \in Tables
    BY <1>2, <1>3 DEF Mmus, Tables
  <1>5. PICK o : o = [mmu EXCEPT !.pagusr_table = tab]
    OBVIOUS
  <1>6. o \in Mmus /\ o.ram = mmu.ram /\ o.pagusr_table = tab
    BY <1>2, <1>4, <1>5 DEF Mmus
  <1>7. PICK none : none = [page \in Window |-> NONE]
    OBVIOUS
  <1>8. PICK c : c = set_cr3(o)
    OBVIOUS
  <1>9. c = [o EXCEPT !.tlb = none] /\ none \in Tables
    BY <1>7, <1>8 DEF set_cr3, Tables
  <1>10. c \in Mmus /\ c.ram = mmu.ram /\ c.pagusr_table = tab
    BY <1>6, <1>9 DEF Mmus
  <1>11. \A p \in Temp : c.pagusr_table[p] = NONE
    BY <1>3, <1>10, Windows
  <1>12. PICK m : m = Remap(c, of)
    OBVIOUS
  <1>13. Shows(m, of) /\ m.ram = mmu.ram
    BY <1>10, <1>11, <1>12, RemapShows
  <1>14. /\ t \in live \ {current}
         /\ phys_mem' = Freed(phys_mem, own, NUM_PAG_DATA)
         /\ live' = live \ {current} /\ free' = free \cup {current}
         /\ current' = t /\ mmu' = m /\ phpages' = phpages
    BY <1>1, <1>3, <1>5, <1>8, <1>12 DEF sys_exit
  <1>15. TypeOK'
    <2>1. mmu' \in Mmus
      BY <1>13, <1>14 DEF Shows
    <2>2. phys_mem' \in Physical
      BY <1>14, Typed, FreedFrames
    <2> QED BY <1>14, <2>1, <2>2 DEF IInv, TypeOK, Mmus, Tables, Physical
  <1>16. UserReachesOwnPages'
    <2>1. /\ \A p \in Data : mmu'.pagusr_table[p] = phpages'[current'][p]
          /\ \A p \in Data : mmu'.tlb[p] \in {NONE, phpages'[current'][p]}
          /\ \A p \in Temp : mmu'.pagusr_table[p] = NONE /\ mmu'.tlb[p] = NONE
      BY <1>1, <1>13, <1>14 DEF Shows
    <2>2. \A p \in Temp : Translation(mmu', p) = NONE
      BY <2>1 DEF Translation
    <2> QED BY <2>1, <2>2 DEF UserReachesOwnPages
  <1>17. NoForkFailed' => NoForkFailed
    BY <1>14 DEF NoForkFailed, IInv, TypeOK
  <1>18. \A f \in Frames : phys_mem'[f] = IF \E p \in Data : own[p] = f THEN FREE_FRAME
                                          ELSE phys_mem[f]
    BY <1>14 DEF Freed, Data
  <1>19. FramesPrivate'
    <2> SUFFICES ASSUME NoForkFailed'
                 PROVE  /\ \A x, u \in live' : \A p, q \in Data :
                             phpages'[x][p] = phpages'[u][q] => x = u /\ p = q
                        /\ \A x \in live', p \in Data : phys_mem'[phpages'[x][p]] = USED_FRAME
      BY DEF FramesPrivate
    <2>1. /\ \A x, u \in live : \A p, q \in Data :
               phpages[x][p] = phpages[u][q] => x = u /\ p = q
          /\ \A x \in live, p \in Data : phys_mem[phpages[x][p]] = USED_FRAME
      BY <1>17 DEF IInv, FramesPrivate
    <2>2. ASSUME NEW x \in live', NEW p \in Data
          PROVE  phys_mem'[phpages'[x][p]] = USED_FRAME
      <3>1. x \in live /\ x # current /\ current \in live /\ phpages[x][p] \in Frames
        BY <1>14, Typed DEF IInv, TypeOK
      <3>2. \A q \in Data : own[q] # phpages[x][p]
        BY <1>1, <2>1, <3>1
      <3> QED BY <1>14, <1>18, <2>1, <3>1, <3>2
    <2> QED BY <1>14, <2>1, <2>2
  <1>20. NoFrameLost'
    <2> SUFFICES ASSUME NoForkFailed', NEW f \in Frames, phys_mem'[f] = USED_FRAME
                 PROVE  \E x \in live', p \in Data : phpages'[x][p] = f
      BY DEF NoFrameLost
    <2>1. phys_mem[f] = USED_FRAME /\ \A p \in Data : own[p] # f
      BY <1>18 DEF FREE_FRAME, USED_FRAME
    <2>2. PICK x \in live, p \in Data : phpages[x][p] = f
      BY <1>17, <2>1 DEF IInv, NoFrameLost
    <2> QED BY <1>1, <1>14, <2>1, <2>2
  <1>21. Promise!Step
    <2>1. Contents' = [x \in live \ {current} |-> [p \in Data |-> mmu.ram[phpages[x][p]]]]
      BY <1>13, <1>14 DEF Contents
    <2>2. DOMAIN Contents = live
      BY DEF Contents
    <2>3. Contents' = [x \in live \ {current} |-> Contents[x]]
      BY <2>1 DEF Contents
    <2>4. Promise!Exit
      BY <1>14, <2>2, <2>3 DEF Promise!Exit, Promise!Live
    <2> QED BY <2>4 DEF Promise!Step, Promise!Next
  <1> QED BY <1>15, <1>16, <1>19, <1>20, <1>21 DEF IInv
----------------------------------------------------------------------------
(* Every step keeps the invariant and is one of AddressSpaces.             *)
LEMMA NextStep ==
  ASSUME IInv, Next
  PROVE  IInv' /\ (NoForkFailed' => Promise!Step)
  <1>1. ASSUME UNCHANGED Promise!vars PROVE Promise!Step
    BY <1>1 DEF Promise!Step
  <1>2. ASSUME UNCHANGED <<live, free>> PROVE NoForkFailed' = NoForkFailed
    BY <1>2 DEF NoForkFailed
  <1>3. ASSUME NEW page \in Window, Load(page)
        PROVE  IInv' /\ Promise!Step
    BY <1>1, <1>3, LoadStep
  <1>4. ASSUME NEW page \in Window, Evict(page)
        PROVE  IInv' /\ Promise!Step
    BY <1>1, <1>4, EvictStep
  <1>5. ASSUME NEW page \in Window, NEW v \in Values, Store(page, v)
        PROVE  IInv' /\ (NoForkFailed' => Promise!Step)
    <2>1. UNCHANGED <<live, free>>
      BY <1>5 DEF Store
    <2> QED BY <1>2, <1>5, <2>1, StoreStep
  <1>6. ASSUME NEW t \in Slots, task_switch(t)
        PROVE  IInv' /\ Promise!Step
    BY <1>6, SwitchStep
  <1>7. ASSUME NEW t \in Slots, sys_fork(t)
        PROVE  IInv' /\ (NoForkFailed' => Promise!Step)
    BY <1>7, ForkStep
  <1>8. ASSUME NEW t \in Slots, sys_exit(t)
        PROVE  IInv' /\ (NoForkFailed' => Promise!Step)
    <2>1. NoForkFailed' => NoForkFailed
      BY <1>8 DEF sys_exit, NoForkFailed, IInv, TypeOK
    <2> QED BY <1>8, <2>1, ExitStep
  <1>9. ASSUME NEW t \in Slots, NEW pages \in SUBSET Data, NEW v \in Values,
               keyboard_routine(t, pages, v)
        PROVE  IInv' /\ (NoForkFailed' => Promise!Step)
    <2>1. UNCHANGED <<live, free>>
      BY <1>9 DEF keyboard_routine
    <2> QED BY <1>2, <1>9, <2>1, KeyboardStep
  <1> QED BY <1>3, <1>4, <1>5, <1>6, <1>7, <1>8, <1>9 DEF Next

(* A step that changes nothing keeps the invariant.                                  *)
LEMMA Stutter ==
  ASSUME IInv, UNCHANGED vars
  PROVE  IInv'
  BY DEF vars, IInv, TypeOK, UserReachesOwnPages, Translation, FramesPrivate, NoFrameLost,
         NoForkFailed

(* The invariant holds at first, and the state is one of AddressSpaces.    *)
LEMMA InitStep ==
  ASSUME Init
  PROVE  IInv /\ Promise!Init
  <1>1. /\ Data \subseteq Frames /\ 0 \in Frames /\ 0 \in Slots
    BY MemoryAssumption DEF Data, Frames, Slots
  <1>2. PICK v \in Values :
          mmu = [pagusr_table |-> [page \in Window |->
                                     IF page \in Data THEN page ELSE NONE],
                 tlb |-> [page \in Window |-> NONE],
                 ram |-> [f \in Frames |-> v]]
    BY DEF Init
  <1>3. /\ mmu.pagusr_table = [page \in Window |-> IF page \in Data THEN page ELSE NONE]
        /\ mmu.tlb = [page \in Window |-> NONE] /\ mmu.ram = [f \in Frames |-> v]
    BY <1>2
  <1>4. mmu \in Mmus
    BY <1>1, <1>2 DEF Mmus, Tables
  <1>5. /\ phpages = [t \in Slots |-> [page \in Data |-> IF t = 0 THEN page ELSE 0]]
        /\ phys_mem = [f \in Frames |-> IF f \in Data THEN USED_FRAME ELSE FREE_FRAME]
        /\ live = {0} /\ free = Slots \ {0} /\ current = 0
    BY DEF Init
  <1>6. phpages \in [Slots -> [Data -> Frames]] /\ \A p \in Data : phpages[0][p] = p
    BY <1>1, <1>5
  <1>7. TypeOK
    BY <1>1, <1>4, <1>5, <1>6 DEF TypeOK, Mmus, Tables
  <1>8. Shows(mmu, phpages[current])
    BY <1>3, <1>4, <1>5, <1>6, Windows DEF Shows
  <1>9. UserReachesOwnPages
    BY <1>7, <1>8, ShowsCurrent
  <1>10. FramesPrivate
    BY <1>1, <1>5, <1>6 DEF FramesPrivate
  <1>11. NoFrameLost
    BY <1>5, <1>6 DEF NoFrameLost, FREE_FRAME, USED_FRAME
  <1>12. Contents \in [{0} -> [Data -> Values]]
    BY <1>1, <1>3, <1>5, <1>6 DEF Contents
  <1> QED BY <1>5, <1>7, <1>9, <1>10, <1>11, <1>12 DEF IInv, Promise!Init

(* The inductive invariant holds in every state.                           *)
LEMMA Invariance == Spec => []IInv
  <1>1. Init => IInv
    BY InitStep
  <1>2. IInv /\ [Next]_vars => IInv'
    BY NextStep, Stutter
  <1> QED BY <1>1, <1>2, PTL DEF Spec

(* Page table, TLB and task structures name frames that exist.             *)
THEOREM TypeCorrect == Spec => []TypeOK
  <1>1. IInv => TypeOK
    BY DEF IInv
  <1> QED BY <1>1, Invariance, PTL

(* The user reaches its own data pages and nothing else, whatever handlers *)
(* came before and whatever the TLB remembers.                             *)
THEOREM OwnPages == Spec => []UserReachesOwnPages
  <1>1. IInv => UserReachesOwnPages
    BY DEF IInv
  <1> QED BY <1>1, Invariance, PTL

(* No frame holds two data pages, and none in use can be given away.       *)
THEOREM PrivateFrames == Spec => []FramesPrivate
  <1>1. IInv => FramesPrivate
    BY DEF IInv
  <1> QED BY <1>1, Invariance, PTL

(* exit gives back all that fork has taken.                                *)
THEOREM FramesReturn == Spec => []NoFrameLost
  <1>1. IInv => NoFrameLost
    BY DEF IInv
  <1> QED BY <1>1, Invariance, PTL

(* Frames, page table and TLB keep the promise of AddressSpaces, step by   *)
(* step, as long as no fork fails.                                         *)
THEOREM Refinement == Spec => ImplementsAddressSpaces
  <1>1. Init => Promise!Init
    BY InitStep
  <1>2. IInv /\ [Next]_vars => [NoForkFailed' => Promise!Step]_vars
    BY NextStep
  <1> QED BY <1>1, <1>2, Invariance, PTL DEF Spec, ImplementsAddressSpaces
=============================================================================
