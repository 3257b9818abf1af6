--------------------------- MODULE ContextsProofs ---------------------------
(* Theorems about Contexts, for every number of tasks.                     *)
EXTENDS Contexts, SequenceTheorems, TLAPS

(* The parts of a frame, and two of them one after the other.              *)
LEMMA Parts ==
  /\ By_processor \in Seq(Registers) /\ Len(By_processor) = 5
  /\ SAVE_ALL \in Seq(Registers) /\ Len(SAVE_ALL) = 11
  /\ RESTORE_ALL \in Seq(Registers) /\ Len(RESTORE_ALL) = 11
  /\ iret \in Seq(Registers) /\ Len(iret) = 5
  <1>1. By_processor \in Seq(Registers) /\ Len(By_processor) = 5
    BY DEF By_processor, Registers
  <1>2. SAVE_ALL \in Seq(Registers) /\ Len(SAVE_ALL) = 11
    BY DEF SAVE_ALL, Registers
  <1>3. RESTORE_ALL \in Seq(Registers) /\ Len(RESTORE_ALL) = 11
    BY DEF RESTORE_ALL, Registers
  <1>4. iret \in Seq(Registers) /\ Len(iret) = 5
    BY DEF iret, Registers
  <1> QED BY <1>1, <1>2, <1>3, <1>4

LEMMA Concatenated ==
  ASSUME NEW a \in Seq(Registers), NEW b \in Seq(Registers)
  PROVE  /\ Len(a \o b) = Len(a) + Len(b)
         /\ \A i \in 1 .. Len(a) : (a \o b)[i] = a[i]
         /\ \A i \in 1 .. Len(b) : (a \o b)[Len(a) + i] = b[i]
  <1>1. Len(a) \in Nat /\ Len(b) \in Nat
    OBVIOUS
  <1>2. /\ Len(a \o b) = Len(a) + Len(b)
        /\ \A i \in 1 .. Len(a) + Len(b) :
             (a \o b)[i] = IF i <= Len(a) THEN a[i] ELSE b[i - Len(a)]
    BY ConcatProperties
  <1> DEFINE c == a \o b
  <1> HIDE DEF c
  <1>3. \A i \in 1 .. Len(a) + Len(b) :
             c[i] = IF i <= Len(a) THEN a[i] ELSE b[i - Len(a)]
    BY <1>2 DEF c
  <1>4. \A i \in 1 .. Len(a) : c[i] = a[i]
    BY <1>1, <1>3
  <1>5. \A i \in 1 .. Len(b) : c[Len(a) + i] = b[i]
    BY <1>1, <1>3
  <1> QED BY <1>2, <1>4, <1>5 DEF c

(* What is pushed and what is popped, word by word.                        *)
LEMMA PushedWords ==
  /\ pushed[1] = "ss" /\ pushed[2] = "esp" /\ pushed[3] = "eflags"
  /\ pushed[4] = "cs" /\ pushed[5] = "eip" /\ pushed[6] = "gs"
  /\ pushed[7] = "fs" /\ pushed[8] = "es" /\ pushed[9] = "ds"
  /\ pushed[10] = "eax" /\ pushed[11] = "ebp" /\ pushed[12] = "edi"
  /\ pushed[13] = "esi" /\ pushed[14] = "edx" /\ pushed[15] = "ecx"
  /\ pushed[16] = "ebx"
  <1>1. /\ \A i \in 1..5 : pushed[i] = By_processor[i]
        /\ \A i \in 1..11 : pushed[5 + i] = SAVE_ALL[i]
    <2> By_processor \in Seq(Registers) /\ SAVE_ALL \in Seq(Registers)
      BY Parts
    <2>1. /\ \A i \in 1 .. Len(By_processor) : pushed[i] = By_processor[i]
          /\ \A i \in 1 .. Len(SAVE_ALL) :
               pushed[Len(By_processor) + i] = SAVE_ALL[i]
      BY Concatenated DEF pushed
    <2> QED BY <2>1, Parts
  <1>2. /\ pushed[1] = By_processor[1] /\ pushed[2] = By_processor[2]
        /\ pushed[3] = By_processor[3] /\ pushed[4] = By_processor[4]
        /\ pushed[5] = By_processor[5]
    BY <1>1
  <1>3. /\ pushed[6] = SAVE_ALL[1] /\ pushed[7] = SAVE_ALL[2]
        /\ pushed[8] = SAVE_ALL[3] /\ pushed[9] = SAVE_ALL[4]
        /\ pushed[10] = SAVE_ALL[5] /\ pushed[11] = SAVE_ALL[6]
        /\ pushed[12] = SAVE_ALL[7] /\ pushed[13] = SAVE_ALL[8]
        /\ pushed[14] = SAVE_ALL[9] /\ pushed[15] = SAVE_ALL[10]
        /\ pushed[16] = SAVE_ALL[11]
    <2>1. /\ pushed[5+1] = SAVE_ALL[1] /\ pushed[5+2] = SAVE_ALL[2]
          /\ pushed[5+3] = SAVE_ALL[3] /\ pushed[5+4] = SAVE_ALL[4]
          /\ pushed[5+5] = SAVE_ALL[5] /\ pushed[5+6] = SAVE_ALL[6]
          /\ pushed[5+7] = SAVE_ALL[7] /\ pushed[5+8] = SAVE_ALL[8]
          /\ pushed[5+9] = SAVE_ALL[9] /\ pushed[5+10] = SAVE_ALL[10]
          /\ pushed[5+11] = SAVE_ALL[11]
      BY <1>1
    <2> QED BY <2>1
  <1>4. pushed[1] = "ss" /\ pushed[2] = "esp" /\ pushed[3] = "eflags"
         /\ pushed[4] = "cs" /\ pushed[5] = "eip"
    BY <1>2 DEF By_processor
  <1> QED BY <1>3, <1>4 DEF SAVE_ALL

LEMMA PoppedWords ==
  \A r \in Registers : \E i \in 1..RESTORE_SIZE :
    /\ (RESTORE_ALL \o iret)[i] = r
    /\ pushed[RESTORE_SIZE + 1 - i] = r
    /\ \A j \in 1..RESTORE_SIZE : (RESTORE_ALL \o iret)[j] = r => j = i
  <1> DEFINE p == RESTORE_ALL \o iret
  <1>1. /\ \A i \in 1..11 : p[i] = RESTORE_ALL[i]
        /\ \A i \in 1..5 : p[11 + i] = iret[i]
    <2> RESTORE_ALL \in Seq(Registers) /\ iret \in Seq(Registers)
      BY Parts
    <2>1. /\ \A i \in 1 .. Len(RESTORE_ALL) : p[i] = RESTORE_ALL[i]
          /\ \A i \in 1 .. Len(iret) : p[Len(RESTORE_ALL) + i] = iret[i]
      BY Concatenated
    <2> HIDE DEF p
    <2> QED BY <2>1, Parts
  <1> HIDE DEF p
  <1>2. /\ p[11+1] = "eip" /\ p[11+2] = "cs" /\ p[11+3] = "eflags"
        /\ p[11+4] = "esp" /\ p[11+5] = "ss"
    BY <1>1 DEF iret
  <1>3. /\ p[1] = "ebx" /\ p[2] = "ecx" /\ p[3] = "edx" /\ p[4] = "esi"
        /\ p[5] = "edi" /\ p[6] = "ebp" /\ p[7] = "eax" /\ p[8] = "ds"
        /\ p[9] = "es" /\ p[10] = "fs" /\ p[11] = "gs"
    BY <1>1 DEF RESTORE_ALL
  <1>4. /\ p[12] = "eip" /\ p[13] = "cs" /\ p[14] = "eflags"
        /\ p[15] = "esp" /\ p[16] = "ss"
    BY <1>2
  <1>5. 1..RESTORE_SIZE = {1, 2, 3, 4, 5, 6, 7, 8, 9, 10, 11, 12, 13, 14, 15, 16}
    BY DEF RESTORE_SIZE
  <1>6. ASSUME NEW r \in Registers
        PROVE  \E i \in 1..RESTORE_SIZE :
                 /\ p[i] = r
                 /\ pushed[RESTORE_SIZE + 1 - i] = r
                 /\ \A j \in 1..RESTORE_SIZE : p[j] = r => j = i
    BY <1>3, <1>4, <1>5, PushedWords DEF Registers, RESTORE_SIZE
  <1> QED BY <1>6 DEF p

(* Where each register is in a frame: RESTORE_ALL and task_switch agree,   *)
(* and so do the two ways of counting to the word of EAX.                  *)
LEMMA Words ==
  /\ by_RESTORE_ALL = by_task_switch
  /\ by_task_switch \in [Registers -> 1..RESTORE_SIZE]
  /\ \A r \in Registers : pushed[by_task_switch[r]] = r
  /\ \A r, q \in Registers : by_task_switch[r] = by_task_switch[q] => r = q
  /\ by_task_switch["eax"] = EAX_POS
  /\ by_task_switch["ebx"] = RESTORE_SIZE
  /\ RESTORE_SIZE - 24 \div 4 = EAX_POS
  <1> DEFINE p == RESTORE_ALL \o iret
             at(r) == CHOOSE i \in 1..RESTORE_SIZE : p[i] = r
  <1>1. ASSUME NEW r \in Registers
        PROVE  /\ at(r) \in 1..RESTORE_SIZE
               /\ pushed[RESTORE_SIZE + 1 - at(r)] = r
    <2>1. PICK i \in 1..RESTORE_SIZE :
            /\ p[i] = r
            /\ pushed[RESTORE_SIZE + 1 - i] = r
            /\ \A j \in 1..RESTORE_SIZE : p[j] = r => j = i
      BY <1>1, PoppedWords
    <2>2. at(r) \in 1..RESTORE_SIZE /\ p[at(r)] = r
      BY <2>1
    <2>3. at(r) = i
      BY <2>1, <2>2
    <2> QED BY <2>1, <2>3
  <1>2. by_task_switch = [r \in Registers |-> RESTORE_SIZE + 1 - at(r)]
    BY DEF by_task_switch, task_switch_pops, WordsOf
  <1>3. by_RESTORE_ALL = by_task_switch
    BY DEF by_RESTORE_ALL, by_task_switch, task_switch_pops
  <1> HIDE DEF at
  <1>4. by_task_switch \in [Registers -> 1..RESTORE_SIZE]
    BY <1>1, <1>2 DEF RESTORE_SIZE
  <1>5. \A r \in Registers : pushed[by_task_switch[r]] = r
    BY <1>1, <1>2
  <1>6. \A r, q \in Registers : by_task_switch[r] = by_task_switch[q] => r = q
    BY <1>5, Zenon
  <1>7. "eax" \in Registers /\ "ebx" \in Registers
    BY DEF Registers
  <1>8. \A i \in 1..RESTORE_SIZE :
          /\ pushed[i] = "eax" => i = EAX_POS
          /\ pushed[i] = "ebx" => i = RESTORE_SIZE
    <2>1. 1..RESTORE_SIZE = {1, 2, 3, 4, 5, 6, 7, 8, 9, 10, 11, 12, 13, 14, 15, 16}
      BY DEF RESTORE_SIZE
    <2> QED BY <2>1, PushedWords DEF RESTORE_SIZE, EAX_POS
  <1>9. by_task_switch["eax"] = EAX_POS /\ by_task_switch["ebx"] = RESTORE_SIZE
    BY <1>4, <1>5, <1>7, <1>8
  <1>10. RESTORE_SIZE - 24 \div 4 = EAX_POS
    BY DEF RESTORE_SIZE, EAX_POS
  <1> QED BY <1>3, <1>4, <1>5, <1>6, <1>9, <1>10

Frames == [1..RESTORE_SIZE -> Int]
Contents == [Registers -> Int]
Pop(frame) == popped(frame, by_task_switch)

(* A process gets back what the entry saved.                               *)
LEMMA SavedThenPopped ==
  ASSUME NEW c \in Contents
  PROVE  saved(c) \in Frames /\ Pop(saved(c)) = c
  <1>1. \A i \in 1..RESTORE_SIZE : pushed[i] \in Registers
    <2>1. 1..RESTORE_SIZE = {1, 2, 3, 4, 5, 6, 7, 8, 9, 10, 11, 12, 13, 14, 15, 16}
      BY DEF RESTORE_SIZE
    <2> QED BY <2>1, PushedWords DEF Registers
  <1>2. saved(c) \in Frames
    BY <1>1 DEF saved, Frames, Contents
  <1>3. \A r \in Registers : Pop(saved(c))[r] = c[r]
    BY Words DEF Pop, popped, saved
  <1>4. Pop(saved(c)) = [r \in Registers |-> c[r]]
    BY <1>3 DEF Pop, popped
  <1> QED BY <1>2, <1>4 DEF Contents

(* What is popped from a frame, and from one with another word for EAX or  *)
(* EBX.                                                                    *)
LEMMA PoppedFrame ==
  ASSUME NEW f \in Frames, NEW v \in Int
  PROVE  /\ Pop(f) \in Contents
         /\ [f EXCEPT ![EAX_POS] = v] \in Frames
         /\ [f EXCEPT ![RESTORE_SIZE] = v] \in Frames
         /\ Pop([f EXCEPT ![EAX_POS] = v]) = [Pop(f) EXCEPT !["eax"] = v]
         /\ Pop([f EXCEPT ![RESTORE_SIZE] = v]) = [Pop(f) EXCEPT !["ebx"] = v]
  <1> DEFINE w == by_task_switch
  <1>1. /\ w \in [Registers -> 1..RESTORE_SIZE]
        /\ \A r, q \in Registers : w[r] = w[q] => r = q
        /\ w["eax"] = EAX_POS
        /\ w["ebx"] = RESTORE_SIZE
    BY Words
  <1>2. "eax" \in Registers /\ "ebx" \in Registers
    BY DEF Registers
  <1>3. Pop(f) = [r \in Registers |-> f[w[r]]]
    BY DEF Pop, popped
  <1>4. /\ Pop([f EXCEPT ![EAX_POS] = v])
             = [r \in Registers |-> [f EXCEPT ![EAX_POS] = v][w[r]]]
        /\ Pop([f EXCEPT ![RESTORE_SIZE] = v])
             = [r \in Registers |-> [f EXCEPT ![RESTORE_SIZE] = v][w[r]]]
    BY DEF Pop, popped
  <1> HIDE DEF w
  <1>5. Pop(f) \in Contents
    BY <1>1, <1>3 DEF Frames, Contents
  <1>6. /\ [f EXCEPT ![EAX_POS] = v] \in Frames
        /\ [f EXCEPT ![RESTORE_SIZE] = v] \in Frames
    BY DEF Frames
  <1>7. Pop([f EXCEPT ![EAX_POS] = v]) = [Pop(f) EXCEPT !["eax"] = v]
    BY <1>1, <1>2, <1>3, <1>4 DEF Frames
  <1>8. Pop([f EXCEPT ![RESTORE_SIZE] = v]) = [Pop(f) EXCEPT !["ebx"] = v]
    BY <1>1, <1>2, <1>3, <1>4 DEF Frames
  <1> QED BY <1>5, <1>6, <1>7, <1>8
----------------------------------------------------------------------------
(* The inductive invariant.                                                *)

(* Registers that a process may have.                                      *)
Sound(c) == /\ c \in Contents
            /\ \A r \in Untouched : c[r] = Start[r]
            /\ c["eip"] \in Places

Alive == ready \cup blocked

(* Whoever is on a queue has sound registers, in the processor or on its   *)
(* stack.                                                                  *)
IInv ==
  /\ stack \in [Slots -> Frames]
  /\ errno \in [Slots -> Nat]
  /\ ready \subseteq Slots
  /\ blocked \subseteq Slots \ ready
  /\ halted \in BOOLEAN
  /\ EntersOwnStack
  /\ \A t \in Alive : Sound(Saved(t))

LEMMA RegisterNames ==
  /\ {"eax", "ebx", "eip"} \subseteq Registers
  /\ Untouched \subseteq Registers
  /\ "eax" \notin Untouched /\ "ebx" \notin Untouched /\ "eip" \notin Untouched
  BY DEF Registers, Untouched

LEMMA SoundStart == Sound(Start)
  <1>1. Start \in Contents
    BY Words DEF Start, Contents, RESTORE_SIZE, OWN
  <1>2. Start["eip"] = OWN
    BY RegisterNames DEF Start
  <1> QED BY <1>1, <1>2 DEF Sound, Places

(* What may change in the registers.                                       *)
LEMMA SoundChanged ==
  ASSUME NEW c, Sound(c), NEW v \in Int, NEW place \in Places
  PROVE  /\ Sound([c EXCEPT !["eax"] = v])
         /\ Sound([c EXCEPT !["ebx"] = v])
         /\ Sound([c EXCEPT !["eip"] = place])
  <1>1. place \in Int
    BY DEF Places, OWN, INT, TEST
  <1> QED BY <1>1, RegisterNames DEF Sound, Contents

(* The processor holds the registers of the process that runs.             *)
LEMMA Running ==
  ASSUME IInv
  PROVE  /\ pages \in Slots /\ pages \in Alive /\ esp0 = pages /\ current = pages
         /\ Saved(pages) = cpu /\ Sound(cpu)
  BY DEF IInv, EntersOwnStack, Alive, Saved, current

(* Frames st after an entry: the words of the running process give c, and  *)
(* those of the others what they gave before.                              *)
Holds(st, c) ==
  /\ st \in [Slots -> Frames]
  /\ Pop(st[pages]) = c
  /\ \A t \in Alive \ {pages} : Pop(st[t]) = Saved(t)

LEMMA Enters ==
  ASSUME IInv
  PROVE  /\ Holds(Entered, cpu)
         /\ Holds(entered, [cpu EXCEPT !["eip"] = TEST])
         /\ Sound([cpu EXCEPT !["eip"] = TEST])
  <1>1. ASSUME NEW c \in Contents
        PROVE  Holds([stack EXCEPT ![esp0] = saved(c)], c)
    <2>1. saved(c) \in Frames /\ Pop(saved(c)) = c
      BY SavedThenPopped
    <2>2. stack \in [Slots -> Frames] /\ esp0 = pages /\ pages \in Slots
      BY Running DEF IInv
    <2>3. \A t \in Alive \ {pages} : Pop(stack[t]) = Saved(t)
      BY DEF Saved, Pop, Alive
    <2>4. Alive \subseteq Slots
      BY DEF Alive, IInv
    <2> QED BY <2>1, <2>2, <2>3, <2>4 DEF Holds
  <1>2. Sound([cpu EXCEPT !["eip"] = TEST])
    <2>1. TEST \in Places /\ 0 \in Int
      BY DEF Places
    <2> QED BY <2>1, Running, SoundChanged
  <1>3. cpu \in Contents /\ [cpu EXCEPT !["eip"] = TEST] \in Contents
    BY <1>2, Running DEF Sound
  <1> QED BY <1>1, <1>2, <1>3 DEF Entered, entered

(* The result of a call that returns, and the argument that unlink spoils. *)
LEMMA Answered ==
  ASSUME IInv, NEW st, NEW c, Holds(st, c), NEW v \in Int
  PROVE  /\ Holds(Answer(st, current, v), [c EXCEPT !["eax"] = v])
         /\ Holds([st EXCEPT ![current][RESTORE_SIZE] = v], [c EXCEPT !["ebx"] = v])
  <1>1. st \in [Slots -> Frames] /\ pages \in Slots /\ current = pages
    BY Running DEF Holds
  <1>2. /\ [st[pages] EXCEPT ![EAX_POS] = v] \in Frames
        /\ [st[pages] EXCEPT ![RESTORE_SIZE] = v] \in Frames
        /\ Pop([st[pages] EXCEPT ![EAX_POS] = v]) = [c EXCEPT !["eax"] = v]
        /\ Pop([st[pages] EXCEPT ![RESTORE_SIZE] = v]) = [c EXCEPT !["ebx"] = v]
    BY <1>1, PoppedFrame DEF Holds
  <1>3. Answer(st, current, v) = [st EXCEPT ![pages] = [st[pages] EXCEPT ![EAX_POS] = v]]
    BY <1>1, Words DEF Answer
  <1>4. [st EXCEPT ![current][RESTORE_SIZE] = v]
          = [st EXCEPT ![pages] = [st[pages] EXCEPT ![RESTORE_SIZE] = v]]
    BY <1>1
  <1>5. Alive \subseteq Slots
    BY DEF Alive, IInv
  <1>6. Holds(Answer(st, current, v), [c EXCEPT !["eax"] = v])
    BY <1>1, <1>2, <1>3, <1>5 DEF Holds
  <1>7. Holds([st EXCEPT ![current][RESTORE_SIZE] = v], [c EXCEPT !["ebx"] = v])
    BY <1>1, <1>2, <1>4, <1>5 DEF Holds
  <1> QED BY <1>6, <1>7

(* The results of those that are woken.                                    *)
LEMMA StoredFrames ==
  ASSUME NEW st \in [Slots -> Frames], NEW ws, NEW v \in Int
  PROVE  /\ Stored(st, ws, v) \in [Slots -> Frames]
         /\ \A t \in Slots :
              Pop(Stored(st, ws, v)[t]) = IF t \in ws THEN [Pop(st[t]) EXCEPT !["eax"] = v]
                                          ELSE Pop(st[t])
  <1>1. \A t \in Slots : /\ [st[t] EXCEPT ![EAX_POS] = v] \in Frames
                         /\ Pop([st[t] EXCEPT ![EAX_POS] = v])
                              = [Pop(st[t]) EXCEPT !["eax"] = v]
    BY PoppedFrame
  <1>2. Stored(st, ws, v) = [t \in Slots |-> IF t \in ws THEN [st[t] EXCEPT ![EAX_POS] = v]
                                             ELSE st[t]]
    BY DEF Stored
  <1> QED BY <1>1, <1>2
----------------------------------------------------------------------------
(* How handlers leave the kernel.                                          *)

(* By RESTORE_ALL or by task_switch: whoever is alive then has the         *)
(* registers that the stacks st gave back.                                 *)
LEMMA Leaves ==
  ASSUME IInv, NEW st \in [Slots -> Frames],
         ready' \subseteq Slots, blocked' \subseteq Slots,
         \/ Return(st) /\ pages \in ready'
         \/ \E t \in ready' : task_switch(st, t)
  PROVE  /\ stack' \in [Slots -> Frames]
         /\ EntersOwnStack'
         /\ \A t \in Alive' : Saved(t)' = Pop(st[t])
         /\ \A t \in Slots \ Alive' : Saved(t)' = Start
  <1>1. PICK n \in ready' :
          /\ esp0' = n /\ pages' = n
          /\ cpu' = Pop(st[n])
          /\ stack' = [st EXCEPT ![n] = Empty]
    BY Running, Words DEF Return, task_switch, Pop
  <1>2. Empty \in Frames
    BY DEF Empty, Frames
  <1>3. stack' \in [Slots -> Frames]
    BY <1>1, <1>2
  <1>4. EntersOwnStack'
    BY <1>1 DEF EntersOwnStack
  <1>5. n \in Alive' /\ Alive' \subseteq Slots
    BY <1>1 DEF Alive
  <1>6. ASSUME NEW t \in Alive' PROVE Saved(t)' = Pop(st[t])
    <2>1. CASE t = n
      BY <2>1, <1>1 DEF Saved
    <2>2. CASE t # n
      BY <2>2, <1>1, <1>5, <1>6 DEF Saved, Pop, Alive
    <2> QED BY <2>1, <2>2
  <1>7. ASSUME NEW t \in Slots \ Alive' PROVE Saved(t)' = Start
    BY <1>1, <1>5, <1>7 DEF Saved, Alive
  <1> QED BY <1>3, <1>4, <1>6, <1>7

(* After an entry that left st, and a step that woke ws with v.            *)
LEMMA LeavesWoken ==
  ASSUME IInv, NEW st, NEW c, Holds(st, c), Sound(c),
         NEW ws \in SUBSET blocked, NEW v \in Int,
         ready' = ready \cup ws, blocked' = blocked \ ws,
         errno' \in [Slots -> Nat], halted' \in BOOLEAN,
         \/ Return(Stored(st, ws, v))
         \/ \E t \in ready' : task_switch(Stored(st, ws, v), t)
  PROVE  /\ IInv'
         /\ \A t \in Slots : Saved(t)' = IF t = pages THEN c
                                         ELSE IF t \in ws THEN [Saved(t) EXCEPT !["eax"] = v]
                                         ELSE Saved(t)
  <1> DEFINE to == Stored(st, ws, v)
  <1>1. /\ pages \in ready /\ pages \notin blocked /\ pages \in Slots
        /\ ready \subseteq Slots /\ blocked \subseteq Slots \ ready
    BY DEF IInv, EntersOwnStack
  <1>2. /\ to \in [Slots -> Frames]
        /\ \A t \in Slots : Pop(to[t]) = IF t \in ws THEN [Pop(st[t]) EXCEPT !["eax"] = v]
                                         ELSE Pop(st[t])
    BY StoredFrames DEF Holds
  <1>3. Alive' = Alive /\ ready' \subseteq Slots /\ blocked' \subseteq Slots \ ready'
        /\ pages \in ready'
    BY <1>1 DEF Alive
  <1>4. /\ stack' \in [Slots -> Frames]
        /\ EntersOwnStack'
        /\ \A t \in Alive' : Saved(t)' = Pop(to[t])
        /\ \A t \in Slots \ Alive' : Saved(t)' = Start
    <2> HIDE DEF to
    <2> Return(to) \/ \E t \in ready' : task_switch(to, t)
      BY DEF to
    <2> QED BY <1>2, <1>3, Leaves
  <1> HIDE DEF to
  <1>5. \A t \in Slots \ Alive : t # pages /\ Saved(t) = Start /\ t \notin ws
    BY <1>1 DEF Alive, Saved
  <1>6. \A t \in Alive : Pop(st[t]) = IF t = pages THEN c ELSE Saved(t)
    BY DEF Holds
  <1>7. pages \notin ws /\ ws \subseteq Alive /\ Alive \subseteq Slots
    BY <1>1 DEF Alive
  <1>8. ASSUME NEW t \in Slots
        PROVE  Saved(t)' = IF t = pages THEN c
                           ELSE IF t \in ws THEN [Saved(t) EXCEPT !["eax"] = v]
                           ELSE Saved(t)
    <2>1. CASE t \in Alive
      BY <2>1, <1>2, <1>3, <1>4, <1>6, <1>7
    <2>2. CASE t \notin Alive
      BY <2>2, <1>3, <1>4, <1>5
    <2> QED BY <2>1, <2>2
  <1>9. ASSUME NEW t \in Alive' PROVE Sound(Saved(t)')
    <2>1. Sound(Saved(t)) /\ t \in Slots
      BY <1>3, <1>7, <1>9 DEF IInv
    <2>2. Sound([Saved(t) EXCEPT !["eax"] = v])
      <3> OWN \in Places BY DEF Places
      <3> QED BY <2>1, SoundChanged
    <2> QED BY <2>1, <2>2, <1>8
  <1>10. IInv'
    BY <1>3, <1>4, <1>9 DEF IInv, Sound
  <1> QED BY <1>8, <1>10

(* Nobody is woken.                                                        *)
LEMMA LeavesUnchanged ==
  ASSUME IInv, NEW st, NEW c, Holds(st, c), Sound(c),
         ready' = ready, blocked' = blocked,
         errno' \in [Slots -> Nat], halted' \in BOOLEAN,
         Return(st) \/ \E t \in ready' : task_switch(st, t)
  PROVE  /\ IInv'
         /\ \A t \in Slots : Saved(t)' = IF t = pages THEN c ELSE Saved(t)
  <1>1. PICK ws, v : ws = {} /\ v = 0
    OBVIOUS
  <1> ws \in SUBSET blocked /\ v \in Int
    BY <1>1
  <1>2. Stored(st, ws, v) = st
    BY <1>1 DEF Stored, Holds
  <1>3. /\ ready' = ready \cup ws /\ blocked' = blocked \ ws
        /\ \/ Return(Stored(st, ws, v))
           \/ \E t \in ready' : task_switch(Stored(st, ws, v), t)
    BY <1>1, <1>2
  <1>4. /\ IInv'
        /\ \A t \in Slots : Saved(t)' = IF t = pages THEN c
                                        ELSE IF t \in ws THEN [Saved(t) EXCEPT !["eax"] = v]
                                        ELSE Saved(t)
    BY <1>3, LeavesWoken
  <1> QED BY <1>1, <1>4
----------------------------------------------------------------------------
(* The abstract specification: what each step does there.                  *)

LEMMA SameLibrary ==
  /\ Promise!OWN = OWN /\ Promise!INT = INT /\ Promise!TEST = TEST
  /\ \A c : Promise!return(c) = return(c)
  /\ \A c, n : Promise!errno_after(c, n) = errno_after(c, n)
  BY DEF Promise!OWN, OWN, Promise!INT, INT, Promise!TEST, TEST, Promise!return,
         return, Promise!errno_after, errno_after, Promise!IsError, IsError

(* A call that returns v to the running process, whose EBX may change, and *)
(* w to the processes ws.                                                  *)
LEMMA IsCall ==
  ASSUME IInv, ~halted, cpu["eip"] = INT,
         NEW v \in Int, NEW w \in Int, NEW b \in Int, NEW ws \in SUBSET blocked,
         \/ b = cpu["ebx"]
         \/ cpu["eax"] \in {n \in 0..41 : sys_call_table[n] = "sys_unlink"},
         ready' = ready \cup ws, blocked' = blocked \ ws,
         UNCHANGED <<errno, pages, halted>>,
         \A t \in Slots : Saved(t)' =
           IF t = pages
           THEN [[[cpu EXCEPT !["eip"] = TEST] EXCEPT !["ebx"] = b] EXCEPT !["eax"] = v]
           ELSE IF t \in ws THEN [Saved(t) EXCEPT !["eax"] = w] ELSE Saved(t)
  PROVE  Promise!Next
  <1> DEFINE regs == [t \in Slots |-> Saved(t)]
  <1>1. /\ pages \in Slots /\ Saved(pages) = cpu /\ cpu \in Contents
        /\ \A t \in Alive : Saved(t) \in Contents
    BY Running DEF IInv, Sound
  <1>2. pages \notin ws /\ ws \subseteq Slots /\ ws \subseteq Alive
    BY DEF IInv, EntersOwnStack, Alive
  <1>3. [cpu EXCEPT !["eax"] = v, !["ebx"] = b, !["eip"] = TEST]
          = [[[cpu EXCEPT !["eip"] = TEST] EXCEPT !["ebx"] = b] EXCEPT !["eax"] = v]
    BY <1>1 DEF Contents
  <1>4. /\ regs'[pages]["eax"] = v /\ regs'[pages]["ebx"] = b
        /\ \A t \in ws : regs'[t]["eax"] = w
    BY <1>1, <1>2, RegisterNames DEF Contents
  <1>5. Promise!Woken(ws) = [t \in Slots |-> IF t \in ws THEN [Saved(t) EXCEPT !["eax"] = w]
                                             ELSE Saved(t)]
    BY <1>2, <1>4 DEF Promise!Woken, Promise!Result
  <1>6. regs' = [Promise!Woken(ws) EXCEPT ![pages] =
                   [cpu EXCEPT !["eax"] = v, !["ebx"] = b, !["eip"] = TEST]]
    BY <1>1, <1>3, <1>5
  <1>7. regs[pages] = cpu
    BY <1>1
  <1>8. regs' = [Promise!Woken(ws) EXCEPT ![pages] =
                   [regs[pages] EXCEPT !["eax"] = regs'[pages]["eax"],
                                       !["ebx"] = regs'[pages]["ebx"], !["eip"] = TEST]]
    BY <1>4, <1>6, <1>7, Zenon
  <1>9. \/ regs'[pages]["ebx"] = regs[pages]["ebx"]
        \/ regs[pages]["eax"] \in {n \in 0..41 : sys_call_table[n] = "sys_unlink"}
    BY <1>4, <1>7
  <1>10. Promise!Call
    BY <1>7, <1>8, <1>9, SameLibrary DEF Promise!Call, Promise!Calling, Promise!Result
  <1> QED BY <1>10 DEF Promise!Next

(* An interrupt that wakes ws with w, or nobody.                           *)
LEMMA IsInterrupt ==
  ASSUME IInv, ~halted, NEW w \in Int, NEW ws \in SUBSET blocked,
         ready' = ready \cup ws, blocked' = blocked \ ws, pages' \in ready',
         UNCHANGED <<errno, halted>>,
         \A t \in Slots : Saved(t)' = IF t \in ws THEN [Saved(t) EXCEPT !["eax"] = w]
                                      ELSE Saved(t)
  PROVE  Promise!Next
  <1> DEFINE regs == [t \in Slots |-> Saved(t)]
  <1>1. ws \subseteq Slots /\ \A t \in ws : Saved(t) \in Contents
    BY DEF IInv, Sound, Alive
  <1>2. \A t \in ws : regs'[t]["eax"] = w
    BY <1>1, RegisterNames DEF Contents
  <1>3. Promise!Woken(ws) = regs'
    BY <1>2 DEF Promise!Woken, Promise!Result
  <1>4. Promise!Interrupt
    BY <1>3 DEF Promise!Interrupt
  <1> QED BY <1>4 DEF Promise!Next

(* The same when nobody is woken.                                          *)
LEMMA IsCallAlone ==
  ASSUME IInv, ~halted, cpu["eip"] = INT, NEW v \in Int, NEW b \in Int,
         \/ b = cpu["ebx"]
         \/ cpu["eax"] \in {n \in 0..41 : sys_call_table[n] = "sys_unlink"},
         UNCHANGED <<errno, pages, ready, blocked, halted>>,
         \A t \in Slots : Saved(t)' =
           IF t = pages
           THEN [[[cpu EXCEPT !["eip"] = TEST] EXCEPT !["ebx"] = b] EXCEPT !["eax"] = v]
           ELSE Saved(t)
  PROVE  Promise!Next
  <1>1. PICK ws : ws = {}
    OBVIOUS
  <1>2. /\ ws \in SUBSET blocked
        /\ ready' = ready \cup ws /\ blocked' = blocked \ ws
        /\ UNCHANGED <<errno, pages, halted>>
    BY <1>1
  <1>3. \A t \in Slots : Saved(t)' =
           IF t = pages
           THEN [[[cpu EXCEPT !["eip"] = TEST] EXCEPT !["ebx"] = b] EXCEPT !["eax"] = v]
           ELSE IF t \in ws THEN [Saved(t) EXCEPT !["eax"] = v] ELSE Saved(t)
    BY <1>1
  <1> QED BY <1>2, <1>3, IsCall

LEMMA IsSwitch ==
  ASSUME IInv, ~halted, pages' \in ready,
         UNCHANGED <<errno, ready, blocked, halted>>,
         \A t \in Slots : Saved(t)' = Saved(t)
  PROVE  Promise!Next
  <1>1. PICK ws, w : ws = {} /\ w = 0
    OBVIOUS
  <1>2. /\ ws \in SUBSET blocked /\ w \in Int
        /\ ready' = ready \cup ws /\ blocked' = blocked \ ws /\ pages' \in ready'
        /\ UNCHANGED <<errno, halted>>
        /\ \A t \in Slots : Saved(t)' = IF t \in ws THEN [Saved(t) EXCEPT !["eax"] = w]
                                        ELSE Saved(t)
    BY <1>1
  <1> QED BY <1>2, IsInterrupt
----------------------------------------------------------------------------
(* Every action keeps IInv and is a step of the abstract specification.    *)

LEMMA LibraryStep ==
  ASSUME IInv, NEW c, Sound(c), ~halted, cpu' = c,
         UNCHANGED <<stack, esp0, pages, ready, blocked, halted>>,
         \/ /\ cpu["eip"] = OWN /\ c["eip"] = INT
            /\ UNCHANGED errno
         \/ /\ cpu["eip"] = TEST /\ c = return(cpu)
            /\ errno' = [errno EXCEPT ![pages] = errno_after(cpu, @)]
  PROVE  IInv' /\ Promise!Next
  <1> DEFINE regs == [t \in Slots |-> Saved(t)]
  <1>1. /\ pages \in Slots /\ Saved(pages) = cpu /\ cpu \in Contents
    BY Running DEF Sound
  <1>2. \A t \in Slots : Saved(t)' = IF t = pages THEN c ELSE Saved(t)
    BY DEF Saved
  <1>3. cpu["eax"] \in Int
    BY <1>1, RegisterNames DEF Contents
  <1>4. errno' \in [Slots -> Nat]
    BY <1>1, <1>3 DEF IInv, errno_after, IsError
  <1>5. Alive' = Alive /\ Alive \subseteq Slots
    BY DEF Alive, IInv
  <1>6. \A t \in Alive' : Sound(Saved(t)')
    BY <1>2, <1>5 DEF IInv
  <1>7. IInv'
    BY <1>4, <1>6 DEF IInv, EntersOwnStack, Sound
  <1>8. regs' = [regs EXCEPT ![pages] = c] /\ regs[pages] = cpu /\ regs'[pages] = c
    BY <1>1, <1>2
  <1>9. Promise!Execute
    BY <1>8, SameLibrary DEF Promise!Execute, Promise!Become
  <1> QED BY <1>7, <1>9 DEF Promise!Next

LEMMA InterruptStep ==
  ASSUME IInv, Interrupt \/ Preempt
  PROVE  IInv' /\ Promise!Next
  <1>1. /\ ~halted /\ UNCHANGED <<errno, halted>>
        /\ errno' \in [Slots -> Nat] /\ halted' \in BOOLEAN
    BY DEF Interrupt, Preempt, IInv
  <1>2. Holds(Entered, cpu) /\ Sound(cpu) /\ Saved(pages) = cpu
    BY Enters, Running
  <1>3. CASE \/ Return(Entered) /\ UNCHANGED <<ready, blocked>>
             \/ Preempt
    <2>1. /\ ready' = ready /\ blocked' = blocked
          /\ Return(Entered) \/ \E t \in ready' : task_switch(Entered, t)
      BY <1>3 DEF Preempt
    <2>2. /\ IInv'
          /\ \A t \in Slots : Saved(t)' = IF t = pages THEN cpu ELSE Saved(t)
      BY <1>1, <1>2, <2>1, LeavesUnchanged
    <2>3. pages' \in ready
      BY <2>1, <2>2 DEF IInv, EntersOwnStack
    <2> QED BY <1>1, <1>2, <2>1, <2>2, <2>3, IsSwitch
  <1>4. ASSUME NEW t \in blocked, NEW count \in Outcomes,
               Return(Stored(Entered, {t}, count)),
               ready' = ready \cup {t}, blocked' = blocked \ {t}
        PROVE  IInv' /\ Promise!Next
    <2>1. PICK ws, v, st, c : ws = {t} /\ v = count /\ st = Entered /\ c = cpu
      OBVIOUS
    <2> ws \in SUBSET blocked /\ v \in Int
      BY <2>1, ContextsAssumption
    <2>2. /\ ready' = ready \cup ws /\ blocked' = blocked \ ws
          /\ Holds(st, c) /\ Sound(c)
          /\ \/ Return(Stored(st, ws, v))
             \/ \E u \in ready' : task_switch(Stored(st, ws, v), u)
      BY <1>2, <1>4, <2>1
    <2>3. /\ IInv'
          /\ \A u \in Slots : Saved(u)' = IF u = pages THEN c
                               ELSE IF u \in ws THEN [Saved(u) EXCEPT !["eax"] = v]
                               ELSE Saved(u)
      BY <1>1, <2>2, LeavesWoken
    <2>4. pages' \in ready' /\ pages \notin ws
      BY <2>2, <2>3 DEF IInv, EntersOwnStack
    <2>5. \A u \in Slots : Saved(u)' = IF u \in ws THEN [Saved(u) EXCEPT !["eax"] = v]
                                       ELSE Saved(u)
      BY <1>2, <2>1, <2>3, <2>4
    <2> QED BY <1>1, <2>2, <2>3, <2>4, <2>5, IsInterrupt
  <1> QED BY <1>3, <1>4 DEF Interrupt

(* exit and the end of a process by a page fault.                          *)
LEMMA ExitStep ==
  ASSUME IInv, NEW st, NEW c, Holds(st, c), Exit(st)
  PROVE  IInv' /\ Promise!Next
  <1> DEFINE regs == [t \in Slots |-> Saved(t)]
  <1>1. PICK ws \in SUBSET blocked :
          /\ ready' = (ready \cup ws) \ {pages}
          /\ blocked' = blocked \ ws
          /\ \E t \in ready' :
               task_switch([Stored(st, ws, -1) EXCEPT ![pages] = Empty], t)
    BY Running DEF Exit
  <1>2. /\ ~halted /\ halted' = halted
        /\ errno' = [errno EXCEPT ![pages] = 0]
    BY Running DEF Exit
  <1>3. /\ pages \in ready /\ pages \notin blocked /\ pages \in Slots
        /\ ready \subseteq Slots /\ blocked \subseteq Slots \ ready
        /\ errno \in [Slots -> Nat] /\ halted \in BOOLEAN
    BY DEF IInv, EntersOwnStack
  <1> DEFINE to   == Stored(st, ws, -1)
             left == [to EXCEPT ![pages] = Empty]
  <1>4. /\ to \in [Slots -> Frames]
        /\ \A t \in Slots : Pop(to[t]) = IF t \in ws THEN [Pop(st[t]) EXCEPT !["eax"] = -1]
                                         ELSE Pop(st[t])
    BY StoredFrames DEF Holds
  <1> HIDE DEF to
  <1>5. /\ left \in [Slots -> Frames]
        /\ \A t \in Slots \ {pages} : left[t] = to[t]
    <2>1. Empty \in Frames
      BY DEF Empty, Frames
    <2> QED BY <2>1, <1>4
  <1>6. /\ ready' \subseteq Slots /\ blocked' \subseteq Slots \ ready'
        /\ Alive' = Alive \ {pages} /\ Alive \subseteq Slots
    BY <1>1, <1>3 DEF Alive
  <1>7. /\ stack' \in [Slots -> Frames]
        /\ EntersOwnStack'
        /\ \A t \in Alive' : Saved(t)' = Pop(left[t])
        /\ \A t \in Slots \ Alive' : Saved(t)' = Start
    <2> HIDE DEF left
    <2> \E t \in ready' : task_switch(left, t)
      BY <1>1 DEF left, to
    <2> QED BY <1>5, <1>6, Leaves
  <1> HIDE DEF left
  <1>8. ASSUME NEW t \in Slots \ {pages}
        PROVE  Saved(t)' = IF t \in ws THEN [Saved(t) EXCEPT !["eax"] = -1] ELSE Saved(t)
    <2>1. CASE t \in Alive
      <3>1. t \in Alive' /\ Pop(st[t]) = Saved(t)
        BY <2>1, <1>6, <1>8 DEF Holds
      <3> QED BY <3>1, <1>4, <1>5, <1>7, <1>8
    <2>2. CASE t \notin Alive
      <3>1. t \notin Alive' /\ t \notin ws /\ Saved(t) = Start
        BY <2>2, <1>3, <1>6 DEF Alive, Saved
      <3> QED BY <3>1, <1>7, <1>8
    <2> QED BY <2>1, <2>2
  <1>9. ASSUME NEW t \in Alive' PROVE Sound(Saved(t)')
    <2>1. t \in Alive /\ t \in Slots \ {pages} /\ Sound(Saved(t))
      BY <1>6, <1>9 DEF IInv
    <2>2. Sound([Saved(t) EXCEPT !["eax"] = -1])
      <3> OWN \in Places /\ -1 \in Int BY DEF Places
      <3> QED BY <2>1, SoundChanged
    <2> QED BY <2>1, <2>2, <1>8
  <1>10. errno' \in [Slots -> Nat] /\ halted' \in BOOLEAN
    BY <1>2, <1>3
  <1>11. IInv'
    BY <1>6, <1>7, <1>9, <1>10 DEF IInv, Sound
  <1>12. \A t \in ws : /\ t \in Slots \ {pages}
                       /\ regs'[t]["eax"] = -1
    <2>1. \A t \in ws : t \in Slots \ {pages} /\ Saved(t) \in Contents
      BY <1>3 DEF IInv, Sound, Alive
    <2> QED BY <2>1, <1>8, RegisterNames DEF Contents
  <1>13. Promise!Woken(ws) = [t \in Slots |-> IF t \in ws THEN [Saved(t) EXCEPT !["eax"] = -1]
                                              ELSE Saved(t)]
    BY <1>12 DEF Promise!Woken, Promise!Result
  <1>14. regs' = [Promise!Woken(ws) EXCEPT ![pages] = regs'[pages]]
    BY <1>3, <1>8, <1>13
  <1>15. pages' \in ready' /\ errno' = [errno EXCEPT ![pages] = errno'[pages]]
    BY <1>2, <1>3, <1>7 DEF EntersOwnStack
  <1>16. Promise!End
    BY <1>1, <1>2, <1>14, <1>15 DEF Promise!End
  <1> QED BY <1>2, <1>11, <1>16 DEF Promise!Next

LEMMA ExceptionStep ==
  ASSUME IInv, Exception
  PROVE  IInv' /\ Promise!Next
  <1>1. IInv'
    <2>1. /\ UNCHANGED <<stack, errno, ready, blocked, esp0, pages, cpu>>
          /\ halted' \in BOOLEAN
      BY DEF Exception
    <2>2. \A t : Saved(t)' = Saved(t)
      BY <2>1 DEF Saved
    <2> QED BY <2>1, <2>2 DEF IInv, EntersOwnStack, Alive, Sound
  <1>2. [t \in Slots |-> Saved(t)]' = [t \in Slots |-> Saved(t)]
    BY DEF Exception, Saved
  <1>3. Promise!Halt
    BY <1>2 DEF Promise!Halt, Exception
  <1> QED BY <1>1, <1>3 DEF Promise!Next, Exception

(* A call that returns v, with b for EBX.                                  *)
LEMMA ReturnsStep ==
  ASSUME IInv, ~halted, cpu["eip"] = INT, NEW v \in Int, NEW b \in Int, NEW st,
         \/ b = cpu["ebx"]
         \/ cpu["eax"] \in {n \in 0..41 : sys_call_table[n] = "sys_unlink"},
         Holds(st, [[cpu EXCEPT !["eip"] = TEST] EXCEPT !["ebx"] = b]),
         Returns(st, v), UNCHANGED <<errno, ready, blocked, halted>>
  PROVE  IInv' /\ Promise!Next
  <1>1. PICK c, to : /\ c = [[[cpu EXCEPT !["eip"] = TEST] EXCEPT !["ebx"] = b]
                               EXCEPT !["eax"] = v]
                     /\ to = Answer(st, current, v)
    OBVIOUS
  <1>2. Holds(to, c)
    BY <1>1, Answered
  <1>3. Sound(c)
    <2>1. PICK d : d = [cpu EXCEPT !["eip"] = TEST]
      OBVIOUS
    <2>2. Sound(d) /\ TEST \in Places
      BY <2>1, Enters DEF Places
    <2>3. Sound([d EXCEPT !["ebx"] = b])
      BY <2>2, SoundChanged
    <2> QED BY <1>1, <2>1, <2>2, <2>3, SoundChanged
  <1>4. errno' \in [Slots -> Nat] /\ halted' \in BOOLEAN
    BY DEF IInv
  <1>5. Return(to)
    BY <1>1 DEF Returns
  <1>6. /\ IInv'
        /\ \A t \in Slots : Saved(t)' = IF t = pages THEN c ELSE Saved(t)
    BY <1>2, <1>3, <1>4, <1>5, LeavesUnchanged
  <1>7. UNCHANGED pages
    BY <1>5 DEF Return
  <1>8. Promise!Next
    BY <1>1, <1>6, <1>7, IsCallAlone
  <1> QED BY <1>6, <1>8

LEMMA CallStep ==
  ASSUME IInv, no_such_call \/ returns
  PROVE  IInv' /\ Promise!Next
  <1>1. /\ ~halted /\ cpu["eip"] = INT
        /\ UNCHANGED <<errno, ready, blocked, halted>>
        /\ \E v \in Int : Returns(entered, v)
    BY ContextsAssumption DEF no_such_call, returns, Serves, ENOSYS
  <1>2. PICK v \in Int : Returns(entered, v)
    BY <1>1
  <1>3. cpu \in Contents
    BY Running DEF Sound
  <1>4. PICK b \in Int : b = cpu["ebx"]
    BY <1>3, RegisterNames DEF Contents
  <1>5. [[cpu EXCEPT !["eip"] = TEST] EXCEPT !["ebx"] = b] = [cpu EXCEPT !["eip"] = TEST]
    BY <1>3, <1>4, RegisterNames DEF Contents
  <1>6. PICK st : st = entered
    OBVIOUS
  <1>7. Holds(st, [[cpu EXCEPT !["eip"] = TEST] EXCEPT !["ebx"] = b]) /\ Returns(st, v)
    BY <1>2, <1>5, <1>6, Enters
  <1> QED BY <1>1, <1>4, <1>7, ReturnsStep

LEMMA UnlinkStep ==
  ASSUME IInv, sys_unlink
  PROVE  IInv' /\ Promise!Next
  <1>1. /\ ~halted /\ cpu["eip"] = INT /\ Service(cpu["eax"]) = "sys_unlink"
        /\ UNCHANGED <<errno, ready, blocked, halted>>
        /\ \E f \in Int, v \in Int :
             Returns([entered EXCEPT ![current][RESTORE_SIZE] = f], v)
    BY ContextsAssumption DEF sys_unlink, Serves
  <1>2. PICK f \in Int, v \in Int :
             Returns([entered EXCEPT ![current][RESTORE_SIZE] = f], v)
    BY <1>1
  <1>3. cpu["eax"] \in Int
    BY Running, RegisterNames DEF Sound, Contents
  <1>4. cpu["eax"] \in {n \in 0..41 : sys_call_table[n] = "sys_unlink"}
    BY <1>1, <1>3 DEF Service, syscall_table_size
  <1>5. PICK st : st = [entered EXCEPT ![current][RESTORE_SIZE] = f]
    OBVIOUS
  <1>6. Holds(st, [[cpu EXCEPT !["eip"] = TEST] EXCEPT !["ebx"] = f]) /\ Returns(st, v)
    BY <1>2, <1>5, Enters, Answered
  <1> QED BY <1>1, <1>4, <1>6, ReturnsStep

(* A call that gives 0 to the process and wakes others.                    *)
LEMMA WakesStep ==
  ASSUME IInv, wakes
  PROVE  IInv' /\ Promise!Next
  <1>1. /\ ~halted /\ cpu["eip"] = INT /\ UNCHANGED <<errno, halted>>
        /\ \E ws \in SUBSET blocked, v \in Int :
             /\ Returns(Stored(entered, ws, v), 0)
             /\ ready' = ready \cup ws
             /\ blocked' = blocked \ ws
    <2>1. PICK service \in {"sys_sem_signal", "sys_sem_destroy"}, ws \in SUBSET blocked :
            /\ Serves({service})
            /\ Returns(Stored(entered, ws, IF service = "sys_sem_signal" THEN 0 ELSE -1), 0)
            /\ ready' = ready \cup ws
            /\ blocked' = blocked \ ws
      BY DEF wakes
    <2>2. PICK v \in Int : v = IF service = "sys_sem_signal" THEN 0 ELSE -1
      OBVIOUS
    <2>3. Returns(Stored(entered, ws, v), 0)
      BY <2>1, <2>2
    <2> QED BY <2>1, <2>3 DEF Serves, wakes
  <1>2. PICK ws \in SUBSET blocked, v \in Int :
             /\ Returns(Stored(entered, ws, v), 0)
             /\ ready' = ready \cup ws
             /\ blocked' = blocked \ ws
    BY <1>1
  <1>3. PICK z \in Int : z = 0
    OBVIOUS
  <1>4. PICK d, c, st : /\ d = [cpu EXCEPT !["eip"] = TEST]
                        /\ c = [d EXCEPT !["eax"] = z]
                        /\ st = Answer(entered, current, z)
    OBVIOUS
  <1>5. Holds(entered, d) /\ Sound(d)
    BY <1>4, Enters
  <1>6. Holds(st, c)
    BY <1>4, <1>5, Answered
  <1>7. Sound(c)
    <2> TEST \in Places
      BY DEF Places
    <2> QED BY <1>4, <1>5, SoundChanged
  <1>8. /\ pages \in Slots /\ pages \notin ws /\ current = pages
        /\ entered \in [Slots -> Frames]
    BY <1>5, Running DEF IInv, EntersOwnStack, Holds
  <1>9. Answer(Stored(entered, ws, v), current, 0) = Stored(st, ws, v)
    BY <1>4, <1>8, <1>3 DEF Answer, Stored
  <1>10. Return(Stored(st, ws, v))
    BY <1>2, <1>9 DEF Returns
  <1>11. errno' \in [Slots -> Nat] /\ halted' \in BOOLEAN
    BY <1>1 DEF IInv
  <1>12. /\ IInv'
         /\ \A t \in Slots : Saved(t)' = IF t = pages THEN c
                                         ELSE IF t \in ws THEN [Saved(t) EXCEPT !["eax"] = v]
                                         ELSE Saved(t)
    BY <1>2, <1>6, <1>7, <1>10, <1>11, LeavesWoken
  <1>13. UNCHANGED pages
    BY <1>10 DEF Return
  <1>14. cpu \in Contents
    BY Running DEF Sound
  <1>15. PICK b \in Int : b = cpu["ebx"]
    BY <1>14, RegisterNames DEF Contents
  <1>16. c = [[[cpu EXCEPT !["eip"] = TEST] EXCEPT !["ebx"] = b] EXCEPT !["eax"] = z]
    BY <1>4, <1>14, <1>15, RegisterNames DEF Contents
  <1>17. Promise!Next
    <2> HIDE <1>3, <1>4
    <2> QED BY <1>1, <1>2, <1>12, <1>13, <1>15, <1>16, IsCall
  <1> QED BY <1>12, <1>17

(* A call that waits.                                                      *)
LEMMA BlocksStep ==
  ASSUME IInv, blocks
  PROVE  IInv' /\ Promise!Next
  <1> DEFINE regs == [t \in Slots |-> Saved(t)]
  <1>1. /\ ~halted /\ cpu["eip"] = INT /\ UNCHANGED <<errno, halted>>
        /\ ready' = ready \ {pages} /\ blocked' = blocked \cup {pages}
        /\ \E t \in ready' : task_switch(entered, t)
    BY Running DEF blocks, Serves
  <1>2. PICK c : c = [cpu EXCEPT !["eip"] = TEST]
    OBVIOUS
  <1>3. /\ Holds(entered, c) /\ Sound(c) /\ entered \in [Slots -> Frames]
        /\ Saved(pages) = cpu
    BY <1>2, Enters, Running DEF Holds
  <1>4. /\ ready' \subseteq Slots /\ blocked' \subseteq Slots \ ready'
        /\ Alive' = Alive /\ Alive \subseteq Slots /\ pages \in Alive
    BY <1>1 DEF IInv, EntersOwnStack, Alive
  <1>5. /\ stack' \in [Slots -> Frames]
        /\ EntersOwnStack'
        /\ \A t \in Alive' : Saved(t)' = Pop(entered[t])
        /\ \A t \in Slots \ Alive' : Saved(t)' = Start
    BY <1>1, <1>3, <1>4, Leaves
  <1>6. ASSUME NEW t \in Slots
        PROVE  Saved(t)' = IF t = pages THEN c ELSE Saved(t)
    <2>1. CASE t \in Alive
      BY <2>1, <1>3, <1>4, <1>5 DEF Holds
    <2>2. CASE t \notin Alive
      BY <2>2, <1>4, <1>5 DEF Saved, Alive
    <2> QED BY <2>1, <2>2
  <1>7. IInv'
    <2>1. \A t \in Alive' : Sound(Saved(t)')
      BY <1>3, <1>4, <1>6 DEF IInv
    <2>2. errno' \in [Slots -> Nat] /\ halted' \in BOOLEAN
      BY <1>1 DEF IInv
    <2> QED BY <1>4, <1>5, <2>1, <2>2 DEF IInv, Sound
  <1>8. /\ regs' = [regs EXCEPT ![pages] = c]
        /\ regs[pages] = cpu
    BY <1>3, <1>4, <1>6
  <1>9. pages' \in ready'
    BY <1>5 DEF EntersOwnStack
  <1>10. Promise!Wait
    BY <1>1, <1>2, <1>8, <1>9, SameLibrary
       DEF Promise!Wait, Promise!Calling, Promise!Become
  <1> QED BY <1>1, <1>7, <1>10 DEF Promise!Next

(* fork finds a slot: the child has the registers of its parent but EAX.   *)
LEMMA ForkedStep ==
  ASSUME IInv, Serves({"sys_fork"}), UNCHANGED <<blocked, halted>>,
         NEW child \in Slots \ Alive, NEW v \in Int, v > 0,
         Returns(Stored([entered EXCEPT ![child] = entered[current]], {child}, 0), v),
         errno' = [errno EXCEPT ![child] = errno[current]],
         ready' = ready \cup {child}
  PROVE  IInv' /\ Promise!Next
  <1> DEFINE regs == [t \in Slots |-> Saved(t)]
  <1>1. /\ pages \in Slots /\ pages \in Alive /\ current = pages /\ child # pages
        /\ Saved(pages) = cpu /\ cpu \in Contents
    BY Running DEF Sound
  <1>2. PICK c, z : c = [cpu EXCEPT !["eip"] = TEST] /\ z = 0
    OBVIOUS
  <1> z \in Int
    BY <1>2
  <1>3. /\ Holds(entered, c) /\ Sound(c) /\ entered \in [Slots -> Frames]
        /\ Pop(entered[pages]) = c
    BY <1>2, Enters DEF Holds
  <1>4. PICK copy, ws : /\ copy = [entered EXCEPT ![child] = entered[pages]]
                        /\ ws = {child}
    OBVIOUS
  <1>5. /\ copy \in [Slots -> Frames]
        /\ \A t \in Slots : Pop(copy[t]) = IF t = child THEN c ELSE Pop(entered[t])
    BY <1>1, <1>3, <1>4
  <1>6. PICK to : to = Stored(copy, ws, z)
    OBVIOUS
  <1>7. /\ to \in [Slots -> Frames]
        /\ \A t \in Slots : Pop(to[t]) = IF t = child THEN [c EXCEPT !["eax"] = z]
                                         ELSE Pop(entered[t])
    <2>1. /\ to \in [Slots -> Frames]
          /\ \A t \in Slots : Pop(to[t]) = IF t \in ws THEN [Pop(copy[t]) EXCEPT !["eax"] = z]
                                           ELSE Pop(copy[t])
      BY <1>5, <1>6, StoredFrames
    <2> QED BY <2>1, <1>4, <1>5
  <1>8. Holds(to, c)
    BY <1>1, <1>3, <1>7 DEF Holds, Alive, IInv
  <1>9. PICK st : st = Answer(to, current, v)
    OBVIOUS
  <1>10. Holds(st, [c EXCEPT !["eax"] = v])
    BY <1>8, <1>9, Answered
  <1>11. st[child] = to[child]
    BY <1>1, <1>7, <1>9 DEF Answer
  <1>12. Return(st)
    BY <1>1, <1>2, <1>4, <1>6, <1>9 DEF Returns
  <1>13. /\ ready' \subseteq Slots /\ blocked' \subseteq Slots \ ready'
         /\ Alive' = Alive \cup {child} /\ Alive \subseteq Slots /\ pages \in ready'
    BY DEF IInv, EntersOwnStack, Alive
  <1>14. /\ stack' \in [Slots -> Frames]
         /\ EntersOwnStack'
         /\ \A t \in Alive' : Saved(t)' = Pop(st[t])
         /\ \A t \in Slots \ Alive' : Saved(t)' = Start
    <2>1. st \in [Slots -> Frames]
      BY <1>10 DEF Holds
    <2> QED BY <2>1, <1>12, <1>13, Leaves
  <1>15. ASSUME NEW t \in Slots
         PROVE  Saved(t)' = IF t = pages THEN [c EXCEPT !["eax"] = v]
                            ELSE IF t = child THEN [c EXCEPT !["eax"] = z]
                            ELSE Saved(t)
    <2>1. CASE t \in Alive
      BY <2>1, <1>10, <1>13, <1>14 DEF Holds
    <2>2. CASE t = child
      BY <2>2, <1>1, <1>7, <1>11, <1>13, <1>14
    <2>3. CASE t \notin Alive /\ t # child
      BY <2>3, <1>1, <1>13, <1>14 DEF Saved, Alive
    <2> QED BY <2>1, <2>2, <2>3
  <1>16. IInv'
    <2>1. Sound([c EXCEPT !["eax"] = v]) /\ Sound([c EXCEPT !["eax"] = z])
      <3> TEST \in Places BY DEF Places
      <3> QED BY <1>3, SoundChanged
    <2>2. \A t \in Alive' : Sound(Saved(t)')
      BY <2>1, <1>13, <1>15 DEF IInv
    <2>3. errno' \in [Slots -> Nat] /\ halted' \in BOOLEAN
      BY <1>1 DEF IInv
    <2> QED BY <1>13, <1>14, <2>2, <2>3 DEF IInv, Sound
  <1>17. /\ regs[pages] = cpu
         /\ regs'[pages]["eax"] = v
    BY <1>1, <1>2, <1>15, RegisterNames DEF Contents
  <1>18. /\ [cpu EXCEPT !["eax"] = v, !["eip"] = TEST] = [c EXCEPT !["eax"] = v]
         /\ [cpu EXCEPT !["eax"] = 0, !["eip"] = TEST] = [c EXCEPT !["eax"] = z]
    BY <1>1, <1>2, RegisterNames DEF Contents
  <1>19. regs' = [regs EXCEPT
                    ![pages] = [@ EXCEPT !["eax"] = v, !["eip"] = TEST],
                    ![child] = [cpu EXCEPT !["eax"] = 0, !["eip"] = TEST]]
    BY <1>1, <1>15, <1>17, <1>18
  <1>20. ~halted /\ cpu["eip"] = INT /\ pages' = pages
    BY <1>12 DEF Serves, Return
  <1>21. Promise!Fork
    BY <1>1, <1>17, <1>19, <1>20, SameLibrary
       DEF Promise!Fork, Promise!Calling, Promise!Result, Alive
  <1> QED BY <1>16, <1>20, <1>21 DEF Promise!Next

LEMMA ForkStep ==
  ASSUME IInv, sys_fork
  PROVE  IInv' /\ Promise!Next
  <1>1. CASE Returns(entered, -EAGAIN) /\ UNCHANGED <<errno, ready>>
    <2>1. /\ ~halted /\ cpu["eip"] = INT
          /\ UNCHANGED <<errno, ready, blocked, halted>>
      BY <1>1 DEF sys_fork, Serves
    <2>2. PICK v \in Int : v = -EAGAIN
      BY DEF EAGAIN
    <2>3. cpu \in Contents
      BY Running DEF Sound
    <2>4. PICK b \in Int : b = cpu["ebx"]
      BY <2>3, RegisterNames DEF Contents
    <2>5. [[cpu EXCEPT !["eip"] = TEST] EXCEPT !["ebx"] = b] = [cpu EXCEPT !["eip"] = TEST]
      BY <2>3, <2>4, RegisterNames DEF Contents
    <2>6. PICK st : st = entered
      OBVIOUS
    <2>7. Holds(st, [[cpu EXCEPT !["eip"] = TEST] EXCEPT !["ebx"] = b]) /\ Returns(st, v)
      BY <1>1, <2>2, <2>5, <2>6, Enters
    <2> QED BY <2>1, <2>4, <2>7, ReturnsStep
  <1>2. ASSUME NEW child \in Slots \ (ready \cup blocked), NEW v \in Outcomes, v > 0,
          Returns(Stored([entered EXCEPT ![child] = entered[current]], {child}, 0), v),
          errno' = [errno EXCEPT ![child] = errno[current]],
          ready' = ready \cup {child}
        PROVE  IInv' /\ Promise!Next
    <2>1. v \in Int /\ child \in Slots \ Alive
      BY ContextsAssumption DEF Alive
    <2>2. Serves({"sys_fork"}) /\ UNCHANGED <<blocked, halted>>
      BY DEF sys_fork
    <2> QED BY <1>2, <2>1, <2>2, ForkedStep
  <1> QED BY <1>1, <1>2 DEF sys_fork
----------------------------------------------------------------------------
LEMMA NextStep ==
  ASSUME IInv, Next
  PROVE  IInv' /\ Promise!Next
  <1>1. ASSUME NEW id \in Calls, NEW arg0 \in Args, Library(id, arg0)
        PROVE  IInv' /\ Promise!Next
    <2>1. PICK c : c = movl_id(cpu, id, arg0)
      OBVIOUS
    <2>2. id \in Int /\ arg0 \in Int /\ INT \in Places /\ cpu \in Contents
      BY ContextsAssumption, Running DEF Places, Sound
    <2>3. Sound(c)
      <3>1. Sound([cpu EXCEPT !["eax"] = id])
        BY <2>2, Running, SoundChanged
      <3>2. PICK d : d = [cpu EXCEPT !["eax"] = id]
        OBVIOUS
      <3>3. Sound([d EXCEPT !["ebx"] = arg0])
        BY <3>1, <3>2, <2>2, SoundChanged
      <3>4. PICK e : e = [d EXCEPT !["ebx"] = arg0]
        OBVIOUS
      <3>5. Sound([e EXCEPT !["eip"] = INT])
        BY <3>3, <3>4, <2>2, SoundChanged
      <3>6. c = [e EXCEPT !["eip"] = INT]
        BY <2>1, <2>2, <3>2, <3>4 DEF movl_id, Contents
      <3> QED BY <3>5, <3>6
    <2>4. c["eip"] = INT
      BY <2>1, <2>2, RegisterNames DEF movl_id, Contents
    <2>5. /\ ~halted /\ cpu["eip"] = OWN /\ cpu' = c
          /\ UNCHANGED <<stack, esp0, pages, errno, ready, blocked, halted>>
      BY <1>1, <2>1 DEF Library
    <2> QED BY <2>3, <2>4, <2>5, LibraryStep
  <1>2. CASE LibraryReturns
    <2>1. PICK c : c = return(cpu)
      OBVIOUS
    <2>2. cpu \in Contents /\ OWN \in Places
      BY Running DEF Places, Sound
    <2>3. Sound(c)
      <3>1. PICK v \in Int : v = IF IsError(cpu) THEN -1 ELSE cpu["eax"]
        BY <2>2, RegisterNames DEF Contents
      <3>2. Sound([cpu EXCEPT !["eax"] = v])
        BY <2>2, Running, SoundChanged
      <3>3. PICK d : d = [cpu EXCEPT !["eax"] = v]
        OBVIOUS
      <3>4. Sound([d EXCEPT !["eip"] = OWN])
        BY <2>2, <3>1, <3>2, <3>3, SoundChanged
      <3>5. c = [d EXCEPT !["eip"] = OWN]
        BY <2>1, <2>2, <3>1, <3>3 DEF return, Contents
      <3> QED BY <3>4, <3>5
    <2>4. /\ ~halted /\ cpu["eip"] = TEST /\ cpu' = c
          /\ UNCHANGED <<stack, esp0, pages, ready, blocked, halted>>
          /\ errno' = [errno EXCEPT ![pages] = errno_after(cpu, @)]
      BY <1>2, <2>1 DEF LibraryReturns
    <2> QED BY <2>1, <2>3, <2>4, LibraryStep
  <1>3. CASE Interrupt \/ Preempt
    BY <1>3, InterruptStep
  <1>4. CASE PageFault
    BY <1>4, Enters, ExitStep DEF PageFault
  <1>5. CASE Exception
    BY <1>5, ExceptionStep
  <1>6. CASE no_such_call \/ returns
    BY <1>6, CallStep
  <1>7. CASE sys_unlink
    BY <1>7, UnlinkStep
  <1>8. CASE sys_exit
    BY <1>8, Enters, ExitStep DEF sys_exit
  <1>9. CASE sys_fork
    BY <1>9, ForkStep
  <1>10. CASE blocks
    BY <1>10, BlocksStep
  <1>11. CASE wakes
    BY <1>11, WakesStep
  <1> QED BY <1>1, <1>2, <1>3, <1>4, <1>5, <1>6, <1>7, <1>8, <1>9, <1>10, <1>11 DEF Next

LEMMA Stutter ==
  ASSUME IInv, UNCHANGED vars
  PROVE  IInv' /\ UNCHANGED Promise!vars
  <1>1. \A t : Saved(t)' = Saved(t)
    BY DEF vars, Saved
  <1>2. IInv'
    BY <1>1 DEF IInv, vars, EntersOwnStack, Alive, Sound
  <1>3. UNCHANGED Promise!vars
    BY <1>1 DEF vars, Promise!vars
  <1> QED BY <1>2, <1>3

LEMMA InitStep ==
  ASSUME Init
  PROVE  IInv /\ Promise!Init
  <1>1. Idle \in Slots
    BY ContextsAssumption DEF Idle, Slots
  <1>2. \A t : Saved(t) = Start
    BY DEF Init, Saved
  <1>3. Empty \in Frames
    BY DEF Empty, Frames
  <1>4. IInv
    BY <1>1, <1>2, <1>3, SoundStart DEF Init, IInv, EntersOwnStack
  <1>5. Promise!Init
    BY <1>2 DEF Init, Promise!Init
  <1> QED BY <1>4, <1>5
----------------------------------------------------------------------------
LEMMA Invariance == Spec => []IInv
  <1>1. Init => IInv
    BY InitStep
  <1>2. IInv /\ [Next]_vars => IInv'
    BY NextStep, Stutter
  <1> QED BY <1>1, <1>2, PTL DEF Spec

(* The variables keep their types, and no handler, in any order, changes a *)
(* register that the library does not use.                                 *)
THEOREM TypeCorrect == Spec => []TypeOK
  <1>1. IInv => TypeOK
    <2>1. IInv => Sound(cpu) /\ pages \in Slots /\ esp0 = pages
      BY Running
    <2> QED BY <2>1 DEF IInv, TypeOK, Sound, Contents, Frames
  <1> QED BY <1>1, Invariance, PTL

(* The next entry saves on the stack of the process that runs.             *)
THEOREM OwnStack == Spec => []EntersOwnStack
  <1>1. IInv => EntersOwnStack
    BY DEF IInv
  <1> QED BY <1>1, Invariance, PTL

(* The kernel keeps the promise of Processes: every step of an entry, a    *)
(* return or a switch changes only what Processes says.                    *)
THEOREM Refinement == Spec => ImplementsProcesses
  <1>1. Init => Promise!Init
    BY InitStep
  <1>2. IInv /\ [Next]_vars => [Promise!Next]_Promise!vars
    BY NextStep, Stutter
  <1> QED BY <1>1, <1>2, Invariance, PTL DEF Spec, Promise!Spec, ImplementsProcesses
=============================================================================
