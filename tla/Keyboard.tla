------------------------------ MODULE Keyboard ------------------------------
(***************************************************************************)
(* The keyboard of the 0s kernel: the interrupt handler and the circular   *)
(* buffer it fills, the queue of tasks blocked in a read of the keyboard,  *)
(* and the characters they receive.                                        *)
(*                                                                         *)
(* Handlers run with interrupts off, so each is one action.  A task that   *)
(* is not on keyboardqueue may call read whenever it has the processor,    *)
(* which is at any time.  sysbuff, which every device uses, is abstracted: *)
(* a byte copied from it that the present call did not write is STALE.     *)
(***************************************************************************)
EXTENDS Integers, Sequences, FiniteSets

CONSTANTS Tasks,            \* the processes; task[0] may not read
          Keys,             \* what translate_key returns
          CIRC_BUFF_SIZE,
          Counts            \* bound: the counts passed to read

ASSUME KeyboardAssumption ==
  /\ CIRC_BUFF_SIZE \in Nat \ {0}
  /\ Counts \subseteq Nat

NUL   == "nul"      \* a byte of the buffer before the first key
STALE == "stale"
NUMBER == -1        \* EAX still holds the number of the system call

VARIABLES circular_buffer,  \* [mem, head, tail, count]
          keyboardqueue,    \* tasks blocked in a read, first come first
          remain, offset,   \* fields of task t while it is blocked
          buff,             \* bytes stored by the last read of task t
          eax               \* its result; NUMBER while it is blocked

vars == <<circular_buffer, keyboardqueue, remain, offset, buff, eax>>
----------------------------------------------------------------------------
(* The circular buffer.                                                    *)

init_circ_buff ==
  [mem   |-> [i \in 0 .. CIRC_BUFF_SIZE-1 |-> NUL],
   head  |-> 0, tail |-> 0, count |-> 0]

is_empty(cb) == cb.head = cb.tail
is_full(cb)  == cb.count = CIRC_BUFF_SIZE
get_size(cb) == cb.count

Advance(i) == (i + 1) % CIRC_BUFF_SIZE

(* Deliberate defect: no wrap-around of the write position.                *)
save_character_unwrapped(cb, c) ==
  IF is_full(cb) THEN cb
  ELSE [cb EXCEPT !.mem[cb.tail] = c, !.tail = @ + 1, !.count = @ + 1]

(* The buffer with c in it, or as it was when it is full.                  *)
save_character(cb, c) ==
  IF is_full(cb) THEN cb
  ELSE [cb EXCEPT !.mem[cb.tail] = c, !.tail = Advance(@), !.count = @ + 1]

(* Deliberate defect: the loop leaves count alone.                         *)
Consumed_uncounted(cb) == [cb EXCEPT !.head = Advance(@)]

Consumed(cb) == [cb EXCEPT !.head = Advance(@), !.count = @ - 1]

(* The loop of get_character: what is in dest_buf and in cb after at most  *)
(* size iterations.                                                        *)
get_character(cb, size) ==
  LET loop[i \in 0..size] ==
        IF i = 0 THEN [chars |-> <<>>, cb |-> cb]
        ELSE LET sofar == loop[i-1]
             IN  IF is_empty(sofar.cb) THEN sofar
                 ELSE [chars |-> Append(sofar.chars,
                                        sofar.cb.mem[sofar.cb.head]),
                       cb    |-> Consumed(sofar.cb)]
  IN  loop[size]

(* copy_to_user(sysbuff, dest + at, n), where sysbuff starts with chars.   *)
copy_to_user(chars, dest, at, n) ==
  SubSeq(dest, 1, at)
    \o [i \in 1..n |-> IF i <= Len(chars) THEN chars[i] ELSE STALE]
    \o SubSeq(dest, at+n+1, Len(dest))
----------------------------------------------------------------------------
Init ==
  /\ circular_buffer = init_circ_buff
  /\ keyboardqueue = <<>>
  /\ remain = [t \in Tasks |-> 0]
  /\ offset = [t \in Tasks |-> 0]
  /\ buff = [t \in Tasks |-> <<>>]
  /\ eax = [t \in Tasks |-> 0]

Blocked(t) == \E i \in 1..Len(keyboardqueue) : keyboardqueue[i] = t

(* Deliberate defects: a reader with as many characters as it wants waits; *)
(* a reader overtakes those that wait.                                     *)
ReadAtOnce_strict(size) ==
  get_size(circular_buffer) > size /\ keyboardqueue = <<>>
ReadAtOnce_overtaking(size) == get_size(circular_buffer) >= size

ReadAtOnce(size) ==
  get_size(circular_buffer) >= size /\ keyboardqueue = <<>>

(* read of the keyboard by task t.  size bytes are copied to the task,     *)
(* however few get_character returned.                                     *)
sys_read_keyboard(t, size) ==
  /\ ~Blocked(t)
  /\ \/ /\ ReadAtOnce(size)
        /\ LET got == get_character(circular_buffer, size)
           IN  /\ circular_buffer' = got.cb
               /\ buff' = [buff EXCEPT
                             ![t] = copy_to_user(got.chars, <<>>, 0, size)]
               /\ eax' = [eax EXCEPT ![t] = Len(got.chars)]
        /\ UNCHANGED <<keyboardqueue, remain, offset>>
     \/ /\ ~ReadAtOnce(size)
        /\ keyboardqueue' = Append(keyboardqueue, t)
        /\ remain' = [remain EXCEPT ![t] = size]
        /\ offset' = [offset EXCEPT ![t] = 0]
        /\ buff' = [buff EXCEPT ![t] = <<>>]
        /\ eax' = [eax EXCEPT ![t] = NUMBER]
        /\ UNCHANGED circular_buffer

(* The last part of the handler, for the first reader tsk, from the buffer *)
(* cb, the number left of characters it wants, offset off and destination  *)
(* dest that the first part has left: when the buffer is full, tsk is to   *)
(* get what there is, without being woken.                                 *)
DrainFull(tsk, cb, left, off, dest) ==
  LET got  == get_character(cb, get_size(cb))
      read == Len(got.chars)
  IN  \/ /\ is_full(cb)
         /\ circular_buffer' = got.cb
         /\ buff' = [buff EXCEPT
                       ![tsk] = copy_to_user(got.chars, dest, off, read)]
         /\ remain' = [remain EXCEPT ![tsk] = left - read]
         /\ offset' = [offset EXCEPT ![tsk] = off + read]
      \/ /\ ~is_full(cb)
         /\ circular_buffer' = cb
         /\ buff' = [buff EXCEPT ![tsk] = dest]
         /\ remain' = [remain EXCEPT ![tsk] = left]
         /\ offset' = [offset EXCEPT ![tsk] = off]

(* The interrupt of a key that is pressed; the release of a key does       *)
(* nothing.  sched_unblock resets remain and offset of the task it wakes.  *)
keyboard_routine(c) ==
  LET saved == save_character(circular_buffer, c)
      tsk   == Head(keyboardqueue)
      got   == get_character(saved, remain[tsk])
  IN  \/ /\ keyboardqueue = <<>>
         /\ circular_buffer' = saved
         /\ UNCHANGED <<keyboardqueue, remain, offset, buff, eax>>
      \/ /\ keyboardqueue # <<>>
         /\ get_size(saved) = remain[tsk]
         /\ eax' = [eax EXCEPT ![tsk] = offset[tsk] + Len(got.chars)]
         /\ keyboardqueue' = Tail(keyboardqueue)        \* sched_unblock
         /\ DrainFull(tsk, got.cb, 0, 0,
                      copy_to_user(got.chars, buff[tsk], offset[tsk],
                                   remain[tsk]))
      \/ /\ keyboardqueue # <<>>
         /\ get_size(saved) # remain[tsk]
         /\ DrainFull(tsk, saved, remain[tsk], offset[tsk], buff[tsk])
         /\ UNCHANGED <<keyboardqueue, eax>>

KeyPressed == \E c \in Keys : keyboard_routine(c)

Next ==
  \/ \E t \in Tasks, size \in Counts : sys_read_keyboard(t, size)
  \/ KeyPressed

Spec == Init /\ [][Next]_vars
----------------------------------------------------------------------------
(* Properties.                                                             *)

Bytes == Keys \cup {NUL, STALE}

(* Types: the positions of the ring never leave its array, and its count   *)
(* never exceeds its size.                                                 *)
TypeOK ==
  /\ circular_buffer \in [mem  : [0 .. CIRC_BUFF_SIZE-1 -> Keys \cup {NUL}],
                          head : 0 .. CIRC_BUFF_SIZE-1,
                          tail : 0 .. CIRC_BUFF_SIZE-1,
                          count : 0 .. CIRC_BUFF_SIZE]
  /\ keyboardqueue \in Seq(Tasks)
  /\ remain \in [Tasks -> Counts \cup {0}]
  /\ offset \in [Tasks -> Nat]
  /\ buff \in [Tasks -> Seq(Bytes)]
  /\ eax \in [Tasks -> Nat \cup {NUMBER}]

(* save_character and is_full go by count, get_character and is_empty by   *)
(* the two positions: however reads and keys alternate, they agree on the  *)
(* number of characters, up to the full buffer that looks empty.           *)
CountMatchesPositions ==
  LET cb == circular_buffer
  IN  (cb.tail - cb.head) % CIRC_BUFF_SIZE = cb.count % CIRC_BUFF_SIZE

(* The handler wakes the first reader when the number of characters equals *)
(* the number it wants: it must never wait with that many, or more, there. *)
(* So it is for the counts from 1 to CIRC_BUFF_SIZE-1 until the buffer is  *)
(* full; a reader of 0 that comes behind another, and one of               *)
(* CIRC_BUFF_SIZE or more, are lost.                                       *)
FirstReaderLacksKeys ==
  keyboardqueue # <<>> /\ ~is_full(circular_buffer) =>
    LET wanted == remain[Head(keyboardqueue)]
    IN  wanted \in 1 .. CIRC_BUFF_SIZE-1 => get_size(circular_buffer) < wanted

(* The driver as a Terminal: the characters in the buffer, oldest first,   *)
(* the readers in the queue and what the last reads returned.              *)
Contents ==
  [i \in 1 .. circular_buffer.count |->
     circular_buffer.mem[(circular_buffer.head + i - 1) % CIRC_BUFF_SIZE]]

Waiting ==
  [i \in 1..Len(keyboardqueue) |->
     [task |-> keyboardqueue[i], size |-> remain[keyboardqueue[i]]]]

Received ==
  [t \in Tasks |-> IF eax[t] = NUMBER THEN <<>> ELSE SubSeq(buff[t], 1, eax[t])]

(* CIRC_BUFF_SIZE unread characters jam it.                                *)
Promise == INSTANCE Terminal
  WITH Reader  <- Tasks,
       Key     <- Keys,
       Limit   <- CIRC_BUFF_SIZE,
       pending <- Contents,
       waiting <- Waiting,
       got     <- Received,
       jammed  <- is_full(circular_buffer)

(* The driver keeps the promise of Terminal: keys are delivered once, in   *)
(* order, to readers in order, until the buffer is full.                   *)
ImplementsTerminal == Promise!Spec

(* circbuff.h:14: get_character returns the amount of characters specified *)
(* in size, here one that the buffer holds.                                *)
GetCharacterReturnsSize ==
  \A size \in 0 .. get_size(circular_buffer) :
    Len(get_character(circular_buffer, size).chars) = size
=============================================================================
