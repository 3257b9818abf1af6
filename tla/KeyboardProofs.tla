--------------------------- MODULE KeyboardProofs ---------------------------
(* Theorems about Keyboard, for a ring of any size, any number of readers, *)
(* any keys and any counts.                                                *)
EXTENDS Keyboard, SequenceTheorems, WellFoundedInduction, TLAPS

(* A set of natural numbers has a smallest element.                        *)
LEMMA NatWellOrdered ==
  ASSUME NEW T, T \subseteq Nat, T # {}
  PROVE  \E m \in T : \A k \in T : ~(k < m)
  <1>1. \E R : IsWellFoundedOn(R, Nat) /\ \A k, m \in Nat : k < m => <<k, m>> \in R
    <2>1. IsWellFoundedOn(OpToRel(<, Nat), Nat)
      BY NatLessThanWellFounded, Zenon
    <2>2. \A k, m \in Nat : k < m => <<k, m>> \in OpToRel(<, Nat)
      BY Zenon DEF OpToRel
    <2> QED BY <2>1, <2>2, Zenon
  <1>2. PICK R : IsWellFoundedOn(R, Nat) /\ \A k, m \in Nat : k < m => <<k, m>> \in R
    BY <1>1
  <1>3. PICK m \in T : \A k \in T : ~(<<k, m>> \in R)
    <2>1. IsWellFoundedOn(R, Nat)
      BY <1>2
    <2> QED BY <2>1, WFMin, Zenon
  <1> QED BY <1>2, <1>3

(* An inductive set of natural numbers holds them all.                     *)
LEMMA NatSetInduction ==
  ASSUME NEW I, 0 \in I, \A n \in Nat : n \in I => n+1 \in I
  PROVE  Nat \subseteq I
  <1> SUFFICES ASSUME Nat \ I # {} PROVE FALSE
    OBVIOUS
  <1>1. PICK m \in Nat \ I : \A k \in Nat \ I : ~(k < m)
    BY NatWellOrdered
  <1>2. m-1 \in Nat /\ m-1 < m /\ (m-1)+1 = m
    BY <1>1
  <1> QED BY <1>1, <1>2


N == CIRC_BUFF_SIZE

(* Rings: head and tail are as far apart as count says, up to one round.   *)
Rings == [mem : [0..N-1 -> Keys \cup {NUL}],
          head : 0..N-1, tail : 0..N-1, count : 0..N]

Ring(cb) ==
  /\ cb \in Rings
  /\ cb.tail - cb.head = cb.count \/ cb.tail - cb.head = cb.count - N

(* Positions up to two rounds, without the modulus.                        *)
Wrapped(i) == IF i < N THEN i ELSE i - N

LEMMA Size == N \in Nat \ {0} /\ Counts \subseteq Nat
  BY KeyboardAssumption DEF N

LEMMA Modulus ==
  ASSUME NEW i \in 0 .. N+N-1
  PROVE  i % N = Wrapped(i) /\ Wrapped(i) \in 0..N-1
  <1>1. PICK n \in Nat \ {0} : n = N
    BY Size
  <1>2. i \in 0 .. n+n-1
    BY <1>1
  <1>3. CASE i < n
    BY <1>1, <1>2, <1>3 DEF Wrapped
  <1>4. CASE ~(i < n)
    <2>1. PICK k \in 0..n-1 : k = i - n
      BY <1>2, <1>4
    <2>2. (k + n) % n = k
      OBVIOUS
    <2> QED BY <1>1, <1>2, <1>4, <2>1, <2>2 DEF Wrapped
  <1> QED BY <1>3, <1>4

LEMMA AdvanceWrapped ==
  ASSUME NEW i \in 0..N-1
  PROVE  Advance(i) = Wrapped(i+1) /\ Wrapped(i+1) \in 0..N-1
  <1>1. i+1 \in 0 .. N+N-1
    BY Size
  <1> QED BY <1>1, Modulus DEF Advance, N
----------------------------------------------------------------------------
(* What get_character computes, without its loop: the first Available      *)
(* characters, none if the ring is full and hence looks empty.             *)
Available(cb) == IF is_full(cb) THEN 0 ELSE cb.count

Taken(cb, n) == IF n <= Available(cb) THEN n ELSE Available(cb)

Item(cb, j) == cb.mem[(cb.head + j - 1) % CIRC_BUFF_SIZE]

Chars(cb, k) == [j \in 1..k |-> Item(cb, j)]

Without(cb, k) == [mem   |-> cb.mem,
                   head  |-> Wrapped(cb.head + k),
                   tail  |-> cb.tail,
                   count |-> cb.count - k]

Got(cb, n) == [chars |-> Chars(cb, Taken(cb, n)),
               cb    |-> Without(cb, Taken(cb, n))]

LEMMA TakenRange ==
  ASSUME NEW cb, Ring(cb), NEW n \in Nat
  PROVE  /\ Available(cb) \in 0 .. cb.count
         /\ Taken(cb, n) \in 0 .. cb.count
         /\ Taken(cb, n) <= n
         /\ Taken(cb, n) # 0 => ~is_full(cb)
  BY Size DEF Ring, Rings, Available, Taken

(* The ring after k characters have been taken.                            *)
LEMMA WithoutRing ==
  ASSUME NEW cb, Ring(cb), NEW k \in 0 .. cb.count
  PROVE  /\ Ring(Without(cb, k))
         /\ is_empty(Without(cb, k)) <=> k = cb.count \/ (k = 0 /\ is_full(cb))
         /\ k < cb.count => Consumed(Without(cb, k)) = Without(cb, k+1)
  <1>1. cb.head \in 0..N-1 /\ cb.tail \in 0..N-1 /\ cb.count \in 0..N /\ N \in Nat \ {0}
    BY Size DEF Ring, Rings
  <1>2. cb.head + k \in 0 .. N+N-1
    BY <1>1
  <1>3. Wrapped(cb.head + k) \in 0..N-1
    BY <1>1, <1>2 DEF Wrapped
  <1>4. Without(cb, k) \in Rings
    BY <1>1, <1>3 DEF Ring, Rings, Without
  <1>5. cb.tail - cb.head = cb.count \/ cb.tail - cb.head = cb.count - N
    BY DEF Ring
  <1>6. Without(cb, k).tail = cb.tail /\ Without(cb, k).count = cb.count - k
        /\ Without(cb, k).head = Wrapped(cb.head + k)
    BY DEF Without
  <1>7. PICK h \in 0..N-1, t \in 0..N-1, c \in 0..N, n \in Nat \ {0} :
           h = cb.head /\ t = cb.tail /\ c = cb.count /\ n = N
    BY <1>1
  <1>8. \/ cb.tail - Wrapped(cb.head + k) = cb.count - k
        \/ cb.tail - Wrapped(cb.head + k) = cb.count - k - N
    BY <1>1, <1>2, <1>3, <1>5, <1>7 DEF Wrapped
  <1>9. Ring(Without(cb, k))
    BY <1>4, <1>6, <1>8 DEF Ring
  <1>10. is_empty(Without(cb, k)) <=> k = cb.count \/ (k = 0 /\ is_full(cb))
    <2>1. is_empty(Without(cb, k)) <=> Wrapped(cb.head + k) = cb.tail
      BY <1>6 DEF is_empty
    <2>2. is_full(cb) <=> cb.count = N
      BY DEF is_full, N
    <2>3. Wrapped(h + k) = t <=> k = c \/ (k = 0 /\ c = n)
      BY <1>5, <1>7 DEF Wrapped
    <2> QED BY <1>7, <2>1, <2>2, <2>3
  <1>11. ASSUME k < cb.count PROVE Consumed(Without(cb, k)) = Without(cb, k+1)
    <2>1. Advance(Wrapped(cb.head + k)) = Wrapped(Wrapped(cb.head + k) + 1)
      BY <1>3, AdvanceWrapped
    <2>2. Wrapped(Wrapped(cb.head + k) + 1) = Wrapped(cb.head + (k+1))
      BY <1>1, <1>2, <1>11 DEF Wrapped
    <2>3. cb.count - k - 1 = cb.count - (k+1)
      BY <1>1
    <2>4. PICK w : w = Without(cb, k)
      OBVIOUS
    <2>5. PICK v : v = Without(cb, k+1)
      OBVIOUS
    <2>6. /\ w \in Rings /\ w.head = Wrapped(cb.head + k)
          /\ w.mem = cb.mem /\ w.tail = cb.tail /\ w.count = cb.count - k
      BY <1>4, <2>4 DEF Without
    <2>7. /\ v.head = Wrapped(cb.head + (k+1)) /\ v.head = Advance(w.head)
          /\ v.mem = cb.mem /\ v.tail = cb.tail /\ v.count = w.count - 1
      BY <2>1, <2>2, <2>3, <2>5, <2>6 DEF Without
    <2>8. v.head \in 0..N-1 /\ v.count \in 0..N
      BY <1>1, <1>3, <1>11, <2>1, <2>3, <2>6, <2>7, AdvanceWrapped
    <2>9. v \in Rings
      BY <2>5, <2>6, <2>7, <2>8 DEF Rings, Without
    <2>10. /\ Consumed(w) \in Rings
           /\ Consumed(w).head = Advance(w.head) /\ Consumed(w).count = w.count - 1
           /\ Consumed(w).tail = w.tail /\ Consumed(w).mem = w.mem
      BY <2>6, <2>7, <2>8 DEF Consumed, Rings
    <2>11. Consumed(w) = v
      BY <2>6, <2>7, <2>9, <2>10 DEF Rings
    <2> QED BY <2>4, <2>5, <2>11
  <1> QED BY <1>9, <1>10, <1>11

(* One iteration of the loop of get_character.                             *)
Iterate(f, i, cb) ==
  IF i = 0 THEN [chars |-> <<>>, cb |-> cb]
  ELSE IF is_empty(f[i-1].cb) THEN f[i-1]
       ELSE [chars |-> Append(f[i-1].chars, f[i-1].cb.mem[f[i-1].cb.head]),
             cb    |-> Consumed(f[i-1].cb)]

LEMMA CharsAppend ==
  ASSUME NEW cb, Ring(cb), NEW k \in Nat, k < cb.count
  PROVE  Append(Chars(cb, k), cb.mem[Wrapped(cb.head + k)]) = Chars(cb, k+1)
  <1>1. cb.head \in 0..N-1 /\ cb.count \in 0..N /\ N \in Nat \ {0}
    BY Size DEF Ring, Rings
  <1>2. cb.head + k \in 0 .. N+N-1 /\ cb.head + (k+1) - 1 = cb.head + k
    BY <1>1
  <1>3. (cb.head + (k+1) - 1) % CIRC_BUFF_SIZE = Wrapped(cb.head + k)
    BY <1>2, Modulus DEF N
  <1>4. Item(cb, k+1) = cb.mem[Wrapped(cb.head + k)]
    BY <1>3 DEF Item
  <1>5. Append(Chars(cb, k), Item(cb, k+1)) = Chars(cb, k+1)
    BY DEF Chars
  <1> QED BY <1>4, <1>5

(* The iterations compute the closed form.                                 *)
LEMMA GotIterates ==
  ASSUME NEW cb, Ring(cb), NEW i \in Nat, NEW f, i # 0 => f[i-1] = Got(cb, i-1)
  PROVE  Iterate(f, i, cb) = Got(cb, i)
  <1>1. cb.head \in 0..N-1 /\ cb.count \in 0..N /\ N \in Nat \ {0}
    BY Size DEF Ring, Rings
  <1>2. CASE i = 0
    <2>1. Taken(cb, i) = 0
      BY <1>1, <1>2 DEF Taken, Available
    <2>2. Chars(cb, 0) = <<>>
      BY DEF Chars
    <2>3. Wrapped(cb.head + 0) = cb.head /\ cb.count - 0 = cb.count
      BY <1>1 DEF Wrapped
    <2>4. Without(cb, 0) = cb
      BY <2>3 DEF Without, Ring, Rings
    <2> QED BY <1>2, <2>1, <2>2, <2>4 DEF Got, Iterate
  <1>3. CASE i # 0
    <2>1. PICK k \in 0..cb.count : k = Taken(cb, i-1) /\ (k # 0 => ~is_full(cb))
      BY <1>3, TakenRange
    <2>2. Iterate(f, i, cb) =
            IF is_empty(Without(cb, k)) THEN Got(cb, i-1)
            ELSE [chars |-> Append(Chars(cb, k), Without(cb, k).mem[Without(cb, k).head]),
                  cb    |-> Consumed(Without(cb, k))]
      <3>1. f[i-1] = [chars |-> Chars(cb, k), cb |-> Without(cb, k)]
        BY <1>3, <2>1 DEF Got
      <3>2. f[i-1].chars = Chars(cb, k) /\ f[i-1].cb = Without(cb, k)
        BY <3>1
      <3> QED BY <1>3, <3>2 DEF Iterate
    <2>3. is_empty(Without(cb, k)) <=> k = cb.count \/ (k = 0 /\ is_full(cb))
      BY WithoutRing
    <2>4. CASE is_empty(Without(cb, k))
      <3>1. Taken(cb, i) = Taken(cb, i-1)
        BY <1>1, <1>3, <2>1, <2>3, <2>4 DEF Taken, Available
      <3> QED BY <2>2, <2>4, <3>1 DEF Got
    <2>5. CASE ~is_empty(Without(cb, k))
      <3>1. Taken(cb, i) = k+1 /\ k < cb.count
        BY <1>1, <1>3, <2>1, <2>3, <2>5 DEF Taken, Available
      <3>2. Consumed(Without(cb, k)) = Without(cb, k+1)
        BY <2>1, <3>1, WithoutRing
      <3>3. Without(cb, k).mem[Without(cb, k).head] = cb.mem[Wrapped(cb.head + k)]
        BY DEF Without
      <3>4. Append(Chars(cb, k), cb.mem[Wrapped(cb.head + k)]) = Chars(cb, k+1)
        BY <3>1, CharsAppend
      <3> QED BY <2>2, <2>5, <3>1, <3>2, <3>3, <3>4 DEF Got
    <2> QED BY <2>4, <2>5
  <1> QED BY <1>2, <1>3

(* get_character returns the first characters of the ring, in order, as    *)
(* many as there are and none when the ring is full, and removes them.     *)
LEMMA GetCharacter ==
  ASSUME NEW cb, Ring(cb), NEW size \in Nat
  PROVE  get_character(cb, size) = Got(cb, size)
  <1>1. PICK g : g = [i \in 0..size |-> Got(cb, i)]
    OBVIOUS
  <1>2. ASSUME NEW i \in 0..size PROVE g[i] = Iterate(g, i, cb)
    <2>1. i # 0 => g[i-1] = Got(cb, i-1)
      BY <1>1
    <2> QED BY <1>1, <2>1, GotIterates
  <1>3. g = [i \in 0..size |-> Iterate(g, i, cb)]
    BY <1>1, <1>2
  <1>4. PICK f : /\ f = [i \in 0..size |-> Iterate(f, i, cb)]
                 /\ get_character(cb, size) = f[size]
    BY <1>3, Zenon DEF get_character, Iterate
  <1> DEFINE I == {i \in Nat : i <= size => f[i] = Got(cb, i)}
  <1>5. 0 \in I
    <2>1. f[0] = Iterate(f, 0, cb)
      BY <1>4
    <2> QED BY <2>1, GotIterates
  <1>6. ASSUME NEW i \in Nat, i \in I PROVE i+1 \in I
    <2> SUFFICES ASSUME i+1 <= size PROVE f[i+1] = Got(cb, i+1)
      OBVIOUS
    <2>1. f[i+1] = Iterate(f, i+1, cb)
      BY <1>4
    <2>2. f[(i+1)-1] = Got(cb, (i+1)-1)
      BY <1>6
    <2> QED BY <2>1, <2>2, GotIterates
  <1>7. size \in I
    <2> HIDE DEF I
    <2> QED BY <1>5, <1>6, NatSetInduction
  <1> QED BY <1>4, <1>7
----------------------------------------------------------------------------
(* The characters of a ring, oldest first.                                 *)
All(cb) == Chars(cb, cb.count)

LEMMA CharsSeq ==
  ASSUME NEW cb, Ring(cb), NEW k \in Nat
  PROVE  /\ Chars(cb, k) \in Seq(Bytes) /\ Len(Chars(cb, k)) = k
         /\ \A j \in 1..k : Chars(cb, k)[j] = Item(cb, j)
  <1>1. cb.head \in 0..N-1 /\ cb.mem \in [0..N-1 -> Keys \cup {NUL}] /\ N \in Nat \ {0}
    BY Size DEF Ring, Rings
  <1>2. \A j \in 1..k : (cb.head + j - 1) % CIRC_BUFF_SIZE \in 0..N-1
    <2> TAKE j \in 1..k
    <2>1. PICK n \in Nat \ {0} : n = CIRC_BUFF_SIZE /\ n = N
      BY <1>1 DEF N
    <2>2. cb.head + j - 1 \in Int
      BY <1>1
    <2>3. (cb.head + j - 1) % n \in 0..n-1
      BY <2>1, <2>2
    <2> QED BY <2>1, <2>3
  <1>3. \A j \in 1..k : Item(cb, j) \in Bytes
    BY <1>1, <1>2 DEF Bytes, Item
  <1> QED BY <1>3 DEF Chars

(* A character that is saved follows the others.                           *)
LEMMA SaveCharacter ==
  ASSUME NEW cb, Ring(cb), NEW c \in Keys
  PROVE  /\ Ring(save_character(cb, c))
         /\ is_full(cb) => save_character(cb, c) = cb
         /\ ~is_full(cb) => /\ save_character(cb, c).count = cb.count + 1
                            /\ All(save_character(cb, c)) = Append(All(cb), c)
  <1>1. /\ cb.head \in 0..N-1 /\ cb.tail \in 0..N-1 /\ cb.count \in 0..N
        /\ cb.mem \in [0..N-1 -> Keys \cup {NUL}] /\ N \in Nat \ {0}
    BY Size DEF Ring, Rings
  <1>2. is_full(cb) <=> cb.count = N
    BY DEF is_full, N
  <1>3. ASSUME ~is_full(cb)
        PROVE  /\ Ring(save_character(cb, c))
               /\ save_character(cb, c).count = cb.count + 1
               /\ All(save_character(cb, c)) = Append(All(cb), c)
    <2>1. PICK s : s = save_character(cb, c)
      OBVIOUS
    <2>2. PICK a \in 0..N-1 : a = Advance(cb.tail) /\ a = Wrapped(cb.tail + 1)
      BY <1>1, AdvanceWrapped
    <2>3. s = [cb EXCEPT !.mem[cb.tail] = c, !.tail = a, !.count = cb.count + 1]
      BY <1>3, <2>1, <2>2 DEF save_character
    <2>4. cb.count + 1 \in 0..N
      BY <1>1, <1>2, <1>3
    <2>5. cb \in Rings
      BY DEF Ring
    <2>6. s \in Rings
      BY <1>1, <2>2, <2>3, <2>4, <2>5 DEF Rings
    <2>7. s.mem = [cb.mem EXCEPT ![cb.tail] = c] /\ s.tail = a
      BY <1>1, <2>2, <2>3, <2>4, <2>5 DEF Rings
    <2>8. s.head = cb.head /\ s.count = cb.count + 1
      BY <1>1, <2>2, <2>3, <2>4, <2>5 DEF Rings
    <2>9. PICK h \in 0..N-1, t \in 0..N-1, k \in 0..N, n \in Nat \ {0} :
            h = cb.head /\ t = cb.tail /\ k = cb.count /\ n = N
      BY <1>1
    <2>10. t - h = k \/ t - h = k - n
      BY <2>9 DEF Ring
    <2>11. k < n
      BY <1>2, <1>3, <2>9
    <2>12. a - h = k + 1 \/ a - h = k + 1 - n
      BY <2>2, <2>9, <2>10, <2>11 DEF Wrapped
    <2>13. Ring(s)
      BY <2>6, <2>7, <2>8, <2>9, <2>12 DEF Ring
    <2>14. ASSUME NEW j \in 1..k
           PROVE  /\ (h + j - 1) % CIRC_BUFF_SIZE = Wrapped(h + j - 1)
                  /\ Wrapped(h + j - 1) \in 0..N-1 /\ Wrapped(h + j - 1) # t
      <3>1. h + j - 1 \in 0 .. N+N-1
        BY <2>9, <2>11
      <3>2. Wrapped(h + j - 1) # t
        BY <2>9, <2>10, <2>11 DEF Wrapped
      <3> QED BY <3>1, <3>2, Modulus DEF N
    <2>15. Chars(s, k) = Chars(cb, k)
      <3>1. \A j \in 1..k : s.mem[Wrapped(h + j - 1)] = cb.mem[Wrapped(h + j - 1)]
        BY <1>1, <2>7, <2>9, <2>14
      <3>2. \A j \in 1..k : Item(s, j) = Item(cb, j)
        BY <2>8, <2>9, <2>14, <3>1 DEF Item
      <3> QED BY <3>2 DEF Chars
    <2>16. s.mem[Wrapped(s.head + k)] = c
      <3>1. Wrapped(h + k) = t
        BY <2>9, <2>10, <2>11 DEF Wrapped
      <3> QED BY <1>1, <2>7, <2>8, <2>9, <3>1
    <2>17. Append(Chars(s, k), s.mem[Wrapped(s.head + k)]) = Chars(s, k+1)
      BY <2>8, <2>9, <2>13, CharsAppend
    <2> QED BY <2>1, <2>8, <2>9, <2>13, <2>15, <2>16, <2>17 DEF All
  <1>4. CASE is_full(cb)
    BY <1>4 DEF save_character
  <1> QED BY <1>3, <1>4

(* What is left are the characters that have not been taken.               *)
LEMMA AllWithout ==
  ASSUME NEW cb, Ring(cb), NEW k \in 0 .. cb.count
  PROVE  /\ All(Without(cb, k)) = SubSeq(All(cb), k+1, cb.count)
         /\ Chars(cb, k) = SubSeq(All(cb), 1, k)
  <1>1. cb.head \in 0..N-1 /\ cb.count \in 0..N /\ N \in Nat \ {0}
    BY Size DEF Ring, Rings
  <1>2. /\ All(cb) \in Seq(Bytes) /\ Len(All(cb)) = cb.count
        /\ \A j \in 1..cb.count : All(cb)[j] = Item(cb, j)
    <2>1. cb.count \in Nat
      BY <1>1
    <2> QED BY <2>1, CharsSeq, Zenon DEF All
  <1>3. PICK w : w = Without(cb, k)
    OBVIOUS
  <1>4. Ring(w) /\ w.mem = cb.mem /\ w.count = cb.count - k /\ w.head = Wrapped(cb.head + k)
    BY <1>3, WithoutRing DEF Without
  <1>5. /\ All(w) \in Seq(Bytes) /\ Len(All(w)) = cb.count - k
        /\ \A j \in 1 .. cb.count - k : All(w)[j] = Item(w, j)
    <2>1. cb.count - k \in Nat
      BY <1>1
    <2> QED BY <1>4, <2>1, CharsSeq, Zenon DEF All
  <1>6. ASSUME NEW j \in 1 .. cb.count - k
        PROVE  Item(w, j) = Item(cb, k+j)
    <2>1. PICK h \in 0..N-1, c \in 0..N, n \in Nat \ {0} :
            h = cb.head /\ c = cb.count /\ n = N
      BY <1>1
    <2>2. Wrapped(h + k) \in 0..N-1
      BY <2>1 DEF Wrapped
    <2>3. Wrapped(h + k) + j - 1 \in 0 .. N+N-1 /\ h + (k+j) - 1 \in 0 .. N+N-1
      BY <2>1, <2>2
    <2>4. Wrapped(Wrapped(h + k) + j - 1) = Wrapped(h + (k+j) - 1)
      BY <2>1, <2>2 DEF Wrapped
    <2> QED BY <1>4, <2>1, <2>3, <2>4, Modulus DEF N, Item
  <1>7. All(w) = SubSeq(All(cb), k+1, cb.count)
    <2>1. PICK a, b, c : a = All(w) /\ b = All(cb) /\ c = cb.count
      OBVIOUS
    <2>2. \A j \in 1 .. c-k : a[j] = b[k+j]
      <3> TAKE j \in 1 .. c-k
      <3>1. k+j \in 1 .. cb.count
        BY <1>1, <2>1
      <3> QED BY <1>2, <1>5, <1>6, <2>1, <3>1
    <2>3. a \in Seq(Bytes) /\ b \in Seq(Bytes) /\ Len(a) = c-k /\ Len(b) = c
      BY <1>2, <1>5, <2>1
    <2>4. a = SubSeq(b, k+1, c)
      BY <1>1, <2>1, <2>2, <2>3
    <2> QED BY <2>1, <2>4
  <1>8. Chars(cb, k) = SubSeq(All(cb), 1, k)
    <2>1. PICK a, b, c : a = Chars(cb, k) /\ b = All(cb) /\ c = cb.count
      OBVIOUS
    <2>2. a \in Seq(Bytes) /\ Len(a) = k /\ \A j \in 1..k : a[j] = b[j]
      <3>1. a \in Seq(Bytes) /\ Len(a) = k /\ \A j \in 1..k : a[j] = Item(cb, j)
        <4>1. k \in Nat
          BY <1>1
        <4> QED BY <2>1, <4>1, CharsSeq, Zenon
      <3>2. \A j \in 1..k : j \in 1..cb.count
        BY <1>1
      <3> QED BY <1>2, <2>1, <3>1, <3>2
    <2>3. b \in Seq(Bytes) /\ Len(b) = c /\ k <= c
      BY <1>2, <2>1
    <2>4. a = SubSeq(b, 1, k)
      BY <2>2, <2>3
    <2> QED BY <2>1, <2>4
  <1> QED BY <1>3, <1>7, <1>8

----------------------------------------------------------------------------
(* What copy_to_user stores in an empty destination, and that a copy of 0  *)
(* bytes stores nothing.                                                   *)
LEMMA CopyFresh ==
  ASSUME NEW chars \in Seq(Bytes), NEW n \in Nat
  PROVE  /\ copy_to_user(chars, <<>>, 0, n) \in Seq(Bytes)
         /\ Len(chars) = n => copy_to_user(chars, <<>>, 0, n) = chars
  <1> DEFINE b(i) == IF i <= Len(chars) THEN chars[i] ELSE STALE
  <1>1. \A i \in 1..n : b(i) \in Bytes
    BY DEF Bytes
  <1>2. PICK s : s = [i \in 1..n |-> b(i)]
    OBVIOUS
  <1>3. s \in Seq(Bytes) /\ Len(s) = n /\ \A i \in 1..n : s[i] = b(i)
    <2> HIDE DEF b
    <2> QED BY <1>1, <1>2
  <1>4. SubSeq(<<>>, 1, 0) = <<>> /\ SubSeq(<<>>, 0+n+1, Len(<<>>)) = <<>>
    OBVIOUS
  <1>5. <<>> \o s \o <<>> = s
    BY <1>3
  <1>6. copy_to_user(chars, <<>>, 0, n) = s
    BY <1>2, <1>4, <1>5 DEF copy_to_user
  <1>7. Len(chars) = n => s = chars
    BY <1>3
  <1> QED BY <1>3, <1>6, <1>7

LEMMA CopyNothing ==
  ASSUME NEW dest \in Seq(Bytes)
  PROVE  copy_to_user(<<>>, dest, 0, 0) = dest
  <1>1. SubSeq(dest, 1, 0) = <<>> /\ SubSeq(dest, 0+0+1, Len(dest)) = dest
    OBVIOUS
  <1>2. [i \in 1..0 |-> IF i <= Len(<<>>) THEN <<>>[i] ELSE STALE] = <<>>
    OBVIOUS
  <1>3. <<>> \o <<>> \o dest = dest
    OBVIOUS
  <1> QED BY <1>1, <1>2, <1>3 DEF copy_to_user

(* The last part of the handler never gives anybody a character: it asks   *)
(* for them when the ring is full, when get_character finds none.          *)
LEMMA DrainsNothing ==
  ASSUME NEW t, NEW cb, Ring(cb), NEW left \in Nat, NEW dest \in Seq(Bytes),
         DrainFull(t, cb, left, 0, dest)
  PROVE  /\ circular_buffer' = cb
         /\ buff' = [buff EXCEPT ![t] = dest]
         /\ remain' = [remain EXCEPT ![t] = left]
         /\ offset' = [offset EXCEPT ![t] = 0]
  <1>1. CASE ~is_full(cb)
    BY <1>1 DEF DrainFull
  <1>2. CASE is_full(cb)
    <2>1. cb.count \in Nat /\ cb.head \in 0..N-1 /\ N \in Nat \ {0}
      BY Size DEF Ring, Rings
    <2>2. Taken(cb, cb.count) = 0
      BY <1>2, <2>1 DEF Taken, Available
    <2>3. Chars(cb, 0) = <<>>
      BY DEF Chars
    <2>4. Wrapped(cb.head + 0) = cb.head /\ cb.count - 0 = cb.count
      BY <2>1 DEF Wrapped
    <2>5. Without(cb, 0) = cb
      BY <2>4 DEF Without, Ring, Rings
    <2>6. get_character(cb, get_size(cb)) = [chars |-> <<>>, cb |-> cb]
      BY <2>1, <2>2, <2>3, <2>5, GetCharacter DEF Got, get_size
    <2>7. PICK g : g = get_character(cb, get_size(cb)) /\ g.chars = <<>> /\ g.cb = cb
      BY <2>6
    <2>8. Len(g.chars) = 0 /\ left - 0 = left /\ 0 + 0 = 0
      BY <2>7
    <2>9. /\ circular_buffer' = g.cb
          /\ buff' = [buff EXCEPT ![t] = copy_to_user(g.chars, dest, 0, Len(g.chars))]
          /\ remain' = [remain EXCEPT ![t] = left - Len(g.chars)]
          /\ offset' = [offset EXCEPT ![t] = 0 + Len(g.chars)]
      BY <1>2, <2>7, Zenon DEF DrainFull
    <2>10. copy_to_user(g.chars, dest, 0, Len(g.chars)) = dest
      BY <2>7, <2>8, CopyNothing
    <2> QED BY <2>7, <2>8, <2>9, <2>10
  <1> QED BY <1>1, <1>2
----------------------------------------------------------------------------
(* The inductive invariant: a task that waits has been given nothing yet,  *)
(* waits once, and the first one lacks keys.                               *)
Queued ==
  \A i, j \in 1..Len(keyboardqueue) : keyboardqueue[i] = keyboardqueue[j] => i = j

GivenNothing ==
  \A t \in Tasks : IF Blocked(t)
                   THEN eax[t] = NUMBER /\ offset[t] = 0 /\ buff[t] = <<>>
                   ELSE eax[t] # NUMBER

IInv == /\ TypeOK
        /\ Ring(circular_buffer)
        /\ Queued
        /\ GivenNothing
        /\ FirstReaderLacksKeys

(* What a step does, without the loops.                                    *)
ReadsNow(t, n) ==
  LET k == Taken(circular_buffer, n)
  IN  /\ keyboardqueue = <<>> /\ n <= circular_buffer.count
      /\ circular_buffer' = Without(circular_buffer, k)
      /\ buff' = [buff EXCEPT
                    ![t] = copy_to_user(Chars(circular_buffer, k), <<>>, 0, n)]
      /\ eax' = [eax EXCEPT ![t] = k]
      /\ UNCHANGED <<keyboardqueue, remain, offset>>

Blocks(t, n) ==
  /\ ~Blocked(t)
  /\ keyboardqueue # <<>> \/ n > circular_buffer.count
  /\ keyboardqueue' = Append(keyboardqueue, t)
  /\ remain' = [remain EXCEPT ![t] = n]
  /\ offset' = [offset EXCEPT ![t] = 0]
  /\ buff' = [buff EXCEPT ![t] = <<>>]
  /\ eax' = [eax EXCEPT ![t] = NUMBER]
  /\ UNCHANGED circular_buffer

Stores(cb) ==
  /\ keyboardqueue = <<>> \/ cb.count # remain[Head(keyboardqueue)]
  /\ circular_buffer' = cb
  /\ UNCHANGED <<keyboardqueue, remain, offset, buff, eax>>

Wakes(cb) ==
  LET t == Head(keyboardqueue)
      k == Taken(cb, cb.count)
  IN  /\ keyboardqueue # <<>> /\ cb.count = remain[t]
      /\ keyboardqueue' = Tail(keyboardqueue)
      /\ circular_buffer' = Without(cb, k)
      /\ buff' = [buff EXCEPT ![t] = copy_to_user(Chars(cb, k), <<>>, 0, cb.count)]
      /\ eax' = [eax EXCEPT ![t] = k]
      /\ remain' = [remain EXCEPT ![t] = 0]
      /\ offset' = [offset EXCEPT ![t] = 0]

(* The facts about the first reader and the ring that the steps need.      *)
LEMMA First ==
  ASSUME IInv, keyboardqueue # <<>>
  PROVE  /\ Head(keyboardqueue) \in Tasks
         /\ eax[Head(keyboardqueue)] = NUMBER
         /\ offset[Head(keyboardqueue)] = 0
         /\ buff[Head(keyboardqueue)] = <<>>
         /\ remain[Head(keyboardqueue)] \in Nat
  <1>1. /\ Head(keyboardqueue) \in Tasks
        /\ 1 \in 1..Len(keyboardqueue) /\ Head(keyboardqueue) = keyboardqueue[1]
    BY DEF IInv, TypeOK
  <1>2. Blocked(Head(keyboardqueue))
    BY <1>1 DEF Blocked
  <1>3. PICK t \in Tasks : t = Head(keyboardqueue)
    BY <1>1
  <1>4. remain[t] \in Nat
    <2>1. remain[t] \in Counts \cup {0}
      BY DEF IInv, TypeOK
    <2>2. 0 \in Nat
      OBVIOUS
    <2> QED BY <2>1, <2>2, Size, Zenon
  <1> QED BY <1>1, <1>2, <1>3, <1>4 DEF IInv, GivenNothing

LEMMA ReadSteps ==
  ASSUME IInv, NEW t \in Tasks, NEW n \in Counts, sys_read_keyboard(t, n)
  PROVE  ReadsNow(t, n) \/ Blocks(t, n)
  <1>1. n \in Nat /\ Ring(circular_buffer) /\ circular_buffer.count \in Nat
    BY Size DEF IInv, Ring, Rings
  <1>2. ReadAtOnce(n) <=> keyboardqueue = <<>> /\ n <= circular_buffer.count
    BY <1>1 DEF ReadAtOnce, get_size
  <1>3. CASE ReadAtOnce(n)
    <2>1. PICK k : k = Taken(circular_buffer, n)
      OBVIOUS
    <2>2. PICK g : g = get_character(circular_buffer, n)
      OBVIOUS
    <2>3. g = Got(circular_buffer, n)
      BY <1>1, <2>2, GetCharacter
    <2>4. g.chars = Chars(circular_buffer, k) /\ g.cb = Without(circular_buffer, k)
      BY <2>1, <2>3 DEF Got
    <2>5. Len(g.chars) = k
      <3>1. k \in Nat
        BY <1>1, <2>1, TakenRange
      <3> QED BY <1>1, <2>4, <3>1, CharsSeq
    <2>6. /\ circular_buffer' = g.cb
          /\ buff' = [buff EXCEPT ![t] = copy_to_user(g.chars, <<>>, 0, n)]
          /\ eax' = [eax EXCEPT ![t] = Len(g.chars)]
          /\ UNCHANGED <<keyboardqueue, remain, offset>>
      BY <1>3, <2>2, Zenon DEF sys_read_keyboard
    <2> QED BY <1>2, <1>3, <2>1, <2>4, <2>5, <2>6 DEF ReadsNow
  <1>4. CASE ~ReadAtOnce(n)
    <2>1. keyboardqueue # <<>> \/ n > circular_buffer.count
      BY <1>1, <1>2, <1>4
    <2> QED BY <1>4, <2>1, Zenon DEF sys_read_keyboard, Blocks
  <1> QED BY <1>3, <1>4

LEMMA KeySteps ==
  ASSUME IInv, NEW c \in Keys, keyboard_routine(c)
  PROVE  \/ Stores(save_character(circular_buffer, c))
         \/ Wakes(save_character(circular_buffer, c))
  <1>1. PICK s : s = save_character(circular_buffer, c)
    OBVIOUS
  <1>2. Ring(s) /\ s.count \in Nat
    <2>1. Ring(s)
      BY <1>1, SaveCharacter DEF IInv
    <2> QED BY <2>1, Size DEF Ring, Rings
  <1>3. CASE keyboardqueue = <<>>
    BY <1>1, <1>3 DEF keyboard_routine, Stores
  <1>4. CASE keyboardqueue # <<>>
    <2>1. PICK t \in Tasks : t = Head(keyboardqueue)
      BY <1>4, First
    <2>2. eax[t] = NUMBER /\ offset[t] = 0 /\ buff[t] = <<>> /\ remain[t] \in Nat
      BY <1>4, <2>1, First
    <2>3. CASE s.count = remain[t]
      <3>1. PICK k : k = Taken(s, s.count)
        OBVIOUS
      <3>2. PICK g : g = get_character(s, remain[t])
        OBVIOUS
      <3>3. g = Got(s, s.count)
        BY <1>2, <2>3, <3>2, GetCharacter
      <3>4. g.chars = Chars(s, k) /\ g.cb = Without(s, k)
        BY <3>1, <3>3 DEF Got
      <3>5. k \in 0..s.count /\ k \in Nat
        BY <1>2, <3>1, TakenRange
      <3>6. g.chars \in Seq(Bytes) /\ Len(g.chars) = k
        BY <1>2, <3>4, <3>5, CharsSeq
      <3>7. Ring(g.cb)
        BY <1>2, <3>4, <3>5, WithoutRing
      <3>8. PICK d : d = copy_to_user(g.chars, <<>>, 0, s.count)
        OBVIOUS
      <3>9. d \in Seq(Bytes)
        BY <1>2, <3>6, <3>8, CopyFresh
      <3>10. /\ eax' = [eax EXCEPT ![t] = offset[t] + Len(g.chars)]
             /\ keyboardqueue' = Tail(keyboardqueue)
             /\ DrainFull(t, g.cb, 0, 0,
                          copy_to_user(g.chars, buff[t], offset[t], remain[t]))
        BY <1>1, <1>4, <2>1, <2>3, <3>2, Zenon DEF keyboard_routine, get_size
      <3>11. copy_to_user(g.chars, buff[t], offset[t], remain[t]) = d
        BY <2>2, <2>3, <3>8, Zenon
      <3>12. DrainFull(t, g.cb, 0, 0, d)
        BY <3>10, <3>11
      <3>13. /\ circular_buffer' = g.cb
             /\ buff' = [buff EXCEPT ![t] = d]
             /\ remain' = [remain EXCEPT ![t] = 0]
             /\ offset' = [offset EXCEPT ![t] = 0]
        BY <3>7, <3>9, <3>12, DrainsNothing
      <3>14. offset[t] + Len(g.chars) = k
        BY <2>2, <3>5, <3>6
      <3> QED BY <1>1, <1>4, <2>1, <2>3, <3>1, <3>4, <3>8, <3>10, <3>13, <3>14, Zenon
              DEF Wakes
    <2>4. CASE s.count # remain[t]
      <3>1. /\ DrainFull(t, s, remain[t], offset[t], buff[t])
            /\ UNCHANGED <<keyboardqueue, eax>>
        BY <1>1, <1>4, <2>1, <2>4, Zenon DEF keyboard_routine, get_size
      <3>2. PICK d \in Seq(Bytes) : d = buff[t]
        BY <2>1 DEF IInv, TypeOK
      <3>3. DrainFull(t, s, remain[t], 0, d)
        BY <2>2, <3>1, <3>2
      <3>4. /\ circular_buffer' = s
            /\ buff' = [buff EXCEPT ![t] = d]
            /\ remain' = [remain EXCEPT ![t] = remain[t]]
            /\ offset' = [offset EXCEPT ![t] = 0]
        BY <1>2, <2>2, <3>2, <3>3, DrainsNothing
      <3>5. buff' = buff /\ remain' = remain /\ offset' = offset
        BY <2>2, <3>2, <3>4 DEF IInv, TypeOK
      <3> QED BY <1>1, <2>1, <2>4, <3>1, <3>4, <3>5 DEF Stores
    <2> QED BY <2>3, <2>4
  <1> QED BY <1>3, <1>4

----------------------------------------------------------------------------
(* Each of these steps keeps the invariant.                                *)
LEMMA ReadsNowKeeps ==
  ASSUME IInv, NEW t \in Tasks, NEW n \in Counts, ReadsNow(t, n)
  PROVE  IInv'
  <1>1. Ring(circular_buffer) /\ n \in Nat
    BY Size DEF IInv
  <1>2. PICK k \in Nat : k = Taken(circular_buffer, n) /\ k \in 0..circular_buffer.count
    BY <1>1, TakenRange
  <1>3. Ring(Without(circular_buffer, k)) /\ Chars(circular_buffer, k) \in Seq(Bytes)
    BY <1>1, <1>2, WithoutRing, CharsSeq
  <1>4. PICK d \in Seq(Bytes) : d = copy_to_user(Chars(circular_buffer, k), <<>>, 0, n)
    BY <1>1, <1>3, CopyFresh
  <1>5. /\ keyboardqueue = <<>> /\ circular_buffer' = Without(circular_buffer, k)
        /\ buff' = [buff EXCEPT ![t] = d] /\ eax' = [eax EXCEPT ![t] = k]
        /\ UNCHANGED <<keyboardqueue, remain, offset>>
    BY <1>2, <1>4 DEF ReadsNow
  <1>6. Ring(circular_buffer)'
    BY <1>3, <1>5 DEF Ring
  <1>7. TypeOK'
    <2>1. circular_buffer' \in Rings
      BY <1>6 DEF Ring
    <2>2. buff' \in [Tasks -> Seq(Bytes)] /\ eax' \in [Tasks -> Nat \cup {NUMBER}]
      BY <1>5 DEF IInv, TypeOK
    <2>3. /\ keyboardqueue' \in Seq(Tasks) /\ offset' \in [Tasks -> Nat]
          /\ remain' \in [Tasks -> Counts \cup {0}]
      BY <1>5 DEF IInv, TypeOK
    <2> QED BY <2>1, <2>2, <2>3 DEF TypeOK, Rings, N
  <1>8. GivenNothing'
    <2> SUFFICES ASSUME NEW u \in Tasks PROVE ~Blocked(u)' /\ eax'[u] # NUMBER
      BY DEF GivenNothing
    <2>1. ~Blocked(u) /\ ~Blocked(u)'
      BY <1>5 DEF Blocked
    <2>2. eax[u] # NUMBER
      BY <2>1 DEF IInv, GivenNothing
    <2>3. eax'[u] = k \/ eax'[u] = eax[u]
      BY <1>5 DEF IInv, TypeOK
    <2> QED BY <2>1, <2>2, <2>3 DEF NUMBER
  <1>9. Queued' /\ FirstReaderLacksKeys'
    BY <1>5 DEF IInv, Queued, FirstReaderLacksKeys
  <1> QED BY <1>6, <1>7, <1>8, <1>9 DEF IInv

LEMMA BlocksKeeps ==
  ASSUME IInv, NEW t \in Tasks, NEW n \in Counts, Blocks(t, n)
  PROVE  IInv'
  <1>1. PICK q \in Seq(Tasks) : q = keyboardqueue
    BY DEF IInv, TypeOK
  <1>2. PICK p \in Seq(Tasks) : p = keyboardqueue'
    <2>1. Append(q, t) \in Seq(Tasks)
      OBVIOUS
    <2> QED BY <1>1, <2>1 DEF Blocks
  <1>3. /\ Len(p) = Len(q) + 1 /\ p[Len(q)+1] = t /\ Len(q) \in Nat
        /\ \A i \in 1..Len(q) : p[i] = q[i]
    BY <1>1, <1>2 DEF Blocks
  <1>4. \A i \in 1..Len(q) : q[i] # t
    BY <1>1 DEF Blocks, Blocked
  <1>5. Ring(circular_buffer)'
    BY DEF Blocks, IInv, Ring
  <1>6. TypeOK'
    BY <1>2, <1>5 DEF Blocks, IInv, TypeOK
  <1>7. Queued'
    <2> SUFFICES ASSUME NEW i \in 1..Len(p), NEW j \in 1..Len(p), p[i] = p[j]
                 PROVE  i = j
      BY <1>2 DEF Queued
    <2>1. \A x, y \in 1..Len(q) : q[x] = q[y] => x = y
      BY <1>1 DEF IInv, Queued
    <2>2. (i \in 1..Len(q) \/ i = Len(q)+1) /\ (j \in 1..Len(q) \/ j = Len(q)+1)
      BY <1>3
    <2> QED BY <1>3, <1>4, <2>1, <2>2
  <1>8. GivenNothing'
    <2> SUFFICES ASSUME NEW u \in Tasks
                 PROVE  IF Blocked(u)'
                        THEN eax'[u] = NUMBER /\ offset'[u] = 0 /\ buff'[u] = <<>>
                        ELSE eax'[u] # NUMBER
      BY DEF GivenNothing
    <2>1. CASE u = t
      <3>1. Blocked(u)'
        BY <1>2, <1>3, <2>1 DEF Blocked
      <3>2. eax'[u] = NUMBER /\ offset'[u] = 0 /\ buff'[u] = <<>>
        BY <2>1 DEF Blocks, IInv, TypeOK
      <3> QED BY <3>1, <3>2
    <2>2. CASE u # t
      <3>1. Blocked(u)' <=> Blocked(u)
        <4>1. \A i \in 1..Len(p) : i \in 1..Len(q) \/ i = Len(q)+1
          BY <1>3
        <4>2. \A i \in 1..Len(q) : i \in 1..Len(p)
          BY <1>3
        <4> QED BY <1>1, <1>2, <1>3, <2>2, <4>1, <4>2 DEF Blocked
      <3>2. eax'[u] = eax[u] /\ offset'[u] = offset[u] /\ buff'[u] = buff[u]
        BY <2>2 DEF Blocks, IInv, TypeOK
      <3> QED BY <3>1, <3>2 DEF IInv, GivenNothing
    <2> QED BY <2>1, <2>2
  <1>9. FirstReaderLacksKeys'
    <2>1. p # <<>> /\ Head(p) = p[1]
      BY <1>3
    <2>2. circular_buffer' = circular_buffer
      BY DEF Blocks
    <2>3. CASE q = <<>>
      <3>1. Head(p) = t /\ remain'[t] = n
        BY <1>3, <2>1, <2>3 DEF Blocks, IInv, TypeOK
      <3>2. n > circular_buffer.count /\ n \in Nat /\ circular_buffer.count \in Nat
        BY <1>1, <2>3, Size DEF Blocks, IInv, Ring, Rings
      <3>3. circular_buffer.count < n
        BY <3>2
      <3> QED BY <1>2, <2>2, <3>1, <3>3 DEF FirstReaderLacksKeys, get_size
    <2>4. CASE q # <<>>
      <3>1. 1 \in 1..Len(q) /\ Head(q) = q[1]
        BY <2>4
      <3>2. Head(p) = Head(q) /\ Head(q) # t /\ Head(q) \in Tasks
        BY <1>3, <1>4, <2>1, <3>1
      <3>3. remain'[Head(q)] = remain[Head(q)]
        BY <3>2 DEF Blocks, IInv, TypeOK
      <3> QED BY <1>1, <1>2, <2>2, <2>4, <3>2, <3>3
              DEF IInv, FirstReaderLacksKeys, get_size, is_full
    <2> QED BY <2>3, <2>4
  <1> QED BY <1>5, <1>6, <1>7, <1>8, <1>9 DEF IInv

LEMMA StoresKeeps ==
  ASSUME IInv, NEW c \in Keys, Stores(save_character(circular_buffer, c))
  PROVE  IInv'
  <1>1. PICK s : s = save_character(circular_buffer, c)
    OBVIOUS
  <1>2. /\ Ring(s)
        /\ is_full(circular_buffer) => s = circular_buffer
        /\ ~is_full(circular_buffer) => s.count = circular_buffer.count + 1
    BY <1>1, SaveCharacter DEF IInv
  <1>3. /\ circular_buffer' = s
        /\ UNCHANGED <<keyboardqueue, remain, offset, buff, eax>>
        /\ keyboardqueue = <<>> \/ s.count # remain[Head(keyboardqueue)]
    BY <1>1 DEF Stores
  <1>4. Ring(circular_buffer)'
    BY <1>2, <1>3 DEF Ring
  <1>5. TypeOK'
    <2>1. circular_buffer' \in Rings
      BY <1>4 DEF Ring
    <2> QED BY <1>3, <2>1 DEF IInv, TypeOK, Rings, N
  <1>6. Queued' /\ GivenNothing'
    BY <1>3 DEF IInv, Queued, GivenNothing, Blocked
  <1>7. FirstReaderLacksKeys'
    <2> SUFFICES ASSUME keyboardqueue # <<>>, ~is_full(s),
                        remain[Head(keyboardqueue)] \in 1 .. CIRC_BUFF_SIZE-1
                 PROVE  s.count < remain[Head(keyboardqueue)]
      BY <1>3 DEF FirstReaderLacksKeys, get_size
    <2>1. ~is_full(circular_buffer)
      BY <1>2
    <2>2. circular_buffer.count < remain[Head(keyboardqueue)]
      BY <2>1 DEF IInv, FirstReaderLacksKeys, get_size
    <2>3. s.count = circular_buffer.count + 1 /\ circular_buffer.count \in Nat
      BY <1>2, <2>1, Size DEF IInv, Ring, Rings
    <2>4. s.count # remain[Head(keyboardqueue)]
      BY <1>3
    <2> QED BY <2>2, <2>3, <2>4, Size
  <1> QED BY <1>4, <1>5, <1>6, <1>7 DEF IInv

LEMMA WakesKeeps ==
  ASSUME IInv, NEW c \in Keys, Wakes(save_character(circular_buffer, c))
  PROVE  IInv'
  <1>1. PICK s : s = save_character(circular_buffer, c)
    OBVIOUS
  <1>2. Ring(s) /\ s.count \in Nat /\ N \in Nat \ {0}
    <2>1. Ring(s)
      BY <1>1, SaveCharacter DEF IInv
    <2> QED BY <2>1, Size DEF Ring, Rings
  <1>3. PICK k \in Nat : k = Taken(s, s.count) /\ k \in 0..s.count
    BY <1>2, TakenRange
  <1>4. Ring(Without(s, k)) /\ Chars(s, k) \in Seq(Bytes)
    BY <1>2, <1>3, WithoutRing, CharsSeq
  <1>5. PICK d \in Seq(Bytes) : d = copy_to_user(Chars(s, k), <<>>, 0, s.count)
    BY <1>2, <1>4, CopyFresh
  <1>6. PICK q \in Seq(Tasks) : q = keyboardqueue /\ q # <<>>
    BY <1>1 DEF Wakes, IInv, TypeOK
  <1>7. PICK t \in Tasks : t = Head(q) /\ t = q[1]
    BY <1>6
  <1>8. PICK p \in Seq(Tasks) : p = Tail(q)
    <2>1. Tail(q) \in Seq(Tasks)
      BY <1>6
    <2> QED BY <2>1
  <1>9. /\ keyboardqueue' = p /\ circular_buffer' = Without(s, k)
        /\ buff' = [buff EXCEPT ![t] = d] /\ eax' = [eax EXCEPT ![t] = k]
        /\ remain' = [remain EXCEPT ![t] = 0] /\ offset' = [offset EXCEPT ![t] = 0]
    BY <1>1, <1>3, <1>5, <1>6, <1>7, <1>8 DEF Wakes
  <1>10. /\ Len(q) \in Nat \ {0} /\ Len(p) = Len(q) - 1
         /\ \A i \in 1..Len(p) : p[i] = q[i+1]
    BY <1>6, <1>8
  <1>11. \A i, j \in 1..Len(q) : q[i] = q[j] => i = j
    BY <1>6 DEF IInv, Queued
  <1>12. Ring(circular_buffer)'
    BY <1>4, <1>9 DEF Ring
  <1>13. TypeOK'
    <2>1. circular_buffer' \in Rings
      BY <1>12 DEF Ring
    <2> QED BY <1>9, <2>1 DEF IInv, TypeOK, Rings, N
  <1>14. Queued'
    <2> SUFFICES ASSUME NEW i \in 1..Len(p), NEW j \in 1..Len(p), p[i] = p[j]
                 PROVE  i = j
      BY <1>9 DEF Queued
    <2>1. i+1 \in 1..Len(q) /\ j+1 \in 1..Len(q) /\ q[i+1] = q[j+1]
      BY <1>10
    <2>2. i+1 = j+1
      BY <1>11, <2>1
    <2> QED BY <2>2
  <1>15. GivenNothing'
    <2> SUFFICES ASSUME NEW u \in Tasks
                 PROVE  IF Blocked(u)'
                        THEN eax'[u] = NUMBER /\ offset'[u] = 0 /\ buff'[u] = <<>>
                        ELSE eax'[u] # NUMBER
      BY DEF GivenNothing
    <2>1. CASE u = t
      <3>1. ~Blocked(u)'
        <4> SUFFICES ASSUME NEW i \in 1..Len(p), p[i] = t PROVE FALSE
          BY <1>9, <2>1 DEF Blocked
        <4>1. i+1 \in 1..Len(q) /\ 1 \in 1..Len(q) /\ q[i+1] = q[1]
          BY <1>7, <1>10
        <4>2. i+1 = 1
          BY <1>11, <4>1
        <4> QED BY <4>2
      <3>2. eax'[u] = k
        BY <1>9, <2>1 DEF IInv, TypeOK
      <3> QED BY <3>1, <3>2 DEF NUMBER
    <2>2. CASE u # t
      <3>1. Blocked(u)' <=> Blocked(u)
        <4>1. \A i \in 1..Len(q) : i = 1 \/ (i-1 \in 1..Len(p) /\ p[i-1] = q[i])
          BY <1>10
        <4>2. \A i \in 1..Len(p) : i+1 \in 1..Len(q) /\ p[i] = q[i+1]
          BY <1>10
        <4>3. Blocked(u)' <=> \E i \in 1..Len(p) : p[i] = u
          BY <1>9 DEF Blocked
        <4>4. Blocked(u) <=> \E i \in 1..Len(q) : q[i] = u
          BY <1>6 DEF Blocked
        <4>5. ASSUME NEW i \in 1..Len(q), q[i] = u PROVE \E j \in 1..Len(p) : p[j] = u
          BY <1>7, <2>2, <4>1, <4>5
        <4>6. ASSUME NEW i \in 1..Len(p), p[i] = u PROVE \E j \in 1..Len(q) : q[j] = u
          BY <4>2, <4>6
        <4> QED BY <4>3, <4>4, <4>5, <4>6
      <3>2. eax'[u] = eax[u] /\ offset'[u] = offset[u] /\ buff'[u] = buff[u]
        BY <1>9, <2>2 DEF IInv, TypeOK
      <3> QED BY <3>1, <3>2 DEF IInv, GivenNothing
    <2> QED BY <2>1, <2>2
  <1>16. FirstReaderLacksKeys'
    <2> SUFFICES ASSUME ~is_full(Without(s, k)) PROVE Without(s, k).count = 0
      BY <1>2, <1>9 DEF FirstReaderLacksKeys, get_size
    <2>1. Without(s, k).count = s.count - k
      BY DEF Without
    <2>2. k = s.count \/ k = 0
      BY <1>2, <1>3 DEF Taken, Available
    <2>3. ~is_full(s)
      <3>1. CASE k = 0
        BY <1>2, <2>1, <3>1 DEF is_full
      <3>2. CASE k # 0
        BY <1>2, <1>3, <3>2, TakenRange
      <3> QED BY <3>1, <3>2
    <2>4. k = s.count
      BY <1>2, <1>3, <2>3 DEF Taken, Available
    <2> QED BY <1>2, <2>1, <2>4
  <1> QED BY <1>12, <1>13, <1>14, <1>15, <1>16 DEF IInv

----------------------------------------------------------------------------
(* Each of these steps is a step of Terminal.                              *)
LEMMA ContentsAll ==
  /\ Contents = All(circular_buffer)
  /\ Contents' = All(circular_buffer')
  BY DEF Contents, All, Chars, Item

LEMMA ContentsSeq ==
  ASSUME Ring(circular_buffer)
  PROVE  Contents \in Seq(Bytes) /\ Len(Contents) = circular_buffer.count
  <1>1. circular_buffer.count \in Nat
    BY Size DEF Ring, Rings
  <1> QED BY <1>1, CharsSeq, ContentsAll, Zenon DEF All

(* The result of one reader changes.                                       *)
LEMMA ReceivedBy ==
  ASSUME IInv, NEW t \in Tasks, NEW k \in Nat, NEW d \in Seq(Bytes), Len(d) = k,
         eax' = [eax EXCEPT ![t] = k], buff' = [buff EXCEPT ![t] = d]
  PROVE  Received' = [Received EXCEPT ![t] = d]
  <1>1. eax'[t] = k /\ buff'[t] = d /\ k # NUMBER
    BY DEF IInv, TypeOK, NUMBER
  <1>2. SubSeq(d, 1, k) = d
    OBVIOUS
  <1>3. \A u \in Tasks : u # t => eax'[u] = eax[u] /\ buff'[u] = buff[u]
    BY DEF IInv, TypeOK
  <1> DEFINE r(u) == IF eax[u] = NUMBER THEN <<>> ELSE SubSeq(buff[u], 1, eax[u])
             s(u) == IF eax'[u] = NUMBER THEN <<>> ELSE SubSeq(buff'[u], 1, eax'[u])
  <1>4. s(t) = d
    BY <1>1, <1>2
  <1>5. \A u \in Tasks : u # t => s(u) = r(u)
    BY <1>3
  <1>6. Received = [u \in Tasks |-> r(u)] /\ Received' = [u \in Tasks |-> s(u)]
    BY DEF Received
  <1> HIDE DEF r, s
  <1> QED BY <1>4, <1>5, <1>6

LEMMA ReadsNowPromised ==
  ASSUME IInv, NEW t \in Tasks, NEW n \in Counts, ReadsNow(t, n)
  PROVE  Promise!Next
  <1>1. /\ Ring(circular_buffer) /\ n \in Nat
        /\ circular_buffer.count \in 0..N /\ N \in Nat \ {0}
    BY Size DEF IInv, Ring, Rings
  <1>2. PICK k \in Nat : k = Taken(circular_buffer, n) /\ k \in 0..circular_buffer.count
    BY <1>1, TakenRange
  <1>3. circular_buffer' = Without(circular_buffer, k)
    BY <1>2 DEF ReadsNow
  <1>4. circular_buffer'.count = circular_buffer.count - k
    BY <1>3 DEF Without
  <1>5. CASE is_full(circular_buffer)
    <2>1. k = 0
      BY <1>1, <1>2, <1>5 DEF Taken, Available
    <2>2. is_full(circular_buffer)'
      BY <1>1, <1>4, <1>5, <2>1 DEF is_full
    <2> QED BY <1>5, <2>2 DEF Promise!Next, Promise!StayJammed
  <1>6. CASE ~is_full(circular_buffer)
    <2>1. k = n
      BY <1>1, <1>2, <1>6 DEF Taken, Available, ReadsNow
    <2>2. ~is_full(circular_buffer)'
      BY <1>1, <1>2, <1>4, <1>6 DEF is_full, N
    <2>3. Chars(circular_buffer, n) \in Seq(Bytes) /\ Len(Chars(circular_buffer, n)) = n
      BY <1>1, CharsSeq, Zenon
    <2>4. PICK d \in Seq(Bytes) : d = Chars(circular_buffer, n) /\ Len(d) = n
      BY <2>3
    <2>5. buff' = [buff EXCEPT ![t] = d] /\ eax' = [eax EXCEPT ![t] = n]
      <3>1. copy_to_user(d, <<>>, 0, n) = d
        BY <1>1, <2>4, CopyFresh
      <3> QED BY <1>2, <2>1, <2>4, <3>1 DEF ReadsNow
    <2>6. Received' = [Received EXCEPT ![t] = d]
      BY <1>1, <2>4, <2>5, ReceivedBy
    <2>7. /\ d = SubSeq(Contents, 1, n)
          /\ Contents' = SubSeq(Contents, n+1, Len(Contents))
          /\ n \in 0 .. Len(Contents)
      <3>1. /\ All(Without(circular_buffer, k))
                 = SubSeq(All(circular_buffer), k+1, circular_buffer.count)
            /\ Chars(circular_buffer, k) = SubSeq(All(circular_buffer), 1, k)
        BY <1>1, <1>2, AllWithout
      <3>2. Len(Contents) = circular_buffer.count
        BY <1>1, ContentsSeq
      <3> QED BY <1>2, <1>3, <2>1, <2>4, <3>1, <3>2, ContentsAll
    <2>8. Waiting = <<>> /\ Waiting' = <<>>
      BY DEF ReadsNow, Waiting
    <2>9. n <= Len(Contents)
      BY <2>7
    <2>10. Promise!Take(t, n)
      BY <1>6, <2>2, <2>6, <2>7, <2>8, <2>9 DEF Promise!Take
    <2> QED BY <2>7, <2>10 DEF Promise!Next
  <1> QED BY <1>5, <1>6

LEMMA BlocksPromised ==
  ASSUME IInv, NEW t \in Tasks, NEW n \in Counts, Blocks(t, n)
  PROVE  Promise!Next
  <1>1. /\ Ring(circular_buffer) /\ n \in Nat
        /\ circular_buffer' = circular_buffer
    BY Size DEF IInv, Blocks
  <1>2. CASE is_full(circular_buffer)
    <2>1. is_full(circular_buffer)'
      BY <1>1, <1>2 DEF is_full
    <2> QED BY <1>2, <2>1 DEF Promise!Next, Promise!StayJammed
  <1>3. CASE ~is_full(circular_buffer)
    <2>1. ~is_full(circular_buffer)'
      BY <1>1, <1>3 DEF is_full
    <2>2. PICK q \in Seq(Tasks) : q = keyboardqueue
      BY DEF IInv, TypeOK
    <2>3. PICK p \in Seq(Tasks) : p = keyboardqueue'
      <3>1. Append(q, t) \in Seq(Tasks)
        OBVIOUS
      <3> QED BY <2>2, <3>1 DEF Blocks
    <2>4. /\ Len(p) = Len(q) + 1 /\ p[Len(q)+1] = t /\ Len(q) \in Nat
          /\ \A i \in 1..Len(q) : p[i] = q[i] /\ q[i] # t /\ q[i] \in Tasks
      BY <2>2, <2>3 DEF Blocks, Blocked
    <2> DEFINE w(i) == [task |-> q[i], size |-> remain[q[i]]]
               v(i) == [task |-> p[i], size |-> remain'[p[i]]]
    <2>5. Waiting = [i \in 1..Len(q) |-> w(i)] /\ Waiting' = [i \in 1..Len(p) |-> v(i)]
      BY <2>2, <2>3 DEF Waiting
    <2>6. \A i \in 1..Len(q) : v(i) = w(i)
      BY <2>4 DEF Blocks, IInv, TypeOK
    <2>7. v(Len(q)+1) = [task |-> t, size |-> n]
      BY <2>4 DEF Blocks, IInv, TypeOK
    <2>8. /\ Waiting' = Append(Waiting, [task |-> t, size |-> n])
          /\ Waiting' # <<>> /\ Waiting'[Len(Waiting')] = [task |-> t, size |-> n]
      <3> HIDE DEF w, v
      <3>1. Len([i \in 1..Len(q) |-> w(i)]) = Len(q) /\ Len([i \in 1..Len(p) |-> v(i)]) = Len(p)
        BY <2>4
      <3>2. [i \in 1..Len(p) |-> v(i)]
              = Append([i \in 1..Len(q) |-> w(i)], [task |-> t, size |-> n])
        BY <2>4, <2>6, <2>7, <3>1
      <3>3. [i \in 1..Len(p) |-> v(i)][Len(p)] = v(Len(p)) /\ [i \in 1..Len(p) |-> v(i)] # <<>>
        BY <2>4
      <3> QED BY <2>4, <2>5, <2>7, <3>1, <3>2, <3>3
    <2>9. Waiting # <<>> \/ n > Len(Contents)
      <3>1. CASE keyboardqueue # <<>>
        <4>1. Len(q) # 0
          BY <2>2, <3>1
        <4> QED BY <2>4, <2>5, <4>1
      <3>2. CASE n > circular_buffer.count
        BY <1>1, <3>2, ContentsSeq
      <3> QED BY <3>1, <3>2 DEF Blocks
    <2>10. ~Promise!IsWaiting(t)
      <3> SUFFICES ASSUME NEW i \in 1..Len(Waiting), Waiting[i].task = t PROVE FALSE
        BY DEF Promise!IsWaiting
      <3>1. Len(Waiting) = Len(q)
        <4> HIDE DEF w
        <4> QED BY <2>4, <2>5
      <3>2. Waiting[i] = w(i)
        <4> HIDE DEF w
        <4> QED BY <2>5, <3>1
      <3> QED BY <2>4, <3>1, <3>2
    <2>11. Received' = [Received EXCEPT ![t] = <<>>]
      <3>1. eax'[t] = NUMBER
        BY DEF Blocks, IInv, TypeOK
      <3>2. \A u \in Tasks : u # t => eax'[u] = eax[u] /\ buff'[u] = buff[u]
        BY DEF Blocks, IInv, TypeOK
      <3> QED BY <3>1, <3>2 DEF Received
    <2>12. Contents' = Contents
      BY <1>1, ContentsAll
    <2>13. Waiting'[Len(Waiting')].size = n
      BY <2>8
    <2>14. Promise!Wait(t, n)
      BY <1>3, <2>1, <2>8, <2>9, <2>10, <2>11, <2>12 DEF Promise!Wait
    <2>15. Promise!Wait(t, Waiting'[Len(Waiting')].size)
      BY <2>13, <2>14
    <2> QED BY <2>8, <2>15 DEF Promise!Next
  <1> QED BY <1>2, <1>3

(* A key that fills the ring jams the terminal; a ring once full stays so. *)
LEMMA FullPromised ==
  ASSUME IInv, NEW c \in Keys, is_full(save_character(circular_buffer, c)),
         is_full(circular_buffer)'
  PROVE  Promise!Next
  <1>1. CASE is_full(circular_buffer)
    BY <1>1 DEF Promise!Next, Promise!StayJammed
  <1>2. CASE ~is_full(circular_buffer)
    <2>1. save_character(circular_buffer, c).count = circular_buffer.count + 1
      BY <1>2, SaveCharacter DEF IInv
    <2>2. circular_buffer.count \in Nat /\ CIRC_BUFF_SIZE \in Nat
      BY Size DEF IInv, Ring, Rings, N
    <2>3. Len(Contents) = CIRC_BUFF_SIZE - 1
      BY <2>1, <2>2, ContentsSeq DEF is_full, IInv
    <2> QED BY <1>2, <2>3 DEF Promise!Next, Promise!Jam
  <1> QED BY <1>1, <1>2

LEMMA StoresPromised ==
  ASSUME IInv, NEW c \in Keys, Stores(save_character(circular_buffer, c))
  PROVE  Promise!Next
  <1>1. circular_buffer' = save_character(circular_buffer, c)
    BY DEF Stores
  <1>2. CASE is_full(save_character(circular_buffer, c))
    BY <1>1, <1>2, FullPromised DEF is_full
  <1>3. CASE ~is_full(save_character(circular_buffer, c))
    <2>1. ~is_full(circular_buffer) /\ ~is_full(circular_buffer)'
      BY <1>1, <1>3, SaveCharacter DEF IInv, is_full
    <2>2. Contents' = Append(Contents, c)
      BY <1>1, <2>1, SaveCharacter, ContentsAll DEF IInv
    <2>3. Waiting' = Waiting /\ Received' = Received
      BY DEF Stores, Waiting, Received
    <2>4. ~Promise!Completes(Len(Contents) + 1)
      <3> SUFFICES ASSUME Waiting # <<>>, Head(Waiting).size = Len(Contents) + 1
                   PROVE  FALSE
        BY DEF Promise!Completes
      <3>1. PICK q \in Seq(Tasks) : q = keyboardqueue
        BY DEF IInv, TypeOK
      <3> DEFINE w(i) == [task |-> q[i], size |-> remain[q[i]]]
      <3>2. Waiting = [i \in 1..Len(q) |-> w(i)]
        BY <3>1 DEF Waiting
      <3>3. q # <<>> /\ Head(Waiting) = w(1)
        <4> HIDE DEF w
        <4> QED BY <3>2
      <3>4. remain[Head(q)] = Len(Contents) + 1
        BY <3>3
      <3>5. Len(Contents) = circular_buffer.count
        BY ContentsSeq DEF IInv
      <3>6. save_character(circular_buffer, c).count = circular_buffer.count + 1
        BY <2>1, SaveCharacter DEF IInv
      <3> QED BY <3>1, <3>3, <3>4, <3>5, <3>6 DEF Stores
    <2>5. Promise!Type(c)
      BY <2>1, <2>2, <2>3, <2>4 DEF Promise!Type
    <2> QED BY <2>5 DEF Promise!Next
  <1> QED BY <1>2, <1>3

LEMMA WakesPromised ==
  ASSUME IInv, NEW c \in Keys, Wakes(save_character(circular_buffer, c))
  PROVE  Promise!Next
  <1>1. PICK s : s = save_character(circular_buffer, c)
    OBVIOUS
  <1>2. Ring(s) /\ s.count \in 0..N /\ N \in Nat \ {0}
    <2>1. Ring(s)
      BY <1>1, SaveCharacter DEF IInv
    <2> QED BY <2>1, Size DEF Ring, Rings
  <1>3. PICK k \in Nat : k = Taken(s, s.count) /\ k \in 0..s.count
    BY <1>2, TakenRange
  <1>4. circular_buffer' = Without(s, k)
    BY <1>1, <1>3 DEF Wakes
  <1>5. circular_buffer'.count = s.count - k
    BY <1>4 DEF Without
  <1>6. CASE is_full(s)
    <2>1. k = 0
      BY <1>2, <1>3, <1>6 DEF Taken, Available
    <2>2. is_full(circular_buffer)'
      BY <1>2, <1>5, <1>6, <2>1 DEF is_full
    <2> QED BY <1>1, <1>6, <2>2, FullPromised
  <1>7. CASE ~is_full(s)
    <2>1. k = s.count /\ circular_buffer'.count = 0
      BY <1>2, <1>3, <1>5, <1>7 DEF Taken, Available
    <2>2. ~is_full(circular_buffer) /\ ~is_full(circular_buffer)'
      <3>1. ~is_full(circular_buffer)
        BY <1>1, <1>7, SaveCharacter DEF IInv
      <3>2. ~is_full(circular_buffer)'
        BY <1>2, <2>1 DEF is_full, N
      <3> QED BY <3>1, <3>2
    <2>3. All(s) = Append(Contents, c) /\ s.count = circular_buffer.count + 1
      BY <1>1, <2>2, SaveCharacter, ContentsAll DEF IInv
    <2>4. Contents' = <<>>
      BY <2>1 DEF Contents
    <2>5. PICK q \in Seq(Tasks) : q = keyboardqueue /\ q # <<>>
      BY <1>1 DEF Wakes, IInv, TypeOK
    <2>6. PICK t \in Tasks : t = Head(q) /\ t = q[1]
      BY <2>5
    <2>7. PICK p \in Seq(Tasks) : p = Tail(q)
      <3>1. Tail(q) \in Seq(Tasks)
        BY <2>5
      <3> QED BY <3>1
    <2>8. PICK d \in Seq(Bytes) : d = Chars(s, k) /\ Len(d) = k /\ d = Append(Contents, c)
      <3>1. Chars(s, k) \in Seq(Bytes) /\ Len(Chars(s, k)) = k
        BY <1>2, <1>3, CharsSeq, Zenon
      <3> QED BY <2>1, <2>3, <3>1 DEF All
    <2>9. /\ keyboardqueue' = p /\ s.count = remain[t]
          /\ buff' = [buff EXCEPT ![t] = d] /\ eax' = [eax EXCEPT ![t] = k]
          /\ remain' = [remain EXCEPT ![t] = 0]
      <3>1. copy_to_user(d, <<>>, 0, k) = d
        BY <2>8, CopyFresh
      <3> QED BY <1>1, <1>3, <2>1, <2>5, <2>6, <2>7, <2>8, <3>1 DEF Wakes
    <2>10. Received' = [Received EXCEPT ![t] = d]
      BY <2>8, <2>9, ReceivedBy
    <2> DEFINE w(i) == [task |-> q[i], size |-> remain[q[i]]]
               v(i) == [task |-> p[i], size |-> remain'[p[i]]]
    <2>11. Waiting = [i \in 1..Len(q) |-> w(i)] /\ Waiting' = [i \in 1..Len(p) |-> v(i)]
      BY <2>5, <2>9 DEF Waiting
    <2>12. /\ Len(q) \in Nat \ {0} /\ Len(p) = Len(q) - 1
           /\ \A i \in 1..Len(p) : p[i] = q[i+1] /\ p[i] # t /\ p[i] \in Tasks
      <3>1. /\ Len(q) \in Nat \ {0} /\ Len(p) = Len(q) - 1
            /\ \A i \in 1..Len(p) : p[i] = q[i+1] /\ p[i] \in Tasks
        BY <2>5, <2>7
      <3>2. \A i, j \in 1..Len(q) : q[i] = q[j] => i = j
        BY <2>5 DEF IInv, Queued
      <3>3. ASSUME NEW i \in 1..Len(p) PROVE p[i] # t
        <4>1. i+1 \in 1..Len(q) /\ 1 \in 1..Len(q) /\ i+1 # 1
          BY <3>1
        <4> QED BY <2>6, <3>1, <3>2, <4>1
      <3> QED BY <3>1, <3>3
    <2>13. \A i \in 1..Len(p) : v(i) = w(i+1)
      BY <2>9, <2>12 DEF IInv, TypeOK
    <2>14. Waiting # <<>> /\ Head(Waiting) = w(1) /\ Waiting' = Tail(Waiting)
      <3> HIDE DEF w, v
      <3>1. PICK a : a = [i \in 1..Len(q) |-> w(i)]
        OBVIOUS
      <3>2. PICK b : b = [i \in 1..Len(p) |-> v(i)]
        OBVIOUS
      <3>3. a \in Seq({w(i) : i \in 1..Len(q)})
        BY <2>12, <3>1
      <3>4. a # <<>> /\ Head(a) = w(1) /\ Len(a) = Len(q)
        <4>1. Len(a) = Len(q)
          BY <2>12, <3>1
        <4>2. 1 \in 1..Len(q) /\ a[1] = w(1)
          BY <2>12, <3>1
        <4>3. a # <<>>
          BY <2>12, <4>1
        <4>4. Head(a) = a[1]
          BY <3>3, <4>3
        <4> QED BY <4>1, <4>2, <4>3, <4>4
      <3>5. b = Tail(a)
        BY <2>12, <2>13, <3>1, <3>2, <3>3, <3>4
      <3> QED BY <2>11, <3>1, <3>2, <3>4, <3>5
    <2>15. Head(Waiting).task = t /\ Head(Waiting).size = Len(Contents) + 1
      <3>1. w(1).task = t /\ w(1).size = remain[t]
        BY <2>6
      <3>2. Len(Contents) = circular_buffer.count
        BY ContentsSeq DEF IInv
      <3> QED BY <2>3, <2>9, <2>14, <3>1, <3>2
    <2>16. Promise!Completes(Len(Contents) + 1)
      BY <2>14, <2>15 DEF Promise!Completes
    <2>17. Promise!Type(c)
      BY <2>2, <2>4, <2>8, <2>10, <2>14, <2>15, <2>16 DEF Promise!Type
    <2> QED BY <2>17 DEF Promise!Next
  <1> QED BY <1>6, <1>7
----------------------------------------------------------------------------
LEMMA NextStep ==
  ASSUME IInv, Next
  PROVE  IInv' /\ Promise!Next
  <1>1. ASSUME NEW t \in Tasks, NEW n \in Counts, sys_read_keyboard(t, n)
        PROVE  IInv' /\ Promise!Next
    <2>1. CASE ReadsNow(t, n)
      BY <2>1, ReadsNowKeeps, ReadsNowPromised
    <2>2. CASE Blocks(t, n)
      BY <2>2, BlocksKeeps, BlocksPromised
    <2> QED BY <1>1, <2>1, <2>2, ReadSteps
  <1>2. ASSUME NEW c \in Keys, keyboard_routine(c)
        PROVE  IInv' /\ Promise!Next
    <2>1. CASE Stores(save_character(circular_buffer, c))
      BY <2>1, StoresKeeps, StoresPromised
    <2>2. CASE Wakes(save_character(circular_buffer, c))
      BY <2>2, WakesKeeps, WakesPromised
    <2> QED BY <1>2, <2>1, <2>2, KeySteps
  <1> QED BY <1>1, <1>2 DEF Next, KeyPressed

LEMMA Stutter ==
  ASSUME IInv, UNCHANGED vars
  PROVE  IInv' /\ UNCHANGED Promise!vars
  <1>1. IInv'
    BY DEF vars, IInv, TypeOK, Ring, Queued, GivenNothing, Blocked, FirstReaderLacksKeys
  <1>2. UNCHANGED Promise!vars
    BY DEF vars, Promise!vars, Contents, Waiting, Received, is_full
  <1> QED BY <1>1, <1>2

LEMMA InitStep ==
  ASSUME Init
  PROVE  IInv /\ Promise!Init
  <1>1. 0 \in 0..N-1 /\ 0 \in 0..N /\ N # 0
    BY Size
  <1>2. Ring(circular_buffer)
    <2>1. init_circ_buff \in Rings
      BY <1>1 DEF init_circ_buff, Rings, N
    <2>2. init_circ_buff.tail - init_circ_buff.head = init_circ_buff.count
      BY DEF init_circ_buff
    <2> QED BY <2>1, <2>2 DEF Init, Ring
  <1>3. TypeOK
    BY <1>2 DEF Init, TypeOK, Ring, Rings, N
  <1>4. \A t \in Tasks : ~Blocked(t) /\ eax[t] # NUMBER
    BY DEF Init, Blocked, NUMBER
  <1>5. IInv
    BY <1>2, <1>3, <1>4 DEF Init, IInv, Queued, GivenNothing, FirstReaderLacksKeys
  <1>6. Contents = <<>> /\ Waiting = <<>> /\ ~is_full(circular_buffer)
    BY <1>1 DEF Init, init_circ_buff, Contents, Waiting, is_full, N
  <1>7. Received = [t \in Tasks |-> <<>>]
    <2>1. \A t \in Tasks : eax[t] = 0 /\ buff[t] = <<>> /\ 0 # NUMBER
      BY DEF Init, NUMBER
    <2>2. SubSeq(<<>>, 1, 0) = <<>>
      OBVIOUS
    <2> QED BY <2>1, <2>2 DEF Received
  <1> QED BY <1>5, <1>6, <1>7 DEF Promise!Init

LEMMA Invariance == Spec => []IInv
  <1>1. Init => IInv
    BY InitStep
  <1>2. IInv /\ [Next]_vars => IInv'
    BY NextStep, Stutter
  <1> QED BY <1>1, <1>2, PTL DEF Spec

(* The variables keep their types: the positions of the ring never leave   *)
(* its array, whatever its size.                                           *)
THEOREM TypeCorrect == Spec => []TypeOK
  <1>1. IInv => TypeOK
    BY DEF IInv
  <1> QED BY <1>1, Invariance, PTL

(* The count and the two positions of the ring agree, however keys and     *)
(* reads alternate.                                                        *)
THEOREM CountAgrees == Spec => []CountMatchesPositions
  <1>1. IInv => CountMatchesPositions
    <2> SUFFICES ASSUME IInv PROVE CountMatchesPositions
      OBVIOUS
    <2>1. PICK d, c, n : /\ d = circular_buffer.tail - circular_buffer.head
                         /\ c = circular_buffer.count /\ n = CIRC_BUFF_SIZE
      OBVIOUS
    <2>2. c \in 0..n /\ n \in Nat \ {0} /\ (d = c \/ d = c - n)
      BY <2>1, Size DEF IInv, Ring, Rings, N
    <2>3. d % n = c % n
      <3>1. CASE d = c
        BY <3>1
      <3>2. CASE d = c - n
        <4>1. CASE c = n
          BY <2>2, <3>2, <4>1
        <4>2. CASE c # n
          <5>1. c \in 0..n-1
            BY <2>2, <4>2
          <5>2. (c - n) % n = c /\ c % n = c
            BY <2>2, <5>1
          <5> QED BY <3>2, <5>2
        <4> QED BY <4>1, <4>2
      <3> QED BY <2>2, <3>1, <3>2
    <2> QED BY <2>1, <2>3 DEF CountMatchesPositions
  <1> QED BY <1>1, Invariance, PTL

(* Until the buffer is full no reader waits for keys that are there.       *)
THEOREM ReadersAreServed == Spec => []FirstReaderLacksKeys
  <1>1. IInv => FirstReaderLacksKeys
    BY DEF IInv
  <1> QED BY <1>1, Invariance, PTL

(* The driver keeps the promise of Terminal: keys are delivered once, in   *)
(* order, to readers in order, until the buffer is full.                   *)
THEOREM Refinement == Spec => ImplementsTerminal
  <1>1. Init => Promise!Init
    BY InitStep
  <1>2. IInv /\ [Next]_vars => [Promise!Next]_Promise!vars
    BY NextStep, Stutter
  <1> QED BY <1>1, <1>2, Invariance, PTL DEF Spec, Promise!Spec, ImplementsTerminal
=============================================================================
