--------------------------- MODULE ChannelsProofs ---------------------------
(***************************************************************************)
(* Proofs about module Channels.                                           *)
(*                                                                         *)
(* Nothing is assumed of the blocks, whose chains removals and writes may  *)
(* damage: of the file system only the directory is followed, and what the *)
(* operations of Fat do to it whatever the chains are.                     *)
(***************************************************************************)
EXTENDS Channels, SequenceTheorems, WellFoundedInduction, TLAPS

(* A set of natural numbers has a smallest element.                        *)
LEMMA NatWellOrdered ==
  ASSUME NEW T, T \subseteq Nat, T # {}
  PROVE  \E m \in T : \A k \in T : ~(k < m)
  <1>1. \E R : IsWellFoundedOn(R, Nat) /\ \A k, m \in Nat : k < m => <<k, m>> \in R
    <2>1. IsWellFoundedOn(OpToRel(<, Nat), Nat)
      BY NatLessThanWellFounded, Zenon
    <2>2. \A k, m \in Nat : k < m => <<k, m>> \in OpToRel(<, Nat)
      BY Zenon DEF OpToRel
    <2> QED BY <2>1, <2>2, Zenon
  <1>2. PICK R : IsWellFoundedOn(R, Nat) /\ \A k, m \in Nat : k < m => <<k, m>> \in R
    BY <1>1
  <1>3. PICK m \in T : \A k \in T : ~(<<k, m>> \in R)
    <2>1. IsWellFoundedOn(R, Nat)
      BY <1>2
    <2> QED BY <2>1, WFMin, Zenon
  <1> QED BY <1>2, <1>3

(* An inductive set of natural numbers holds them all.                     *)
LEMMA NatSetInduction ==
  ASSUME NEW I, 0 \in I, \A n \in Nat : n \in I => n+1 \in I
  PROVE  Nat \subseteq I
  <1> SUFFICES ASSUME Nat \ I # {} PROVE FALSE
    OBVIOUS
  <1>1. PICK m \in Nat \ I : \A k \in Nat \ I : ~(k < m)
    BY NatWellOrdered
  <1>2. m-1 \in Nat /\ m-1 < m /\ (m-1)+1 = m
    BY <1>1
  <1> QED BY <1>1, <1>2


(***************************************************************************)
(* Minimum and maximum.                                                    *)
(***************************************************************************)

(* The smaller and the larger of two integers.                             *)
LEMMA MinMaxOfPair ==
  ASSUME NEW a \in Int, NEW b \in Int
  PROVE  /\ Min({a, b}) = IF a <= b THEN a ELSE b
         /\ Disk!Min({a, b}) = IF a <= b THEN a ELSE b
         /\ Disk!Max({a, b}) = IF a <= b THEN b ELSE a
  <1>1. PICK m : m = IF a <= b THEN a ELSE b
    OBVIOUS
  <1>2. PICK x : x = IF a <= b THEN b ELSE a
    OBVIOUS
  <1>3. /\ m \in {a, b} /\ \A y \in {a, b} : m <= y
        /\ \A z \in {a, b} : (\A y \in {a, b} : z <= y) => z = m
    BY <1>1
  <1>4. /\ x \in {a, b} /\ \A y \in {a, b} : x >= y
        /\ \A z \in {a, b} : (\A y \in {a, b} : z >= y) => z = x
    BY <1>2
  <1>5. Min({a, b}) = m
    BY <1>3 DEF Min
  <1>6. Disk!Min({a, b}) = m
    BY <1>3 DEF Disk!Min
  <1>7. Disk!Max({a, b}) = x
    BY <1>4 DEF Disk!Max
  <1> QED BY <1>1, <1>2, <1>5, <1>6, <1>7

(* A set of natural numbers that is not empty holds its minimum.           *)
LEMMA MinInSet ==
  ASSUME NEW S, S \subseteq Nat, S # {}
  PROVE  Min(S) \in S
  <1>1. PICK m \in S : \A k \in S : ~(k < m)
    BY NatWellOrdered
  <1>2. \A k \in S : m <= k
    BY <1>1
  <1> QED BY <1>2 DEF Min

(***************************************************************************)
(* The directory, and what Fat does to it.                                 *)
(***************************************************************************)

EntryOK(e) ==
  /\ {"mode", "size"} \subseteq DOMAIN e
  /\ e.mode \in 0..3 \cup {FREE_CHANNEL} /\ e.size \in Nat

FsOK(s) ==
  /\ "root" \in DOMAIN s /\ DOMAIN s.root = Files
  /\ \A f \in Files : EntryOK(s.root[f])

(* Of the directory of s, nothing has changed in r but that f has grown.   *)
Grown(s, r, f) ==
  /\ FsOK(r)
  /\ \A g \in Files \ {f} : r.root[g] = s.root[g]
  /\ r.root[f].mode = s.root[f].mode
  /\ r.root[f].size >= s.root[f].size

(* Growing is reflexive and transitive.                                    *)
LEMMA GrownTwice ==
  ASSUME NEW s, NEW r, NEW q, NEW f \in Files, FsOK(s), Grown(s, r, f), Grown(r, q, f)
  PROVE  Grown(s, q, f) /\ Grown(s, s, f)
  <1>1. s.root[f].size \in Nat /\ r.root[f].size \in Nat /\ q.root[f].size \in Nat
    BY DEF Grown, FsOK, EntryOK
  <1>2. q.root[f].size >= s.root[f].size
    BY <1>1 DEF Grown
  <1> QED BY <1>1, <1>2 DEF Grown

(* A file system with the same directory but for the blocks of f.          *)
LEMMA SameDirectory ==
  ASSUME NEW s, FsOK(s), NEW r, NEW f \in Files, "root" \in DOMAIN r,
         DOMAIN r.root = Files,
         \A g \in Files \ {f} : r.root[g] = s.root[g],
         EntryOK(r.root[f]), r.root[f].mode = s.root[f].mode,
         r.root[f].size >= s.root[f].size
  PROVE  Grown(s, r, f)
  BY DEF Grown, FsOK

(* A directory entry whose first or last block changes.                    *)
LEMMA EntryBlocks ==
  ASSUME NEW e, EntryOK(e), NEW b
  PROVE  LET e1 == [[e EXCEPT !.first_block = b] EXCEPT !.last_block = b]
             e2 == [e EXCEPT !.last_block = b]
         IN  /\ EntryOK(e1) /\ e1.mode = e.mode /\ e1.size = e.size
             /\ EntryOK(e2) /\ e2.mode = e.mode /\ e2.size = e.size
  BY DEF EntryOK

(* fat_add_block leaves the sizes and the modes.                           *)
LEMMA AddBlockGrown ==
  ASSUME NEW s, FsOK(s), NEW f \in Files
  PROVE  Grown(s, Disk!fat_add_block(s, f), f)
  <1> DEFINE b == s.first_free_block
             r1 == [s EXCEPT !.root[f].first_block = b, !.root[f].last_block = b]
             r2 == [s EXCEPT !.block_lists[s.root[f].last_block] = b,
                             !.root[f].last_block = b]
  <1>1. PICK linked : linked = IF s.root[f].first_block = Disk!EOC THEN r1 ELSE r2
    OBVIOUS
  <1>2. /\ "root" \in DOMAIN s /\ DOMAIN s.root = Files /\ EntryOK(s.root[f])
        /\ s.root[f].size \in Nat
    BY DEF FsOK, EntryOK
  <1>3. PICK e1 : e1 = [[s.root[f] EXCEPT !.first_block = b] EXCEPT !.last_block = b]
    OBVIOUS
  <1>4. PICK e2 : e2 = [s.root[f] EXCEPT !.last_block = b]
    OBVIOUS
  <1>5. /\ EntryOK(e1) /\ e1.mode = s.root[f].mode /\ e1.size = s.root[f].size
        /\ EntryOK(e2) /\ e2.mode = s.root[f].mode /\ e2.size = s.root[f].size
    BY <1>2, <1>3, <1>4, EntryBlocks
  <1>6. "root" \in DOMAIN r1 /\ r1.root = [s.root EXCEPT ![f] = e1]
    BY <1>2, <1>3
  <1>7. "root" \in DOMAIN r2 /\ r2.root = [s.root EXCEPT ![f] = e2]
    BY <1>2, <1>4
  <1>8. PICK e : /\ linked.root = [s.root EXCEPT ![f] = e] /\ "root" \in DOMAIN linked
                 /\ EntryOK(e) /\ e.mode = s.root[f].mode /\ e.size = s.root[f].size
    BY <1>1, <1>5, <1>6, <1>7
  <1>9. PICK r : r = Disk!fat_add_block(s, f)
    OBVIOUS
  <1>10. PICK next : next = linked.block_lists[b]
    OBVIOUS
  <1>11. r = Disk!Terminated([linked EXCEPT
                    !.first_free_block = next,
                    !.last_free_block  = IF next = Disk!EOC THEN Disk!EOC ELSE @,
                    !.used_block_count = @ + 1,
                    !.free_block_count = @ - 1], b)
    BY <1>1, <1>9, <1>10 DEF Disk!fat_add_block
  <1>12. "root" \in DOMAIN r /\ r.root = linked.root
    BY <1>8, <1>11 DEF Disk!Terminated
  <1>13. r.root[f] = e /\ DOMAIN r.root = Files /\ \A g \in Files \ {f} : r.root[g] = s.root[g]
    BY <1>2, <1>8, <1>12
  <1>14. r.root[f].size >= s.root[f].size
    BY <1>2, <1>8, <1>13
  <1> QED BY <1>8, <1>9, <1>12, <1>13, <1>14, SameDirectory

(* The part of a block that an access covers.                              *)
LEMMA ChunkBounds ==
  ASSUME NEW pos \in Nat, NEW count \in Nat
  PROVE  /\ Disk!Chunk(pos, count) \in 0..count
         /\ count > 0 => Disk!Chunk(pos, count) > 0
  <1>1. PICK a : a = BLOCK_SIZE - (pos % BLOCK_SIZE)
    OBVIOUS
  <1>2. a \in Nat \ {0}
    BY <1>1, ChannelsAssumption
  <1>3. Disk!Chunk(pos, count) = IF a <= count THEN a ELSE count
    <2>1. Disk!Chunk(pos, count) = Disk!Min({a, count})
      BY <1>1 DEF Disk!Chunk
    <2>2. a \in Int /\ count \in Int
      BY <1>2
    <2> QED BY <2>1, <2>2, MinMaxOfPair, Zenon
  <1> QED BY <1>2, <1>3

(* What fat_write has done to s after some iterations.                     *)
Wrote(s, x, f, buffer, offset) ==
  /\ {"fs", "written", "failed"} \subseteq DOMAIN x
  /\ Grown(s, x.fs, f) /\ x.failed \in BOOLEAN /\ x.written \in 0 .. Len(buffer)
  /\ x.written > 0 => x.fs.root[f].size >= offset + x.written

(* One iteration of fat_write.                                             *)
LEMMA WriteBlock ==
  ASSUME NEW s, FsOK(s), NEW f \in Files, NEW buffer, Len(buffer) \in Nat,
         NEW offset \in Nat, NEW x, Wrote(s, x, f, buffer, offset)
  PROVE  LET y == Disk!write_block(x, f, buffer, offset)
         IN  /\ Wrote(s, y, f, buffer, offset)
             /\ ~y.failed => /\ ~x.failed
                             /\ y.written > x.written \/ y.written = Len(buffer)
  <1> DEFINE pos   == offset + x.written
             size  == Disk!Chunk(pos, Len(buffer) - x.written)
             at    == pos % BLOCK_SIZE
             b0    == Disk!fat_translate_block(x.fs, f, pos \div BLOCK_SIZE)
             grown == IF b0 = Disk!EOC THEN Disk!fat_add_block(x.fs, f) ELSE x.fs
             b     == IF b0 = Disk!EOC THEN grown.root[f].last_block ELSE b0
             r     == [grown EXCEPT
                        !.data[b] = [i \in 0..BLOCK_SIZE-1 |->
                           IF i \in at .. at+size-1
                           THEN buffer[x.written + i - at + 1] ELSE @[i]],
                        !.root[f].size = Disk!Max({@, pos + size})]
  <1>1. PICK y : y = Disk!write_block(x, f, buffer, offset)
    OBVIOUS
  <1>2. y = IF x.failed \/ size = 0 THEN x
            ELSE IF b0 = Disk!EOC /\ x.fs.first_free_block = Disk!EOC
            THEN [x EXCEPT !.failed = TRUE]
            ELSE [x EXCEPT !.fs = r, !.written = @ + size]
    BY <1>1, Zenon DEF Disk!write_block
  <1>3. x.written \in 0 .. Len(buffer) /\ pos \in Nat /\ Len(buffer) - x.written \in Nat
    BY DEF Wrote
  <1>4. /\ size \in 0 .. Len(buffer) - x.written
        /\ Len(buffer) - x.written > 0 => size > 0
    BY <1>3, ChunkBounds, Zenon
  <1>5. PICK data : r = [grown EXCEPT !.data[b] = data,
                           !.root[f].size = Disk!Max({@, pos + size})]
    BY Zenon
  <1>6. FsOK(x.fs) /\ Grown(s, x.fs, f)
    BY DEF Wrote, Grown
  <1>7. Grown(x.fs, x.fs, f)
    BY <1>6 DEF Grown, FsOK, EntryOK
  <1>8. Grown(x.fs, grown, f)
    BY <1>6, <1>7, AddBlockGrown
  <1>9. PICK p : p = pos + size
    OBVIOUS
  <1> HIDE DEF pos, size, b0, grown, b, r
  <1>10. CASE x.failed \/ size = 0
    <2>1. y = x
      BY <1>2, <1>10
    <2>2. size = 0 => x.written = Len(buffer)
      BY <1>3, <1>4
    <2> QED BY <1>1, <1>10, <2>1, <2>2
  <1>11. CASE ~(x.failed \/ size = 0) /\ b0 = Disk!EOC /\ x.fs.first_free_block = Disk!EOC
    <2>1. y = [x EXCEPT !.failed = TRUE]
      BY <1>2, <1>11
    <2>2. /\ DOMAIN y = DOMAIN x /\ y.failed = TRUE /\ y.fs = x.fs
          /\ y.written = x.written
      BY <2>1 DEF Wrote
    <2> QED BY <1>1, <2>2 DEF Wrote
  <1>12. CASE /\ ~(x.failed \/ size = 0)
              /\ ~(b0 = Disk!EOC /\ x.fs.first_free_block = Disk!EOC)
    <2>1. y = [x EXCEPT !.fs = r, !.written = @ + size]
      BY <1>2, <1>12
    <2>2. /\ DOMAIN y = DOMAIN x /\ y.failed = x.failed /\ y.fs = r
          /\ y.written = x.written + size
      BY <2>1 DEF Wrote
    <2>3. PICK n : n = Disk!Max({grown.root[f].size, pos + size})
      OBVIOUS
    <2>4. /\ "root" \in DOMAIN grown /\ DOMAIN grown.root = Files
          /\ EntryOK(grown.root[f]) /\ grown.root[f].size \in Nat
      BY <1>8 DEF Grown, FsOK, EntryOK
    <2>5. n \in Nat /\ n >= pos + size /\ n >= grown.root[f].size
      <3>1. PICK g0 : g0 = grown.root[f].size
        OBVIOUS
      <3>2. g0 \in Nat /\ p \in Nat
        BY <1>3, <1>4, <1>9, <2>4, <3>1
      <3>3. Disk!Max({g0, p}) = IF g0 <= p THEN p ELSE g0
        <4>1. g0 \in Int /\ p \in Int
          BY <3>2
        <4> QED BY <4>1, MinMaxOfPair, Zenon
      <3>4. n = Disk!Max({g0, p})
        BY <1>9, <2>3, <3>1
      <3> QED BY <1>9, <3>1, <3>2, <3>3, <3>4
    <2>6. /\ "root" \in DOMAIN r
          /\ r.root = [grown.root EXCEPT ![f] = [grown.root[f] EXCEPT !.size = n]]
      BY <1>5, <2>3, <2>4
    <2>7. PICK e : e = [grown.root[f] EXCEPT !.size = n]
      OBVIOUS
    <2>8. EntryOK(e) /\ e.mode = grown.root[f].mode /\ e.size = n
      BY <2>4, <2>5, <2>7 DEF EntryOK
    <2>9. /\ r.root[f] = e /\ DOMAIN r.root = Files
           /\ \A g \in Files \ {f} : r.root[g] = grown.root[g]
      BY <2>4, <2>6, <2>7
    <2>10. Grown(grown, r, f)
      BY <1>8, <2>5, <2>6, <2>8, <2>9, SameDirectory DEF Grown
    <2>11. Grown(s, r, f)
      BY <1>6, <1>8, <2>10, GrownTwice
    <2>12. /\ x.written + size \in 0 .. Len(buffer) /\ x.written + size > x.written
           /\ pos + size = offset + (x.written + size)
      BY <1>1, <1>3, <1>4, <1>12 DEF pos
    <2>13. Wrote(s, y, f, buffer, offset)
      <3>1. {"fs", "written", "failed"} \subseteq DOMAIN y /\ y.failed \in BOOLEAN
        BY <2>2 DEF Wrote
      <3>2. y.fs.root[f].size >= offset + y.written
        BY <2>2, <2>5, <2>8, <2>9, <2>12
      <3> QED BY <2>2, <2>11, <2>12, <3>1, <3>2 DEF Wrote
    <2> QED BY <1>1, <1>12, <2>2, <2>12, <2>13
  <1> QED BY <1>10, <1>11, <1>12

(* The recursive definition in fat_write has a solution: the loop.         *)
LEMMA WriteLoopDef ==
  ASSUME NEW s, NEW f, NEW buffer, NEW offset, Len(buffer) \in Nat
  PROVE  \E g : /\ g[0] = [fs |-> s, written |-> 0, failed |-> FALSE]
                /\ \A n \in 1..Len(buffer) :
                     g[n] = Disk!write_block(g[n-1], f, buffer, offset)
                /\ Disk!fat_write(s, f, buffer, offset) = g[Len(buffer)]
  <1>1. PICK a : a = [fs |-> s, written |-> 0, failed |-> FALSE]
    OBVIOUS
  <1> DEFINE Sol(g, m) == g = [n \in 0..m |->
                                 IF n = 0 THEN a
                                 ELSE Disk!write_block(g[n-1], f, buffer, offset)]
             I == {m \in Nat : \E g : Sol(g, m)}
  <1>2. 0 \in I
    <2>1. PICK g : g = [n \in 0..0 |-> a]
      OBVIOUS
    <2>2. Sol(g, 0)
      BY <2>1
    <2> QED BY <2>2
  <1>3. ASSUME NEW m \in Nat, m \in I PROVE m+1 \in I
    <2>1. PICK g : Sol(g, m)
      BY <1>3
    <2>2. PICK w : w = Disk!write_block(g[m], f, buffer, offset)
      OBVIOUS
    <2>3. PICK h : h = [n \in 0..m+1 |-> IF n = m+1 THEN w ELSE g[n]]
      OBVIOUS
    <2>4. \A n \in 0..m : h[n] = g[n]
      BY <2>3
    <2>5. ASSUME NEW n \in 0..m+1
          PROVE h[n] = IF n = 0 THEN a ELSE Disk!write_block(h[n-1], f, buffer, offset)
      <3>1. CASE n = 0
        BY <2>1, <2>4, <3>1
      <3>2. CASE n = m+1
        <4>1. n # 0 /\ h[n] = w /\ h[n-1] = g[m]
          BY <2>3, <2>4, <3>2
        <4> QED BY <2>2, <4>1
      <3>3. CASE n # 0 /\ n # m+1
        <4>1. n \in 0..m /\ n-1 \in 0..m
          BY <3>3
        <4>2. g[n] = Disk!write_block(g[n-1], f, buffer, offset)
          BY <2>1, <3>3, <4>1
        <4> QED BY <2>4, <3>3, <4>1, <4>2
      <3> QED BY <3>1, <3>2, <3>3
    <2>6. Sol(h, m+1)
      BY <2>3, <2>5
    <2> QED BY <2>6
  <1>4. Len(buffer) \in I
    <2> HIDE DEF I
    <2> QED BY <1>2, <1>3, NatSetInduction
  <1> DEFINE Def(g) == g = [n \in 0..Len(buffer) |->
                              IF n = 0 THEN [fs |-> s, written |-> 0, failed |-> FALSE]
                              ELSE Disk!write_block(g[n-1], f, buffer, offset)]
  <1>5. PICK g : g = CHOOSE h : Def(h)
    OBVIOUS
  <1>6. Def(g)
    <2>1. PICK h : Sol(h, Len(buffer))
      BY <1>4
    <2>2. Def(h)
      BY <1>1, <2>1
    <2> HIDE DEF Def
    <2> QED BY <1>5, <2>2, Zenon
  <1>7. Disk!fat_write(s, f, buffer, offset) = g[Len(buffer)]
    BY <1>5 DEF Disk!fat_write
  <1>8. g[0] = [fs |-> s, written |-> 0, failed |-> FALSE]
    BY <1>6
  <1>9. ASSUME NEW n \in 1..Len(buffer)
        PROVE g[n] = Disk!write_block(g[n-1], f, buffer, offset)
    <2>1. n \in 0..Len(buffer) /\ n # 0
      OBVIOUS
    <2> QED BY <1>6, <2>1
  <1> QED BY <1>7, <1>8, <1>9

(* fat_write lets f grow, to the end of what was written if it did not fail.*)
LEMMA FatWrite ==
  ASSUME NEW s, FsOK(s), NEW f \in Files, NEW buffer, Len(buffer) \in Nat,
         NEW offset \in Nat
  PROVE  LET w == Disk!fat_write(s, f, buffer, offset)
         IN  /\ Grown(s, w.fs, f) /\ w.failed \in BOOLEAN
             /\ ~w.failed /\ Len(buffer) > 0 =>
                  w.fs.root[f].size >= offset + Len(buffer)
  <1>1. PICK count : count = Len(buffer)
    OBVIOUS
  <1>2. PICK a : a = [fs |-> s, written |-> 0, failed |-> FALSE]
    OBVIOUS
  <1>3. PICK g : /\ g[0] = [fs |-> s, written |-> 0, failed |-> FALSE]
                 /\ \A n \in 1..Len(buffer) :
                      g[n] = Disk!write_block(g[n-1], f, buffer, offset)
                 /\ Disk!fat_write(s, f, buffer, offset) = g[Len(buffer)]
    BY WriteLoopDef
  <1>4. Disk!fat_write(s, f, buffer, offset) = g[count]
    BY <1>1, <1>3
  <1>5. count \in Nat /\ g[0] = a
    BY <1>1, <1>2, <1>3
  <1>6. \A n \in 1..count : g[n] = Disk!write_block(g[n-1], f, buffer, offset)
    BY <1>1, <1>3
  <1> DEFINE J(n, x) == /\ Wrote(s, x, f, buffer, offset)
                        /\ ~x.failed => x.written >= n
             I == {n \in Nat : n <= count => J(n, g[n])}
  <1>7. 0 \in I
    <2>1. FsOK(s) /\ Grown(s, s, f)
      BY DEF Grown, FsOK, EntryOK
    <2>2. J(0, a)
      BY <1>1, <1>2, <1>5, <2>1 DEF Wrote
    <2> QED BY <1>5, <2>2
  <1>8. ASSUME NEW n \in Nat, n \in I PROVE n+1 \in I
    <2> SUFFICES ASSUME n+1 <= count PROVE J(n+1, g[n+1])
      OBVIOUS
    <2>1. n <= count /\ n+1 \in 1..count /\ (n+1)-1 = n
      BY <1>5
    <2>2. PICK x : x = g[n]
      OBVIOUS
    <2>3. PICK y : y = Disk!write_block(x, f, buffer, offset)
      OBVIOUS
    <2>4. g[n+1] = y
      BY <1>6, <2>1, <2>2, <2>3
    <2>5. J(n, x)
      BY <1>8, <2>1, <2>2
    <2>6. /\ Wrote(s, y, f, buffer, offset)
          /\ ~y.failed => /\ ~x.failed
                          /\ y.written > x.written \/ y.written = Len(buffer)
      BY <2>3, <2>5, WriteBlock
    <2>7. x.written \in Nat /\ y.written \in Nat
      BY <1>1, <1>5, <2>5, <2>6 DEF Wrote
    <2>8. ~y.failed => y.written >= n+1
      BY <1>1, <1>5, <2>5, <2>6, <2>7
    <2> QED BY <2>4, <2>6, <2>8
  <1>9. count \in I
    <2> HIDE DEF I
    <2> QED BY <1>5, <1>7, <1>8, NatSetInduction
  <1>10. PICK w : w = g[count]
    OBVIOUS
  <1>11. J(count, w)
    BY <1>5, <1>9, <1>10
  <1>12. Grown(s, w.fs, f) /\ w.failed \in BOOLEAN
    BY <1>11 DEF Wrote
  <1>13. ~w.failed /\ count > 0 => w.fs.root[f].size >= offset + count
    <2>1. ~w.failed => w.written = count
      BY <1>1, <1>5, <1>11 DEF Wrote
    <2> QED BY <1>5, <1>11, <2>1 DEF Wrote
  <1> QED BY <1>1, <1>4, <1>10, <1>12, <1>13

(* The recursive definition in fat_read has a solution: the loop.          *)
LEMMA ReadLoopDef ==
  ASSUME NEW s, NEW f, NEW offset, NEW count,
         NEW total, total = Disk!Readable(s, f, offset, count), total \in Nat
  PROVE  \E g : /\ g[0] = <<>>
                /\ \A n \in 1..total :
                     g[n] = Disk!read_block(s, f, offset, total, g[n-1])
                /\ Disk!fat_read(s, f, offset, count) = g[total]
  <1>1. PICK a : a = <<>>
    OBVIOUS
  <1> DEFINE Sol(g, m) == g = [n \in 0..m |->
                                 IF n = 0 THEN a
                                 ELSE Disk!read_block(s, f, offset, total, g[n-1])]
             I == {m \in Nat : \E g : Sol(g, m)}
  <1>2. 0 \in I
    <2>1. PICK g : g = [n \in 0..0 |-> a]
      OBVIOUS
    <2>2. Sol(g, 0)
      BY <2>1
    <2> QED BY <2>2
  <1>3. ASSUME NEW m \in Nat, m \in I PROVE m+1 \in I
    <2>1. PICK g : Sol(g, m)
      BY <1>3
    <2>2. PICK w : w = Disk!read_block(s, f, offset, total, g[m])
      OBVIOUS
    <2>3. PICK h : h = [n \in 0..m+1 |-> IF n = m+1 THEN w ELSE g[n]]
      OBVIOUS
    <2>4. \A n \in 0..m : h[n] = g[n]
      BY <2>3
    <2>5. ASSUME NEW n \in 0..m+1
          PROVE h[n] = IF n = 0 THEN a ELSE Disk!read_block(s, f, offset, total, h[n-1])
      <3>1. CASE n = 0
        BY <2>1, <2>4, <3>1
      <3>2. CASE n = m+1
        <4>1. n # 0 /\ h[n] = w /\ h[n-1] = g[m]
          BY <2>3, <2>4, <3>2
        <4> QED BY <2>2, <4>1
      <3>3. CASE n # 0 /\ n # m+1
        <4>1. n \in 0..m /\ n-1 \in 0..m
          BY <3>3
        <4>2. g[n] = Disk!read_block(s, f, offset, total, g[n-1])
          BY <2>1, <3>3, <4>1
        <4> QED BY <2>4, <3>3, <4>1, <4>2
      <3> QED BY <3>1, <3>2, <3>3
    <2>6. Sol(h, m+1)
      BY <2>3, <2>5
    <2> QED BY <2>6
  <1>4. total \in I
    <2> HIDE DEF I
    <2> QED BY <1>2, <1>3, NatSetInduction
  <1> DEFINE Def(g) == g = [n \in 0..total |->
                              IF n = 0 THEN <<>>
                              ELSE Disk!read_block(s, f, offset, total, g[n-1])]
  <1>5. PICK g : g = CHOOSE h : Def(h)
    OBVIOUS
  <1>6. Def(g)
    <2>1. PICK h : Sol(h, total)
      BY <1>4
    <2>2. Def(h)
      BY <1>1, <2>1
    <2> HIDE DEF Def
    <2> QED BY <1>5, <2>2, Zenon
  <1>7. Disk!fat_read(s, f, offset, count) = g[total]
    BY <1>5 DEF Disk!fat_read
  <1>8. g[0] = <<>>
    BY <1>6
  <1>9. ASSUME NEW n \in 1..total
        PROVE g[n] = Disk!read_block(s, f, offset, total, g[n-1])
    <2>1. n \in 0..total /\ n # 0
      OBVIOUS
    <2> QED BY <1>6, <2>1
  <1> QED BY <1>7, <1>8, <1>9


(* A sequence of at most n things of any kind.                             *)
Short(q, n) == \E S : q \in Seq(S) /\ Len(q) \in 0..n

(* One iteration of fat_read.                                              *)
LEMMA ReadBlock ==
  ASSUME NEW s, NEW f, NEW offset \in Nat, NEW total \in Nat, NEW q, Short(q, total)
  PROVE  Short(Disk!read_block(s, f, offset, total, q), total)
  <1> DEFINE pos  == offset + Len(q)
             size == Disk!Chunk(pos, total - Len(q))
             b    == Disk!fat_translate_block(s, f, pos \div BLOCK_SIZE)
             more == [i \in 1..size |-> s.data[b][(pos % BLOCK_SIZE) + i - 1]]
  <1>1. PICK r : r = Disk!read_block(s, f, offset, total, q)
    OBVIOUS
  <1>2. r = IF size = 0 \/ b = Disk!EOC THEN q ELSE q \o more
    BY <1>1, Zenon DEF Disk!read_block
  <1>3. PICK S : q \in Seq(S) /\ Len(q) \in 0..total
    BY DEF Short
  <1>4. pos \in Nat /\ total - Len(q) \in Nat
    BY <1>3
  <1>5. size \in 0 .. total - Len(q)
    BY <1>4, ChunkBounds, Zenon
  <1>6. PICK T : T = S \cup {more[i] : i \in 1..size}
    OBVIOUS
  <1>7. q \in Seq(T)
    BY <1>3, <1>6
  <1>8. more \in Seq(T) /\ Len(more) = size
    BY <1>5, <1>6
  <1> HIDE DEF more, size, b, pos
  <1>9. q \o more \in Seq(T) /\ Len(q \o more) = Len(q) + size
    BY <1>7, <1>8
  <1>10. Len(q \o more) \in 0..total
    BY <1>3, <1>5, <1>9
  <1>11. Short(q \o more, total)
    BY <1>9, <1>10 DEF Short
  <1> QED BY <1>1, <1>2, <1>11

(* fat_read returns no more than there is in f from offset on.             *)
LEMMA FatRead ==
  ASSUME NEW s, FsOK(s), NEW f \in Files, NEW offset \in Nat, NEW count \in Nat
  PROVE  LET n == Len(Disk!fat_read(s, f, offset, count))
         IN  n \in 0..count /\ (offset <= s.root[f].size => offset + n <= s.root[f].size)
  <1>1. PICK size : size = s.root[f].size
    OBVIOUS
  <1>2. size \in Nat
    BY <1>1 DEF FsOK, EntryOK
  <1>3. PICK total : total = Disk!Readable(s, f, offset, count)
    OBVIOUS
  <1>4. total \in 0..count /\ (offset <= size => offset + total <= size)
    <2>1. PICK left : left = size - offset
      OBVIOUS
    <2>2. PICK m : m = Disk!Min({count, left})
      OBVIOUS
    <2>3. total = Disk!Max({0, m})
      BY <1>1, <1>3, <2>1, <2>2 DEF Disk!Readable
    <2>4. count \in Int /\ left \in Int
      BY <1>2, <2>1
    <2>5. Disk!Min({count, left}) = IF count <= left THEN count ELSE left
      BY <2>4, MinMaxOfPair, Zenon
    <2>6. 0 \in Int /\ m \in Int
      BY <2>2, <2>4, <2>5
    <2>7. Disk!Max({0, m}) = IF 0 <= m THEN m ELSE 0
      BY <2>6, MinMaxOfPair, Zenon
    <2> QED BY <1>2, <2>1, <2>2, <2>3, <2>5, <2>7
  <1>5. PICK g : /\ g[0] = <<>>
                 /\ \A n \in 1..total : g[n] = Disk!read_block(s, f, offset, total, g[n-1])
                 /\ Disk!fat_read(s, f, offset, count) = g[total]
    <2>1. total \in Nat
      BY <1>4
    <2> QED BY <1>3, <2>1, ReadLoopDef
  <1> DEFINE I == {n \in Nat : n <= total => Short(g[n], total)}
  <1>6. 0 \in I
    <2>1. <<>> \in Seq({}) /\ Len(<<>>) \in 0..total
      BY <1>4
    <2>2. Short(<<>>, total)
      BY <2>1 DEF Short
    <2> QED BY <1>5, <2>2
  <1>7. ASSUME NEW n \in Nat, n \in I PROVE n+1 \in I
    <2> SUFFICES ASSUME n+1 <= total PROVE Short(g[n+1], total)
      OBVIOUS
    <2>1. n <= total /\ n+1 \in 1..total /\ (n+1)-1 = n /\ total \in Nat
      BY <1>4
    <2>2. PICK q : q = g[n]
      OBVIOUS
    <2>3. g[n+1] = Disk!read_block(s, f, offset, total, q)
      BY <1>5, <2>1, <2>2
    <2>4. Short(q, total)
      BY <1>7, <2>1, <2>2
    <2> QED BY <2>1, <2>3, <2>4, ReadBlock
  <1>8. total \in I
    <2> HIDE DEF I
    <2> QED BY <1>4, <1>6, <1>7, NatSetInduction
  <1>9. Len(g[total]) \in 0..total
    BY <1>4, <1>8 DEF Short
  <1>10. PICK n : n = Len(g[total])
    OBVIOUS
  <1>11. n \in 0..count /\ (offset <= size => offset + n <= size)
    BY <1>2, <1>4, <1>9, <1>10
  <1> QED BY <1>1, <1>5, <1>10, <1>11

(***************************************************************************)
(* sys_write_file.                                                         *)
(***************************************************************************)

(* The recursive definition in sys_write_file has a solution: the loop.    *)
LEMMA FileLoopDef ==
  ASSUME NEW c, NEW count \in Nat
  PROVE  \E g : /\ g[0] = [fs |-> fs, written |-> 0, failed |-> FALSE]
                /\ \A n \in 1..count :
                     g[n] = write_piece(g[n-1], c, count)
                /\ sys_write_file(c, count) = g[count]
  <1>1. PICK a : a = [fs |-> fs, written |-> 0, failed |-> FALSE]
    OBVIOUS
  <1> DEFINE Sol(g, m) == g = [n \in 0..m |->
                                 IF n = 0 THEN a
                                 ELSE write_piece(g[n-1], c, count)]
             I == {m \in Nat : \E g : Sol(g, m)}
  <1>2. 0 \in I
    <2>1. PICK g : g = [n \in 0..0 |-> a]
      OBVIOUS
    <2>2. Sol(g, 0)
      BY <2>1
    <2> QED BY <2>2
  <1>3. ASSUME NEW m \in Nat, m \in I PROVE m+1 \in I
    <2>1. PICK g : Sol(g, m)
      BY <1>3
    <2>2. PICK w : w = write_piece(g[m], c, count)
      OBVIOUS
    <2>3. PICK h : h = [n \in 0..m+1 |-> IF n = m+1 THEN w ELSE g[n]]
      OBVIOUS
    <2>4. \A n \in 0..m : h[n] = g[n]
      BY <2>3
    <2>5. ASSUME NEW n \in 0..m+1
          PROVE h[n] = IF n = 0 THEN a ELSE write_piece(h[n-1], c, count)
      <3>1. CASE n = 0
        BY <2>1, <2>4, <3>1
      <3>2. CASE n = m+1
        <4>1. n # 0 /\ h[n] = w /\ h[n-1] = g[m]
          BY <2>3, <2>4, <3>2
        <4> QED BY <2>2, <4>1
      <3>3. CASE n # 0 /\ n # m+1
        <4>1. n \in 0..m /\ n-1 \in 0..m
          BY <3>3
        <4>2. g[n] = write_piece(g[n-1], c, count)
          BY <2>1, <3>3, <4>1
        <4> QED BY <2>4, <3>3, <4>1, <4>2
      <3> QED BY <3>1, <3>2, <3>3
    <2>6. Sol(h, m+1)
      BY <2>3, <2>5
    <2> QED BY <2>6
  <1>4. count \in I
    <2> HIDE DEF I
    <2> QED BY <1>2, <1>3, NatSetInduction
  <1> DEFINE Def(g) == g = [n \in 0..count |->
                              IF n = 0 THEN [fs |-> fs, written |-> 0, failed |-> FALSE]
                              ELSE write_piece(g[n-1], c, count)]
  <1>5. PICK g : g = CHOOSE h : Def(h)
    OBVIOUS
  <1>6. Def(g)
    <2>1. PICK h : Sol(h, count)
      BY <1>4
    <2>2. Def(h)
      BY <1>1, <2>1
    <2> HIDE DEF Def
    <2> QED BY <1>5, <2>2, Zenon
  <1>7. sys_write_file(c, count) = g[count]
    BY <1>5 DEF sys_write_file
  <1>8. g[0] = [fs |-> fs, written |-> 0, failed |-> FALSE]
    BY <1>6
  <1>9. ASSUME NEW n \in 1..count
        PROVE g[n] = write_piece(g[n-1], c, count)
    <2>1. n \in 0..count /\ n # 0
      OBVIOUS
    <2> QED BY <1>6, <2>1
  <1> QED BY <1>7, <1>8, <1>9

(* What sys_write_file has done after some pieces: an offset that was in   *)
(* the file is still there.                                                *)
Piecewise(x, c, count) ==
  /\ Grown(fs, x.fs, c.file) /\ x.failed \in BOOLEAN /\ x.written \in Int
  /\ ~x.failed => x.written \in 0..count
  /\ c.offset <= fs.root[c.file].size => c.offset + x.written <= x.fs.root[c.file].size

(* One piece.                                                              *)
LEMMA WritePiece ==
  ASSUME FsOK(fs), NEW c, c.file \in Files, c.offset \in Nat, NEW count \in Nat,
         NEW x, Piecewise(x, c, count)
  PROVE  Piecewise(write_piece(x, c, count), c, count)
  <1>1. PICK chuck : chuck = Min({SYSBUFF_SIZE, count - x.written})
    OBVIOUS
  <1>2. PICK f : f = c.file
    OBVIOUS
  <1>3. PICK from : from = c.offset + x.written
    OBVIOUS
  <1>4. PICK wrote : wrote = Disk!fat_write(x.fs, f, Buffer(chuck), from)
    OBVIOUS
  <1>5. PICK y : y = write_piece(x, c, count)
    OBVIOUS
  <1>6. y = IF x.failed \/ chuck = 0 THEN x
            ELSE [fs |-> wrote.fs, failed |-> wrote.failed,
                  written |-> x.written + IF wrote.failed THEN -ENOSPC ELSE chuck]
    BY <1>1, <1>2, <1>3, <1>4, <1>5 DEF write_piece
  <1>7. CASE x.failed \/ chuck = 0
    BY <1>5, <1>6, <1>7
  <1>8. CASE ~(x.failed \/ chuck = 0)
    <2>1. x.written \in 0..count /\ from \in Nat
      BY <1>3, <1>8 DEF Piecewise
    <2>2. chuck \in 1 .. count - x.written
      <3>1. PICK left : left = count - x.written
        OBVIOUS
      <3>2. SYSBUFF_SIZE \in Int /\ left \in Int
        BY <2>1, <3>1, ChannelsAssumption
      <3>3. Min({SYSBUFF_SIZE, left}) = IF SYSBUFF_SIZE <= left THEN SYSBUFF_SIZE ELSE left
        BY <3>2, MinMaxOfPair, Zenon
      <3> QED BY <1>1, <1>8, <2>1, <3>1, <3>3, ChannelsAssumption
    <2>3. PICK buffer : buffer = Buffer(chuck)
      OBVIOUS
    <2>4. Len(buffer) = chuck
      BY <2>2, <2>3 DEF Buffer
    <2>5. FsOK(x.fs) /\ Grown(fs, x.fs, f) /\ f \in Files
      BY <1>2 DEF Piecewise, Grown
    <2>6. /\ Grown(x.fs, wrote.fs, f) /\ wrote.failed \in BOOLEAN
          /\ ~wrote.failed /\ Len(buffer) > 0 =>
               wrote.fs.root[f].size >= from + Len(buffer)
      <3>1. Len(buffer) \in Nat
        BY <2>2, <2>4
      <3> QED BY <1>4, <2>1, <2>3, <2>5, <3>1, FatWrite
    <2>7. ~wrote.failed => wrote.fs.root[f].size >= from + chuck
      BY <2>2, <2>4, <2>6
    <2>8. Grown(fs, wrote.fs, f)
      BY <2>5, <2>6, GrownTwice
    <2>9. /\ y.fs = wrote.fs /\ y.failed = wrote.failed
          /\ y.written = x.written + IF wrote.failed THEN -ENOSPC ELSE chuck
      BY <1>6, <1>8
    <2>10. y.written \in Int /\ (~y.failed => y.written \in 0..count)
      BY <2>1, <2>2, <2>6, <2>9, ChannelsAssumption
    <2>11. ASSUME c.offset <= fs.root[f].size PROVE c.offset + y.written <= y.fs.root[f].size
      <3>1. CASE wrote.failed
        <4>1. /\ fs.root[f].size \in Nat /\ x.fs.root[f].size \in Nat
              /\ wrote.fs.root[f].size \in Nat
              /\ wrote.fs.root[f].size >= x.fs.root[f].size
          BY <2>5, <2>6 DEF Grown, FsOK, EntryOK
        <4>2. c.offset + x.written <= x.fs.root[f].size
          BY <1>2, <2>11 DEF Piecewise
        <4> QED BY <2>1, <2>9, <3>1, <4>1, <4>2, ChannelsAssumption
      <3>2. CASE ~wrote.failed
        BY <1>3, <2>1, <2>2, <2>7, <2>9, <3>2
      <3> QED BY <3>1, <3>2
    <2>12. Piecewise(y, c, count)
      BY <1>2, <2>6, <2>8, <2>9, <2>10, <2>11 DEF Piecewise
    <2> QED BY <1>5, <2>12
  <1> QED BY <1>7, <1>8

(* sys_write_file lets the file grow and keeps an offset that was in it.   *)
LEMMA WriteFile ==
  ASSUME FsOK(fs), NEW c, c.file \in Files, c.offset \in Nat, NEW count \in Nat
  PROVE  LET w == sys_write_file(c, count)
         IN  /\ Grown(fs, w.fs, c.file) /\ w.written \in Int
             /\ c.offset <= fs.root[c.file].size =>
                  c.offset + w.written <= w.fs.root[c.file].size
  <1>1. PICK a : a = [fs |-> fs, written |-> 0, failed |-> FALSE]
    OBVIOUS
  <1>2. PICK g : /\ g[0] = a
                 /\ \A n \in 1..count : g[n] = write_piece(g[n-1], c, count)
                 /\ sys_write_file(c, count) = g[count]
    BY <1>1, FileLoopDef
  <1> DEFINE I == {n \in Nat : n <= count => Piecewise(g[n], c, count)}
  <1>3. 0 \in I
    <2>1. Grown(fs, fs, c.file)
      BY DEF Grown, FsOK, EntryOK
    <2>2. a.fs = fs /\ a.failed = FALSE /\ a.written = 0
      BY <1>1
    <2>3. a.written \in Int /\ a.written \in 0..count /\ c.offset + a.written = c.offset
      BY <2>2
    <2>4. a.failed \in BOOLEAN
      BY <2>2, Zenon
    <2>5. Piecewise(a, c, count)
      BY <2>1, <2>2, <2>3, <2>4 DEF Piecewise
    <2> QED BY <1>2, <2>5
  <1>4. ASSUME NEW n \in Nat, n \in I PROVE n+1 \in I
    <2> SUFFICES ASSUME n+1 <= count PROVE Piecewise(g[n+1], c, count)
      OBVIOUS
    <2>1. n <= count /\ n+1 \in 1..count /\ (n+1)-1 = n
      OBVIOUS
    <2>2. PICK x : x = g[n]
      OBVIOUS
    <2>3. g[n+1] = write_piece(x, c, count)
      BY <1>2, <2>1, <2>2
    <2>4. Piecewise(x, c, count)
      BY <1>4, <2>1, <2>2
    <2> QED BY <2>3, <2>4, WritePiece
  <1>5. count \in I
    <2> HIDE DEF I
    <2> QED BY <1>3, <1>4, NatSetInduction
  <1>6. Piecewise(sys_write_file(c, count), c, count)
    BY <1>2, <1>5
  <1> QED BY <1>6 DEF Piecewise

(***************************************************************************)
(* The inductive invariant.  TypeOK bounds what the tables refer to.  That *)
(* a channel of a file is never free, never that of a device and has the   *)
(* mode its directory entry was created with (ChannelOK) is what keeps     *)
(* close, unlink and the leftovers of open away from it.                   *)
(***************************************************************************)

ChannelOK(c, s, gone) ==
  c.fops = dev_file =>
    /\ c.mode # FREE_CHANNEL /\ c.file \notin {0, 1}
    /\ ~gone => /\ s.root[c.file].mode = c.mode
                /\ c.offset <= s.root[c.file].size

FileChannels == \A d \in Dyn : ChannelOK(dyn_channels[d], fs, d \in outlived)

IInv == TypeOK /\ FsOK(fs) /\ DeviceEntriesStay /\ FileChannels

(* More than FileDescriptorsStay says of a step: with fat_close as it is   *)
(* not even its own task closes a descriptor of a file.                    *)
Stay ==
  \A t \in Live, fd \in Accepted :
    LET d == channels[t][fd]
    IN  d # FREE_CHANNEL /\ IsFile(d) =>
          /\ t \in Live' => channels'[t][fd] = d
          /\ dyn_channels'[d].fops = dev_file
          /\ dyn_channels'[d].file = dyn_channels[d].file
          /\ dyn_channels'[d].mode = dyn_channels[d].mode

Drivers == {dev_keyboard, dev_console, dev_file, NULL}
Channel == [fops : Drivers, file : Files, mode : 0..3 \cup {FREE_CHANNEL},
            offset : Int, opens : Int]
Table   == [Accepted -> Fds \cup {FREE_CHANNEL}]

(* The sets of indices.                                                    *)
LEMMA SetFacts ==
  /\ 0 \in Slots /\ {0, 1, 2} \subseteq Fds /\ Fds \subseteq Dyn /\ Fds \subseteq Accepted
  /\ {0, 1} \subseteq Files /\ FREE_CHANNEL \notin Fds /\ FREE_CHANNEL \notin 0..3
  /\ NUM_CHANNELS \in Accepted /\ NUM_CHANNELS \notin Fds
  BY ChannelsAssumption DEF Slots, Fds, Dyn, Accepted, Files, FREE_CHANNEL

(* TypeOK, taken apart.                                                    *)
LEMMA TypeFacts ==
  ASSUME TypeOK
  PROVE  /\ channels \in [Live -> Table] /\ 0 \in Live /\ Live \subseteq Slots
         /\ dyn_channels \in [Dyn -> Channel] /\ name \in [Files -> Paths \cup {""}]
         /\ outlived \subseteq Dyn /\ lost \in BOOLEAN
  BY DEF TypeOK, Table, Channel, Drivers

(* A free slot that was found is free.                                     *)
LEMMA FreeChannel ==
  ASSUME NEW chs, find_free_channel(chs) >= 0
  PROVE  find_free_channel(chs) \in Fds /\ chs[find_free_channel(chs)] = FREE_CHANNEL
  <1> DEFINE U == {fd \in Fds : chs[fd] = FREE_CHANNEL}
  <1>1. find_free_channel(chs) = IF U = {} THEN -1 ELSE Min(U)
    BY DEF find_free_channel
  <1>2. U # {} /\ U \subseteq Nat
    BY <1>1 DEF Fds
  <1>3. Min(U) \in U
    <2> HIDE DEF U
    <2> QED BY <1>2, MinInSet
  <1> QED BY <1>1, <1>2, <1>3

(* Likewise a free dynamic channel: it is not that of a file.              *)
LEMMA FreeDynChannel ==
  ASSUME FileChannels, find_free_dyn_channel >= 0
  PROVE  LET d == find_free_dyn_channel
         IN  /\ d \in Fds /\ d \in Dyn /\ dyn_channels[d].mode = FREE_CHANNEL
             /\ dyn_channels[d].fops # dev_file
  <1> DEFINE U == {d \in Fds : dyn_channels[d].mode = FREE_CHANNEL}
  <1>1. find_free_dyn_channel = IF U = {} THEN -1 ELSE Min(U)
    BY DEF find_free_dyn_channel
  <1>2. U # {} /\ U \subseteq Nat
    BY <1>1 DEF Fds
  <1>3. Min(U) \in U
    <2> HIDE DEF U
    <2> QED BY <1>2, MinInSet
  <1>4. PICK d : d = Min(U)
    OBVIOUS
  <1>5. d \in Fds /\ d \in Dyn /\ dyn_channels[d].mode = FREE_CHANNEL
    BY <1>3, <1>4, SetFacts
  <1>6. dyn_channels[d].fops # dev_file
    BY <1>5 DEF FileChannels, ChannelOK
  <1> QED BY <1>1, <1>2, <1>4, <1>5, <1>6

(* A call through NULL changes nothing but lost.                           *)
LEMMA LoseStep ==
  ASSUME IInv, Lose
  PROVE  IInv' /\ Stay
  <1>1. /\ channels' = channels /\ dyn_channels' = dyn_channels /\ name' = name
        /\ fs' = fs /\ outlived' = outlived /\ lost' = TRUE
    BY DEF Lose
  <1>2. TypeOK'
    BY <1>1 DEF IInv, TypeOK, Live, Paths
  <1>3. FsOK(fs') /\ DeviceEntriesStay' /\ FileChannels'
    BY <1>1 DEF IInv, DeviceEntriesStay, FileChannels, IsFile, Disk!Used
  <1>4. Stay
    BY <1>1 DEF Stay, Live, IsFile
  <1> QED BY <1>2, <1>3, <1>4 DEF IInv

(***************************************************************************)
(* The services, one by one.                                               *)
(***************************************************************************)

(* A new directory entry, or one that is free again.                       *)
LEMMA FatEntry ==
  ASSUME NEW m \in 0..3 \cup {FREE_CHANNEL}, NEW e, e = [Disk!FreeEntry EXCEPT !.mode = m]
  PROVE  EntryOK(e) /\ e.mode = m /\ e.size = 0
  BY DEF EntryOK, Disk!FreeEntry

(* A set of used files, from the modes.                                    *)
LEMMA UsedFacts ==
  ASSUME FsOK(fs), NEW f \in Files
  PROVE  f \in Disk!Used(fs) <=> fs.root[f].mode # FREE_CHANNEL
  BY DEF Disk!Used, Disk!FREE_TYPE, FREE_CHANNEL, Disk!Files, Files

(* The end of open: channels whose file is there do not see it.            *)
LEMMA InstallStep ==
  ASSUME IInv, NEW t \in Live, NEW fd \in Fds, channels[t][fd] = FREE_CHANNEL,
         NEW d \in Fds, dyn_channels[d].mode = FREE_CHANNEL,
         NEW c \in Channel, ChannelOK(c, fs', FALSE),
         channels' = [channels EXCEPT ![t][fd] = d],
         dyn_channels' = [dyn_channels EXCEPT ![d] = c],
         outlived' = outlived \ {d}, lost' = lost,
         name' \in [Files -> Paths \cup {""}], name'[0] = name[0], name'[1] = name[1],
         FsOK(fs'),
         \A g \in Files : fs.root[g].mode # FREE_CHANNEL => fs'.root[g] = fs.root[g]
  PROVE  IInv' /\ Stay
  <1>1. fd \in Accepted /\ d \in Dyn
    BY SetFacts
  <1>2. /\ channels \in [Live -> Table] /\ 0 \in Live /\ Live \subseteq Slots
        /\ dyn_channels \in [Dyn -> Channel] /\ outlived \subseteq Dyn /\ lost \in BOOLEAN
    BY TypeFacts DEF IInv
  <1>3. /\ channels' \in [Live -> Table] /\ Live' = Live
         /\ \A u \in Live, k \in Accepted :
              channels'[u][k] = IF u = t /\ k = fd THEN d ELSE channels[u][k]
    BY <1>1, <1>2 DEF Live, Table
  <1>4. dyn_channels' \in [Dyn -> Channel]
    BY <1>1, <1>2
  <1>5. TypeOK'
    <2>1. outlived' \subseteq Dyn /\ lost' \in BOOLEAN
      BY <1>2
    <2> QED BY <1>2, <1>3, <1>4, <2>1 DEF TypeOK, Table, Channel, Drivers
  <1>6. ASSUME NEW e \in Dyn PROVE ChannelOK(dyn_channels'[e], fs', e \in outlived')
    <2>1. CASE e = d
      BY <1>1, <1>2, <2>1 DEF ChannelOK
    <2>2. CASE e # d
      <3>1. PICK x : x = dyn_channels[e]
        OBVIOUS
      <3>2. dyn_channels'[e] = x /\ (e \in outlived' <=> e \in outlived)
        BY <1>2, <2>2, <3>1
      <3>3. x.file \in Files
        BY <1>2, <3>1 DEF Channel
      <3>4. ChannelOK(x, fs, e \in outlived)
        BY <3>1 DEF IInv, FileChannels
      <3>5. ASSUME x.fops = dev_file, e \notin outlived
            PROVE  fs'.root[x.file] = fs.root[x.file]
        BY <3>3, <3>4, <3>5 DEF ChannelOK
      <3> QED BY <3>2, <3>4, <3>5 DEF ChannelOK
    <2> QED BY <2>1, <2>2
  <1>7. DeviceEntriesStay'
    <2>1. fs'.root[0] = fs.root[0] /\ fs'.root[1] = fs.root[1]
      BY SetFacts, UsedFacts DEF IInv, DeviceEntriesStay
    <2>2. {0, 1} \subseteq Disk!Used(fs') /\ fs'.root[0].size = 0 /\ fs'.root[1].size = 0
      BY <2>1, SetFacts DEF IInv, DeviceEntriesStay, Disk!Used
    <2>3. \A e \in Dyn : IsFile(e)' => dyn_channels'[e].file \notin {0, 1}
      BY <1>6 DEF IsFile, ChannelOK
    <2> QED BY <2>2, <2>3 DEF IInv, DeviceEntriesStay
  <1>8. Stay
    <2> SUFFICES ASSUME NEW u \in Live, NEW k \in Accepted, channels[u][k] # FREE_CHANNEL,
                        IsFile(channels[u][k])
                 PROVE  /\ channels'[u][k] = channels[u][k]
                        /\ dyn_channels'[channels[u][k]] = dyn_channels[channels[u][k]]
      BY DEF Stay, IsFile
    <2>1. channels[u][k] \in Dyn /\ channels[u][k] # d
      <3>1. channels[u][k] \in Fds \cup {FREE_CHANNEL}
        BY <1>2 DEF Table
      <3> QED BY <3>1, SetFacts DEF IsFile
    <2> QED BY <1>1, <1>2, <1>3, <2>1
  <1> QED BY <1>5, <1>6, <1>7, <1>8 DEF IInv, FileChannels

(* open that creates.  The entry it takes is not that of a device.         *)
LEMMA OpenCreatesStep ==
  ASSUME IInv, NEW t \in Live, NEW path \in Paths, NEW flags \in Flags,
         find_free_channel(channels[t]) >= 0, find_free_dyn_channel >= 0,
         Disk!Used(fs) # Files,
         NEW f, f = Min(Files \ Disk!Used(fs)),
         fs' = Disk!fat_create(fs, f, Access(flags)), name' = [name EXCEPT ![f] = path],
         Install(t, find_free_dyn_channel, f, flags, TRUE)
  PROVE  IInv' /\ Stay
  <1>1. PICK d : d = find_free_dyn_channel
    OBVIOUS
  <1>2. PICK fd : fd = find_free_channel(channels[t])
    OBVIOUS
  <1>3. PICK m : m = Access(flags)
    OBVIOUS
  <1>4. fd \in Fds /\ channels[t][fd] = FREE_CHANNEL
    BY <1>2, FreeChannel
  <1>5. d \in Fds /\ d \in Dyn /\ dyn_channels[d].mode = FREE_CHANNEL
    BY <1>1, FreeDynChannel DEF IInv
  <1>6. m \in 0..3 /\ m # FREE_CHANNEL /\ m \in 0..3 \cup {FREE_CHANNEL}
    BY <1>3, ChannelsAssumption DEF Access, FREE_CHANNEL
  <1>7. f \in Files /\ f \notin Disk!Used(fs) /\ f \notin {0, 1}
    <2>1. Files \ Disk!Used(fs) # {} /\ Files \ Disk!Used(fs) \subseteq Nat
      BY DEF Disk!Used, Disk!Files, Files
    <2>2. f \in Files \ Disk!Used(fs)
      BY <2>1, MinInSet
    <2> QED BY <2>2 DEF IInv, DeviceEntriesStay
  <1>8. PICK c : c = [fops |-> dev_file, file |-> f, mode |-> m,
                      offset |-> 0, opens |-> dyn_channels[d].opens + 1]
    OBVIOUS
  <1>9. c \in Channel
    <2>1. dyn_channels[d] \in Channel
      BY <1>5, TypeFacts DEF IInv
    <2>2. dyn_channels[d].opens + 1 \in Int
      BY <2>1 DEF Channel
    <2> QED BY <1>6, <1>7, <1>8, <2>2 DEF Channel, Drivers
  <1>10. /\ FsOK(fs') /\ fs'.root[f].mode = m /\ fs'.root[f].size = 0
         /\ \A g \in Files \ {f} : fs'.root[g] = fs.root[g]
    <2>1. fs' = [fs EXCEPT !.root[f] = [Disk!FreeEntry EXCEPT !.mode = m]]
      BY <1>3 DEF Disk!fat_create
    <2>2. /\ "root" \in DOMAIN fs /\ DOMAIN fs.root = Files
          /\ \A g \in Files : EntryOK(fs.root[g])
      BY DEF IInv, FsOK
    <2>3. PICK e : e = [Disk!FreeEntry EXCEPT !.mode = m]
      OBVIOUS
    <2>4. EntryOK(e) /\ e.mode = m /\ e.size = 0
      BY <1>6, <2>3, FatEntry
    <2>5. "root" \in DOMAIN fs' /\ fs'.root = [fs.root EXCEPT ![f] = e]
      BY <2>1, <2>2, <2>3
    <2>6. /\ DOMAIN fs'.root = Files /\ fs'.root[f] = e
          /\ \A g \in Files \ {f} : fs'.root[g] = fs.root[g]
      BY <1>7, <2>2, <2>5
    <2> QED BY <2>2, <2>4, <2>5, <2>6 DEF FsOK
  <1>11. ChannelOK(c, fs', FALSE)
    BY <1>6, <1>7, <1>8, <1>10 DEF ChannelOK
  <1>12. \A g \in Files : fs.root[g].mode # FREE_CHANNEL => fs'.root[g] = fs.root[g]
    BY <1>7, <1>10, UsedFacts DEF IInv
  <1>13. /\ channels' = [channels EXCEPT ![t][fd] = d]
         /\ dyn_channels' = [dyn_channels EXCEPT ![d] = c]
         /\ outlived' = outlived \ {d} /\ lost' = lost
    BY <1>1, <1>2, <1>3, <1>8 DEF Install, Driver, OpenMode
  <1>14. /\ name' \in [Files -> Paths \cup {""}]
         /\ name'[0] = name[0] /\ name'[1] = name[1]
    BY <1>7, TypeFacts, SetFacts DEF IInv
  <1> QED BY <1>4, <1>5, <1>9, <1>10, <1>11, <1>12, <1>13, <1>14, InstallStep

(* open of a path that exists: the driver that was left over is not that   *)
(* of files.                                                               *)
LEMMA OpenExistingStep ==
  ASSUME IInv, NEW t \in Live, NEW path \in Paths, NEW flags \in Flags,
         find_free_channel(channels[t]) >= 0, find_free_dyn_channel >= 0,
         NEW f \in Found(path),
         Install(t, find_free_dyn_channel, f, flags, FALSE), UNCHANGED <<name, fs>>
  PROVE  IInv' /\ Stay
  <1>1. PICK d : d = find_free_dyn_channel
    OBVIOUS
  <1>2. PICK fd : fd = find_free_channel(channels[t])
    OBVIOUS
  <1>3. PICK m : m = Access(flags)
    OBVIOUS
  <1>4. fd \in Fds /\ channels[t][fd] = FREE_CHANNEL
    BY <1>2, FreeChannel
  <1>5. /\ d \in Fds /\ d \in Dyn /\ dyn_channels[d].mode = FREE_CHANNEL
        /\ dyn_channels[d].fops # dev_file
    BY <1>1, FreeDynChannel DEF IInv
  <1>6. m \in 0..3
    BY <1>3, ChannelsAssumption DEF Access
  <1>7. f \in Files
    BY DEF Found, Disk!Used, Disk!Files, Files
  <1>8. PICK c : c = [fops |-> dyn_channels[d].fops, file |-> f, mode |-> m,
                      offset |-> 0, opens |-> dyn_channels[d].opens + 1]
    OBVIOUS
  <1>9. c \in Channel
    <2>1. dyn_channels[d] \in Channel
      BY <1>5, TypeFacts DEF IInv
    <2>2. dyn_channels[d].opens + 1 \in Int /\ dyn_channels[d].fops \in Drivers
      BY <2>1 DEF Channel
    <2> QED BY <1>6, <1>7, <1>8, <2>2 DEF Channel
  <1>10. FsOK(fs') /\ \A g \in Files : fs'.root[g] = fs.root[g]
    BY DEF IInv
  <1>11. ChannelOK(c, fs', FALSE)
    BY <1>5, <1>8 DEF ChannelOK
  <1>12. /\ channels' = [channels EXCEPT ![t][fd] = d]
         /\ dyn_channels' = [dyn_channels EXCEPT ![d] = c]
         /\ outlived' = outlived \ {d} /\ lost' = lost
    BY <1>1, <1>2, <1>3, <1>8 DEF Install, Driver, OpenMode
  <1>13. /\ name' \in [Files -> Paths \cup {""}]
         /\ name'[0] = name[0] /\ name'[1] = name[1]
    BY TypeFacts DEF IInv
  <1> QED BY <1>4, <1>5, <1>9, <1>10, <1>11, <1>12, <1>13, InstallStep

(* open.                                                                   *)
LEMMA OpenStep ==
  ASSUME IInv, NEW t \in Live, NEW path \in Paths, NEW flags \in Flags,
         sys_open(t, path, flags)
  PROVE  IInv' /\ Stay
  <1>1. find_free_channel(channels[t]) >= 0 /\ find_free_dyn_channel >= 0
    BY DEF sys_open
  <1>2. CASE /\ Disk!Used(fs) # Files
             /\ LET f == Min(Files \ Disk!Used(fs))
                IN  /\ fs' = Disk!fat_create(fs, f, Access(flags))
                    /\ name' = [name EXCEPT ![f] = path]
                    /\ Install(t, find_free_dyn_channel, f, flags, TRUE)
    BY <1>1, <1>2, OpenCreatesStep
  <1>3. ASSUME NEW f \in Found(path),
               Install(t, find_free_dyn_channel, f, flags, FALSE), UNCHANGED <<name, fs>>
        PROVE  IInv' /\ Stay
    BY <1>1, <1>3, OpenExistingStep
  <1>4. CASE Lose
    BY <1>4, LoseStep
  <1> QED BY <1>2, <1>3, <1>4 DEF sys_open

(* A descriptor of a task refers to a dynamic channel or to none.          *)
LEMMA ChannelType ==
  ASSUME IInv, NEW t \in Live, NEW fd \in Accepted, channels[t][fd] # FREE_CHANNEL
  PROVE  /\ channels[t][fd] \in Fds /\ channels[t][fd] \in Dyn
         /\ dyn_channels[channels[t][fd]] \in Channel
  <1>1. channels \in [Live -> Table] /\ dyn_channels \in [Dyn -> Channel]
    BY TypeFacts DEF IInv
  <1>2. channels[t] \in Table
    BY <1>1
  <1>3. channels[t][fd] \in Fds
    BY <1>2 DEF Table
  <1> QED BY <1>1, <1>3, SetFacts

(* read and write move the offset of a file, which may have grown.         *)
LEMMA OffsetStep ==
  ASSUME IInv, NEW d \in Dyn, dyn_channels[d].fops = dev_file, NEW n \in Int,
         Grown(fs, fs', dyn_channels[d].file),
         d \notin outlived => n <= fs'.root[dyn_channels[d].file].size,
         dyn_channels' = [dyn_channels EXCEPT ![d].offset = n],
         UNCHANGED <<channels, name, outlived, lost>>
  PROVE  IInv' /\ Stay
  <1>1. /\ channels \in [Live -> Table] /\ 0 \in Live /\ Live \subseteq Slots
        /\ dyn_channels \in [Dyn -> Channel] /\ name \in [Files -> Paths \cup {""}]
        /\ outlived \subseteq Dyn /\ lost \in BOOLEAN
    BY TypeFacts DEF IInv
  <1>2. PICK c : c = [dyn_channels[d] EXCEPT !.offset = n]
    OBVIOUS
  <1>3. /\ c \in Channel /\ c.fops = dyn_channels[d].fops /\ c.file = dyn_channels[d].file
        /\ c.mode = dyn_channels[d].mode /\ c.offset = n
    <2>1. dyn_channels[d] \in Channel
      BY <1>1
    <2> QED BY <1>2, <2>1 DEF Channel
  <1>4. dyn_channels' = [dyn_channels EXCEPT ![d] = c]
    BY <1>2
  <1>5. dyn_channels' \in [Dyn -> Channel] /\ Live' = Live
    BY <1>1, <1>3, <1>4 DEF Live
  <1>6. TypeOK'
    BY <1>1, <1>5 DEF TypeOK, Table, Channel, Drivers
  <1>7. \A e \in Dyn : /\ dyn_channels'[e].fops = dyn_channels[e].fops
                       /\ dyn_channels'[e].file = dyn_channels[e].file
                       /\ dyn_channels'[e].mode = dyn_channels[e].mode
                       /\ e # d => dyn_channels'[e].offset = dyn_channels[e].offset
    BY <1>1, <1>3, <1>4
  <1>8. dyn_channels'[d].offset = n
    BY <1>1, <1>3, <1>4
  <1>9. ASSUME NEW e \in Dyn PROVE ChannelOK(dyn_channels'[e], fs', e \in outlived')
    <2>1. PICK x : x = dyn_channels[e]
      OBVIOUS
    <2>2. PICK y : y = dyn_channels'[e]
      OBVIOUS
    <2>3. /\ y.fops = x.fops /\ y.file = x.file /\ y.mode = x.mode
          /\ e # d => y.offset = x.offset
      BY <1>7, <2>1, <2>2
    <2>4. x.file \in Files /\ x.offset \in Int
      <3>1. x \in Channel
        BY <1>1, <2>1
      <3> QED BY <3>1 DEF Channel
    <2>5. ChannelOK(x, fs, e \in outlived)
      BY <2>1 DEF IInv, FileChannels
    <2>6. ASSUME x.fops = dev_file, e \notin outlived
          PROVE  fs'.root[x.file].mode = x.mode /\ y.offset <= fs'.root[x.file].size
      <3>1. fs.root[x.file].mode = x.mode /\ x.offset <= fs.root[x.file].size
        BY <2>5, <2>6 DEF ChannelOK
      <3>2. /\ fs'.root[x.file].mode = fs.root[x.file].mode
            /\ fs'.root[x.file].size >= fs.root[x.file].size
            /\ fs.root[x.file].size \in Nat /\ fs'.root[x.file].size \in Nat
        <4>1. fs.root[x.file].size \in Nat /\ fs'.root[x.file].size \in Nat
          BY <2>4 DEF IInv, Grown, FsOK, EntryOK
        <4>2. CASE x.file = dyn_channels[d].file
          BY <4>1, <4>2 DEF Grown
        <4>3. CASE x.file # dyn_channels[d].file
          <5>1. fs'.root[x.file] = fs.root[x.file]
            BY <2>4, <4>3 DEF Grown
          <5> QED BY <4>1, <5>1
        <4> QED BY <4>2, <4>3
      <3>3. CASE e = d
        <4>1. n <= fs'.root[x.file].size
          BY <2>1, <2>6, <3>3
        <4> QED BY <1>8, <2>2, <3>1, <3>2, <3>3, <4>1
      <3>4. CASE e # d
        BY <2>3, <2>4, <3>1, <3>2, <3>4
      <3> QED BY <3>3, <3>4
    <2>7. ChannelOK(y, fs', e \in outlived')
      BY <2>3, <2>5, <2>6 DEF ChannelOK
    <2> QED BY <2>2, <2>7
  <1>10. DeviceEntriesStay'
    <2>1. dyn_channels[d].file \notin {0, 1}
      BY DEF IInv, FileChannels, ChannelOK
    <2>2. fs'.root[0] = fs.root[0] /\ fs'.root[1] = fs.root[1]
      BY <2>1, SetFacts DEF Grown
    <2>3. {0, 1} \subseteq Disk!Used(fs') /\ fs'.root[0].size = 0 /\ fs'.root[1].size = 0
      BY <2>2, SetFacts DEF IInv, DeviceEntriesStay, Disk!Used
    <2>4. \A e \in Dyn : IsFile(e)' => dyn_channels'[e].file \notin {0, 1}
      BY <1>9 DEF IsFile, ChannelOK
    <2> QED BY <2>3, <2>4 DEF IInv, DeviceEntriesStay
  <1>11. Stay
    <2> SUFFICES ASSUME NEW u \in Live, NEW k \in Accepted, channels[u][k] # FREE_CHANNEL
                 PROVE  channels[u][k] \in Dyn
      BY <1>7 DEF Stay, IsFile
    <2> QED BY ChannelType
  <1>12. FsOK(fs')
    BY DEF Grown
  <1> QED BY <1>6, <1>9, <1>10, <1>11, <1>12 DEF IInv, FileChannels

(* read: what was read was in the file.                                    *)
LEMMA ReadStep ==
  ASSUME IInv, NEW t \in Live, NEW fd \in FdArgs, NEW count \in Counts,
         sys_read(t, fd, count)
  PROVE  IInv' /\ Stay
  <1>1. PICK d : d = channels[t][fd]
    OBVIOUS
  <1>2. PICK c : c = dyn_channels[d]
    OBVIOUS
  <1>3. d # FREE_CHANNEL /\ fd \in Accepted
    BY <1>1, ChannelsAssumption DEF sys_read, fd_access_ok, Accepted
  <1>4. d \in Dyn /\ c \in Channel
    BY <1>1, <1>2, <1>3, ChannelType
  <1>5. CASE /\ c.fops = dev_file /\ c.offset >= 0
             /\ dyn_channels' = [dyn_channels EXCEPT ![d].offset = @ + Transferred(c, count)]
             /\ UNCHANGED <<channels, name, fs, outlived, lost>>
    <2>1. PICK k : k = Transferred(c, count)
      OBVIOUS
    <2>2. PICK f : f = c.file
      OBVIOUS
    <2>3. f \in Files /\ c.offset \in Nat /\ count \in Nat /\ FsOK(fs)
      BY <1>4, <1>5, <2>2, ChannelsAssumption DEF Channel, IInv
    <2>4. k \in Nat /\ (c.offset <= fs.root[f].size => c.offset + k <= fs.root[f].size)
      BY <2>1, <2>2, <2>3, FatRead DEF Transferred
    <2>5. PICK n : n = c.offset + k
      OBVIOUS
    <2>6. n \in Int /\ dyn_channels' = [dyn_channels EXCEPT ![d].offset = n]
      BY <1>2, <1>5, <2>1, <2>3, <2>4, <2>5
    <2>7. Grown(fs, fs', f)
      BY <1>5, <2>2, <2>3 DEF Grown, FsOK, EntryOK
    <2>8. d \notin outlived => n <= fs'.root[f].size
      BY <1>2, <1>4, <1>5, <2>2, <2>4, <2>5 DEF IInv, FileChannels, ChannelOK
    <2> QED BY <1>2, <1>4, <1>5, <2>2, <2>6, <2>7, <2>8, OffsetStep
  <1>6. CASE Lose
    BY <1>6, LoseStep
  <1> QED BY <1>1, <1>2, <1>5, <1>6 DEF sys_read

(* write: the file has grown to the end of what was written.               *)
LEMMA WriteStep ==
  ASSUME IInv, NEW t \in Live, NEW fd \in FdArgs, NEW count \in Counts,
         sys_write(t, fd, count)
  PROVE  IInv' /\ Stay
  <1>1. PICK d : d = channels[t][fd]
    OBVIOUS
  <1>2. PICK c : c = dyn_channels[d]
    OBVIOUS
  <1>3. d # FREE_CHANNEL /\ fd \in Accepted
    BY <1>1, ChannelsAssumption DEF sys_write, fd_access_ok, Accepted
  <1>4. d \in Dyn /\ c \in Channel
    BY <1>1, <1>2, <1>3, ChannelType
  <1>5. CASE /\ c.fops = dev_file /\ c.offset >= 0
             /\ LET wrote == sys_write_file(c, count)
                IN  /\ fs' = wrote.fs
                    /\ dyn_channels' = [dyn_channels EXCEPT ![d].offset = @ + wrote.written]
             /\ UNCHANGED <<channels, name, outlived, lost>>
    <2>1. PICK w : w = sys_write_file(c, count)
      OBVIOUS
    <2>2. PICK f : f = c.file
      OBVIOUS
    <2>3. f \in Files /\ c.offset \in Nat /\ count \in Nat /\ FsOK(fs)
      BY <1>4, <1>5, <2>2, ChannelsAssumption DEF Channel, IInv
    <2>4. /\ Grown(fs, w.fs, f) /\ w.written \in Int
          /\ c.offset <= fs.root[f].size => c.offset + w.written <= w.fs.root[f].size
      BY <2>1, <2>2, <2>3, WriteFile
    <2>5. PICK n : n = c.offset + w.written
      OBVIOUS
    <2>6. n \in Int /\ fs' = w.fs /\ dyn_channels' = [dyn_channels EXCEPT ![d].offset = n]
      BY <1>2, <1>5, <2>1, <2>3, <2>4, <2>5
    <2>7. d \notin outlived => n <= fs'.root[f].size
      BY <1>2, <1>4, <1>5, <2>2, <2>4, <2>5, <2>6 DEF IInv, FileChannels, ChannelOK
    <2> QED BY <1>2, <1>4, <1>5, <2>2, <2>4, <2>6, <2>7, OffsetStep
  <1>6. CASE Lose
    BY <1>6, LoseStep
  <1> QED BY <1>1, <1>2, <1>5, <1>6 DEF sys_write

(* The dynamic channels dyn are those of old but for the modes of channels *)
(* that are not files, and for opens.                                      *)
FilesKept(old, dyn) ==
  /\ dyn \in [Dyn -> Channel]
  /\ \A d \in Dyn : /\ dyn[d].fops = old[d].fops /\ dyn[d].file = old[d].file
                    /\ dyn[d].offset = old[d].offset
                    /\ old[d].fops = dev_file => dyn[d].mode = old[d].mode

(* One close: fat_close refuses that of a file.                            *)
LEMMA CloseOne ==
  ASSUME NEW chs \in Table, NEW dyn \in [Dyn -> Channel], NEW fd \in Accepted
  PROVE  LET after == sys_close(chs, dyn, fd)
         IN  /\ after.chs \in Table /\ FilesKept(dyn, after.dyn)
             /\ \A k \in Accepted :
                  chs[k] # FREE_CHANNEL /\ dyn[chs[k]].fops = dev_file =>
                    after.chs[k] = chs[k]
  <1>1. PICK d : d = chs[fd]
    OBVIOUS
  <1>2. PICK after : after = sys_close(chs, dyn, fd)
    OBVIOUS
  <1>3. CASE d = FREE_CHANNEL \/ CloseFails(dyn[d])
    <2>1. after.chs = chs /\ after.dyn = dyn
      BY <1>1, <1>2, <1>3 DEF sys_close
    <2> QED BY <1>2, <2>1 DEF FilesKept
  <1>4. CASE ~(d = FREE_CHANNEL \/ CloseFails(dyn[d]))
    <2>1. d \in Dyn /\ dyn[d] \in Channel /\ dyn[d].fops # dev_file
      BY <1>1, <1>4, SetFacts DEF Table, CloseFails
    <2>2. PICK m : m = IF \E i \in Fds \ {fd} : chs[i] = d THEN dyn[d].mode
                       ELSE FREE_CHANNEL
      OBVIOUS
    <2>3. PICK c : c = [[dyn[d] EXCEPT !.mode = m] EXCEPT !.opens = @ - 1]
      OBVIOUS
    <2>4. /\ c \in Channel /\ c.fops = dyn[d].fops /\ c.file = dyn[d].file
          /\ c.offset = dyn[d].offset
      <3>1. m \in 0..3 \cup {FREE_CHANNEL}
        BY <2>1, <2>2 DEF Channel
      <3>2. PICK e : e = [dyn[d] EXCEPT !.mode = m]
        OBVIOUS
      <3>3. /\ e \in Channel /\ e.fops = dyn[d].fops /\ e.file = dyn[d].file
            /\ e.offset = dyn[d].offset
        BY <2>1, <3>1, <3>2 DEF Channel
      <3>4. e.opens - 1 \in Int
        BY <3>3 DEF Channel
      <3>5. c = [e EXCEPT !.opens = e.opens - 1]
        BY <2>3, <3>2
      <3> QED BY <3>3, <3>4, <3>5 DEF Channel
    <2>5. PICK x : x = [dyn EXCEPT ![d] = c]
      OBVIOUS
    <2>6. after.chs = [chs EXCEPT ![fd] = FREE_CHANNEL] /\ after.dyn = x
      <3>1. after = [chs |-> [chs EXCEPT ![fd] = FREE_CHANNEL],
                     dyn |-> [dyn EXCEPT ![d].mode = m, ![d].opens = @ - 1]]
        BY <1>1, <1>2, <1>4, <2>2 DEF sys_close
      <3>2. [dyn EXCEPT ![d].mode = m, ![d].opens = @ - 1] = x
        BY <2>1, <2>3, <2>5
      <3> QED BY <3>1, <3>2
    <2>7. after.chs \in Table
      BY <2>6 DEF Table
    <2>8. FilesKept(dyn, x)
      BY <2>1, <2>4, <2>5 DEF FilesKept
    <2>9. ASSUME NEW k \in Accepted, dyn[chs[k]].fops = dev_file
          PROVE  after.chs[k] = chs[k]
      <3>1. k # fd
        BY <1>1, <2>1, <2>9
      <3> QED BY <2>6, <3>1 DEF Table
    <2> QED BY <1>2, <2>6, <2>7, <2>8, <2>9
  <1> QED BY <1>3, <1>4

(* close and exit: what they leave of the two tables.                      *)
LEMMA ClosedStep ==
  ASSUME IInv, NEW dyn, FilesKept(dyn_channels, dyn), Closed(dyn),
         channels' \in [Live' -> Table], 0 \in Live', Live' \subseteq Slots,
         \A u \in Live, k \in Accepted :
           /\ u \in Live' /\ channels[u][k] # FREE_CHANNEL
           /\ dyn_channels[channels[u][k]].fops = dev_file
           => channels'[u][k] = channels[u][k]
  PROVE  IInv' /\ Stay
  <1>1. /\ dyn_channels' = dyn /\ name' = name /\ fs' = fs /\ outlived' = outlived
        /\ lost' = lost
    BY DEF Closed
  <1>2. /\ dyn \in [Dyn -> Channel] /\ name \in [Files -> Paths \cup {""}]
        /\ outlived \subseteq Dyn /\ lost \in BOOLEAN
    BY TypeFacts DEF IInv, FilesKept
  <1>3. TypeOK'
    BY <1>1, <1>2 DEF TypeOK, Table, Channel, Drivers
  <1>4. ASSUME NEW d \in Dyn PROVE ChannelOK(dyn[d], fs, d \in outlived)
    <2>1. ChannelOK(dyn_channels[d], fs, d \in outlived)
      BY DEF IInv, FileChannels
    <2> QED BY <2>1 DEF FilesKept, ChannelOK
  <1>5. FileChannels'
    BY <1>1, <1>4 DEF FileChannels
  <1>6. DeviceEntriesStay'
    <2>1. \A d \in Dyn : IsFile(d)' => dyn_channels'[d].file \notin {0, 1}
      BY <1>1, <1>4 DEF IsFile, ChannelOK
    <2> QED BY <1>1, <2>1 DEF IInv, DeviceEntriesStay, Disk!Used
  <1>7. Stay
    <2> SUFFICES ASSUME NEW u \in Live, NEW k \in Accepted, channels[u][k] # FREE_CHANNEL,
                        IsFile(channels[u][k])
                 PROVE  /\ u \in Live' => channels'[u][k] = channels[u][k]
                        /\ dyn[channels[u][k]].fops = dev_file
                        /\ dyn[channels[u][k]].file = dyn_channels[channels[u][k]].file
                        /\ dyn[channels[u][k]].mode = dyn_channels[channels[u][k]].mode
      BY <1>1 DEF Stay
    <2>1. channels[u][k] \in Dyn
      BY ChannelType
    <2> QED BY <2>1 DEF FilesKept, IsFile
  <1> QED BY <1>1, <1>3, <1>5, <1>6, <1>7 DEF IInv

(* close.                                                                  *)
LEMMA CloseStep ==
  ASSUME IInv, NEW t \in Live, NEW fd \in FdArgs, Close(t, fd)
  PROVE  IInv' /\ Stay
  <1>1. PICK after : after = sys_close(channels[t], dyn_channels, fd)
    OBVIOUS
  <1>2. channels' = [channels EXCEPT ![t] = after.chs] /\ Closed(after.dyn)
    BY <1>1 DEF Close
  <1>3. /\ channels \in [Live -> Table] /\ 0 \in Live /\ Live \subseteq Slots
        /\ dyn_channels \in [Dyn -> Channel] /\ fd \in Accepted
    BY TypeFacts, ChannelsAssumption DEF IInv, Accepted
  <1>4. PICK chs \in Table : chs = channels[t]
    BY <1>3
  <1>5. /\ after.chs \in Table /\ FilesKept(dyn_channels, after.dyn)
        /\ \A k \in Accepted :
             chs[k] # FREE_CHANNEL /\ dyn_channels[chs[k]].fops = dev_file =>
               after.chs[k] = chs[k]
    <2>1. after = sys_close(chs, dyn_channels, fd)
      BY <1>1, <1>4
    <2> QED BY <1>3, <2>1, CloseOne
  <1>6. channels' \in [Live -> Table] /\ Live' = Live
    BY <1>2, <1>3, <1>5 DEF Live
  <1>7. \A u \in Live, k \in Accepted :
          /\ u \in Live' /\ channels[u][k] # FREE_CHANNEL
          /\ dyn_channels[channels[u][k]].fops = dev_file
          => channels'[u][k] = channels[u][k]
    BY <1>2, <1>3, <1>4, <1>5
  <1> QED BY <1>2, <1>3, <1>5, <1>6, <1>7, ClosedStep

(* The recursive definition in sys_exit has a solution: the loop.          *)
LEMMA ExitLoopDef ==
  ASSUME NEW t, sys_exit(t)
  PROVE  \E g : /\ g[0] = [chs |-> channels[t], dyn |-> dyn_channels]
                /\ \A n \in 1..NUM_CHANNELS :
                     g[n] = sys_close(g[n-1].chs, g[n-1].dyn, n-1)
                /\ Closed(g[NUM_CHANNELS].dyn)
  <1>1. PICK a : a = [chs |-> channels[t], dyn |-> dyn_channels]
    OBVIOUS
  <1> DEFINE Sol(g, m) == g = [n \in 0..m |->
                                 IF n = 0 THEN a
                                 ELSE sys_close(g[n-1].chs, g[n-1].dyn, n-1)]
             I == {m \in Nat : \E g : Sol(g, m)}
  <1>2. 0 \in I
    <2>1. PICK g : g = [n \in 0..0 |-> a]
      OBVIOUS
    <2>2. Sol(g, 0)
      BY <2>1
    <2> QED BY <2>2
  <1>3. ASSUME NEW m \in Nat, m \in I PROVE m+1 \in I
    <2>1. PICK g : Sol(g, m)
      BY <1>3
    <2>2. PICK w : w = sys_close(g[m].chs, g[m].dyn, m)
      OBVIOUS
    <2>3. PICK h : h = [n \in 0..m+1 |-> IF n = m+1 THEN w ELSE g[n]]
      OBVIOUS
    <2>4. \A n \in 0..m : h[n] = g[n]
      BY <2>3
    <2>5. ASSUME NEW n \in 0..m+1
          PROVE h[n] = IF n = 0 THEN a ELSE sys_close(h[n-1].chs, h[n-1].dyn, n-1)
      <3>1. CASE n = 0
        BY <2>1, <2>4, <3>1
      <3>2. CASE n = m+1
        <4>1. n # 0 /\ n-1 = m /\ h[n] = w /\ h[n-1] = g[m]
          BY <2>3, <2>4, <3>2
        <4> QED BY <2>2, <4>1
      <3>3. CASE n # 0 /\ n # m+1
        <4>1. n \in 0..m /\ n-1 \in 0..m
          BY <3>3
        <4>2. g[n] = sys_close(g[n-1].chs, g[n-1].dyn, n-1)
          BY <2>1, <3>3, <4>1
        <4> QED BY <2>4, <3>3, <4>1, <4>2
      <3> QED BY <3>1, <3>2, <3>3
    <2>6. Sol(h, m+1)
      BY <2>3, <2>5
    <2> QED BY <2>6
  <1>4. NUM_CHANNELS \in I
    <2> HIDE DEF I
    <2> QED BY <1>2, <1>3, NatSetInduction, ChannelsAssumption
  <1> DEFINE Def(g) == g = [n \in 0..NUM_CHANNELS |->
                              IF n = 0 THEN [chs |-> channels[t], dyn |-> dyn_channels]
                              ELSE sys_close(g[n-1].chs, g[n-1].dyn, n-1)]
  <1>5. PICK g : g = CHOOSE h : Def(h)
    OBVIOUS
  <1>6. Def(g)
    <2>1. PICK h : Sol(h, NUM_CHANNELS)
      BY <1>4
    <2>2. Def(h)
      BY <1>1, <2>1
    <2> HIDE DEF Def
    <2> QED BY <1>5, <2>2, Zenon
  <1>7. Closed(g[NUM_CHANNELS].dyn)
    BY <1>5 DEF sys_exit
  <1>8. g[0] = [chs |-> channels[t], dyn |-> dyn_channels]
    BY <1>6, ChannelsAssumption
  <1>9. ASSUME NEW n \in 1..NUM_CHANNELS
        PROVE g[n] = sys_close(g[n-1].chs, g[n-1].dyn, n-1)
    <2>1. n \in 0..NUM_CHANNELS /\ n # 0
      BY ChannelsAssumption
    <2> QED BY <1>6, <2>1
  <1> QED BY <1>7, <1>8, <1>9

(* Closing twice keeps files as closing once does.                         *)
LEMMA FilesKeptTwice ==
  ASSUME NEW x, NEW y, NEW z, FilesKept(x, y), FilesKept(y, z)
  PROVE  FilesKept(x, z)
  BY DEF FilesKept

(* exit: the loop closes no channel of a file.                             *)
LEMMA ExitStep ==
  ASSUME IInv, NEW t \in Live, sys_exit(t)
  PROVE  IInv' /\ Stay
  <1>1. PICK g : /\ g[0] = [chs |-> channels[t], dyn |-> dyn_channels]
                 /\ \A n \in 1..NUM_CHANNELS :
                      g[n] = sys_close(g[n-1].chs, g[n-1].dyn, n-1)
                 /\ Closed(g[NUM_CHANNELS].dyn)
    BY ExitLoopDef
  <1>2. /\ channels \in [Live -> Table] /\ 0 \in Live /\ Live \subseteq Slots
        /\ dyn_channels \in [Dyn -> Channel]
    BY TypeFacts DEF IInv
  <1> DEFINE J(x) == x.chs \in Table /\ FilesKept(dyn_channels, x.dyn)
             I == {n \in Nat : n <= NUM_CHANNELS => J(g[n])}
  <1>3. 0 \in I
    <2>1. J([chs |-> channels[t], dyn |-> dyn_channels])
      BY <1>2 DEF FilesKept
    <2> QED BY <1>1, <2>1
  <1>4. ASSUME NEW n \in Nat, n \in I PROVE n+1 \in I
    <2> SUFFICES ASSUME n+1 <= NUM_CHANNELS PROVE J(g[n+1])
      OBVIOUS
    <2>1. n <= NUM_CHANNELS /\ n+1 \in 1..NUM_CHANNELS /\ (n+1)-1 = n /\ n \in Accepted
      BY ChannelsAssumption DEF Accepted
    <2>2. PICK x : x = g[n]
      OBVIOUS
    <2>3. g[n+1] = sys_close(x.chs, x.dyn, n)
      BY <1>1, <2>1, <2>2
    <2>4. x.chs \in Table /\ FilesKept(dyn_channels, x.dyn)
      BY <1>4, <2>1, <2>2
    <2>5. x.dyn \in [Dyn -> Channel]
      BY <2>4 DEF FilesKept
    <2>6. PICK after : after = sys_close(x.chs, x.dyn, n)
      OBVIOUS
    <2>7. after.chs \in Table /\ FilesKept(x.dyn, after.dyn)
      BY <2>1, <2>4, <2>5, <2>6, CloseOne
    <2> QED BY <2>3, <2>4, <2>6, <2>7, FilesKeptTwice
  <1>5. NUM_CHANNELS \in I
    <2> HIDE DEF I
    <2> QED BY <1>3, <1>4, NatSetInduction, ChannelsAssumption
  <1>6. FilesKept(dyn_channels, g[NUM_CHANNELS].dyn)
    BY <1>5, ChannelsAssumption
  <1>7. t # 0 /\ channels' = [u \in Live \ {t} |-> channels[u]]
    BY DEF sys_exit
  <1>8. /\ Live' = Live \ {t} /\ channels' \in [Live' -> Table]
        /\ \A u \in Live' : channels'[u] = channels[u]
    BY <1>2, <1>7 DEF Live
  <1>9. 0 \in Live' /\ Live' \subseteq Slots
    BY <1>2, <1>7, <1>8
  <1> QED BY <1>1, <1>6, <1>8, <1>9, ClosedStep

(* Steps that leave the dynamic channels and the disk: fork and dup.       *)
LEMMA TablesStep ==
  ASSUME IInv, channels' \in [Live' -> Table], Live \subseteq Live', Live' \subseteq Slots,
         \A u \in Live, k \in Accepted :
           channels[u][k] # FREE_CHANNEL => channels'[u][k] = channels[u][k],
         UNCHANGED <<dyn_channels, name, fs, outlived, lost>>
  PROVE  IInv' /\ Stay
  <1>1. TypeOK'
    <2>1. /\ 0 \in Live /\ dyn_channels \in [Dyn -> Channel]
          /\ name \in [Files -> Paths \cup {""}] /\ outlived \subseteq Dyn
          /\ lost \in BOOLEAN
      BY TypeFacts DEF IInv
    <2> QED BY <2>1 DEF TypeOK, Table, Channel, Drivers
  <1>2. FsOK(fs') /\ DeviceEntriesStay' /\ FileChannels'
    BY DEF IInv, DeviceEntriesStay, FileChannels, IsFile, Disk!Used
  <1>3. Stay
    BY DEF Stay, IsFile
  <1> QED BY <1>1, <1>2, <1>3 DEF IInv

(* dup.                                                                    *)
LEMMA DupStep ==
  ASSUME IInv, NEW t \in Live, NEW fd \in FdArgs, sys_dup(t, fd)
  PROVE  IInv' /\ Stay
  <1>1. PICK k : k = find_free_channel(channels[t])
    OBVIOUS
  <1>2. k \in Accepted /\ channels[t][k] = FREE_CHANNEL
    BY <1>1, FreeChannel, SetFacts DEF sys_dup
  <1>3. PICK d : d = channels[t][fd]
    OBVIOUS
  <1>4. d \in Fds
    BY <1>3, ChannelType, ChannelsAssumption DEF sys_dup, Accepted
  <1>5. channels' = [channels EXCEPT ![t][k] = d]
    BY <1>1, <1>3 DEF sys_dup
  <1>6. channels \in [Live -> Table] /\ Live \subseteq Slots
    BY TypeFacts DEF IInv
  <1>7. /\ channels' \in [Live -> Table] /\ Live' = Live
        /\ \A u \in Live, i \in Accepted :
             channels'[u][i] = IF u = t /\ i = k THEN d ELSE channels[u][i]
    BY <1>2, <1>4, <1>5, <1>6 DEF Live, Table
  <1>8. \A u \in Live, i \in Accepted :
          channels[u][i] # FREE_CHANNEL => channels'[u][i] = channels[u][i]
    BY <1>2, <1>7
  <1>9. UNCHANGED <<dyn_channels, name, fs, outlived, lost>>
    BY DEF sys_dup
  <1> QED BY <1>6, <1>7, <1>8, <1>9, TablesStep

(* fork.                                                                   *)
LEMMA ForkStep ==
  ASSUME IInv, NEW t \in Live, NEW child \in Slots, sys_fork(t, child)
  PROVE  IInv' /\ Stay
  <1>1. /\ child \notin Live
        /\ channels' = [u \in Live \cup {child} |->
                          IF u = child THEN channels[t] ELSE channels[u]]
    BY DEF sys_fork
  <1>2. channels \in [Live -> Table] /\ Live \subseteq Slots
    BY TypeFacts DEF IInv
  <1>3. /\ Live' = Live \cup {child} /\ channels' \in [Live' -> Table]
        /\ \A u \in Live : channels'[u] = channels[u]
    BY <1>1, <1>2 DEF Live
  <1>4. UNCHANGED <<dyn_channels, name, fs, outlived, lost>>
    BY DEF sys_fork
  <1> QED BY <1>2, <1>3, <1>4, TablesStep

(* fat_unlink clears the entry of the file.                                *)
LEMMA FatUnlink ==
  ASSUME NEW s, FsOK(s), NEW f \in Files
  PROVE  LET r == Disk!fat_unlink(s, f)
         IN  FsOK(r) /\ \A g \in Files \ {f} : r.root[g] = s.root[g]
  <1>1. PICK joined :
          joined = IF s.last_free_block # Disk!EOC
                   THEN [s EXCEPT !.block_lists[s.last_free_block] = s.root[f].first_block]
                   ELSE [s EXCEPT !.first_free_block = s.root[f].first_block,
                                  !.last_free_block  = s.root[f].last_block]
    OBVIOUS
  <1>2. "root" \in DOMAIN joined /\ joined.root = s.root
    BY <1>1 DEF FsOK
  <1>3. PICK n : n = Disk!BlocksOf(s.root[f].size)
    OBVIOUS
  <1>4. PICK e : e = Disk!FreeEntry
    OBVIOUS
  <1>5. PICK r : r = Disk!fat_unlink(s, f)
    OBVIOUS
  <1>6. r = [joined EXCEPT !.free_block_count = @ + n, !.used_block_count = @ - n,
                           !.root[f] = e]
    BY <1>1, <1>3, <1>4, <1>5 DEF Disk!fat_unlink
  <1>7. "root" \in DOMAIN r /\ r.root = [s.root EXCEPT ![f] = e]
    BY <1>2, <1>6
  <1>8. EntryOK(e)
    BY <1>4 DEF EntryOK, Disk!FreeEntry, Disk!FREE_TYPE, FREE_CHANNEL
  <1>9. DOMAIN r.root = Files /\ r.root[f] = e /\ \A g \in Files \ {f} : r.root[g] = s.root[g]
    BY <1>7 DEF FsOK
  <1> QED BY <1>5, <1>7, <1>8, <1>9 DEF FsOK

(* unlink: the file had a user, so that it is no device, and all its users *)
(* outlive it.                                                             *)
LEMMA UnlinkStep ==
  ASSUME IInv, NEW t \in Live, NEW path \in Paths, sys_unlink(path)
  PROVE  IInv' /\ Stay
  <1>1. PICK f \in Found(path) :
          /\ file_is_in_use(f) >= 0
          /\ dyn_channels[file_is_in_use(f)].fops = dev_file
          /\ fs' = Disk!fat_unlink(fs, f)
          /\ name' = [name EXCEPT ![f] = ""]
          /\ outlived' = outlived \cup {d \in Dyn : IsFile(d) /\ dyn_channels[d].file = f}
          /\ UNCHANGED <<channels, dyn_channels, lost>>
    BY DEF sys_unlink
  <1>2. f \in Files
    BY DEF Found, Disk!Used, Disk!Files, Files
  <1>3. f \notin {0, 1}
    <2> DEFINE U == {d \in Dyn : dyn_channels[d].file = f /\ dyn_channels[d].opens > 0}
    <2>1. file_is_in_use(f) = IF U = {} THEN -1 ELSE Min(U)
      BY DEF file_is_in_use
    <2>2. U # {} /\ U \subseteq Nat
      <3>1. file_is_in_use(f) >= 0
        BY <1>1
      <3> QED BY <2>1, <3>1 DEF Dyn
    <2>3. Min(U) \in U
      <3> HIDE DEF U
      <3> QED BY <2>2, MinInSet
    <2>4. PICK d \in Dyn : dyn_channels[d].file = f /\ dyn_channels[d].fops = dev_file
      BY <1>1, <2>1, <2>2, <2>3
    <2> QED BY <2>4 DEF IInv, FileChannels, ChannelOK
  <1>4. /\ channels \in [Live -> Table] /\ 0 \in Live /\ Live \subseteq Slots
        /\ dyn_channels \in [Dyn -> Channel] /\ name \in [Files -> Paths \cup {""}]
        /\ outlived \subseteq Dyn /\ lost \in BOOLEAN
    BY TypeFacts DEF IInv
  <1>5. /\ name' \in [Files -> Paths \cup {""}]
        /\ name'[0] = name[0] /\ name'[1] = name[1]
    BY <1>1, <1>2, <1>3, <1>4, SetFacts
  <1>6. FsOK(fs') /\ \A g \in Files \ {f} : fs'.root[g] = fs.root[g]
    BY <1>1, <1>2, FatUnlink DEF IInv
  <1>7. TypeOK'
    <2>1. outlived' \subseteq Dyn /\ Live' = Live
      BY <1>1, <1>4 DEF Live
    <2> QED BY <1>1, <1>4, <1>5, <2>1 DEF TypeOK, Table, Channel, Drivers
  <1>8. ASSUME NEW d \in Dyn PROVE ChannelOK(dyn_channels[d], fs', d \in outlived')
    <2>1. ChannelOK(dyn_channels[d], fs, d \in outlived)
      BY DEF IInv, FileChannels
    <2>2. dyn_channels[d].file \in Files
      BY <1>4 DEF Channel
    <2>3. CASE dyn_channels[d].fops = dev_file /\ dyn_channels[d].file = f
      <3>1. d \in outlived'
        BY <1>1, <2>1, <2>3 DEF IsFile, ChannelOK
      <3> QED BY <2>1, <3>1 DEF ChannelOK
    <2>4. CASE ~(dyn_channels[d].fops = dev_file /\ dyn_channels[d].file = f)
      <3>1. d \in outlived => d \in outlived'
        BY <1>1
      <3>2. dyn_channels[d].fops = dev_file =>
              fs'.root[dyn_channels[d].file] = fs.root[dyn_channels[d].file]
        BY <1>6, <2>2, <2>4
      <3> QED BY <2>1, <3>1, <3>2 DEF ChannelOK
    <2> QED BY <2>3, <2>4
  <1>9. FileChannels'
    BY <1>1, <1>8 DEF FileChannels
  <1>10. DeviceEntriesStay'
    <2>1. fs'.root[0] = fs.root[0] /\ fs'.root[1] = fs.root[1]
      BY <1>3, <1>6, SetFacts
    <2>2. {0, 1} \subseteq Disk!Used(fs') /\ fs'.root[0].size = 0 /\ fs'.root[1].size = 0
      BY <2>1, SetFacts DEF IInv, DeviceEntriesStay, Disk!Used
    <2>3. \A d \in Dyn : IsFile(d)' => dyn_channels'[d].file \notin {0, 1}
      BY <1>1 DEF IInv, DeviceEntriesStay, IsFile
    <2> QED BY <1>5, <2>2, <2>3 DEF IInv, DeviceEntriesStay
  <1>11. Stay
    BY <1>1 DEF Stay, Live, IsFile
  <1> QED BY <1>6, <1>7, <1>9, <1>10, <1>11 DEF IInv

(***************************************************************************)
(* The theorems.                                                           *)
(***************************************************************************)

(* Every service keeps the invariant, and the descriptors of files.        *)
LEMMA NextStep ==
  ASSUME IInv, Next
  PROVE  IInv' /\ Stay
  <1>1. Callers \subseteq Live
    BY DEF Callers
  <1>2. ASSUME NEW t \in Callers, NEW path \in Paths, NEW flags \in Flags,
               sys_open(t, path, flags)
        PROVE  IInv' /\ Stay
    BY <1>1, <1>2, OpenStep
  <1>3. ASSUME NEW t \in Callers, NEW fd \in FdArgs, NEW count \in Counts,
               sys_read(t, fd, count)
        PROVE  IInv' /\ Stay
    BY <1>1, <1>3, ReadStep
  <1>4. ASSUME NEW t \in Callers, NEW fd \in FdArgs, NEW count \in Counts,
               sys_write(t, fd, count)
        PROVE  IInv' /\ Stay
    BY <1>1, <1>4, WriteStep
  <1>5. ASSUME NEW t \in Callers, NEW fd \in FdArgs, Close(t, fd)
        PROVE  IInv' /\ Stay
    BY <1>1, <1>5, CloseStep
  <1>6. ASSUME NEW t \in Callers, NEW path \in Paths, sys_unlink(path)
        PROVE  IInv' /\ Stay
    BY <1>1, <1>6, UnlinkStep
  <1>7. ASSUME NEW t \in Callers, NEW fd \in FdArgs, sys_dup(t, fd)
        PROVE  IInv' /\ Stay
    BY <1>1, <1>7, DupStep
  <1>8. ASSUME NEW t \in Callers, NEW child \in Slots, sys_fork(t, child)
        PROVE  IInv' /\ Stay
    BY <1>1, <1>8, ForkStep
  <1>9. ASSUME NEW t \in Callers, sys_exit(t)
        PROVE  IInv' /\ Stay
    BY <1>1, <1>9, ExitStep
  <1> QED BY <1>2, <1>3, <1>4, <1>5, <1>6, <1>7, <1>8, <1>9 DEF Next

(* A step that changes nothing.                                            *)
LEMMA StutterStep ==
  ASSUME IInv, UNCHANGED vars
  PROVE  IInv'
  <1>1. /\ channels' = channels /\ dyn_channels' = dyn_channels /\ name' = name
        /\ fs' = fs /\ outlived' = outlived /\ lost' = lost
    BY DEF vars
  <1>2. TypeOK'
    BY <1>1 DEF IInv, TypeOK, Live, Paths
  <1>3. FsOK(fs') /\ DeviceEntriesStay' /\ FileChannels'
    BY <1>1 DEF IInv, DeviceEntriesStay, FileChannels, IsFile, Disk!Used
  <1> QED BY <1>2, <1>3 DEF IInv

(* The kernel starts with the two devices in the directory and no file.    *)
LEMMA InitInv ==
  ASSUME Init
  PROVE  IInv
  <1>1. /\ dyn_channels \in [Dyn -> Channel]
        /\ \A d \in Dyn : dyn_channels[d].fops # dev_file
    <2> DEFINE std(fops, mode) ==
                 [fops |-> fops, file |-> 0, mode |-> mode, offset |-> 0, opens |-> 0]
    <2>1. dyn_channels = [d \in Dyn |->
            CASE d = 0      -> std(dev_keyboard, O_RDONLY)
              [] d \in 1..2 -> std(dev_console, O_WRONLY)
              [] OTHER      -> std(NULL, FREE_CHANNEL)]
      BY DEF Init
    <2>2. PICK k : k = std(dev_keyboard, O_RDONLY)
      OBVIOUS
    <2>3. PICK c : c = std(dev_console, O_WRONLY)
      OBVIOUS
    <2>4. PICK n : n = std(NULL, FREE_CHANNEL)
      OBVIOUS
    <2>5. /\ {k, c, n} \subseteq Channel
          /\ k.fops # dev_file /\ c.fops # dev_file /\ n.fops # dev_file
      <3>1. 0 \in Files /\ {O_RDONLY, O_WRONLY} \subseteq 0..3
        BY SetFacts DEF O_RDONLY, O_WRONLY
      <3> QED BY <2>2, <2>3, <2>4, <3>1
            DEF Channel, Drivers, dev_keyboard, dev_console, dev_file, NULL
    <2>6. dyn_channels = [d \in Dyn |-> CASE d = 0 -> k [] d \in 1..2 -> c [] OTHER -> n]
      BY <2>1, <2>2, <2>3, <2>4
    <2>7. ASSUME NEW d \in Dyn PROVE dyn_channels[d] \in {k, c, n}
      BY <2>6
    <2>8. dyn_channels \in [Dyn -> {k, c, n}]
      BY <2>6, <2>7
    <2> QED BY <2>5, <2>7, <2>8
  <1>2. /\ Live = {0} /\ channels \in [{0} -> Table]
    <2> DEFINE none  == [t \in {0} |-> [fd \in Accepted |->
                          IF fd = NUM_CHANNELS THEN 0 ELSE FREE_CHANNEL]]
               three == [fd \in Accepted |-> IF fd < 3 THEN fd ELSE none[0][fd]]
    <2>1. channels \in {none, [none EXCEPT ![0] = three]}
      BY DEF Init
    <2>2. none \in [{0} -> Table]
      BY SetFacts DEF Table
    <2>3. three \in Table
      <3>1. none[0] \in Table
        BY <2>2
      <3>2. ASSUME NEW fd \in Accepted, fd < 3 PROVE fd \in Fds
        BY <3>2, ChannelsAssumption DEF Fds, Accepted
      <3> HIDE DEF none
      <3> QED BY <3>1, <3>2 DEF Table
    <2> HIDE DEF none, three
    <2>4. channels \in [{0} -> Table]
      BY <2>1, <2>2, <2>3
    <2> QED BY <2>4 DEF Live
  <1>3. name \in [Files -> Paths \cup {""}] /\ name[0] = KEYBOARD_PATH /\ name[1] = CONSOLE_PATH
    <2> DEFINE entry(f) == IF f = 0 THEN KEYBOARD_PATH
                           ELSE IF f = 1 THEN CONSOLE_PATH ELSE ""
    <2>1. name = [f \in Files |-> entry(f)]
      BY DEF Init
    <2>2. \A f \in Files : entry(f) \in Paths \cup {""}
      BY DEF Paths
    <2>3. entry(0) = KEYBOARD_PATH /\ entry(1) = CONSOLE_PATH
      OBVIOUS
    <2> HIDE DEF entry
    <2> QED BY <2>1, <2>2, <2>3, SetFacts
  <1>4. /\ FsOK(fs) /\ fs.root[0].mode = O_RDONLY /\ fs.root[0].size = 0
        /\ fs.root[1].mode = O_WRONLY /\ fs.root[1].size = 0
    <2>1. PICK s : s = Disk!initZeOSFAT
      OBVIOUS
    <2>2. PICK free : free = Disk!FreeEntry
      OBVIOUS
    <2>3. "root" \in DOMAIN s /\ s.root = [f \in Files |-> free]
      BY <2>1, <2>2 DEF Disk!initZeOSFAT, Disk!Files, Files
    <2>4. EntryOK(free)
      BY <2>2 DEF EntryOK, Disk!FreeEntry, Disk!FREE_TYPE, FREE_CHANNEL
    <2>5. PICK e0 : e0 = [free EXCEPT !.mode = O_RDONLY]
      OBVIOUS
    <2>6. PICK e1 : e1 = [free EXCEPT !.mode = O_WRONLY]
      OBVIOUS
    <2>7. /\ EntryOK(e0) /\ e0.mode = O_RDONLY /\ e0.size = 0
          /\ EntryOK(e1) /\ e1.mode = O_WRONLY /\ e1.size = 0
      <3>1. {O_RDONLY, O_WRONLY} \subseteq 0..3 \cup {FREE_CHANNEL}
        BY DEF O_RDONLY, O_WRONLY
      <3> QED BY <2>2, <2>5, <2>6, <3>1, FatEntry
    <2>8. fs = [[s EXCEPT !.root[0] = e0] EXCEPT !.root[1] = e1]
      BY <2>1, <2>2, <2>5, <2>6 DEF Init, Disk!fat_create
    <2>9. PICK r : r = [s EXCEPT !.root[0] = e0]
      OBVIOUS
    <2>10. "root" \in DOMAIN r /\ r.root = [s.root EXCEPT ![0] = e0]
      BY <2>3, <2>9
    <2>11. "root" \in DOMAIN fs /\ fs.root = [r.root EXCEPT ![1] = e1]
      BY <2>8, <2>9, <2>10
    <2>12. /\ DOMAIN fs.root = Files /\ fs.root[0] = e0 /\ fs.root[1] = e1
           /\ \A f \in Files \ {0, 1} : fs.root[f] = free
      BY <2>3, <2>10, <2>11, SetFacts
    <2> QED BY <2>4, <2>7, <2>11, <2>12 DEF FsOK
  <1>5. {0, 1} \subseteq Disk!Used(fs)
    BY <1>4, SetFacts, UsedFacts DEF O_RDONLY, O_WRONLY, FREE_CHANNEL
  <1>6. DeviceEntriesStay
    BY <1>1, <1>3, <1>4, <1>5 DEF DeviceEntriesStay, IsFile
  <1>7. FileChannels
    BY <1>1 DEF FileChannels, ChannelOK
  <1>8. TypeOK
    <2>1. outlived = {} /\ lost = FALSE
      BY DEF Init
    <2> QED BY <1>1, <1>2, <1>3, <2>1, SetFacts DEF TypeOK, Table, Channel, Drivers
  <1> QED BY <1>4, <1>6, <1>7, <1>8 DEF IInv

(* The invariant holds in every state, for any number of tasks, channels,  *)
(* files and blocks, and also when the chains of blocks are damaged.       *)
THEOREM Invariance == Spec => []IInv
  <1>1. Init => IInv
    BY InitInv
  <1>2. IInv /\ [Next]_vars => IInv'
    BY NextStep, StutterStep
  <1> QED BY <1>1, <1>2, PTL DEF Spec

(* Descriptors refer to dynamic channels that exist and are handed out, or *)
(* to none, whatever open, dup, fork, close and exit did before.           *)
THEOREM TypeCorrect == Spec => []TypeOK
  <1>1. IInv => TypeOK
    BY DEF IInv
  <1> QED BY <1>1, Invariance, PTL

(* The offset of a channel is never beyond the end of its file, unless the *)
(* file was removed: also not after a write that failed half-way.          *)
THEOREM OffsetsStayInside == Spec => []OffsetWithinFile
  <1>1. IInv => OffsetWithinFile
    BY DEF IInv, FileChannels, ChannelOK, OffsetWithinFile, IsFile
  <1> QED BY <1>1, Invariance, PTL

(* What fd_access_ok lets through to a file is what the file was created   *)
(* for: the hole it leaves for free channels is never that of a file.      *)
THEOREM AccessIsAsCreated == Spec => []AccessAsCreated
  <1>1. ASSUME IInv PROVE AccessAsCreated
    <2> SUFFICES ASSUME NEW t \in Live, NEW fd \in Accepted, NEW mode \in {O_RDONLY, O_WRONLY},
                        fd_access_ok(t, fd, mode),
                        dyn_channels[channels[t][fd]].fops = dev_file,
                        channels[t][fd] \notin outlived
                 PROVE  Has(fs.root[dyn_channels[channels[t][fd]].file].mode, mode)
      BY DEF AccessAsCreated
    <2>1. PICK d : d = channels[t][fd]
      OBVIOUS
    <2>2. d \in Dyn
      BY <1>1, <2>1, ChannelType DEF fd_access_ok
    <2>3. /\ dyn_channels[d].mode # FREE_CHANNEL
          /\ fs.root[dyn_channels[d].file].mode = dyn_channels[d].mode
      BY <1>1, <2>1, <2>2 DEF IInv, FileChannels, ChannelOK
    <2>4. Has(dyn_channels[d].mode, mode)
      BY <2>1, <2>3 DEF fd_access_ok
    <2> QED BY <2>1, <2>3, <2>4
  <1> QED BY <1>1, Invariance, PTL

(* Neither unlink nor open nor write ever reaches the directory entries of *)
(* the devices.                                                            *)
THEOREM DevicesStay == Spec => []DeviceEntriesStay
  <1>1. IInv => DeviceEntriesStay
    BY DEF IInv
  <1> QED BY <1>1, Invariance, PTL

(* The descriptor of a file means the same file, with the same mode and    *)
(* driver, until its task closes it or exits: no other close and no exit   *)
(* frees it, and open and dup take no descriptor and no channel in use.    *)
THEOREM DescriptorsStay == Spec => FileDescriptorsStay
  <1>1. ASSUME IInv, [Next]_vars
        PROVE  [Stay]_vars
    BY <1>1, NextStep
  <1>2. [Stay]_vars =>
          [\A t \in Live, fd \in Fds :
             LET d == channels[t][fd]
             IN  d # FREE_CHANNEL /\ IsFile(d) /\ t \in Live' =>
                   \/ channels' = [channels EXCEPT ![t][fd] = FREE_CHANNEL]
                   \/ /\ channels'[t][fd] = d
                      /\ dyn_channels'[d].fops = dev_file
                      /\ dyn_channels'[d].file = dyn_channels[d].file
                      /\ dyn_channels'[d].mode = dyn_channels[d].mode]_vars
    BY SetFacts DEF Stay
  <1> QED BY <1>1, <1>2, Invariance, PTL DEF Spec, FileDescriptorsStay
=============================================================================
