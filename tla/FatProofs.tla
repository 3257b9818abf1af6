----------------------------- MODULE FatProofs -----------------------------
(***************************************************************************)
(* Theorems about the file system, for any number of files and of blocks   *)
(* of any size, and any bytes written.                                     *)
(***************************************************************************)
EXTENDS Fat, FiniteSetTheorems, SequenceTheorems, WellFoundedInduction, TLAPS

(* The numbers of files, of blocks and of bytes of a block.                *)
LEMMA Sizes ==
  /\ MAX_FILES \in Nat \ {0} /\ MAX_BLOCKS \in Nat \ {0}
  /\ BLOCK_SIZE \in Nat \ {0} /\ EOC = -1
  /\ Blocks \subseteq Nat /\ EOC \notin Blocks /\ Files \subseteq Nat
  BY FatAssumption DEF EOC, Blocks, Files

(* A set of natural numbers has a least element.                           *)
LEMMA NatWellOrdered ==
  ASSUME NEW T, T \subseteq Nat, T # {}
  PROVE  \E m \in T : \A k \in T : ~(k < m)
  <1>1. \E R : IsWellFoundedOn(R, Nat) /\ \A k, m \in Nat : k < m => <<k, m>> \in R
    <2>1. IsWellFoundedOn(OpToRel(<, Nat), Nat)
      BY NatLessThanWellFounded, Zenon
    <2>2. \A k, m \in Nat : k < m => <<k, m>> \in OpToRel(<, Nat)
      BY Zenon DEF OpToRel
    <2> QED BY <2>1, <2>2, Zenon
  <1>2. PICK R : IsWellFoundedOn(R, Nat) /\ \A k, m \in Nat : k < m => <<k, m>> \in R
    BY <1>1
  <1>3. PICK m \in T : \A k \in T : ~(<<k, m>> \in R)
    <2>1. IsWellFoundedOn(R, Nat)
      BY <1>2
    <2> QED BY <2>1, WFMin, Zenon
  <1> QED BY <1>2, <1>3

(* An inductive set of natural numbers holds them all.                     *)
LEMMA NatSetInduction ==
  ASSUME NEW I, 0 \in I, \A n \in Nat : n \in I => n+1 \in I
  PROVE  Nat \subseteq I
  <1> SUFFICES ASSUME Nat \ I # {} PROVE FALSE
    OBVIOUS
  <1>1. PICK m \in Nat \ I : \A k \in Nat \ I : ~(k < m)
    BY NatWellOrdered
  <1>2. m-1 \in Nat /\ m-1 < m /\ (m-1)+1 = m
    BY <1>1
  <1> QED BY <1>1, <1>2

(* A step function can be iterated.                                        *)
Iterates(S, x, F, N, g) ==
  g \in [0..N -> S] /\ g[0] = x /\ \A n \in 1..N : g[n] = F[g[n-1]]

(* A function with the values of an iteration exists.                      *)
LEMMA Iteration ==
  ASSUME NEW S, NEW x \in S, NEW F \in [S -> S], NEW N \in Nat
  PROVE  \E g : Iterates(S, x, F, N, g)
  <1> USE DEF Iterates
  <1> DEFINE I == {m \in Nat : \E g \in [0..m -> S] :
                     g[0] = x /\ \A n \in 1..m : g[n] = F[g[n-1]]}
  <1>1. 0 \in I
    <2>1. PICK g : g = [n \in 0..0 |-> x]
      OBVIOUS
    <2>2. g \in [0..0 -> S] /\ g[0] = x /\ 1..0 = {}
      BY <2>1
    <2> QED BY <2>2
  <1>2. ASSUME NEW m \in Nat, m \in I PROVE m+1 \in I
    <2>1. PICK g \in [0..m -> S] : g[0] = x /\ \A n \in 1..m : g[n] = F[g[n-1]]
      BY <1>2
    <2>2. PICK h : h = [n \in 0..m+1 |-> IF n = m+1 THEN F[g[m]] ELSE g[n]]
      OBVIOUS
    <2>3. h \in [0..m+1 -> S]
      BY <2>1, <2>2
    <2>4. h[0] = x /\ \A n \in 1..m+1 : h[n] = F[h[n-1]]
      BY <2>1, <2>2
    <2> QED BY <2>3, <2>4
  <1>3. N \in I
    <2> HIDE DEF I
    <2> QED BY <1>1, <1>2, NatSetInduction
  <1> QED BY <1>3
----------------------------------------------------------------------------
(* Chains.                                                                 *)

Links == [Blocks -> Blocks \cup {EOC}]

(* The n-th block of a chain, EOC behind its end.                          *)
Nth(c, n) == IF n \in 1..Len(c) THEN c[n] ELSE EOC

(* c is the whole chain that starts with block b.                          *)
Linked(s, b, c) ==
  /\ c \in Seq(Blocks) /\ b = Nth(c, 1)
  /\ \A n \in 1..Len(c) : s.block_lists[c[n]] = Nth(c, n+1)

(* What place n of a chain holds: a block, or EOC where there is none.     *)
LEMMA NthType ==
  ASSUME NEW c \in Seq(Blocks)
  PROVE  \A n \in Nat : /\ Nth(c, n) \in Blocks \cup {EOC}
                        /\ Nth(c, n) = EOC <=> n \notin 1..Len(c)
  BY Sizes DEF Nth

(* The walk of fat_translate_block.                                        *)
LEMMA WalkDef ==
  ASSUME NEW s, s.block_lists \in Links, NEW f,
         s.root[f].first_block \in Blocks \cup {EOC}, NEW lb \in Nat
  PROVE  \E g : /\ g[0] = s.root[f].first_block
                /\ \A n \in 1..lb :
                     g[n] = IF g[n-1] = EOC THEN EOC ELSE s.block_lists[g[n-1]]
                /\ fat_translate_block(s, f, lb) = g[lb]
  <1> DEFINE S == Blocks \cup {EOC}
  <1>1. PICK x \in S : x = s.root[f].first_block
    OBVIOUS
  <1>2. PICK F : F = [y \in S |-> IF y = EOC THEN EOC ELSE s.block_lists[y]]
    OBVIOUS
  <1>3. F \in [S -> S]
    BY <1>2 DEF Links
  <1> DEFINE Def(g) == g = [n \in 0..lb |->
                              IF n = 0 THEN s.root[f].first_block
                              ELSE IF g[n-1] = EOC THEN EOC
                              ELSE s.block_lists[g[n-1]]]
  <1>4. \E g : Def(g)
    <2>1. PICK g : Iterates(S, x, F, lb, g)
      <3> HIDE DEF S
      <3> QED BY <1>1, <1>3, Iteration
    <2>2. /\ g \in [0..lb -> S] /\ g[0] = x
          /\ \A n \in 0..lb : n # 0 => g[n-1] \in S /\ g[n] = F[g[n-1]]
      <3>1. \A n \in 0..lb : n # 0 => n \in 1..lb /\ n-1 \in 0..lb
        OBVIOUS
      <3> QED BY <2>1, <3>1 DEF Iterates
    <2>3. Def(g)
      BY <1>1, <1>2, <2>1, <2>2
    <2> QED BY <2>3
  <1>5. PICK g : g = CHOOSE h : Def(h)
    OBVIOUS
  <1>6. Def(g)
    <2> HIDE DEF Def
    <2> QED BY <1>4, <1>5, Zenon
  <1>7. fat_translate_block(s, f, lb) = g[lb]
    BY <1>5 DEF fat_translate_block
  <1> QED BY <1>6, <1>7

(* What it finds: the block at this place of the chain.                    *)
LEMMA Translate ==
  ASSUME NEW s, s.block_lists \in Links, NEW f, NEW c,
         Linked(s, s.root[f].first_block, c), NEW lb \in Nat
  PROVE  fat_translate_block(s, f, lb) = Nth(c, lb+1)
  <1>1. /\ c \in Seq(Blocks) /\ s.root[f].first_block = Nth(c, 1)
        /\ \A n \in 1..Len(c) : s.block_lists[c[n]] = Nth(c, n+1)
    BY DEF Linked
  <1>2. s.root[f].first_block \in Blocks \cup {EOC}
    BY <1>1, NthType
  <1>3. PICK g : /\ g[0] = s.root[f].first_block
                 /\ \A n \in 1..lb :
                      g[n] = IF g[n-1] = EOC THEN EOC ELSE s.block_lists[g[n-1]]
                 /\ fat_translate_block(s, f, lb) = g[lb]
    BY <1>2, WalkDef
  <1> DEFINE I == {n \in Nat : n <= lb => g[n] = Nth(c, n+1)}
  <1>4. 0 \in I
    BY <1>1, <1>3
  <1>5. ASSUME NEW n \in Nat, n \in I PROVE n+1 \in I
    <2> SUFFICES ASSUME n+1 <= lb PROVE g[n+1] = Nth(c, n+2)
      OBVIOUS
    <2>1. g[n] = Nth(c, n+1) /\ n+1 \in 1..lb /\ (n+1)-1 = n
      BY <1>5
    <2>2. g[n+1] = IF g[n] = EOC THEN EOC ELSE s.block_lists[g[n]]
      BY <1>3, <2>1
    <2>3. CASE n+1 \in 1..Len(c)
      <3>1. Nth(c, n+1) = c[n+1] /\ Nth(c, n+1) # EOC
        BY <1>1, <2>3, NthType DEF Nth
      <3>2. s.block_lists[c[n+1]] = Nth(c, (n+1)+1) /\ (n+1)+1 = n+2
        BY <1>1, <2>3
      <3> QED BY <2>1, <2>2, <3>1, <3>2
    <2>4. CASE n+1 \notin 1..Len(c)
      <3>1. n+2 \notin 1..Len(c)
        BY <1>1, <2>4
      <3> QED BY <2>1, <2>2, <2>4, <3>1 DEF Nth
    <2> QED BY <2>3, <2>4
  <1>6. lb \in I
    <2> HIDE DEF I
    <2> QED BY <1>4, <1>5, NatSetInduction
  <1> QED BY <1>3, <1>6

(* The blocks that Chain visits, and where it ends.                        *)
Visits(s, b, at, k) ==
  /\ at \in [0..MAX_BLOCKS -> Blocks \cup {EOC}] /\ k \in 0..MAX_BLOCKS+1
  /\ at[0] = b
  /\ \A n \in 1..MAX_BLOCKS :
       at[n] = IF at[n-1] = EOC THEN EOC ELSE s.block_lists[at[n-1]]
  /\ \A n \in 0..MAX_BLOCKS : n < k <=> at[n] # EOC
  /\ Chain(s, b) \in Seq(Blocks) /\ Len(Chain(s, b)) = k
  /\ \A n \in 1..k : Chain(s, b)[n] = at[n-1]

(* The recursive function in Chain, as one that visits the blocks.         *)
LEMMA ChainDef ==
  ASSUME NEW s, s.block_lists \in Links, NEW b \in Blocks \cup {EOC}
  PROVE  \E at, k : Visits(s, b, at, k)
  <1> DEFINE S == Blocks \cup {EOC}
             next == [x \in Blocks \cup {EOC} |->
                        IF x = EOC THEN EOC ELSE s.block_lists[x]]
             Def(g) == g = [n \in 0..MAX_BLOCKS |->
                              IF n = 0 THEN b ELSE next[g[n-1]]]
  <1>1. next \in [S -> S] /\ MAX_BLOCKS \in Nat
    BY Sizes DEF Links
  <1>2. \E g \in [0..MAX_BLOCKS -> S] : Def(g)
    <2>1. PICK F : F = next
      OBVIOUS
    <2>2. F \in [S -> S]
      BY <1>1, <2>1
    <2>3. PICK g : Iterates(S, b, F, MAX_BLOCKS, g)
      <3>1. b \in S
        OBVIOUS
      <3> HIDE DEF S
      <3> QED BY <1>1, <2>2, <3>1, Iteration
    <2> HIDE DEF next
    <2>4. g \in [0..MAX_BLOCKS -> S] /\ Def(g)
      BY <1>1, <2>1, <2>3 DEF Iterates
    <2> QED BY <2>4
  <1>3. PICK at : at = CHOOSE g : Def(g)
    OBVIOUS
  <1>4. Def(at)
    <2> HIDE DEF Def
    <2> QED BY <1>2, <1>3, Zenon
  <1>5. /\ at[0] = b
        /\ \A n \in 1..MAX_BLOCKS : at[n] = next[at[n-1]]
    <2> HIDE DEF next
    <2> QED BY <1>1, <1>4
  <1>6. \A n \in 0..MAX_BLOCKS : at[n] \in S
    <2> DEFINE I == {n \in Nat : n <= MAX_BLOCKS => at[n] \in S}
    <2>1. 0 \in I
      BY <1>5
    <2>2. ASSUME NEW n \in Nat, n \in I PROVE n+1 \in I
      <3>1. CASE n+1 <= MAX_BLOCKS
        <4>1. at[n] \in S /\ n+1 \in 1..MAX_BLOCKS /\ (n+1)-1 = n
          BY <1>1, <2>2, <3>1
        <4> HIDE DEF S, next
        <4> QED BY <1>1, <1>5, <4>1
      <3> QED BY <3>1
    <2> HIDE DEF I
    <2>3. Nat \subseteq I
      BY <2>1, <2>2, NatSetInduction
    <2> USE DEF I
    <2> QED BY <1>1, <2>3
  <1>7. \A n \in 1..MAX_BLOCKS :
          at[n] = IF at[n-1] = EOC THEN EOC ELSE s.block_lists[at[n-1]]
    <2> TAKE n \in 1..MAX_BLOCKS
    <2>1. at[n-1] \in S
      BY <1>1, <1>6
    <2> QED BY <1>5, <2>1
  <1>8. at \in [0..MAX_BLOCKS -> S]
    BY <1>4, <1>6
  <1>9. \E k \in 0..MAX_BLOCKS+1 : \A n \in 0..MAX_BLOCKS : n < k <=> at[n] # EOC
    <2> DEFINE I == {m \in Nat : m <= MAX_BLOCKS+1 =>
                       \E k \in 0..m : \A n \in 0..m-1 : n < k <=> at[n] # EOC}
    <2>1. 0 \in I
      <3>1. 0 \in 0..0 /\ \A n \in 0..0-1 : FALSE
        OBVIOUS
      <3> QED BY <3>1
    <2>2. ASSUME NEW m \in Nat, m \in I PROVE m+1 \in I
      <3> SUFFICES ASSUME m+1 <= MAX_BLOCKS+1
                   PROVE  \E k \in 0..m+1 : \A n \in 0..m : n < k <=> at[n] # EOC
        OBVIOUS
      <3>1. PICK k \in 0..m : \A n \in 0..m-1 : n < k <=> at[n] # EOC
        BY <1>1, <2>2
      <3>2. CASE at[m] = EOC
        <4>1. \A n \in 0..m : n < k <=> at[n] # EOC
          BY <3>1, <3>2
        <4>2. k \in 0..m+1
          BY <3>1
        <4> QED BY <4>1, <4>2
      <3>3. CASE at[m] # EOC
        <4>1. m > 0 => at[m-1] # EOC
          BY <1>1, <1>7, <3>3
        <4>2. k = m
          BY <3>1, <4>1
        <4>3. \A n \in 0..m : n < m+1 <=> at[n] # EOC
          BY <3>1, <3>3, <4>2
        <4>4. m+1 \in 0..m+1
          OBVIOUS
        <4> QED BY <4>3, <4>4
      <3> QED BY <3>2, <3>3
    <2>3. MAX_BLOCKS+1 \in I
      <3> HIDE DEF I
      <3>1. Nat \subseteq I
        BY <2>1, <2>2, NatSetInduction
      <3> QED BY <1>1, <3>1
    <2> QED BY <1>1, <2>3
  <1>10. PICK k \in 0..MAX_BLOCKS+1 : \A n \in 0..MAX_BLOCKS : n < k <=> at[n] # EOC
    BY <1>9
  <1>11. Cardinality({n \in 0..MAX_BLOCKS : at[n] # EOC}) = k
    <2>1. {n \in 0..MAX_BLOCKS : at[n] # EOC} = 0..k-1
      BY <1>1, <1>10
    <2>2. k-1 \in Int /\ 0 \in Int
      BY <1>1, <1>10
    <2>3. Cardinality(0..k-1) = IF 0 > k-1 THEN 0 ELSE k-1-0+1
      BY <2>2, FS_Interval
    <2>4. Cardinality(0..k-1) = k
      BY <1>1, <1>10, <2>3
    <2> QED BY <2>1, <2>4
  <1>12. Chain(s, b) = [n \in 1..Cardinality({m \in 0..MAX_BLOCKS : at[m] # EOC})
                          |-> at[n-1]]
    BY <1>3 DEF Chain
  <1>13. Chain(s, b) = [n \in 1..k |-> at[n-1]]
    BY <1>11, <1>12
  <1>14. \A n \in 1..k : at[n-1] \in Blocks
    BY <1>1, <1>6, <1>10
  <1>15. /\ Chain(s, b) \in Seq(Blocks) /\ Len(Chain(s, b)) = k
         /\ \A n \in 1..k : Chain(s, b)[n] = at[n-1]
    <2>1. PICK c : c = [n \in 1..k |-> at[n-1]]
      OBVIOUS
    <2>2. k \in Nat
      BY <1>1, <1>10
    <2>3. c \in [1..k -> Blocks]
      BY <1>14, <2>1
    <2>4. c \in Seq(Blocks) /\ Len(c) = k
      BY <2>2, <2>3
    <2> QED BY <1>13, <2>1, <2>4
  <1> QED BY <1>5, <1>7, <1>8, <1>10, <1>15, Zenon DEF Visits

(* Chain finds a chain that ends soon enough.                              *)
LEMMA ChainFound ==
  ASSUME NEW s, s.block_lists \in Links, NEW b, NEW c,
         Linked(s, b, c), Len(c) <= MAX_BLOCKS+1
  PROVE  Chain(s, b) = c
  <1>1. /\ c \in Seq(Blocks) /\ b = Nth(c, 1) /\ Len(c) \in Nat
        /\ \A n \in 1..Len(c) : s.block_lists[c[n]] = Nth(c, n+1)
    BY DEF Linked
  <1>2. b \in Blocks \cup {EOC}
    BY <1>1, NthType
  <1>3. PICK at, k : Visits(s, b, at, k)
    BY <1>2, ChainDef
  <1> USE DEF Visits
  <1> DEFINE I == {n \in Nat : n <= MAX_BLOCKS => at[n] = Nth(c, n+1)}
  <1>4. 0 \in I
    BY <1>1, <1>3
  <1>5. ASSUME NEW n \in Nat, n \in I PROVE n+1 \in I
    <2> SUFFICES ASSUME n+1 <= MAX_BLOCKS PROVE at[n+1] = Nth(c, n+2)
      OBVIOUS
    <2>1. at[n] = Nth(c, n+1) /\ n+1 \in 1..MAX_BLOCKS /\ (n+1)-1 = n
      BY <1>5, Sizes
    <2>2. at[n+1] = IF at[n] = EOC THEN EOC ELSE s.block_lists[at[n]]
      BY <1>3, <2>1
    <2>3. CASE n+1 \in 1..Len(c)
      <3>1. Nth(c, n+1) = c[n+1] /\ Nth(c, n+1) # EOC
        BY <1>1, <2>3, NthType DEF Nth
      <3>2. s.block_lists[c[n+1]] = Nth(c, (n+1)+1) /\ (n+1)+1 = n+2
        BY <1>1, <2>3
      <3> QED BY <2>1, <2>2, <3>1, <3>2
    <2>4. CASE n+1 \notin 1..Len(c)
      <3>1. n+2 \notin 1..Len(c)
        BY <1>1, <2>4
      <3> QED BY <2>1, <2>2, <2>4, <3>1 DEF Nth
    <2> QED BY <2>3, <2>4
  <1>6. \A n \in 0..MAX_BLOCKS : at[n] = Nth(c, n+1)
    <2>1. Nat \subseteq I
      <3> HIDE DEF I
      <3> QED BY <1>4, <1>5, NatSetInduction
    <2> QED BY <2>1, Sizes
  <1>7. \A n \in 0..MAX_BLOCKS : n < k <=> n < Len(c)
    <2> TAKE n \in 0..MAX_BLOCKS
    <2>1. n \in Nat /\ (Nth(c, n+1) = EOC <=> n+1 \notin 1..Len(c))
      BY <1>1, NthType, Sizes
    <2> QED BY <1>1, <1>3, <1>6, <2>1
  <1>8. k = Len(c)
    <2>1. CASE k < Len(c)
      <3>1. k \in 0..MAX_BLOCKS
        BY <1>1, <1>3, <2>1, Sizes
      <3> QED BY <1>1, <1>7, <2>1, <3>1
    <2>2. CASE k > Len(c)
      <3>1. Len(c) \in 0..MAX_BLOCKS
        BY <1>1, <1>3, <2>2, Sizes
      <3> QED BY <1>1, <1>7, <2>2, <3>1
    <2> QED BY <1>1, <1>3, <2>1, <2>2, Sizes
  <1>9. \A n \in 1..Len(c) : at[n-1] = c[n]
    <2> TAKE n \in 1..Len(c)
    <2>1. n-1 \in 0..MAX_BLOCKS /\ (n-1)+1 = n
      BY <1>1, Sizes
    <2> QED BY <1>1, <1>6, <2>1 DEF Nth
  <1> QED BY <1>1, <1>3, <1>8, <1>9

(* What Chain returns is a chain, unless it was cut.                       *)
LEMMA ChainIsLinked ==
  ASSUME NEW s, s.block_lists \in Links, NEW b \in Blocks \cup {EOC}
  PROVE  /\ Chain(s, b) \in Seq(Blocks)
         /\ Len(Chain(s, b)) <= MAX_BLOCKS+1
         /\ Len(Chain(s, b)) <= MAX_BLOCKS => Linked(s, b, Chain(s, b))
         /\ Chain(s, b) = <<>> <=> b = EOC
  <1>1. PICK at, k : Visits(s, b, at, k)
    BY ChainDef
  <1> USE DEF Visits
  <1>2. PICK c : c = Chain(s, b)
    OBVIOUS
  <1>3. MAX_BLOCKS \in Nat
    BY Sizes
  <1>4. c \in Seq(Blocks) /\ Len(c) = k /\ \A n \in 1..k : c[n] = at[n-1]
    BY <1>1, <1>2
  <1>5. c = <<>> <=> b = EOC
    <2>1. 0 \in 0..MAX_BLOCKS
      BY Sizes
    <2> QED BY <1>1, <1>4, <2>1
  <1>6. ASSUME k <= MAX_BLOCKS PROVE Linked(s, b, c)
    <2>1. b = Nth(c, 1)
      <3>1. 0 \in 0..MAX_BLOCKS /\ (0 < k <=> at[0] # EOC)
        BY <1>1, Sizes
      <3>2. 0 < k => 1 \in 1..k /\ c[1] = at[1-1] /\ 1-1 = 0
        BY <1>1, <1>4
      <3> QED BY <1>1, <1>4, <3>1, <3>2 DEF Nth
    <2>2. ASSUME NEW n \in 1..Len(c) PROVE s.block_lists[c[n]] = Nth(c, n+1)
      <3>1. /\ n \in 1..MAX_BLOCKS /\ n-1 \in 0..MAX_BLOCKS /\ n-1 < k
            /\ c[n] = at[n-1] /\ at[n-1] # EOC
        BY <1>1, <1>3, <1>4, <1>6, <2>2
      <3>2. at[n] = s.block_lists[c[n]]
        BY <1>1, <3>1
      <3>3. n \in 0..MAX_BLOCKS /\ (n < k <=> at[n] # EOC)
        BY <1>1, <3>1
      <3>4. n < k => c[n+1] = at[n] /\ n+1 \in 1..k
        BY <1>1, <1>4, <3>1
      <3> QED BY <1>1, <1>4, <3>2, <3>3, <3>4 DEF Nth
    <2> QED BY <1>4, <2>1, <2>2 DEF Linked
  <1> QED BY <1>1, <1>2, <1>4, <1>5, <1>6
----------------------------------------------------------------------------
(* The division of the blocks into chains.                                 *)

Owners == Files \cup {Nobody}

Start(s, o) == IF o = Nobody THEN s.first_free_block ELSE s.root[o].first_block

(* An entry of the directory, whatever its size.                           *)
FileEntry ==
  [mode : {FREE_TYPE} \cup Modes, size : Nat,
   first_block : Blocks \cup {EOC}, last_block : Blocks \cup {EOC}]

(* What every operation keeps, whatever the chains are.                    *)
FsOK(s) ==
  s \in [root : [Files -> [mode : {FREE_TYPE} \cup Modes, size : Nat,
                           first_block : Blocks \cup {EOC},
                           last_block : Blocks \cup {EOC}]],
         block_lists : Links,
         data : [Blocks -> [0..BLOCK_SIZE-1 -> Bytes \cup {NUL}]],
         first_free_block : Blocks \cup {EOC},
         last_free_block : Blocks \cup {EOC},
         free_block_count : Int,
         used_block_count : Int]

(* No block is twice in these chains; every block is in one of them.       *)
Distinct(P) ==
  \A o, p \in Owners : \A i \in 1..Len(P[o]), j \in 1..Len(P[p]) :
    P[o][i] = P[p][j] => o = p /\ i = j
Complete(P) ==
  \A b \in Blocks : \E o \in Owners : \E i \in 1..Len(P[o]) : P[o][i] = b

(* P is how the blocks are divided.                                        *)
Divided(s, P) ==
  /\ P \in [Owners -> Seq(Blocks)]
  /\ \A o \in Owners : Linked(s, Start(s, o), P[o])
  /\ Distinct(P)
  /\ Complete(P)

(* The owners of blocks are the files and Nobody.                          *)
LEMMA OwnersFacts ==
  /\ Nobody \in Owners /\ Nobody \notin Files
  /\ \A f \in Files : f \in Owners /\ f # Nobody
  /\ \A o \in Owners : o = Nobody \/ o \in Files
  BY Sizes DEF Owners, Nobody

(* There are MAX_BLOCKS blocks.                                            *)
LEMMA BlocksFinite == IsFiniteSet(Blocks) /\ Cardinality(Blocks) = MAX_BLOCKS
  <1>1. 0 \in Int /\ MAX_BLOCKS-1 \in Int
    BY Sizes
  <1>2. /\ IsFiniteSet(0..MAX_BLOCKS-1)
        /\ Cardinality(0..MAX_BLOCKS-1)
             = IF 0 > MAX_BLOCKS-1 THEN 0 ELSE MAX_BLOCKS-1-0+1
    BY <1>1, FS_Interval
  <1>3. Cardinality(0..MAX_BLOCKS-1) = MAX_BLOCKS
    BY <1>2, Sizes
  <1> QED BY <1>2, <1>3 DEF Blocks

(* There is not enough room for a longer sequence of different blocks.     *)
LEMMA PigeonHole ==
  ASSUME NEW c \in Seq(Blocks),
         \A i, j \in 1..Len(c) : c[i] = c[j] => i = j
  PROVE  Len(c) <= MAX_BLOCKS
  <1>1. MAX_BLOCKS \in Nat /\ Len(c) \in Nat
    BY Sizes
  <1>2. IsFiniteSet(Blocks) /\ Cardinality(Blocks) = MAX_BLOCKS
    BY BlocksFinite
  <1>3. Cardinality(1..Len(c)) = Len(c)
    <2>1. 1 \in Int /\ Len(c) \in Int
      BY <1>1
    <2>2. Cardinality(1..Len(c)) = IF 1 > Len(c) THEN 0 ELSE Len(c)-1+1
      BY <2>1, FS_Interval
    <2> QED BY <1>1, <2>2
  <1>4. PICK S : S = 1..Len(c)
    OBVIOUS
  <1>5. c \in Injection(S, Blocks)
    <2>1. c \in [S -> Blocks]
      BY <1>4
    <2>2. \A i, j \in S : c[i] = c[j] => i = j
      BY <1>4
    <2> QED BY <2>1, <2>2 DEF Injection, IsInjective
  <1>6. Cardinality(S) <= Cardinality(Blocks)
    BY <1>2, <1>5, FS_Injection
  <1> QED BY <1>1, <1>2, <1>3, <1>4, <1>6

(* The same for two chains.                                                *)
LEMMA ShortChains ==
  ASSUME NEW P \in [Owners -> Seq(Blocks)], Distinct(P)
  PROVE  /\ \A o \in Owners : Len(P[o]) \in 0..MAX_BLOCKS
         /\ \A o, p \in Owners : o # p => Len(P[o]) + Len(P[p]) <= MAX_BLOCKS
  <1>1. ASSUME NEW o \in Owners PROVE Len(P[o]) \in 0..MAX_BLOCKS
    <2>1. P[o] \in Seq(Blocks) /\ \A i, j \in 1..Len(P[o]) : P[o][i] = P[o][j] => i = j
      BY DEF Distinct
    <2>2. Len(P[o]) <= MAX_BLOCKS
      BY <2>1, PigeonHole
    <2> QED BY <2>1, <2>2, Sizes
  <1>2. ASSUME NEW o \in Owners, NEW p \in Owners, o # p
        PROVE  Len(P[o]) + Len(P[p]) <= MAX_BLOCKS
    <2>1. PICK c, d : c = P[o] /\ d = P[p]
      OBVIOUS
    <2>2. c \in Seq(Blocks) /\ d \in Seq(Blocks)
      BY <2>1
    <2>3. /\ c \o d \in Seq(Blocks) /\ Len(c \o d) = Len(c) + Len(d)
          /\ \A i \in 1..Len(c) + Len(d) :
               (c \o d)[i] = IF i <= Len(c) THEN c[i] ELSE d[i - Len(c)]
      BY <2>2, ConcatProperties
    <2>4. /\ \A i, j \in 1..Len(c) : c[i] = c[j] => i = j
          /\ \A i, j \in 1..Len(d) : d[i] = d[j] => i = j
          /\ \A i \in 1..Len(c), j \in 1..Len(d) : c[i] # d[j]
      BY <1>2, <2>1 DEF Distinct
    <2>5. PICK e, m, n : e = c \o d /\ m = Len(c) /\ n = Len(d)
      OBVIOUS
    <2>6. m \in Nat /\ n \in Nat
      BY <2>2, <2>5
    <2>7. e \in Seq(Blocks) /\ Len(e) = m + n
      BY <2>3, <2>5
    <2>8. \A i \in 1..m : e[i] = c[i]
      BY <2>3, <2>5, <2>6
    <2>9. \A i \in 1..n : e[m+i] = d[i]
      <3> TAKE i \in 1..n
      <3>1. m+i \in 1..m+n /\ ~(m+i <= m) /\ (m+i)-m = i
        BY <2>6
      <3> QED BY <2>3, <2>5, <3>1
    <2>10. \A k \in 1..m+n : k \in 1..m \/ \E i \in 1..n : k = m+i
      <3> TAKE k \in 1..m+n
      <3>1. k \in 1..m \/ (k-m \in 1..n /\ k = m+(k-m))
        BY <2>6
      <3> QED BY <3>1
    <2>11. \A i, j \in 1..Len(e) : e[i] = e[j] => i = j
      <3>1. SUFFICES ASSUME NEW k \in 1..m+n, NEW l \in 1..m+n, e[k] = e[l]
                     PROVE  k = l
        BY <2>7
      <3>2. CASE k \in 1..m /\ l \in 1..m
        BY <2>4, <2>5, <2>8, <3>1, <3>2
      <3>3. CASE k \in 1..m /\ l \notin 1..m
        BY <2>4, <2>5, <2>8, <2>9, <2>10, <3>1, <3>3
      <3>4. CASE k \notin 1..m /\ l \in 1..m
        BY <2>4, <2>5, <2>8, <2>9, <2>10, <3>1, <3>4
      <3>5. CASE k \notin 1..m /\ l \notin 1..m
        <4>1. PICK i, j : i \in 1..n /\ j \in 1..n /\ k = m+i /\ l = m+j
          BY <2>10, <3>5
        <4>2. d[i] = d[j]
          BY <2>9, <3>1, <4>1
        <4>3. i = j
          BY <2>4, <2>5, <4>1, <4>2
        <4> QED BY <4>1, <4>3
      <3> QED BY <3>2, <3>3, <3>4, <3>5
    <2>12. Len(e) <= MAX_BLOCKS
      BY <2>7, <2>11, PigeonHole
    <2> QED BY <2>1, <2>5, <2>7, <2>12
  <1> QED BY <1>1, <1>2

(* The chains of Fat are those that the blocks are divided into.           *)
LEMMA DividedChains ==
  ASSUME NEW s, s.block_lists \in Links, NEW P, Divided(s, P)
  PROVE  /\ FreeChain(s) = P[Nobody]
         /\ \A f \in Files : FileChain(s, f) = P[f]
  <1>1. \A o \in Owners : Chain(s, Start(s, o)) = P[o]
    <2> TAKE o \in Owners
    <2>1. Linked(s, Start(s, o), P[o]) /\ Len(P[o]) <= MAX_BLOCKS+1
      <3>1. Len(P[o]) \in 0..MAX_BLOCKS
        BY ShortChains DEF Divided
      <3> QED BY <3>1, Sizes DEF Divided
    <2> QED BY <2>1, ChainFound
  <1> QED BY <1>1, OwnersFacts DEF FreeChain, FileChain, Start

(* How the blocks of s are divided, if they are.                           *)
Division(s) ==
  [o \in Owners |-> IF o = Nobody THEN FreeChain(s) ELSE FileChain(s, o)]

(* Sizes, last blocks and removed files fit the chains.                    *)
Fits(s, P) ==
  \A f \in Files :
    /\ Len(P[f]) = BlocksFor(s.root[f].size)
    /\ s.root[f].last_block = LastOf(P[f])
    /\ f \notin Used(s) => s.root[f].first_block = EOC

(* The chain of each owner in Division.                                    *)
LEMMA DivisionIs ==
  ASSUME NEW s
  PROVE  /\ Division(s)[Nobody] = FreeChain(s)
         /\ \A f \in Files : Division(s)[f] = FileChain(s, f)
         /\ \A o \in Owners : Division(s)[o] = Chain(s, Start(s, o))
  BY OwnersFacts DEF Division, FreeChain, FileChain, Start

(* The places that Sound looks at are those of the division.               *)
LEMMA SoundPlaces ==
  ASSUME NEW s, Division(s) \in [Owners -> Seq(Blocks)]
  PROVE  Sound(s) <=> /\ Distinct(Division(s)) /\ Complete(Division(s))
                      /\ Fits(s, Division(s))
  <1>1. PICK P : P = Division(s)
    OBVIOUS
  <1>2. PICK S : S = Places(Nobody, FreeChain(s))
                       \cup UNION {Places(f, FileChain(s, f)) : f \in Files}
    OBVIOUS
  <1>3. \A x : x \in S <=> \E o \in Owners : \E i \in 1..Len(P[o]) : x = <<o, i, P[o][i]>>
    <2>1. \A o \in Owners : P[o] \in Seq(Blocks)
      BY <1>1
    <2>2. \A o \in Owners : DOMAIN P[o] = 1..Len(P[o])
      BY <2>1
    <2>3. \A o \in Owners :
            Places(o, P[o]) = {<<o, i, P[o][i]>> : i \in 1..Len(P[o])}
      BY <2>2 DEF Places
    <2>4. S = UNION {Places(o, P[o]) : o \in Owners}
      <3>1. P[Nobody] = FreeChain(s) /\ \A f \in Files : P[f] = FileChain(s, f)
        BY <1>1, DivisionIs
      <3> QED BY <1>2, <3>1, OwnersFacts
    <2> QED BY <2>3, <2>4
  <1>4. ({p[3] : p \in S} = Blocks) <=> Complete(P)
    <2>1. \A o \in Owners : \A i \in 1..Len(P[o]) : P[o][i] \in Blocks
      <3> TAKE o \in Owners
      <3>1. P[o] \in Seq(Blocks)
        BY <1>1
      <3> QED BY <3>1
    <2>2. \A x \in S : x[3] \in Blocks
      BY <1>3, <2>1
    <2>3. ASSUME NEW x \in S
          PROVE  \E o \in Owners : \E i \in 1..Len(P[o]) : P[o][i] = x[3]
      <3>1. PICK o, i : o \in Owners /\ i \in 1..Len(P[o]) /\ x = <<o, i, P[o][i]>>
        BY <1>3
      <3> QED BY <3>1
    <2>4. ASSUME NEW o \in Owners, NEW i \in 1..Len(P[o])
          PROVE  \E x \in S : x[3] = P[o][i]
      <3>1. <<o, i, P[o][i]>> \in S
        BY <1>3
      <3> QED BY <3>1
    <2>5. ({p[3] : p \in S} = Blocks) <=> \A b \in Blocks : \E x \in S : x[3] = b
      <3>1. PICK T : T = {p[3] : p \in S}
        OBVIOUS
      <3>2. \A b : b \in T <=> \E x \in S : x[3] = b
        BY <3>1
      <3>3. T \subseteq Blocks
        BY <2>2, <3>2
      <3> QED BY <3>1, <3>2, <3>3
    <2>6. Complete(P) <=> \A b \in Blocks : \E x \in S : x[3] = b
      <3>1. ASSUME Complete(P), NEW b \in Blocks PROVE \E x \in S : x[3] = b
        BY <2>4, <3>1 DEF Complete
      <3>2. ASSUME NEW b \in Blocks, NEW x \in S, x[3] = b
            PROVE  \E o \in Owners : \E i \in 1..Len(P[o]) : P[o][i] = b
        BY <2>3, <3>2
      <3> QED BY <3>1, <3>2 DEF Complete
    <2> QED BY <2>5, <2>6
  <1>5. (\A p, q \in S : p[3] = q[3] => p = q) <=> Distinct(P)
    <2>1. ASSUME \A p, q \in S : p[3] = q[3] => p = q,
                 NEW o \in Owners, NEW p \in Owners,
                 NEW i \in 1..Len(P[o]), NEW j \in 1..Len(P[p]), P[o][i] = P[p][j]
          PROVE  o = p /\ i = j
      <3>1. <<o, i, P[o][i]>> \in S /\ <<p, j, P[p][j]>> \in S
        BY <1>3
      <3>2. <<o, i, P[o][i]>> = <<p, j, P[p][j]>>
        BY <2>1, <3>1
      <3> QED BY <3>2
    <2>2. ASSUME Distinct(P), NEW x \in S, NEW y \in S, x[3] = y[3] PROVE x = y
      <3>1. PICK o, i : o \in Owners /\ i \in 1..Len(P[o]) /\ x = <<o, i, P[o][i]>>
        BY <1>3
      <3>2. PICK p, j : p \in Owners /\ j \in 1..Len(P[p]) /\ y = <<p, j, P[p][j]>>
        BY <1>3
      <3>3. P[o][i] = P[p][j]
        BY <2>2, <3>1, <3>2
      <3> QED BY <2>2, <3>1, <3>2, <3>3 DEF Distinct
    <2> QED BY <2>1, <2>2 DEF Distinct
  <1>6. Fits(s, P) <=> \A f \in Files :
                         /\ Len(FileChain(s, f)) = BlocksFor(s.root[f].size)
                         /\ s.root[f].last_block = LastOf(FileChain(s, f))
                         /\ f \notin Used(s) => s.root[f].first_block = EOC
    BY <1>1, DivisionIs DEF Fits
  <1> QED BY <1>1, <1>2, <1>4, <1>5, <1>6 DEF Sound

(* The chains of a sound file system divide the blocks among them.         *)
LEMMA SoundDivided ==
  ASSUME NEW s, FsOK(s), Sound(s)
  PROVE  Divided(s, Division(s)) /\ Fits(s, Division(s))
  <1>1. \A o \in Owners : Start(s, o) \in Blocks \cup {EOC}
    BY OwnersFacts DEF FsOK, Start
  <1>2. s.block_lists \in Links
    BY DEF FsOK
  <1>3. \A o \in Owners : /\ Division(s)[o] \in Seq(Blocks)
                          /\ Len(Division(s)[o]) <= MAX_BLOCKS =>
                               Linked(s, Start(s, o), Division(s)[o])
    BY <1>1, <1>2, DivisionIs, ChainIsLinked
  <1>4. Division(s) \in [Owners -> Seq(Blocks)]
    BY <1>3 DEF Division
  <1>5. Distinct(Division(s)) /\ Complete(Division(s)) /\ Fits(s, Division(s))
    BY <1>4, SoundPlaces
  <1>6. \A o \in Owners : Len(Division(s)[o]) <= MAX_BLOCKS
    <2> TAKE o \in Owners
    <2>1. Len(Division(s)[o]) \in 0..MAX_BLOCKS
      BY <1>4, <1>5, ShortChains
    <2> QED BY <2>1, Sizes
  <1> QED BY <1>3, <1>4, <1>5, <1>6 DEF Divided

(* When the blocks are divided, only the sizes can be unsound.             *)
LEMMA DividedSound ==
  ASSUME NEW s, s.block_lists \in Links, NEW P, Divided(s, P)
  PROVE  Sound(s) <=> Fits(s, P)
  <1>1. \A o \in Owners : Division(s)[o] = P[o]
    BY DividedChains, DivisionIs, OwnersFacts
  <1>2. P = Division(s)
    BY <1>1 DEF Divided, Division
  <1> QED BY <1>2, SoundPlaces DEF Divided
----------------------------------------------------------------------------
(* Arithmetic.                                                             *)

(* The smaller and the larger of two integers.                             *)
LEMMA MinMaxOfPair ==
  ASSUME NEW a \in Int, NEW b \in Int
  PROVE  /\ Min({a, b}) = IF a <= b THEN a ELSE b
         /\ Max({a, b}) = IF a <= b THEN b ELSE a
  <1>1. PICK m : m = IF a <= b THEN a ELSE b
    OBVIOUS
  <1>2. PICK x : x = IF a <= b THEN b ELSE a
    OBVIOUS
  <1>3. /\ m \in {a, b} /\ \A y \in {a, b} : m <= y
        /\ \A z \in {a, b} : (\A y \in {a, b} : z <= y) => z = m
    BY <1>1
  <1>4. /\ x \in {a, b} /\ \A y \in {a, b} : x >= y
        /\ \A z \in {a, b} : (\A y \in {a, b} : z >= y) => z = x
    BY <1>2
  <1>5. Min({a, b}) = m
    BY <1>3 DEF Min
  <1>6. Max({a, b}) = x
    BY <1>4 DEF Max
  <1> QED BY <1>1, <1>2, <1>5, <1>6

(* Division.                                                               *)
LEMMA DivMod ==
  ASSUME NEW a \in Nat, NEW b \in Nat \ {0}
  PROVE  /\ a \div b \in Nat /\ a % b \in 0..b-1
         /\ a = b * (a \div b) + (a % b)
  OBVIOUS

(* Quotient and remainder are the only ones of their kind.                 *)
LEMMA DivUnique ==
  ASSUME NEW b \in Nat \ {0}, NEW q \in Nat, NEW r \in 0..b-1
  PROVE  (b * q + r) \div b = q /\ (b * q + r) % b = r
  OBVIOUS

(* Division keeps the order.                                               *)
LEMMA DivBound ==
  ASSUME NEW a \in Nat, NEW b \in Nat \ {0}, NEW c \in Nat
  PROVE  a < b * c <=> a \div b < c
  OBVIOUS

(* The quotient that is rounded up.                                        *)
LEMMA Rounded ==
  ASSUME NEW b \in Nat \ {0}, NEW a \in Nat, NEW n \in Nat,
         a <= b * n, b * n < a + b
  PROVE  (a + b - 1) \div b = n
  <1>1. a + b - 1 = b * n + (a + b - 1 - b * n) /\ b * n \in Nat
    OBVIOUS
  <1>2. a + b - 1 - b * n \in 0..b-1
    BY <1>1
  <1> QED BY <1>1, <1>2, DivUnique

(* One more, and one less, block of bytes.                                 *)
LEMMA Successor ==
  ASSUME NEW b \in Nat, NEW n \in Int
  PROVE  b * (n+1) = b * n + b /\ b * (n-1) = b * n - b
  OBVIOUS

(* More blocks have more bytes.                                            *)
LEMMA ProductMonotone ==
  ASSUME NEW b \in Nat, NEW n \in Nat, NEW m \in Nat, n <= m
  PROVE  b * n <= b * m
  OBVIOUS

(* The blocks that a number of bytes need.                                 *)
LEMMA BlocksForSize ==
  ASSUME NEW size \in Nat
  PROVE  /\ BlocksFor(size) \in Nat
         /\ BLOCK_SIZE * BlocksFor(size) \in Nat
         /\ size <= BLOCK_SIZE * BlocksFor(size)
         /\ BLOCK_SIZE * BlocksFor(size) < size + BLOCK_SIZE
         /\ \A pos \in 0..size-1 : pos \div BLOCK_SIZE < BlocksFor(size)
  <1>1. PICK q : q = BlocksFor(size)
    OBVIOUS
  <1>2. BLOCK_SIZE \in Nat \ {0} /\ size + BLOCK_SIZE - 1 \in Nat
    BY Sizes
  <1>3. /\ q \in Nat /\ (size + BLOCK_SIZE - 1) % BLOCK_SIZE \in 0..BLOCK_SIZE-1
        /\ size + BLOCK_SIZE - 1 = BLOCK_SIZE * q + ((size + BLOCK_SIZE - 1) % BLOCK_SIZE)
    BY <1>1, <1>2, DivMod DEF BlocksFor
  <1>4. BLOCK_SIZE * q \in Nat
    BY <1>2, <1>3
  <1>5. size <= BLOCK_SIZE * q /\ BLOCK_SIZE * q < size + BLOCK_SIZE
    BY <1>2, <1>3, <1>4
  <1>6. \A pos \in 0..size-1 : pos \div BLOCK_SIZE < q
    <2> TAKE pos \in 0..size-1
    <2>1. pos < BLOCK_SIZE * q /\ pos \in Nat
      BY <1>4, <1>5
    <2> QED BY <1>2, <1>3, <2>1, DivBound
  <1> QED BY <1>1, <1>3, <1>4, <1>5, <1>6

(* How many blocks a size needs is determined by two bounds.               *)
LEMMA BlocksForIs ==
  ASSUME NEW size \in Nat, NEW n \in Nat,
         size <= BLOCK_SIZE * n, BLOCK_SIZE * n < size + BLOCK_SIZE
  PROVE  BlocksFor(size) = n
  BY Rounded, Sizes DEF BlocksFor

(* The part of a block that an access covers lies in that block.           *)
LEMMA ChunkFits ==
  ASSUME NEW pos \in Nat, NEW count \in Nat
  PROVE  /\ pos \div BLOCK_SIZE \in Nat /\ pos % BLOCK_SIZE \in 0..BLOCK_SIZE-1
         /\ pos = BLOCK_SIZE * (pos \div BLOCK_SIZE) + (pos % BLOCK_SIZE)
         /\ Chunk(pos, count) = IF BLOCK_SIZE - (pos % BLOCK_SIZE) <= count
                                THEN BLOCK_SIZE - (pos % BLOCK_SIZE) ELSE count
         /\ Chunk(pos, count) \in 0..count
         /\ Chunk(pos, count) = 0 <=> count = 0
         /\ (pos % BLOCK_SIZE) + Chunk(pos, count) <= BLOCK_SIZE
         /\ \A i \in 0..Chunk(pos, count)-1 :
              /\ (pos + i) \div BLOCK_SIZE = pos \div BLOCK_SIZE
              /\ (pos + i) % BLOCK_SIZE = (pos % BLOCK_SIZE) + i
  <1>1. PICK q, r : q = pos \div BLOCK_SIZE /\ r = pos % BLOCK_SIZE
    OBVIOUS
  <1>2. BLOCK_SIZE \in Nat \ {0}
    BY Sizes
  <1>3. q \in Nat /\ r \in 0..BLOCK_SIZE-1 /\ pos = BLOCK_SIZE * q + r
    BY <1>1, <1>2, DivMod
  <1>4. PICK size : size = Chunk(pos, count)
    OBVIOUS
  <1>5. size = IF BLOCK_SIZE - r <= count THEN BLOCK_SIZE - r ELSE count
    <2>1. BLOCK_SIZE - r \in Int /\ count \in Int
      BY <1>2, <1>3
    <2>2. Min({BLOCK_SIZE - r, count}) = IF BLOCK_SIZE - r <= count THEN BLOCK_SIZE - r ELSE count
      BY <2>1, MinMaxOfPair
    <2> QED BY <1>1, <1>4, <2>2 DEF Chunk
  <1>6. \A i \in 0..size-1 : (pos + i) \div BLOCK_SIZE = q /\ (pos + i) % BLOCK_SIZE = r + i
    <2> TAKE i \in 0..size-1
    <2>1. r + i \in 0..BLOCK_SIZE-1
      BY <1>2, <1>3, <1>5
    <2>2. pos + i = BLOCK_SIZE * q + (r + i)
      <3>1. BLOCK_SIZE * q \in Nat
        BY <1>2, <1>3
      <3> QED BY <1>2, <1>3, <1>5, <3>1
    <2>3. /\ (BLOCK_SIZE * q + (r + i)) \div BLOCK_SIZE = q
          /\ (BLOCK_SIZE * q + (r + i)) % BLOCK_SIZE = r + i
      BY <1>2, <1>3, <2>1, DivUnique
    <2> QED BY <2>2, <2>3
  <1> QED BY <1>1, <1>2, <1>3, <1>4, <1>5, <1>6
----------------------------------------------------------------------------
(* Reading.                                                                *)

Data == Bytes \cup {NUL}

(* The byte at a position of the blocks of chain c.                        *)
Byte(s, c, pos) == s.data[c[pos \div BLOCK_SIZE + 1]][pos % BLOCK_SIZE]

(* The recursive definition in fat_read has a solution: the loop.          *)
LEMMA ReadLoopDef ==
  ASSUME NEW s, NEW f, NEW offset, NEW count,
         NEW total \in Nat, total = Readable(s, f, offset, count)
  PROVE  \E g : /\ g[0] = <<>>
                /\ \A n \in 1..total :
                     g[n] = read_block(s, f, offset, total, g[n-1])
                /\ fat_read(s, f, offset, count) = g[total]
  <1>1. PICK a : a = <<>>
    OBVIOUS
  <1> DEFINE Sol(g, m) == g = [n \in 0..m |->
                                 IF n = 0 THEN a
                                 ELSE read_block(s, f, offset, total, g[n-1])]
             I == {m \in Nat : \E g : Sol(g, m)}
  <1>2. 0 \in I
    <2>1. PICK g : g = [n \in 0..0 |-> a]
      OBVIOUS
    <2>2. Sol(g, 0)
      BY <2>1
    <2> QED BY <2>2
  <1>3. ASSUME NEW m \in Nat, m \in I PROVE m+1 \in I
    <2>1. PICK g : Sol(g, m)
      BY <1>3
    <2>2. PICK w : w = read_block(s, f, offset, total, g[m])
      OBVIOUS
    <2>3. PICK h : h = [n \in 0..m+1 |-> IF n = m+1 THEN w ELSE g[n]]
      OBVIOUS
    <2>4. \A n \in 0..m : h[n] = g[n]
      BY <2>3
    <2>5. ASSUME NEW n \in 0..m+1
          PROVE h[n] = IF n = 0 THEN a ELSE read_block(s, f, offset, total, h[n-1])
      <3>1. CASE n = 0
        BY <2>1, <2>4, <3>1
      <3>2. CASE n = m+1
        <4>1. n # 0 /\ h[n] = w /\ h[n-1] = g[m]
          BY <2>3, <2>4, <3>2
        <4> QED BY <2>2, <4>1
      <3>3. CASE n # 0 /\ n # m+1
        <4>1. n \in 0..m /\ n-1 \in 0..m
          BY <3>3
        <4>2. g[n] = read_block(s, f, offset, total, g[n-1])
          BY <2>1, <3>3, <4>1
        <4> QED BY <2>4, <3>3, <4>1, <4>2
      <3> QED BY <3>1, <3>2, <3>3
    <2>6. Sol(h, m+1)
      BY <2>3, <2>5
    <2> QED BY <2>6
  <1>4. total \in I
    <2> HIDE DEF I
    <2> QED BY <1>2, <1>3, NatSetInduction
  <1> DEFINE Def(g) == g = [n \in 0..total |->
                              IF n = 0 THEN <<>>
                              ELSE read_block(s, f, offset, total, g[n-1])]
  <1>5. PICK g : g = CHOOSE h : Def(h)
    OBVIOUS
  <1>6. Def(g)
    <2>1. PICK h : Sol(h, total)
      BY <1>4
    <2>2. Def(h)
      BY <1>1, <2>1
    <2> HIDE DEF Def
    <2> QED BY <1>5, <2>2, Zenon
  <1>7. fat_read(s, f, offset, count) = g[total]
    BY <1>5 DEF fat_read
  <1>8. g[0] = <<>>
    BY <1>6
  <1>9. ASSUME NEW n \in 1..total
        PROVE g[n] = read_block(s, f, offset, total, g[n-1])
    <2>1. n \in 0..total /\ n # 0
      OBVIOUS
    <2> QED BY <1>6, <2>1
  <1> QED BY <1>7, <1>8, <1>9

(* What has been read are the bytes from offset on.                        *)
BytesRead(s, c, offset, total, read) ==
  /\ read \in Seq(Data) /\ Len(read) \in 0..total
  /\ \A i \in 1..Len(read) : read[i] = Byte(s, c, offset + i - 1)

(* One iteration of fat_read.                                              *)
LEMMA ReadBlock ==
  ASSUME NEW s, FsOK(s), NEW f \in Files, NEW c, Linked(s, s.root[f].first_block, c),
         NEW offset \in Nat, NEW total \in Nat,
         total = 0 \/ offset + total <= BLOCK_SIZE * Len(c),
         NEW read, BytesRead(s, c, offset, total, read)
  PROVE  LET more == read_block(s, f, offset, total, read)
         IN  /\ BytesRead(s, c, offset, total, more)
             /\ IF Len(read) < total THEN Len(more) > Len(read) ELSE more = read
  <1>a. PICK pos, left : pos = offset + Len(read) /\ left = total - Len(read)
    OBVIOUS
  <1>1. pos \in Nat /\ left \in Nat /\ Len(read) \in Nat
    BY <1>a DEF BytesRead
  <1>2. PICK q, r, size : /\ q = pos \div BLOCK_SIZE /\ r = pos % BLOCK_SIZE
                          /\ size = Chunk(pos, left)
    OBVIOUS
  <1>3. /\ q \in Nat /\ r \in 0..BLOCK_SIZE-1
        /\ size \in 0..left
        /\ size = 0 <=> left = 0
        /\ r + size <= BLOCK_SIZE
        /\ \A i \in 0..size-1 :
             (pos + i) \div BLOCK_SIZE = q /\ (pos + i) % BLOCK_SIZE = r + i
    <2>1. /\ pos \div BLOCK_SIZE \in Nat /\ pos % BLOCK_SIZE \in 0..BLOCK_SIZE-1
          /\ Chunk(pos, left) \in 0..left
          /\ Chunk(pos, left) = 0 <=> left = 0
          /\ (pos % BLOCK_SIZE) + Chunk(pos, left) <= BLOCK_SIZE
          /\ \A i \in 0..Chunk(pos, left)-1 :
               /\ (pos + i) \div BLOCK_SIZE = pos \div BLOCK_SIZE
               /\ (pos + i) % BLOCK_SIZE = (pos % BLOCK_SIZE) + i
      BY <1>1, ChunkFits, Zenon
    <2> QED BY <1>2, <2>1, Zenon
  <1>4. PICK b : b = fat_translate_block(s, f, q)
    OBVIOUS
  <1>5. b = Nth(c, q+1) /\ s.block_lists \in Links /\ c \in Seq(Blocks)
    <2>1. s.block_lists \in Links /\ c \in Seq(Blocks) /\ q \in Nat
      BY <1>3 DEF FsOK, Linked
    <2> QED BY <1>4, <2>1, Translate
  <1>6. PICK more : more = read_block(s, f, offset, total, read)
    OBVIOUS
  <1>7. more = IF size = 0 \/ b = EOC THEN read
               ELSE read \o [i \in 1..size |-> s.data[b][r + i - 1]]
    BY <1>a, <1>2, <1>4, <1>6 DEF read_block
  <1>8. CASE size = 0
    BY <1>a, <1>1, <1>3, <1>6, <1>7, <1>8
  <1>9. CASE size # 0
    <2>1. total > 0 /\ pos < offset + total /\ Len(read) < total
      BY <1>a, <1>1, <1>3, <1>9 DEF BytesRead
    <2>2. pos < BLOCK_SIZE * Len(c) /\ Len(c) \in Nat
      BY <1>1, <1>5, <2>1, Sizes
    <2>3. q < Len(c)
      BY <1>1, <1>2, <2>2, Sizes, DivBound
    <2>4. b = c[q+1] /\ b \in Blocks /\ b # EOC
      BY <1>3, <1>5, <2>2, <2>3, Sizes DEF Nth
    <2>5. PICK chunk : chunk = [i \in 1..size |-> s.data[b][r + i - 1]]
      OBVIOUS
    <2>6. /\ size \in Nat
          /\ \A i \in 1..size : r + i - 1 \in 0..BLOCK_SIZE-1
                                  /\ s.data[b][r + i - 1] \in Data
      <3>1. s.data[b] \in [0..BLOCK_SIZE-1 -> Data]
        BY <2>4 DEF FsOK, Data
      <3>2. size \in Nat /\ \A i \in 1..size : r + i - 1 \in 0..BLOCK_SIZE-1
        BY <1>1, <1>3, Sizes
      <3> QED BY <3>1, <3>2
    <2>7. chunk \in Seq(Data) /\ Len(chunk) = size /\ size \in Nat
      BY <2>5, <2>6
    <2>8. read \in Seq(Data) /\ more = read \o chunk
      BY <1>7, <1>9, <2>4, <2>5 DEF BytesRead
    <2>9. /\ more \in Seq(Data) /\ Len(more) = Len(read) + size
          /\ \A i \in 1..Len(read) + size :
               more[i] = IF i <= Len(read) THEN read[i] ELSE chunk[i - Len(read)]
      BY <2>7, <2>8, ConcatProperties
    <2>10. ASSUME NEW i \in 1..Len(more) PROVE more[i] = Byte(s, c, offset + i - 1)
      <3>1. CASE i <= Len(read)
        BY <1>1, <2>9, <3>1 DEF BytesRead
      <3>2. CASE i > Len(read)
        <4>1. PICK k : k = i - Len(read) - 1
          OBVIOUS
        <4>2. k \in 0..size-1 /\ i - Len(read) \in 1..size /\ offset + i - 1 = pos + k
          BY <1>a, <1>1, <2>7, <2>9, <3>2, <4>1
        <4>3. more[i] = s.data[b][r + k]
          <5>1. more[i] = chunk[i - Len(read)]
            BY <1>1, <2>7, <2>9, <3>2
          <5>2. r + (i - Len(read)) - 1 = r + k
            BY <1>1, <1>3, <4>1
          <5> QED BY <2>5, <4>2, <5>1, <5>2
        <4>4. Byte(s, c, pos + k) = s.data[c[q+1]][r + k]
          BY <1>3, <4>2 DEF Byte
        <4> QED BY <2>4, <4>2, <4>3, <4>4
      <3> QED BY <1>1, <2>9, <3>1, <3>2
    <2> QED BY <1>a, <1>1, <1>3, <1>6, <1>9, <2>7, <2>9, <2>10 DEF BytesRead
  <1> QED BY <1>8, <1>9

(* All of fat_read.                                                        *)
LEMMA FatRead ==
  ASSUME NEW s, FsOK(s), NEW f \in Files, NEW c, Linked(s, s.root[f].first_block, c),
         NEW offset \in Nat, NEW count \in Nat, NEW total \in Nat,
         total = Readable(s, f, offset, count),
         total = 0 \/ offset + total <= BLOCK_SIZE * Len(c)
  PROVE  /\ BytesRead(s, c, offset, total, fat_read(s, f, offset, count))
         /\ Len(fat_read(s, f, offset, count)) = total
  <1>1. PICK g : /\ g[0] = <<>>
                 /\ \A n \in 1..total :
                      g[n] = read_block(s, f, offset, total, g[n-1])
                 /\ fat_read(s, f, offset, count) = g[total]
    BY ReadLoopDef
  <1> DEFINE I == {n \in Nat : n <= total =>
                     BytesRead(s, c, offset, total, g[n]) /\ Len(g[n]) >= n}
  <1>2. 0 \in I
    <2>1. BytesRead(s, c, offset, total, <<>>) /\ Len(<<>>) = 0
      BY DEF BytesRead
    <2> QED BY <1>1, <2>1
  <1>3. ASSUME NEW n \in Nat, n \in I PROVE n+1 \in I
    <2> SUFFICES ASSUME n+1 <= total
                 PROVE  BytesRead(s, c, offset, total, g[n+1]) /\ Len(g[n+1]) >= n+1
      OBVIOUS
    <2>1. BytesRead(s, c, offset, total, g[n]) /\ Len(g[n]) >= n
      BY <1>3
    <2>2. n+1 \in 1..total /\ (n+1)-1 = n
      OBVIOUS
    <2>3. g[n+1] = read_block(s, f, offset, total, g[n])
      BY <1>1, <2>2
    <2>4. /\ BytesRead(s, c, offset, total, g[n+1])
          /\ IF Len(g[n]) < total THEN Len(g[n+1]) > Len(g[n])
             ELSE g[n+1] = g[n]
      BY <2>1, <2>3, ReadBlock
    <2>5. Len(g[n]) \in 0..total /\ Len(g[n+1]) \in 0..total
      BY <2>1, <2>4 DEF BytesRead
    <2>6. PICK k, m : k = Len(g[n]) /\ m = Len(g[n+1])
      OBVIOUS
    <2>7. m >= n+1
      <3>1. /\ k \in 0..total /\ m \in 0..total /\ k >= n
            /\ IF k < total THEN m > k ELSE m = k
        BY <2>1, <2>4, <2>5, <2>6
      <3> QED BY <3>1
    <2> QED BY <2>4, <2>6, <2>7
  <1>4. total \in I
    <2> HIDE DEF I
    <2> QED BY <1>2, <1>3, NatSetInduction
  <1>5. BytesRead(s, c, offset, total, g[total]) /\ Len(g[total]) >= total
    BY <1>4
  <1>6. Len(g[total]) = total
    BY <1>5 DEF BytesRead
  <1> QED BY <1>1, <1>5, <1>6

(* The bytes of a file, by position.                                       *)
LEMMA ContentIs ==
  ASSUME NEW s, FsOK(s), NEW f \in Files, NEW c, c = FileChain(s, f)
  PROVE  /\ Content(s, f) \in Seq(Data)
         /\ Len(Content(s, f)) = s.root[f].size
         /\ \A i \in 1..s.root[f].size :
              (i-1) \div BLOCK_SIZE < Len(c) => Content(s, f)[i] = Byte(s, c, i-1)
  <1>1. PICK size : size = s.root[f].size
    OBVIOUS
  <1>2. size \in Nat /\ s.block_lists \in Links
        /\ s.root[f].first_block \in Blocks \cup {EOC}
    BY <1>1 DEF FsOK
  <1>3. c \in Seq(Blocks)
    BY <1>2, ChainIsLinked DEF FileChain
  <1>4. PICK content : content = Content(s, f)
    OBVIOUS
  <1> DEFINE block(i) == (i-1) \div BLOCK_SIZE + 1
  <1>5. content = [i \in 1..size |-> IF block(i) <= Len(c)
                                     THEN s.data[c[block(i)]][(i-1) % BLOCK_SIZE]
                                     ELSE NUL]
    BY <1>1, <1>4 DEF Content
  <1>6. ASSUME NEW i \in 1..size
        PROVE  /\ block(i) \in Nat \ {0} /\ (i-1) % BLOCK_SIZE \in 0..BLOCK_SIZE-1
               /\ block(i) <= Len(c) <=> (i-1) \div BLOCK_SIZE < Len(c)
    <2>1. i-1 \in Nat /\ BLOCK_SIZE \in Nat \ {0} /\ Len(c) \in Nat
      BY <1>2, <1>3, Sizes
    <2>2. (i-1) \div BLOCK_SIZE \in Nat /\ (i-1) % BLOCK_SIZE \in 0..BLOCK_SIZE-1
      BY <2>1, DivMod
    <2> QED BY <2>1, <2>2
  <1>7. ASSUME NEW i \in 1..size PROVE content[i] \in Data
    <2>1. CASE block(i) <= Len(c)
      <3>1. c[block(i)] \in Blocks
        BY <1>3, <1>6, <2>1
      <3>2. s.data[c[block(i)]] \in [0..BLOCK_SIZE-1 -> Data]
        BY <3>1 DEF FsOK, Data
      <3>3. content[i] = s.data[c[block(i)]][(i-1) % BLOCK_SIZE]
        BY <1>5, <2>1
      <3> QED BY <1>6, <3>2, <3>3
    <2>2. CASE ~(block(i) <= Len(c))
      BY <1>5, <2>2 DEF Data
    <2> QED BY <2>1, <2>2
  <1>8. content \in Seq(Data) /\ Len(content) = size
    <2> HIDE DEF block
    <2> QED BY <1>2, <1>5, <1>7
  <1>9. ASSUME NEW i \in 1..size, (i-1) \div BLOCK_SIZE < Len(c)
        PROVE  content[i] = Byte(s, c, i-1)
    BY <1>5, <1>6, <1>9 DEF Byte
  <1> QED BY <1>1, <1>4, <1>8, <1>9

(* A read returns the bytes of the file.                                   *)
LEMMA ReadsContent ==
  ASSUME NEW s, FsOK(s), Sound(s), NEW f \in Files, NEW offset \in Nat, NEW count \in Nat,
         offset <= Len(Content(s, f)) + 1
  PROVE  fat_read(s, f, offset, count)
           = SubSeq(Content(s, f), offset+1, Min({offset+count, Len(Content(s, f))}))
  <1>1. PICK c : c = FileChain(s, f)
    OBVIOUS
  <1>2. PICK size, content : size = s.root[f].size /\ content = Content(s, f)
    OBVIOUS
  <1>3. Linked(s, s.root[f].first_block, c) /\ Len(c) = BlocksFor(size)
    <2>1. Divided(s, Division(s)) /\ Fits(s, Division(s))
      BY SoundDivided
    <2>2. Linked(s, Start(s, f), Division(s)[f])
      BY <2>1, OwnersFacts DEF Divided
    <2>3. Division(s)[f] = c /\ Start(s, f) = s.root[f].first_block
      BY <1>1, DivisionIs, OwnersFacts DEF Start
    <2> QED BY <1>2, <2>1, <2>2, <2>3 DEF Fits
  <1>4. size \in Nat
    BY <1>2 DEF FsOK
  <1>5. /\ content \in Seq(Data) /\ Len(content) = size
        /\ \A i \in 1..size : (i-1) \div BLOCK_SIZE < Len(c) => content[i] = Byte(s, c, i-1)
    BY <1>1, <1>2, ContentIs
  <1>6. \A i \in 1..size : content[i] = Byte(s, c, i-1)
    <2> TAKE i \in 1..size
    <2>1. i-1 \in 0..size-1
      BY <1>4
    <2>2. (i-1) \div BLOCK_SIZE < Len(c)
      BY <1>3, <1>4, <2>1, BlocksForSize
    <2> QED BY <1>5, <2>2
  <1>7. PICK total : total = Readable(s, f, offset, count)
    OBVIOUS
  <1>8. /\ total \in Nat /\ offset <= size + 1
        /\ total = IF offset + count <= size THEN count
                   ELSE IF offset <= size THEN size - offset ELSE 0
    <2>1. size - offset \in Int /\ 0 \in Int
      BY <1>4
    <2>2. PICK least : least = Min({count, size - offset})
      OBVIOUS
    <2>3. least = IF count <= size - offset THEN count ELSE size - offset
      BY <2>1, <2>2, MinMaxOfPair
    <2>4. least \in Int
      BY <2>1, <2>3
    <2>5. total = IF 0 <= least THEN least ELSE 0
      <3>1. total = Max({0, least})
        BY <1>2, <1>7, <2>2 DEF Readable
      <3>2. Max({0, least}) = IF 0 <= least THEN least ELSE 0
        BY <2>1, <2>4, MinMaxOfPair
      <3> QED BY <3>1, <3>2
    <2>6. offset <= size + 1
      BY <1>2, <1>5
    <2> QED BY <1>4, <2>3, <2>5, <2>6
  <1>9. total = 0 \/ offset + total <= BLOCK_SIZE * Len(c)
    <2>1. size <= BLOCK_SIZE * Len(c) /\ BLOCK_SIZE * Len(c) \in Nat
      BY <1>3, <1>4, BlocksForSize
    <2> QED BY <1>4, <1>8, <2>1
  <1>10. PICK read : read = fat_read(s, f, offset, count)
    OBVIOUS
  <1>11. BytesRead(s, c, offset, total, read) /\ Len(read) = total
    <2>1. Linked(s, s.root[f].first_block, c) /\ total \in Nat
      BY <1>3, <1>8
    <2>2. /\ BytesRead(s, c, offset, total, fat_read(s, f, offset, count))
          /\ Len(fat_read(s, f, offset, count)) = total
      BY <1>7, <1>9, <2>1, FatRead
    <2> QED BY <1>10, <2>2
  <1>12. PICK n : n = Min({offset + count, size})
    OBVIOUS
  <1>13. n \in Int /\ n = IF offset + count <= size THEN offset + count ELSE size
    <2>1. offset + count \in Int /\ size \in Int
      BY <1>4
    <2> QED BY <1>12, <2>1, MinMaxOfPair
  <1>14. PICK sub : sub = SubSeq(content, offset+1, n)
    OBVIOUS
  <1>15. /\ sub \in Seq(Data)
         /\ Len(sub) = IF offset+1 <= n THEN n-(offset+1)+1 ELSE 0
         /\ \A i \in 1..n-(offset+1)+1 : sub[i] = content[(offset+1)+i-1]
    <2>1. PICK k : k = offset+1
      OBVIOUS
    <2>2. k \in Int /\ n \in Int /\ content \in Seq(Data)
      BY <1>5, <1>13, <2>1
    <2>3. \A i \in k..n : content[i] \in Data
      BY <1>4, <1>5, <1>13, <2>1
    <2>4. /\ SubSeq(content, k, n) \in Seq(Data)
          /\ Len(SubSeq(content, k, n)) = IF k <= n THEN n-k+1 ELSE 0
          /\ \A i \in 1..n-k+1 : SubSeq(content, k, n)[i] = content[k+i-1]
      BY <2>2, <2>3, SubSeqProperties
    <2> QED BY <1>14, <2>1, <2>4, Zenon
  <1>16. Len(sub) = total
    BY <1>4, <1>8, <1>13, <1>15
  <1>17. \A i \in 1..total : read[i] = sub[i]
    <2> TAKE i \in 1..total
    <2>1. read[i] = Byte(s, c, offset+i-1)
      BY <1>11 DEF BytesRead
    <2>2. offset+i \in 1..size /\ i \in 1..n-(offset+1)+1
      BY <1>4, <1>8, <1>13
    <2>3. sub[i] = content[offset+i]
      <3>1. (offset+1)+i-1 = offset+i
        BY <1>8
      <3> QED BY <1>15, <2>2, <3>1
    <2>4. content[offset+i] = Byte(s, c, offset+i-1)
      BY <1>6, <2>2
    <2> QED BY <2>1, <2>3, <2>4
  <1>18. read = sub
    <2>1. read \in Seq(Data) /\ Len(read) = Len(sub)
      BY <1>11, <1>16 DEF BytesRead
    <2> QED BY <1>11, <1>15, <1>17, <2>1, SeqEqual
  <1> QED BY <1>2, <1>5, <1>10, <1>12, <1>14, <1>18
----------------------------------------------------------------------------
(* One more block for a file.                                              *)

(* What fat_add_block does to the file system s, field by field.           *)
Added(s, f, a) ==
  LET b == s.first_free_block
      e == s.root[f]
  IN  /\ FsOK(a)
      /\ a.data = s.data
      /\ a.free_block_count = s.free_block_count - 1
      /\ a.used_block_count = s.used_block_count + 1
      /\ \A g \in Files \ {f} : a.root[g] = s.root[g]
      /\ a.root[f].mode = e.mode /\ a.root[f].size = e.size
      /\ a.root[f].first_block = IF e.first_block = EOC THEN b ELSE e.first_block
      /\ a.root[f].last_block = b
      /\ \A x \in Blocks : a.block_lists[x] =
           IF x = b THEN EOC
           ELSE IF e.first_block # EOC /\ x = e.last_block THEN b
           ELSE s.block_lists[x]
      /\ a.first_free_block = IF e.first_block # EOC /\ b = e.last_block THEN b
                              ELSE s.block_lists[b]
      /\ a.last_free_block = IF a.first_free_block = EOC THEN EOC
                             ELSE s.last_free_block

(* fat_add_block does what Added says.                                     *)
LEMMA AddBlock ==
  ASSUME NEW s, FsOK(s), NEW f \in Files, s.first_free_block # EOC
  PROVE  Added(s, f, fat_add_block(s, f))
  <1>1. PICK b, e : b = s.first_free_block /\ e = s.root[f]
    OBVIOUS
  <1>2. b \in Blocks /\ e.first_block \in Blocks \cup {EOC}
        /\ e.last_block \in Blocks \cup {EOC}
    BY <1>1 DEF FsOK
  <1>3. PICK linked :
          linked = IF e.first_block = EOC
                   THEN [s EXCEPT !.root[f].first_block = b,
                                  !.root[f].last_block = b]
                   ELSE [s EXCEPT !.block_lists[e.last_block] = b,
                                  !.root[f].last_block = b]
    OBVIOUS
  <1>4. /\ FsOK(linked)
        /\ linked.data = s.data
        /\ linked.free_block_count = s.free_block_count
        /\ linked.used_block_count = s.used_block_count
        /\ linked.first_free_block = b
        /\ linked.last_free_block = s.last_free_block
        /\ \A g \in Files \ {f} : linked.root[g] = s.root[g]
        /\ linked.root[f].mode = e.mode /\ linked.root[f].size = e.size
        /\ linked.root[f].first_block = IF e.first_block = EOC THEN b ELSE e.first_block
        /\ linked.root[f].last_block = b
        /\ \A x \in Blocks : linked.block_lists[x] =
             IF e.first_block # EOC /\ x = e.last_block THEN b ELSE s.block_lists[x]
    <2> DEFINE Relinked(l, s1) ==
          /\ FsOK(l) /\ l.data = s1.data
          /\ l.free_block_count = s1.free_block_count
          /\ l.used_block_count = s1.used_block_count
          /\ l.first_free_block = s1.first_free_block
          /\ l.last_free_block = s1.last_free_block
          /\ l.block_lists = s1.block_lists
          /\ l.root = [s1.root EXCEPT ![f] = [s1.root[f] EXCEPT !.last_block = b]]
    <2>1. ASSUME NEW s1, FsOK(s1), NEW l, l = [s1 EXCEPT !.root[f].last_block = b]
          PROVE  Relinked(l, s1)
      <3>1. PICK entry, root : /\ entry = [s1.root[f] EXCEPT !.last_block = b]
                               /\ root = [s1.root EXCEPT ![f] = entry]
        OBVIOUS
      <3>2. s1.root \in [Files -> FileEntry]
        BY <2>1 DEF FsOK, FileEntry
      <3>3. entry \in FileEntry
        BY <1>2, <3>1, <3>2 DEF FileEntry
      <3>4. root \in [Files -> FileEntry]
        BY <3>1, <3>2, <3>3
      <3>5. l = [s1 EXCEPT !.root = root]
        BY <2>1, <3>1 DEF FsOK
      <3> QED BY <2>1, <3>1, <3>4, <3>5 DEF FsOK, FileEntry
    <2> HIDE DEF Relinked
    <2>2. CASE e.first_block = EOC
      <3>1. PICK s1 : s1 = [s EXCEPT !.root[f].first_block = b]
        OBVIOUS
      <3>2. linked = [s1 EXCEPT !.root[f].last_block = b]
        BY <1>3, <2>2, <3>1
      <3>3. FsOK(s1)
        <4>1. PICK entry, root : /\ entry = [e EXCEPT !.first_block = b]
                                 /\ root = [s.root EXCEPT ![f] = entry]
          OBVIOUS
        <4>2. s.root \in [Files -> FileEntry] /\ e \in FileEntry
          BY <1>1 DEF FsOK, FileEntry
        <4>3. entry \in FileEntry
          BY <1>2, <4>1, <4>2 DEF FileEntry
        <4>4. root \in [Files -> FileEntry]
          BY <4>1, <4>2, <4>3
        <4>5. s1 = [s EXCEPT !.root = root]
          BY <1>1, <3>1, <4>1 DEF FsOK
        <4> QED BY <4>4, <4>5 DEF FsOK, FileEntry
      <3>4. /\ s1.data = s.data
            /\ s1.free_block_count = s.free_block_count
            /\ s1.used_block_count = s.used_block_count
            /\ s1.first_free_block = s.first_free_block
            /\ s1.last_free_block = s.last_free_block
            /\ s1.block_lists = s.block_lists
            /\ s1.root = [s.root EXCEPT ![f] = [e EXCEPT !.first_block = b]]
        BY <1>1, <3>1 DEF FsOK
      <3>5. Relinked(linked, s1)
        BY <3>2, <3>3, <2>1
      <3> QED BY <1>1, <1>2, <2>2, <3>4, <3>5 DEF FsOK, Relinked
    <2>3. CASE e.first_block # EOC
      <3>1. PICK s1 : s1 = [s EXCEPT !.block_lists[e.last_block] = b]
        OBVIOUS
      <3>2. linked = [s1 EXCEPT !.root[f].last_block = b]
        BY <1>3, <2>3, <3>1
      <3>3. FsOK(s1)
        BY <1>2, <3>1 DEF FsOK, Links
      <3>4. /\ s1.data = s.data
            /\ s1.free_block_count = s.free_block_count
            /\ s1.used_block_count = s.used_block_count
            /\ s1.first_free_block = s.first_free_block
            /\ s1.last_free_block = s.last_free_block
            /\ s1.block_lists = [s.block_lists EXCEPT ![e.last_block] = b]
            /\ s1.root = s.root
        BY <1>1, <3>1 DEF FsOK
      <3>5. Relinked(linked, s1)
        BY <3>2, <3>3, <2>1
      <3> QED BY <1>1, <1>2, <2>3, <3>4, <3>5 DEF FsOK, Links, Relinked
    <2> QED BY <2>2, <2>3
  <1>5. PICK next : next = linked.block_lists[b]
    OBVIOUS
  <1>6. PICK taken : taken = [linked EXCEPT
                    !.first_free_block = next,
                    !.last_free_block  = IF next = EOC THEN EOC ELSE @,
                    !.used_block_count = @ + 1,
                    !.free_block_count = @ - 1]
    OBVIOUS
  <1>7. next \in Blocks \cup {EOC}
    BY <1>2, <1>4, <1>5 DEF FsOK, Links
  <1>8. /\ FsOK(taken)
        /\ taken.root = linked.root /\ taken.block_lists = linked.block_lists
        /\ taken.data = linked.data
        /\ taken.first_free_block = next
        /\ taken.last_free_block = IF next = EOC THEN EOC ELSE linked.last_free_block
        /\ taken.used_block_count = linked.used_block_count + 1
        /\ taken.free_block_count = linked.free_block_count - 1
    <2>1. PICK last : last = IF next = EOC THEN EOC ELSE linked.last_free_block
      OBVIOUS
    <2>2. last \in Blocks \cup {EOC}
      BY <1>4, <2>1 DEF FsOK
    <2>3. taken = [linked EXCEPT !.first_free_block = next,
                                 !.last_free_block = last,
                                 !.used_block_count = linked.used_block_count + 1,
                                 !.free_block_count = linked.free_block_count - 1]
      BY <1>4, <1>6, <2>1 DEF FsOK
    <2>4. linked.used_block_count + 1 \in Int /\ linked.free_block_count - 1 \in Int
      BY <1>4 DEF FsOK
    <2>5. FsOK(taken)
      BY <1>4, <1>7, <2>2, <2>3, <2>4 DEF FsOK
    <2> QED BY <1>4, <2>1, <2>3, <2>5 DEF FsOK
  <1>9. PICK a : a = Terminated(taken, b)
    OBVIOUS
  <1>10. /\ FsOK(a)
         /\ a.root = taken.root /\ a.data = taken.data
         /\ a.first_free_block = taken.first_free_block
         /\ a.last_free_block = taken.last_free_block
         /\ a.used_block_count = taken.used_block_count
         /\ a.free_block_count = taken.free_block_count
         /\ \A x \in Blocks : a.block_lists[x] = IF x = b THEN EOC ELSE taken.block_lists[x]
    BY <1>2, <1>8, <1>9 DEF FsOK, Terminated, Links
  <1>11. a = fat_add_block(s, f)
    BY <1>1, <1>3, <1>5, <1>6, <1>9 DEF fat_add_block
  <1> QED BY <1>1, <1>2, <1>4, <1>5, <1>8, <1>10, <1>11 DEF Added
----------------------------------------------------------------------------
(* Writing.                                                                *)

(* Whatever the links are, the walk finds a block or EOC.                  *)
LEMMA TranslateType ==
  ASSUME NEW s, FsOK(s), NEW f \in Files, NEW lb \in Nat
  PROVE  fat_translate_block(s, f, lb) \in Blocks \cup {EOC}
  <1>1. s.block_lists \in Links /\ s.root[f].first_block \in Blocks \cup {EOC}
    BY DEF FsOK
  <1>2. PICK g : /\ g[0] = s.root[f].first_block
                 /\ \A n \in 1..lb :
                      g[n] = IF g[n-1] = EOC THEN EOC ELSE s.block_lists[g[n-1]]
                 /\ fat_translate_block(s, f, lb) = g[lb]
    BY <1>1, WalkDef
  <1> DEFINE I == {n \in Nat : n <= lb => g[n] \in Blocks \cup {EOC}}
  <1>3. 0 \in I
    BY <1>1, <1>2
  <1>4. ASSUME NEW n \in Nat, n \in I PROVE n+1 \in I
    <2> SUFFICES ASSUME n+1 <= lb PROVE g[n+1] \in Blocks \cup {EOC}
      OBVIOUS
    <2>1. g[n] \in Blocks \cup {EOC} /\ n+1 \in 1..lb /\ (n+1)-1 = n
      BY <1>4
    <2>2. g[n+1] = IF g[n] = EOC THEN EOC ELSE s.block_lists[g[n]]
      BY <1>2, <2>1
    <2> QED BY <1>1, <2>1, <2>2 DEF Links
  <1>5. lb \in I
    <2> HIDE DEF I
    <2> QED BY <1>3, <1>4, NatSetInduction
  <1> QED BY <1>2, <1>5

(* Block b of a file is filled, and its size set.                          *)
Stored(s, f, b, bytes, size, t) ==
  /\ FsOK(t)
  /\ t.block_lists = s.block_lists
  /\ t.first_free_block = s.first_free_block
  /\ t.last_free_block = s.last_free_block
  /\ t.free_block_count = s.free_block_count
  /\ t.used_block_count = s.used_block_count
  /\ \A x \in Blocks : t.data[x] = IF x = b THEN bytes ELSE s.data[x]
  /\ \A g \in Files \ {f} : t.root[g] = s.root[g]
  /\ t.root[f] = [s.root[f] EXCEPT !.size = size]

(* Storing the bytes of one block and the new size.                        *)
LEMMA Store ==
  ASSUME NEW s, FsOK(s), NEW f \in Files, NEW b \in Blocks,
         NEW bytes \in [0..BLOCK_SIZE-1 -> Data], NEW size \in Nat
  PROVE  Stored(s, f, b, bytes, size,
                [s EXCEPT !.data[b] = bytes, !.root[f].size = size])
  <1>1. PICK root, data : /\ root = [s.root EXCEPT ![f] = [s.root[f] EXCEPT !.size = size]]
                          /\ data = [s.data EXCEPT ![b] = bytes]
    OBVIOUS
  <1>2. root \in [Files -> [mode : {FREE_TYPE} \cup Modes, size : Nat,
                            first_block : Blocks \cup {EOC},
                            last_block : Blocks \cup {EOC}]]
    BY <1>1 DEF FsOK
  <1>3. data \in [Blocks -> [0..BLOCK_SIZE-1 -> Bytes \cup {NUL}]]
    BY <1>1 DEF FsOK, Data
  <1>4. PICK t : t = [s EXCEPT !.data = data, !.root = root]
    OBVIOUS
  <1>5. t = [s EXCEPT !.data[b] = bytes, !.root[f].size = size]
    BY <1>1, <1>4 DEF FsOK
  <1>6. FsOK(t)
    BY <1>2, <1>3, <1>4 DEF FsOK
  <1>7. Stored(s, f, b, bytes, size, t)
    BY <1>1, <1>2, <1>3, <1>4, <1>6 DEF Stored, FsOK
  <1> QED BY <1>5, <1>7

(* The state of the loop.                                                  *)
LoopOK(r, buffer) ==
  /\ DOMAIN r = {"fs", "written", "failed"}
  /\ FsOK(r.fs) /\ r.written \in 0..Len(buffer) /\ r.failed \in BOOLEAN

(* One iteration that writes: the block is there or is added.              *)
Advances(r, f, buffer, offset, w, grown, b) ==
  LET pos  == offset + r.written
      size == Chunk(pos, Len(buffer) - r.written)
      b0   == fat_translate_block(r.fs, f, pos \div BLOCK_SIZE)
  IN  /\ size > 0
      /\ w.failed = FALSE /\ w.written = r.written + size
      /\ IF b0 = EOC THEN /\ r.fs.first_free_block # EOC
                          /\ Added(r.fs, f, grown) /\ b = r.fs.first_free_block
                     ELSE grown = r.fs /\ b = b0
      /\ b \in Blocks
      /\ \E bytes :
           /\ Stored(grown, f, b, bytes,
                     Max({grown.root[f].size, pos + size}), w.fs)
           /\ bytes = [i \in 0..BLOCK_SIZE-1 |->
                         IF i \in pos % BLOCK_SIZE .. (pos % BLOCK_SIZE)+size-1
                         THEN buffer[r.written + i - (pos % BLOCK_SIZE) + 1]
                         ELSE grown.data[b][i]]

(* An iteration of fat_write: done, no block, or it advances.              *)
LEMMA WriteBlock ==
  ASSUME NEW buffer \in Seq(Bytes), NEW f \in Files, NEW offset \in Nat,
         NEW r, LoopOK(r, buffer), NEW w, w = write_block(r, f, buffer, offset)
  PROVE  /\ LoopOK(w, buffer)
         /\ \/ w = r /\ (r.failed \/ r.written = Len(buffer))
            \/ /\ ~r.failed /\ r.written < Len(buffer)
               /\ fat_translate_block(r.fs, f, (offset + r.written) \div BLOCK_SIZE) = EOC
               /\ r.fs.first_free_block = EOC
               /\ w.fs = r.fs /\ w.written = r.written /\ w.failed
            \/ /\ ~r.failed /\ r.written < Len(buffer)
               /\ \E grown, b : Advances(r, f, buffer, offset, w, grown, b)
  <1>1. PICK pos, left, at, q : /\ pos = offset + r.written
                                /\ left = Len(buffer) - r.written
                                /\ at = pos % BLOCK_SIZE
                                /\ q = pos \div BLOCK_SIZE
    OBVIOUS
  <1>2. PICK size, b0 : /\ size = Chunk(pos, left)
                        /\ b0 = fat_translate_block(r.fs, f, q)
    OBVIOUS
  <1>3. PICK grown : grown = IF b0 = EOC THEN fat_add_block(r.fs, f) ELSE r.fs
    OBVIOUS
  <1>4. PICK b : b = IF b0 = EOC THEN grown.root[f].last_block ELSE b0
    OBVIOUS
  <1>5. PICK bytes : bytes = [i \in 0..BLOCK_SIZE-1 |->
                         IF i \in at .. at+size-1
                         THEN buffer[r.written + i - at + 1]
                         ELSE grown.data[b][i]]
    OBVIOUS
  <1>6. PICK total : total = Max({grown.root[f].size, pos + size})
    OBVIOUS
  <1>7. PICK new : new = [grown EXCEPT !.data[b] = bytes, !.root[f].size = total]
    OBVIOUS
  <1>8. /\ pos \in Nat /\ left \in Nat /\ q \in Nat /\ at \in 0..BLOCK_SIZE-1
        /\ size \in 0..left /\ at + size <= BLOCK_SIZE
        /\ size = 0 <=> left = 0
    <2>1. pos \in Nat /\ left \in Nat
      BY <1>1 DEF LoopOK
    <2>2. /\ pos \div BLOCK_SIZE \in Nat /\ pos % BLOCK_SIZE \in 0..BLOCK_SIZE-1
          /\ Chunk(pos, left) \in 0..left
          /\ Chunk(pos, left) = 0 <=> left = 0
          /\ (pos % BLOCK_SIZE) + Chunk(pos, left) <= BLOCK_SIZE
      BY <2>1, ChunkFits, Zenon
    <2> QED BY <1>1, <1>2, <2>1, <2>2, Zenon
  <1>9. w = IF r.failed \/ size = 0 THEN r
            ELSE IF b0 = EOC /\ r.fs.first_free_block = EOC
            THEN [r EXCEPT !.failed = TRUE]
            ELSE [r EXCEPT !.fs = [grown EXCEPT
                             !.data[b] = [i \in 0..BLOCK_SIZE-1 |->
                                IF i \in at .. at+size-1
                                THEN buffer[r.written + i - at + 1] ELSE @[i]],
                             !.root[f].size = Max({@, pos + size})],
                           !.written = @ + size]
    BY <1>1, <1>2, <1>3, <1>4 DEF write_block
  <1>10. r.written \in 0..Len(buffer) /\ Len(buffer) \in Nat /\ FsOK(r.fs)
    BY DEF LoopOK
  <1>11. left = 0 <=> r.written = Len(buffer)
    BY <1>1, <1>10
  <1>12. CASE r.failed \/ size = 0
    <2>1. w = r
      BY <1>9, <1>12
    <2> QED BY <1>8, <1>11, <1>12, <2>1
  <1>13. ~(r.failed \/ size = 0) => ~r.failed /\ r.written < Len(buffer) /\ size > 0
    BY <1>8, <1>10, <1>11
  <1>14. CASE ~(r.failed \/ size = 0) /\ b0 = EOC /\ r.fs.first_free_block = EOC
    <2>1. w = [r EXCEPT !.failed = TRUE]
      BY <1>9, <1>14
    <2>2. w.fs = r.fs /\ w.written = r.written /\ w.failed = TRUE
          /\ DOMAIN w = {"fs", "written", "failed"}
      BY <2>1 DEF LoopOK
    <2>3. LoopOK(w, buffer)
      BY <1>10, <2>2 DEF LoopOK
    <2> QED BY <1>1, <1>2, <1>13, <1>14, <2>2, <2>3
  <1>15. CASE ~(r.failed \/ size = 0) /\ ~(b0 = EOC /\ r.fs.first_free_block = EOC)
    <2>1. /\ b \in Blocks /\ FsOK(grown)
          /\ IF b0 = EOC THEN /\ r.fs.first_free_block # EOC
                              /\ Added(r.fs, f, grown) /\ b = r.fs.first_free_block
                         ELSE grown = r.fs /\ b = b0
      <3>1. b0 \in Blocks \cup {EOC} /\ r.fs.first_free_block \in Blocks \cup {EOC}
        <4>1. r.fs.first_free_block \in Blocks \cup {EOC}
          BY <1>10 DEF FsOK
        <4> QED BY <1>2, <1>8, <1>10, <4>1, TranslateType
      <3>2. CASE b0 = EOC
        <4>1. Added(r.fs, f, grown)
          BY <1>3, <1>10, <1>15, <3>2, AddBlock
        <4>2. b = r.fs.first_free_block /\ FsOK(grown)
          BY <1>4, <3>2, <4>1 DEF Added
        <4> QED BY <1>15, <3>1, <3>2, <4>1, <4>2
      <3>3. CASE b0 # EOC
        BY <1>3, <1>4, <1>10, <3>1, <3>3
      <3> QED BY <3>2, <3>3
    <2>2. bytes \in [0..BLOCK_SIZE-1 -> Data]
      <3>1. grown.data[b] \in [0..BLOCK_SIZE-1 -> Data]
        BY <2>1 DEF FsOK, Data
      <3>2. \A i \in at..at+size-1 : buffer[r.written + i - at + 1] \in Data
        <4> TAKE i \in at..at+size-1
        <4>1. PICK k : k = r.written + i - at + 1
          OBVIOUS
        <4>2. i \in Int /\ at <= i /\ i <= at+size-1
          BY <1>8
        <4>3. k \in 1..Len(buffer)
          <5>1. left = Len(buffer) - r.written
            BY <1>1
          <5>2. at \in Nat /\ size \in Int /\ size <= left
            BY <1>8, Sizes
          <5> QED BY <1>10, <4>1, <4>2, <5>1, <5>2
        <4>4. buffer[k] \in Bytes
          BY <4>3
        <4> QED BY <4>1, <4>4 DEF Data
      <3> QED BY <1>5, <3>1, <3>2
    <2>3. total \in Nat
      <3>1. grown.root[f].size \in Nat /\ pos + size \in Nat
        BY <1>8, <2>1 DEF FsOK
      <3>2. PICK x, y : x = grown.root[f].size /\ y = pos + size
        OBVIOUS
      <3>3. x \in Int /\ y \in Int
        BY <3>1, <3>2
      <3>4. Max({x, y}) = IF x <= y THEN y ELSE x
        BY <3>3, MinMaxOfPair
      <3> QED BY <1>6, <3>1, <3>2, <3>4
    <2>4. Stored(grown, f, b, bytes, total, new)
      BY <1>7, <2>1, <2>2, <2>3, Store
    <2>5. w = [r EXCEPT !.fs = new, !.written = r.written + size]
      <3>1. new = [grown EXCEPT
                     !.data[b] = [i \in 0..BLOCK_SIZE-1 |->
                        IF i \in at .. at+size-1
                        THEN buffer[r.written + i - at + 1] ELSE @[i]],
                     !.root[f].size = Max({@, pos + size})]
        BY <1>5, <1>6, <1>7, <2>1 DEF FsOK
      <3> QED BY <1>9, <1>15, <3>1 DEF LoopOK
    <2>6. w.fs = new /\ w.written = r.written + size /\ w.failed = r.failed
          /\ DOMAIN w = {"fs", "written", "failed"}
      BY <2>5 DEF LoopOK
    <2>7. r.written + size \in 0..Len(buffer)
      <3>1. PICK x, len : x = r.written /\ len = Len(buffer)
        OBVIOUS
      <3>2. x \in Nat /\ len \in Nat /\ x <= len /\ left = len - x
        BY <1>1, <1>10, <3>1
      <3>3. size \in Nat /\ size <= left
        BY <1>8
      <3>4. x + size \in 0..len
        BY <3>2, <3>3
      <3> QED BY <3>1, <3>4
    <2>8. LoopOK(w, buffer)
      BY <2>4, <2>6, <2>7 DEF LoopOK, Stored
    <2>9. w.failed = FALSE
      BY <1>15, <2>6 DEF LoopOK
    <2>10. Advances(r, f, buffer, offset, w, grown, b)
      BY <1>1, <1>2, <1>5, <1>6, <1>13, <1>15, <2>1, <2>4, <2>6, <2>9 DEF Advances
    <2> QED BY <1>13, <1>15, <2>8, <2>10
  <1> QED BY <1>12, <1>14, <1>15

(* The values of the loop of fat_write, after each iteration.              *)
WriteLoop(g, s, f, buffer, offset, total) ==
  /\ g[0] = [fs |-> s, written |-> 0, failed |-> FALSE]
  /\ \A n \in 1..total : g[n] = write_block(g[n-1], f, buffer, offset)
  /\ fat_write(s, f, buffer, offset) = g[total]

(* The recursive definition in fat_write has a solution: the loop.         *)
LEMMA WriteLoopDef ==
  ASSUME NEW s, NEW f, NEW buffer, NEW offset, NEW total \in Nat, total = Len(buffer)
  PROVE  \E g : WriteLoop(g, s, f, buffer, offset, total)
  <1>1. PICK a : a = [fs |-> s, written |-> 0, failed |-> FALSE]
    OBVIOUS
  <1> DEFINE Sol(g, m) == g = [n \in 0..m |->
                                 IF n = 0 THEN a
                                 ELSE write_block(g[n-1], f, buffer, offset)]
             I == {m \in Nat : \E g : Sol(g, m)}
  <1>2. 0 \in I
    <2>1. PICK g : g = [n \in 0..0 |-> a]
      OBVIOUS
    <2>2. Sol(g, 0)
      BY <2>1
    <2> QED BY <2>2
  <1>3. ASSUME NEW m \in Nat, m \in I PROVE m+1 \in I
    <2>1. PICK g : Sol(g, m)
      BY <1>3
    <2>2. PICK w : w = write_block(g[m], f, buffer, offset)
      OBVIOUS
    <2>3. PICK h : h = [n \in 0..m+1 |-> IF n = m+1 THEN w ELSE g[n]]
      OBVIOUS
    <2>4. \A n \in 0..m : h[n] = g[n]
      BY <2>3
    <2>5. ASSUME NEW n \in 0..m+1
          PROVE h[n] = IF n = 0 THEN a ELSE write_block(h[n-1], f, buffer, offset)
      <3>1. CASE n = 0
        BY <2>1, <2>4, <3>1
      <3>2. CASE n = m+1
        <4>1. n # 0 /\ h[n] = w /\ h[n-1] = g[m]
          BY <2>3, <2>4, <3>2
        <4> QED BY <2>2, <4>1
      <3>3. CASE n # 0 /\ n # m+1
        <4>1. n \in 0..m /\ n-1 \in 0..m
          BY <3>3
        <4>2. g[n] = write_block(g[n-1], f, buffer, offset)
          BY <2>1, <3>3, <4>1
        <4> QED BY <2>4, <3>3, <4>1, <4>2
      <3> QED BY <3>1, <3>2, <3>3
    <2>6. Sol(h, m+1)
      BY <2>3, <2>5
    <2> QED BY <2>6
  <1>4. total \in I
    <2> HIDE DEF I
    <2> QED BY <1>2, <1>3, NatSetInduction
  <1> DEFINE Def(g) == g = [n \in 0..Len(buffer) |->
                              IF n = 0 THEN [fs |-> s, written |-> 0, failed |-> FALSE]
                              ELSE write_block(g[n-1], f, buffer, offset)]
  <1>5. PICK g : g = CHOOSE h : Def(h)
    OBVIOUS
  <1>6. Def(g)
    <2>1. PICK h : Sol(h, total)
      BY <1>4
    <2>2. Def(h)
      BY <1>1, <2>1
    <2> HIDE DEF Def
    <2> QED BY <1>5, <2>2, Zenon
  <1>7. fat_write(s, f, buffer, offset) = g[total]
    BY <1>5 DEF fat_write
  <1>8. g[0] = [fs |-> s, written |-> 0, failed |-> FALSE]
    BY <1>6
  <1>9. ASSUME NEW n \in 1..total
        PROVE g[n] = write_block(g[n-1], f, buffer, offset)
    <2>1. n \in 0..total /\ n # 0
      OBVIOUS
    <2> QED BY <1>6, <2>1
  <1> QED BY <1>7, <1>8, <1>9 DEF WriteLoop
----------------------------------------------------------------------------
(* Blocks moved from the free chain to the chain of f, from s, where P     *)
(* divides the blocks, to t, where Q does.                                 *)
Moved(s, P, t, Q, f) ==
  /\ FsOK(t) /\ Divided(t, Q)
  /\ \A g \in Files \ {f} : Q[g] = P[g] /\ t.root[g] = s.root[g]
  /\ t.root[f].mode = s.root[f].mode
  /\ t.root[f].last_block = LastOf(Q[f])
  /\ Len(P[f]) <= Len(Q[f]) /\ \A n \in 1..Len(P[f]) : Q[f][n] = P[f][n]
  /\ Len(Q[f]) + Len(Q[Nobody]) = Len(P[f]) + Len(P[Nobody])
  /\ t.free_block_count - Len(Q[Nobody]) = s.free_block_count - Len(P[Nobody])
  /\ t.used_block_count + Len(Q[Nobody]) = s.used_block_count + Len(P[Nobody])
  /\ s.last_free_block = LastOf(P[Nobody]) => t.last_free_block = LastOf(Q[Nobody])

(* The lengths and the blocks of the chains.                               *)
LEMMA ChainTypes ==
  ASSUME NEW s, NEW P, Divided(s, P), NEW o \in Owners
  PROVE  /\ P[o] \in Seq(Blocks) /\ Len(P[o]) \in Nat /\ Len(P[o]) <= MAX_BLOCKS
         /\ \A n \in 1..Len(P[o]) : P[o][n] \in Blocks /\ P[o][n] # EOC
         /\ Linked(s, Start(s, o), P[o])
         /\ \A n \in 1..Len(P[o]) : s.block_lists[P[o][n]] = Nth(P[o], n+1)
         /\ Start(s, o) = Nth(P[o], 1)
  <1>1. P[o] \in Seq(Blocks) /\ Linked(s, Start(s, o), P[o])
    BY DEF Divided
  <1>2. Len(P[o]) \in 0..MAX_BLOCKS
    BY ShortChains DEF Divided
  <1> QED BY <1>1, <1>2, Sizes DEF Linked

(* The last block of a chain.                                              *)
LEMMA LastBlock ==
  ASSUME NEW c \in Seq(Blocks)
  PROVE  /\ c = <<>> <=> Len(c) = 0
         /\ c = <<>> => LastOf(c) = EOC
         /\ c # <<>> => LastOf(c) = c[Len(c)] /\ LastOf(c) \in Blocks
  BY DEF LastOf, Last

(* Two steps of a write are a longer one.                                  *)
LEMMA MovedTransitive ==
  ASSUME NEW s, NEW P \in [Owners -> Seq(Blocks)], NEW t, NEW Q, NEW u, NEW R,
         NEW f \in Files, FsOK(s), Moved(s, P, t, Q, f), Moved(t, Q, u, R, f)
  PROVE  Moved(s, P, u, R, f)
  <1>1. /\ Len(P[f]) \in Nat /\ Len(Q[f]) \in Nat /\ Len(R[f]) \in Nat
        /\ Len(P[Nobody]) \in Nat /\ Len(Q[Nobody]) \in Nat /\ Len(R[Nobody]) \in Nat
    BY OwnersFacts DEF Moved, Divided
  <1>2. /\ s.free_block_count \in Int /\ t.free_block_count \in Int
        /\ u.free_block_count \in Int /\ s.used_block_count \in Int
        /\ t.used_block_count \in Int /\ u.used_block_count \in Int
    BY DEF Moved, FsOK
  <1>3. /\ FsOK(u) /\ Divided(u, R)
        /\ \A g \in Files \ {f} : R[g] = P[g] /\ u.root[g] = s.root[g]
        /\ u.root[f].mode = s.root[f].mode
        /\ u.root[f].last_block = LastOf(R[f])
        /\ s.last_free_block = LastOf(P[Nobody]) => u.last_free_block = LastOf(R[Nobody])
    BY DEF Moved
  <1>4. Len(P[f]) <= Len(R[f]) /\ \A n \in 1..Len(P[f]) : R[f][n] = P[f][n]
    BY <1>1 DEF Moved
  <1>5. /\ Len(R[f]) + Len(R[Nobody]) = Len(P[f]) + Len(P[Nobody])
        /\ u.free_block_count - Len(R[Nobody]) = s.free_block_count - Len(P[Nobody])
        /\ u.used_block_count + Len(R[Nobody]) = s.used_block_count + Len(P[Nobody])
    BY <1>1, <1>2 DEF Moved
  <1> QED BY <1>3, <1>4, <1>5 DEF Moved

(* Filling a block and setting the size moves no block.                    *)
LEMMA StoreMoves ==
  ASSUME NEW s, FsOK(s), NEW P, Divided(s, P), NEW f \in Files,
         s.root[f].last_block = LastOf(P[f]),
         NEW b, NEW bytes, NEW size, NEW t, Stored(s, f, b, bytes, size, t)
  PROVE  Moved(s, P, t, P, f)
  <1>1. FsOK(t) /\ t.block_lists = s.block_lists
    BY DEF Stored
  <1>2. \A o \in Owners : Start(t, o) = Start(s, o)
    <2>1. t.root[f].first_block = s.root[f].first_block
      BY DEF Stored, FsOK
    <2> QED BY <2>1, OwnersFacts DEF Stored, Start
  <1>3. Divided(t, P)
    BY <1>1, <1>2 DEF Divided, Linked
  <1>4. Len(P[f]) \in Nat /\ Len(P[Nobody]) \in Nat
    BY OwnersFacts, ChainTypes
  <1>5. t.root[f].mode = s.root[f].mode /\ t.root[f].last_block = s.root[f].last_block
    BY DEF Stored, FsOK
  <1>6. /\ \A g \in Files \ {f} : t.root[g] = s.root[g]
        /\ t.free_block_count = s.free_block_count
        /\ t.used_block_count = s.used_block_count
        /\ t.last_free_block = s.last_free_block
    BY DEF Stored
  <1> QED BY <1>1, <1>3, <1>4, <1>5, <1>6 DEF Moved

(* The first free block becomes the last of a file.                        *)
LEMMA AddMoves ==
  ASSUME NEW s, FsOK(s), NEW P, Divided(s, P), NEW f \in Files,
         s.root[f].last_block = LastOf(P[f]), s.first_free_block # EOC,
         NEW a, Added(s, f, a)
  PROVE  \E Q : /\ Moved(s, P, a, Q, f)
                /\ Len(Q[f]) = Len(P[f]) + 1 /\ Q[f][Len(P[f]) + 1] = s.first_free_block
  <1>1. PICK b, c, d : b = s.first_free_block /\ c = P[f] /\ d = P[Nobody]
    OBVIOUS
  <1>2. /\ c \in Seq(Blocks) /\ Len(c) \in Nat
        /\ d \in Seq(Blocks) /\ Len(d) \in Nat
        /\ Linked(s, s.root[f].first_block, c) /\ Linked(s, b, d)
    BY <1>1, OwnersFacts, ChainTypes DEF Start
  <1>3. Len(d) > 0 /\ d[1] = b /\ b \in Blocks /\ b # EOC
    BY <1>1, <1>2, Sizes DEF Linked, Nth
  <1>4. PICK x, y : x = Append(c, b) /\ y = Tail(d)
    OBVIOUS
  <1>5. /\ x \in Seq(Blocks) /\ Len(x) = Len(c) + 1
        /\ \A n \in 1..Len(c) : x[n] = c[n]
        /\ x[Len(c) + 1] = b
    BY <1>2, <1>3, <1>4, AppendProperties
  <1>6. /\ y \in Seq(Blocks) /\ Len(y) = Len(d) - 1
        /\ \A n \in 1..Len(d)-1 : y[n] = d[n+1]
    BY <1>2, <1>3, <1>4
  <1>7. PICK Q : Q = [P EXCEPT ![Nobody] = y, ![f] = x]
    OBVIOUS
  <1>8. /\ Q \in [Owners -> Seq(Blocks)] /\ Q[f] = x /\ Q[Nobody] = y
        /\ \A g \in Files \ {f} : Q[g] = P[g]
    BY <1>5, <1>6, <1>7, OwnersFacts DEF Divided
  <1>9. /\ \A o \in Owners : P[o] \in Seq(Blocks)
        /\ \A o, p \in Owners : \A i \in 1..Len(P[o]), j \in 1..Len(P[p]) :
             P[o][i] = P[p][j] => o = p /\ i = j
    BY DEF Divided, Distinct
  (* Every place of Q is a place of P.                                     *)
  <1> DEFINE owner(o, i)  == IF o = f /\ i = Len(c) + 1 THEN Nobody ELSE o
             index(o, i) == IF o = f /\ i = Len(c) + 1 THEN 1
                            ELSE IF o = Nobody THEN i + 1 ELSE i
  <1>10. ASSUME NEW o \in Owners, NEW i \in 1..Len(Q[o])
         PROVE  /\ owner(o, i) \in Owners /\ index(o, i) \in 1..Len(P[owner(o, i)])
                /\ Q[o][i] = P[owner(o, i)][index(o, i)]
    <2>1. CASE o = f /\ i = Len(c) + 1
      BY <1>1, <1>2, <1>3, <1>5, <1>8, <2>1, OwnersFacts
    <2>2. CASE o = f /\ i # Len(c) + 1
      <3>1. i \in 1..Len(c)
        BY <1>2, <1>5, <1>8, <2>2
      <3> QED BY <1>1, <1>5, <1>8, <2>2, <3>1, OwnersFacts
    <2>3. CASE o = Nobody
      <3>1. i \in 1..Len(d)-1 /\ i+1 \in 1..Len(d) /\ o # f
        BY <1>2, <1>6, <1>8, <2>3, OwnersFacts
      <3> QED BY <1>1, <1>6, <1>8, <2>3, <3>1, OwnersFacts
    <2>4. CASE o \in Files \ {f}
      BY <1>8, <2>4, OwnersFacts
    <2> QED BY <2>1, <2>2, <2>3, <2>4, OwnersFacts
  <1>11. Distinct(Q)
    <2> SUFFICES ASSUME NEW o \in Owners, NEW p \in Owners,
                        NEW i \in 1..Len(Q[o]), NEW j \in 1..Len(Q[p]), Q[o][i] = Q[p][j]
                 PROVE  o = p /\ i = j
      BY DEF Distinct
    <2>1. owner(o, i) = owner(p, j) /\ index(o, i) = index(p, j)
      <3>1. /\ owner(o, i) \in Owners /\ index(o, i) \in 1..Len(P[owner(o, i)])
            /\ Q[o][i] = P[owner(o, i)][index(o, i)]
        BY <1>10, Zenon
      <3>2. /\ owner(p, j) \in Owners /\ index(p, j) \in 1..Len(P[owner(p, j)])
            /\ Q[p][j] = P[owner(p, j)][index(p, j)]
        BY <1>10, Zenon
      <3>3. PICK v, k, w, l : /\ v = owner(o, i) /\ k = index(o, i)
                              /\ w = owner(p, j) /\ l = index(p, j)
        OBVIOUS
      <3> HIDE DEF owner, index
      <3>4. P[v][k] = P[w][l] /\ v \in Owners /\ w \in Owners
            /\ k \in 1..Len(P[v]) /\ l \in 1..Len(P[w])
        BY <3>1, <3>2, <3>3, Zenon
      <3>5. v = w /\ k = l
        BY <1>9, <3>4
      <3> QED BY <3>3, <3>5
    <2>2. i \in Nat \ {0} /\ j \in Nat \ {0}
      BY <1>8
    <2> QED BY <2>1, <2>2, OwnersFacts
  <1>12. Complete(Q)
    <2> SUFFICES ASSUME NEW z \in Blocks
                 PROVE  \E o \in Owners : \E i \in 1..Len(Q[o]) : Q[o][i] = z
      BY DEF Complete
    <2>1. PICK o, i : o \in Owners /\ i \in 1..Len(P[o]) /\ P[o][i] = z
      BY DEF Divided, Complete
    <2>2. CASE o = Nobody /\ i = 1
      <3>1. f \in Owners /\ Len(c) + 1 \in 1..Len(Q[f]) /\ Q[f][Len(c) + 1] = z
        BY <1>1, <1>2, <1>3, <1>5, <1>8, <2>1, <2>2, OwnersFacts
      <3> QED BY <3>1
    <2>3. CASE o = Nobody /\ i # 1
      <3>1. i-1 \in 1..Len(d)-1 /\ (i-1)+1 = i
        BY <1>1, <1>2, <2>1, <2>3
      <3>2. Nobody \in Owners /\ i-1 \in 1..Len(Q[Nobody]) /\ Q[Nobody][i-1] = z
        BY <1>1, <1>6, <1>8, <2>1, <2>3, <3>1, OwnersFacts
      <3> QED BY <3>2
    <2>4. CASE o = f
      <3>1. i \in 1..Len(Q[f]) /\ Q[f][i] = z
        BY <1>1, <1>2, <1>5, <1>8, <2>1, <2>4
      <3> QED BY <2>1, <2>4, <3>1
    <2>5. CASE o \in Files \ {f}
      BY <1>8, <2>1, <2>5
    <2> QED BY <2>1, <2>2, <2>3, <2>4, <2>5, OwnersFacts
  <1>13. \A g \in Files \ {f} : a.root[g] = s.root[g]
    BY DEF Added
  (* The links of other blocks than the last of the file and the one added. *)
  <1>14. PICK last : last = LastOf(c)
    OBVIOUS
  <1>15. c = <<>> <=> s.root[f].first_block = EOC
    BY <1>2, Sizes DEF Linked, Nth
  <1>16. \A z \in Blocks : a.block_lists[z] = IF z = b THEN EOC
                                              ELSE IF c # <<>> /\ z = last THEN b
                                              ELSE s.block_lists[z]
    BY <1>1, <1>14, <1>15 DEF Added
  <1>17. \A o \in Owners \ {f} : \A n \in 1..Len(P[o]) : c # <<>> => P[o][n] # last
    <2> TAKE o \in Owners \ {f}
    <2> TAKE n \in 1..Len(P[o])
    <2> SUFFICES ASSUME c # <<>> PROVE P[o][n] # last
      OBVIOUS
    <2>1. Len(c) \in 1..Len(c) /\ last = c[Len(c)]
      BY <1>2, <1>14, LastBlock
    <2> QED BY <1>1, <1>9, <2>1, OwnersFacts
  <1>18. \A o \in Owners : \A n \in 1..Len(P[o]) : P[o][n] = b => o = Nobody /\ n = 1
    BY <1>1, <1>3, <1>9, OwnersFacts
  <1>19. Linked(a, Start(a, f), x)
    <2>1. Start(a, f) = IF c = <<>> THEN b ELSE s.root[f].first_block
      BY <1>1, <1>15, OwnersFacts DEF Added, Start
    <2>2. Start(a, f) = Nth(x, 1)
      <3>1. CASE c = <<>>
        BY <1>2, <1>5, <2>1, <3>1 DEF Nth
      <3>2. CASE c # <<>>
        <4>1. 1 \in 1..Len(c) /\ 1 \in 1..Len(x)
          BY <1>2, <1>5, <3>2
        <4> QED BY <1>2, <1>5, <2>1, <3>2, <4>1 DEF Linked, Nth
      <3> QED BY <3>1, <3>2
    <2>3. ASSUME NEW n \in 1..Len(x) PROVE a.block_lists[x[n]] = Nth(x, n+1)
      <3>1. CASE n = Len(c) + 1
        BY <1>2, <1>3, <1>5, <1>16, <3>1 DEF Nth
      <3>2. CASE n = Len(c)
        <4>1. x[n] = last /\ c # <<>> /\ last \in Blocks /\ last # b
          BY <1>1, <1>2, <1>5, <1>14, <1>18, <2>3, <3>2, LastBlock, OwnersFacts
        <4>2. Nth(x, n+1) = b
          BY <1>2, <1>5, <3>2 DEF Nth
        <4> QED BY <1>16, <4>1, <4>2
      <3>3. CASE n # Len(c) /\ n # Len(c) + 1
        <4>1. n \in 1..Len(c) /\ n+1 \in 1..Len(c) /\ c # <<>> /\ Len(c) \in 1..Len(c)
          BY <1>2, <1>5, <2>3, <3>3
        <4>2. x[n] = c[n] /\ c[n] \in Blocks /\ c[n] # b
          BY <1>1, <1>2, <1>5, <1>18, <4>1, OwnersFacts
        <4>3. c[n] # last
          <5>1. last = c[Len(c)]
            BY <1>2, <1>14, <4>1, LastBlock
          <5>2. f \in Owners
            BY OwnersFacts
          <5> QED BY <1>1, <1>9, <3>3, <4>1, <5>1, <5>2
        <4>4. s.block_lists[c[n]] = Nth(c, n+1)
          BY <1>2, <4>1 DEF Linked
        <4>5. Nth(c, n+1) = Nth(x, n+1)
          BY <1>2, <1>5, <4>1 DEF Nth
        <4> QED BY <1>16, <4>2, <4>3, <4>4, <4>5
      <3> QED BY <3>1, <3>2, <3>3
    <2> QED BY <1>5, <2>2, <2>3 DEF Linked
  <1>20. a.first_free_block = s.block_lists[b]
    <2>1. c # <<>> => last # b
      BY <1>3, <1>17, <1>1, OwnersFacts, <1>2
    <2> QED BY <1>1, <1>14, <1>15, <2>1 DEF Added
  <1>21. Linked(a, Start(a, Nobody), y)
    <2>1. s.block_lists[b] = Nth(d, 2)
      BY <1>2, <1>3 DEF Linked
    <2>2. Start(a, Nobody) = Nth(y, 1)
      BY <1>2, <1>3, <1>6, <1>20, <2>1 DEF Start, Nth
    <2>3. ASSUME NEW n \in 1..Len(y) PROVE a.block_lists[y[n]] = Nth(y, n+1)
      <3>1. n+1 \in 1..Len(d) /\ y[n] = d[n+1] /\ n+1 # 1
        BY <1>2, <1>6, <2>3
      <3>2. y[n] # b /\ y[n] \in Blocks /\ (c # <<>> => y[n] # last)
        BY <1>1, <1>2, <1>17, <1>18, <3>1, OwnersFacts
      <3>3. s.block_lists[d[n+1]] = Nth(d, n+2)
        BY <1>2, <3>1 DEF Linked
      <3>4. Nth(d, n+2) = Nth(y, n+1)
        BY <1>2, <1>6, <3>1 DEF Nth
      <3> QED BY <1>16, <3>1, <3>2, <3>3, <3>4
    <2> QED BY <1>6, <2>2, <2>3 DEF Linked
  <1>22. ASSUME NEW g \in Files \ {f} PROVE Linked(a, Start(a, g), P[g])
    <2>1. g \in Owners /\ Start(a, g) = Start(s, g) /\ g # Nobody
      BY <1>13, OwnersFacts DEF Start
    <2>2. Linked(s, Start(s, g), P[g])
      BY <2>1 DEF Divided
    <2>3. ASSUME NEW n \in 1..Len(P[g]) PROVE a.block_lists[P[g][n]] = s.block_lists[P[g][n]]
      <3>1. P[g][n] \in Blocks /\ P[g][n] # b /\ (c # <<>> => P[g][n] # last)
        BY <1>9, <1>17, <1>18, <2>1
      <3> QED BY <1>16, <3>1
    <2> QED BY <2>1, <2>2, <2>3 DEF Linked
  <1>23. Divided(a, Q)
    <2>1. \A o \in Owners : Linked(a, Start(a, o), Q[o])
      BY <1>8, <1>19, <1>21, <1>22, OwnersFacts
    <2> QED BY <1>8, <1>11, <1>12, <2>1 DEF Divided
  <1>24. a.root[f].mode = s.root[f].mode /\ a.root[f].last_block = LastOf(x)
    <2>1. LastOf(x) = b
      BY <1>2, <1>5, LastBlock
    <2> QED BY <1>1, <2>1 DEF Added
  <1>25. d[Len(d)] = s.last_free_block => a.last_free_block = LastOf(y)
    <2>1. a.last_free_block = IF y = <<>> THEN EOC ELSE s.last_free_block
      <3>1. y = <<>> <=> a.first_free_block = EOC
        <4>1. a.first_free_block = Nth(y, 1)
          BY <1>21 DEF Linked, Start
        <4> QED BY <1>6, <4>1, Sizes DEF Nth
      <3> QED BY <3>1 DEF Added
    <2>2. y # <<>> => LastOf(y) = d[Len(d)]
      <3> SUFFICES ASSUME y # <<>> PROVE LastOf(y) = d[Len(d)]
        OBVIOUS
      <3>1. LastOf(y) = y[Len(y)] /\ Len(y) \in 1..Len(d)-1 /\ Len(y) + 1 = Len(d)
        BY <1>2, <1>6, LastBlock
      <3> QED BY <1>6, <3>1
    <2> QED BY <1>6, <2>1, <2>2, LastBlock
  <1>26. LastOf(d) = d[Len(d)]
    BY <1>2, <1>3, LastBlock
  <1>27. /\ a.free_block_count - Len(y) = s.free_block_count - Len(d)
         /\ a.used_block_count + Len(y) = s.used_block_count + Len(d)
    <2>1. /\ a.free_block_count = s.free_block_count - 1 /\ s.free_block_count \in Int
          /\ a.used_block_count = s.used_block_count + 1 /\ s.used_block_count \in Int
      BY DEF Added, FsOK
    <2>2. PICK free, used : free = s.free_block_count /\ used = s.used_block_count
      OBVIOUS
    <2>3. /\ (free - 1) - Len(y) = free - Len(d)
          /\ (used + 1) + Len(y) = used + Len(d)
      <3>1. free \in Int /\ used \in Int
        BY <2>1, <2>2
      <3>2. PICK m, n : m = Len(d) /\ n = Len(y)
        OBVIOUS
      <3>3. m \in Nat /\ n = m - 1
        BY <1>2, <1>6, <3>2
      <3>4. (free - 1) - n = free - m /\ (used + 1) + n = used + m
        BY <3>1, <3>3
      <3> QED BY <3>2, <3>4
    <2> QED BY <2>1, <2>2, <2>3, Zenon
  <1>28. Len(c) <= Len(x) /\ Len(x) + Len(y) = Len(c) + Len(d) /\ FsOK(a)
    BY <1>2, <1>5, <1>6 DEF Added
  <1>29. Moved(s, P, a, Q, f)
    BY <1>1, <1>5, <1>8, <1>13, <1>23, <1>24, <1>25, <1>26, <1>27, <1>28 DEF Moved
  <1> QED BY <1>1, <1>5, <1>8, <1>29
----------------------------------------------------------------------------
(* The positions that a chunk covers, by block and place in the block.     *)
LEMMA InChunk ==
  ASSUME NEW pos \in Nat, NEW count \in Nat, NEW j \in Nat,
         NEW size, size = Chunk(pos, count), NEW at, at = pos % BLOCK_SIZE
  PROVE  /\ j \in pos..pos+size-1 <=> /\ j \div BLOCK_SIZE = pos \div BLOCK_SIZE
                                      /\ j % BLOCK_SIZE \in at..at+size-1
         /\ j \in pos..pos+size-1 => (j % BLOCK_SIZE) - at = j - pos
  <1>1. PICK q, jq, jr : /\ q = pos \div BLOCK_SIZE
                         /\ jq = j \div BLOCK_SIZE /\ jr = j % BLOCK_SIZE
    OBVIOUS
  <1>2. BLOCK_SIZE \in Nat \ {0}
    BY Sizes
  <1>3. /\ q \in Nat /\ at \in 0..BLOCK_SIZE-1 /\ pos = BLOCK_SIZE * q + at
        /\ jq \in Nat /\ jr \in 0..BLOCK_SIZE-1 /\ j = BLOCK_SIZE * jq + jr
    BY <1>1, <1>2, DivMod
  <1>4. size \in 0..count
    BY ChunkFits
  <1>5. ASSUME j \in pos..pos+size-1 PROVE jq = q /\ jr = at + (j - pos)
    <2>1. PICK i : i = j - pos
      OBVIOUS
    <2>2. i \in 0..size-1 /\ pos + i = j
      BY <1>4, <1>5, <2>1
    <2>3. (pos + i) \div BLOCK_SIZE = pos \div BLOCK_SIZE
          /\ (pos + i) % BLOCK_SIZE = (pos % BLOCK_SIZE) + i
      BY <2>2, ChunkFits
    <2> QED BY <1>1, <2>1, <2>2, <2>3
  <1>6. BLOCK_SIZE * q \in Nat
    BY <1>2, <1>3
  <1>7. jq = q => jr - at = j - pos
    BY <1>2, <1>3, <1>6
  <1>8. ASSUME j \in pos..pos+size-1 PROVE jr \in at..at+size-1 /\ jr - at = j - pos
    <2>1. jr = at + (j - pos) /\ at \in Nat
      BY <1>2, <1>3, <1>5, <1>8
    <2> QED BY <1>4, <1>8, <2>1
  <1>9. ASSUME jq = q, jr \in at..at+size-1 PROVE j \in pos..pos+size-1
    <2>1. at \in Nat /\ jr \in Nat /\ jr - at = j - pos
      BY <1>2, <1>3, <1>7, <1>9
    <2> QED BY <1>4, <1>9, <2>1
  <1> QED BY <1>1, <1>5, <1>8, <1>9

(* The blocks of the file and those before its first one that is written.  *)
Hole(P, f, offset) ==
  IF offset \div BLOCK_SIZE > Len(P[f])
  THEN offset \div BLOCK_SIZE - Len(P[f]) ELSE 0

(* The bytes of f after some are written: Q[f] are its blocks then.        *)
Written(s, P, f, buffer, offset, r, Q) ==
  \A j \in Nat : j \div BLOCK_SIZE < Len(Q[f]) =>
    /\ j \in offset .. offset+r.written-1 =>
         Byte(r.fs, Q[f], j) = buffer[j - offset + 1]
    /\ j \div BLOCK_SIZE < Len(P[f]) /\ j \notin offset .. offset+r.written-1 =>
         Byte(r.fs, Q[f], j) = Byte(s, P[f], j)

(* What the loop keeps; it starts in s.                                    *)
Writing(s, P, f, buffer, offset, r, Q) ==
  /\ LoopOK(r, buffer)
  /\ Moved(s, P, r.fs, Q, f)
  /\ r.written = 0 => r.fs = s /\ Q = P
  /\ r.written > 0 =>
       /\ r.fs.root[f].size = Max({s.root[f].size, offset + r.written})
       /\ BlocksFor(offset + r.written) - Hole(P, f, offset) <= Len(Q[f])
       /\ \/ Len(Q[f]) = Len(P[f])
          \/ Len(Q[f]) = BlocksFor(offset + r.written) - Hole(P, f, offset)
  /\ r.written \in 1..Len(buffer)-1 => (offset + r.written) % BLOCK_SIZE = 0
  /\ r.failed => /\ r.written < Len(buffer) /\ Q[Nobody] = <<>>
                 /\ Len(Q[f]) <= (offset + r.written) \div BLOCK_SIZE
  /\ \A g \in Files \ {f} : \A n \in 1..Len(P[g]) : r.fs.data[P[g][n]] = s.data[P[g][n]]
  /\ Hole(P, f, offset) = 0 => Written(s, P, f, buffer, offset, r, Q)

(* A chain of L blocks, once of A, of which block q is to be written.      *)
LEMMA Growth ==
  ASSUME NEW A \in Nat, NEW L \in Nat, NEW q \in Nat, NEW first \in Nat,
         NEW hole, hole = IF first > A THEN first - A ELSE 0,
         \/ q = first /\ L = A
         \/ q > first /\ q - hole <= L /\ (L = A \/ L = q - hole)
  PROVE  /\ L < q+1 => L = q - hole
         /\ q < L => hole = 0 /\ L = A
  OBVIOUS

(* Every iteration of fat_write keeps the loop invariant.                  *)
LEMMA WritingStep ==
  ASSUME NEW buffer \in Seq(Bytes), NEW f \in Files, NEW offset \in Nat,
         NEW s, FsOK(s), NEW P, Divided(s, P), s.root[f].last_block = LastOf(P[f]),
         NEW r, NEW Q, Writing(s, P, f, buffer, offset, r, Q),
         NEW w, w = write_block(r, f, buffer, offset)
  PROVE  \E R : Writing(s, P, f, buffer, offset, w, R)
  <1>1. PICK wr, pos, left, A, L, hole :
          /\ wr = r.written /\ pos = offset + wr /\ left = Len(buffer) - wr
          /\ A = Len(P[f]) /\ L = Len(Q[f]) /\ hole = Hole(P, f, offset)
    OBVIOUS
  <1>2. PICK at, q, first : /\ at = pos % BLOCK_SIZE /\ q = pos \div BLOCK_SIZE
                             /\ first = offset \div BLOCK_SIZE
    OBVIOUS
  <1>3. /\ LoopOK(r, buffer) /\ Moved(s, P, r.fs, Q, f) /\ FsOK(r.fs)
        /\ Divided(r.fs, Q) /\ r.fs.root[f].last_block = LastOf(Q[f])
    BY DEF Writing, Moved
  <1>4. /\ wr \in Nat /\ wr <= Len(buffer) /\ Len(buffer) \in Nat
        /\ pos \in Nat /\ left \in Nat
    BY <1>1, <1>3 DEF LoopOK
  <1>5. /\ f \in Owners /\ A \in Nat /\ L \in Nat
        /\ Linked(r.fs, r.fs.root[f].first_block, Q[f])
        /\ Linked(r.fs, r.fs.first_free_block, Q[Nobody]) /\ Q[Nobody] \in Seq(Blocks)
    BY <1>1, <1>3, OwnersFacts, ChainTypes DEF Start
  <1>6. PICK b0, size : /\ b0 = fat_translate_block(r.fs, f, q)
                        /\ size = Chunk(pos, left)
    OBVIOUS
  <1>7. /\ q \in Nat /\ at \in 0..BLOCK_SIZE-1
        /\ size = IF BLOCK_SIZE - at <= left THEN BLOCK_SIZE - at ELSE left
        /\ size \in 0..left /\ (size = 0 <=> left = 0) /\ at + size <= BLOCK_SIZE
        /\ BLOCK_SIZE \in Nat \ {0}
    BY <1>4, <1>6, <1>2, ChunkFits, Sizes, Zenon
  <1>8. PICK base : base = BLOCK_SIZE * q
    OBVIOUS
  <1>9. /\ base \in Nat /\ pos = base + at
         /\ BLOCK_SIZE * (q+1) = base + BLOCK_SIZE
    <2>1. base \in Nat /\ BLOCK_SIZE * (q+1) = base + BLOCK_SIZE
      BY <1>7, <1>8
    <2>2. pos = BLOCK_SIZE * q + at
      BY <1>4, <1>2, ChunkFits, Zenon
    <2> QED BY <1>8, <2>1, <2>2, Zenon
  <1>10. b0 = Nth(Q[f], q+1) /\ (b0 = EOC <=> L <= q) /\ (q < L => b0 = Q[f][q+1])
    <2>1. b0 = Nth(Q[f], q+1)
      <3>1. r.fs.block_lists \in Links
        BY <1>3 DEF FsOK
      <3>2. PICK t, c : t = r.fs /\ c = Q[f]
        OBVIOUS
      <3>3. t.block_lists \in Links /\ Linked(t, t.root[f].first_block, c)
        BY <1>5, <3>1, <3>2
      <3>4. fat_translate_block(t, f, q) = Nth(c, q+1)
        BY <1>7, <3>3, Translate
      <3> QED BY <1>6, <3>2, <3>4
    <2>2. Q[f] \in Seq(Blocks) /\ q+1 \in Nat
      BY <1>3, <1>5, <1>7 DEF Divided
    <2>3. Nth(Q[f], q+1) = EOC <=> q+1 \notin 1..Len(Q[f])
      BY <2>2, NthType
    <2>4. q+1 \in 1..Len(Q[f]) <=> q < L
      BY <1>1, <1>5, <1>7
    <2>5. q < L => Nth(Q[f], q+1) = Q[f][q+1]
      BY <2>4 DEF Nth
    <2>6. b0 = EOC <=> ~(q < L)
      BY <2>1, <2>3, <2>4
    <2>7. ~(q < L) <=> L <= q
      BY <1>5, <1>7
    <2> QED BY <2>1, <2>5, <2>6, <2>7
  <1>11. \/ w = r /\ (r.failed \/ r.written = Len(buffer))
        \/ /\ ~r.failed /\ r.written < Len(buffer) /\ b0 = EOC
           /\ r.fs.first_free_block = EOC
           /\ w.fs = r.fs /\ w.written = r.written /\ w.failed
        \/ /\ ~r.failed /\ r.written < Len(buffer)
           /\ \E grown, b : Advances(r, f, buffer, offset, w, grown, b)
    <2>1. fat_translate_block(r.fs, f, (offset + r.written) \div BLOCK_SIZE) = b0
      BY <1>1, <1>6, <1>2, Zenon
    <2> QED BY <1>3, <2>1, WriteBlock
  <1>12. LoopOK(w, buffer)
    BY <1>3, WriteBlock, Zenon
  <1>13. CASE w = r
    BY <1>13
  <1>14. CASE /\ ~r.failed /\ r.written < Len(buffer) /\ b0 = EOC
              /\ r.fs.first_free_block = EOC
              /\ w.fs = r.fs /\ w.written = r.written /\ w.failed
    <2>1. Q[Nobody] = <<>>
      <3>1. Nth(Q[Nobody], 1) = EOC
        BY <1>5, <1>14 DEF Linked
      <3>2. 1 \notin 1..Len(Q[Nobody])
        BY <1>5, <3>1, NthType
      <3> QED BY <1>5, <3>2
    <2>2. Len(Q[f]) <= (offset + w.written) \div BLOCK_SIZE
      BY <1>1, <1>10, <1>14, <1>2, Zenon
    <2>3. Written(s, P, f, buffer, offset, r, Q) => Written(s, P, f, buffer, offset, w, Q)
      BY <1>14 DEF Written
    <2>4. Writing(s, P, f, buffer, offset, w, Q)
      BY <1>12, <1>14, <2>1, <2>2, <2>3 DEF Writing
    <2> QED BY <2>4
  <1>15. CASE /\ ~r.failed /\ r.written < Len(buffer)
              /\ \E grown, b : Advances(r, f, buffer, offset, w, grown, b)
    <2>1. PICK grown, b : Advances(r, f, buffer, offset, w, grown, b)
      BY <1>15
    <2>2. PICK total : total = Max({grown.root[f].size, pos + size})
      OBVIOUS
    <2>3. PICK bytes :
            /\ Stored(grown, f, b, bytes, total, w.fs)
            /\ bytes = [i \in 0..BLOCK_SIZE-1 |->
                          IF i \in at .. at+size-1
                          THEN buffer[wr + i - at + 1] ELSE grown.data[b][i]]
      BY <1>1, <1>6, <1>2, <2>1, <2>2, Zenon DEF Advances
    <2>4. /\ size > 0 /\ w.failed = FALSE /\ w.written = wr + size /\ b \in Blocks
          /\ IF b0 = EOC THEN /\ r.fs.first_free_block # EOC
                              /\ Added(r.fs, f, grown) /\ b = r.fs.first_free_block
                         ELSE grown = r.fs /\ b = b0
      BY <1>1, <1>6, <1>2, <2>1, Zenon DEF Advances
    (* Where the block is.                                                 *)
    <2>5. /\ first \in Nat /\ first <= q
          /\ hole = IF first > A THEN first - A ELSE 0
          /\ \/ q = first /\ L = A
             \/ q > first /\ q - hole <= L /\ (L = A \/ L = q - hole)
      <3>1. first \in Nat /\ BLOCK_SIZE * first \in Nat /\ BLOCK_SIZE * first <= offset
        <4>1. first \in Nat /\ offset % BLOCK_SIZE \in 0..BLOCK_SIZE-1
              /\ offset = BLOCK_SIZE * first + (offset % BLOCK_SIZE)
          BY <1>7, <1>2, DivMod, Zenon
        <4>2. BLOCK_SIZE * first \in Nat
          BY <1>7, <4>1
        <4> QED BY <1>7, <4>1, <4>2
      <3>2. hole = IF first > A THEN first - A ELSE 0
        BY <1>1, <1>2, Zenon DEF Hole
      <3>3. CASE wr = 0
        <4>1. pos = offset /\ Q = P
          BY <1>1, <3>3 DEF Writing
        <4>2. q = first /\ L = A
          BY <1>1, <1>2, <4>1, Zenon
        <4> QED BY <1>7, <3>1, <3>2, <4>2
      <3>4. CASE wr # 0
        <4>1. wr \in 1..Len(buffer)-1
          BY <1>1, <1>4, <1>15, <3>4
        <4>2. at = 0
          BY <1>1, <1>2, <4>1, Zenon DEF Writing
        <4>3. pos = base
          BY <1>9, <4>2
        <4>4. q > first
          <5>1. offset < BLOCK_SIZE * q
            BY <1>1, <1>8, <4>1, <4>3
          <5>2. offset \div BLOCK_SIZE < q
            BY <1>7, <5>1, DivBound
          <5> QED BY <1>7, <1>2, <3>1, <5>2
        <4>5. BlocksFor(pos) = q
          <5>1. pos <= BLOCK_SIZE * q /\ BLOCK_SIZE * q < pos + BLOCK_SIZE
            BY <1>7, <1>8, <1>9, <4>3
          <5> QED BY <1>4, <1>7, <5>1, BlocksForIs
        <4>6. BlocksFor(offset + r.written) - Hole(P, f, offset) <= Len(Q[f])
              /\ \/ Len(Q[f]) = Len(P[f])
                 \/ Len(Q[f]) = BlocksFor(offset + r.written) - Hole(P, f, offset)
          BY <1>1, <1>4, <3>4 DEF Writing
        <4>7. q - hole <= L /\ (L = A \/ L = q - hole)
          BY <1>1, <4>5, <4>6
        <4> QED BY <1>7, <3>1, <3>2, <4>4, <4>7
      <3> QED BY <3>3, <3>4
    <2>6. /\ L < q+1 => L = q - hole
          /\ q < L => hole = 0 /\ L = A
      BY <1>5, <1>7, <2>5, Growth
    <2>7. PICK R : /\ Moved(r.fs, Q, grown, R, f) /\ grown.data = r.fs.data
                   /\ q + 1 - hole <= Len(R[f])
                   /\ Len(R[f]) = A \/ Len(R[f]) = q + 1 - hole
                   /\ q + 1 - hole \in 1..Len(R[f]) /\ R[f][q + 1 - hole] = b
                   /\ grown.root[f].size = r.fs.root[f].size
      <3>1. hole \in Nat /\ hole <= q
        BY <1>5, <1>7, <2>5
      <3>2. CASE b0 = EOC
        <4>1. PICK R : /\ Moved(r.fs, Q, grown, R, f)
                       /\ Len(R[f]) = Len(Q[f]) + 1
                       /\ R[f][Len(Q[f]) + 1] = r.fs.first_free_block
          BY <1>3, <2>4, <3>2, AddMoves
        <4>2. L + 1 = q + 1 - hole
          BY <1>5, <1>7, <1>10, <2>6, <3>1, <3>2
        <4>3. grown.data = r.fs.data /\ grown.root[f].size = r.fs.root[f].size
          BY <2>4, <3>2 DEF Added
        <4>4. L + 1 \in 1..L + 1 /\ L + 1 \in Int
          BY <1>5
        <4> QED BY <1>1, <2>4, <3>2, <4>1, <4>2, <4>3, <4>4
      <3>3. CASE b0 # EOC
        <4>1. q < L /\ hole = 0 /\ L = A
          BY <1>5, <1>7, <1>10, <2>6, <3>3
        <4>2. grown = r.fs /\ b = Q[f][q+1]
          BY <1>10, <2>4, <3>3, <4>1
        <4>3. Moved(r.fs, Q, grown, Q, f)
          <5>1. Len(Q[f]) \in Nat /\ Len(Q[Nobody]) \in Nat
            BY <1>3, OwnersFacts, ChainTypes
          <5> QED BY <1>3, <4>2, <5>1 DEF Moved
        <4>4. q + 1 - hole = q + 1 /\ q + 1 \in 1..L /\ q + 1 <= L
          BY <1>5, <1>7, <4>1
        <4> QED BY <1>1, <4>1, <4>2, <4>3, <4>4
      <3> QED BY <3>2, <3>3
    <2>8. FsOK(grown) /\ Divided(grown, R) /\ grown.root[f].last_block = LastOf(R[f])
      BY <2>7 DEF Moved
    <2>9. Moved(s, P, w.fs, R, f)
      <3>1. Moved(grown, R, w.fs, R, f)
        BY <2>3, <2>8, StoreMoves
      <3>2. P \in [Owners -> Seq(Blocks)] /\ Q \in [Owners -> Seq(Blocks)]
        BY <1>3 DEF Divided
      <3>3. Moved(s, P, grown, R, f)
        BY <1>3, <2>7, <3>2, MovedTransitive
      <3> QED BY <2>8, <3>1, <3>2, <3>3, MovedTransitive
    <2>10. w.fs.root[f].size = Max({s.root[f].size, offset + w.written})
      <3>1. PICK x, y, z : x = s.root[f].size /\ y = r.fs.root[f].size /\ z = pos + size
        OBVIOUS
      <3>2. x \in Int /\ y \in Int /\ z \in Int /\ pos \in Int /\ pos <= z
        BY <1>3, <1>4, <1>7, <3>1 DEF FsOK
      <3>3. y = x \/ y = IF x <= pos THEN pos ELSE x
        <4>1. CASE wr = 0
          BY <1>1, <3>1, <4>1 DEF Writing
        <4>2. CASE wr # 0
          <5>1. y = Max({x, pos})
            BY <1>1, <1>4, <3>1, <4>2 DEF Writing
          <5>2. Max({x, pos}) = IF x <= pos THEN pos ELSE x
            BY <3>2, MinMaxOfPair
          <5> QED BY <5>1, <5>2
        <4> QED BY <4>1, <4>2
      <3>4. Max({y, z}) = (IF y <= z THEN z ELSE y) /\ Max({x, z}) = IF x <= z THEN z ELSE x
        BY <3>2, MinMaxOfPair
      <3>5. Max({y, z}) = Max({x, z})
        BY <3>2, <3>3, <3>4
      <3>6. w.fs.root[f].size = total
        BY <2>3, <2>8 DEF Stored, FsOK
      <3>7. offset + w.written = z
        <4>1. pos = offset + wr /\ size \in Nat
          BY <1>1, <1>4, <1>7
        <4> QED BY <1>4, <2>4, <3>1, <4>1
      <3> QED BY <2>2, <2>7, <3>1, <3>5, <3>6, <3>7
    <2>11. BlocksFor(offset + w.written) = q + 1 /\ offset + w.written = pos + size
      <3>1. offset + w.written = pos + size
        <4>1. pos = offset + wr /\ size \in Nat
          BY <1>1, <1>4, <1>7
        <4> QED BY <1>4, <2>4, <4>1
      <3>2. /\ pos + size <= BLOCK_SIZE * (q+1)
            /\ BLOCK_SIZE * (q+1) < pos + size + BLOCK_SIZE
            /\ pos + size \in Nat /\ q+1 \in Nat
        BY <1>4, <1>7, <1>9, <2>4
      <3>3. BlocksFor(pos + size) = q + 1
        BY <3>2, BlocksForIs
      <3> QED BY <3>1, <3>3
    <2>12. w.written \in 1..Len(buffer)-1 => (offset + w.written) % BLOCK_SIZE = 0
      <3> SUFFICES ASSUME w.written \in 1..Len(buffer)-1
                   PROVE  (offset + w.written) % BLOCK_SIZE = 0
        OBVIOUS
      <3>1. size = BLOCK_SIZE - at
        <4>1. wr + size < Len(buffer) /\ left = Len(buffer) - wr
          BY <1>1, <1>4, <2>4
        <4> QED BY <1>4, <1>7, <4>1
      <3>2. pos + size = BLOCK_SIZE * (q+1) + 0 /\ q+1 \in Nat /\ 0 \in 0..BLOCK_SIZE-1
        BY <1>7, <1>9, <3>1
      <3>3. (BLOCK_SIZE * (q+1) + 0) % BLOCK_SIZE = 0
        BY <1>7, <3>2, DivUnique
      <3> QED BY <2>11, <3>2, <3>3
    <2>13. \A o, p \in Owners : \A i \in 1..Len(R[o]), j \in 1..Len(R[p]) :
             R[o][i] = R[p][j] => o = p /\ i = j
      BY <2>8 DEF Divided, Distinct
    <2>14. \A x \in Blocks : w.fs.data[x] = IF x = b THEN bytes ELSE r.fs.data[x]
      BY <2>3, <2>7 DEF Stored
    <2>15. ASSUME NEW g \in Files \ {f}, NEW n \in 1..Len(P[g])
           PROVE  w.fs.data[P[g][n]] = s.data[P[g][n]]
      <3>1. R[g] = P[g] /\ g \in Owners /\ g # f
        BY <2>9, OwnersFacts DEF Moved
      <3>2. P[g][n] # b
        BY <1>5, <2>7, <2>13, <3>1
      <3>3. P[g][n] \in Blocks
        BY <3>1, ChainTypes
      <3> QED BY <2>14, <3>2, <3>3 DEF Writing
    <2>16. ASSUME hole = 0 PROVE Written(s, P, f, buffer, offset, w, R)
      <3>1. R[f][q+1] = b /\ q+1 \in 1..Len(R[f]) /\ Len(R[f]) \in Nat
            /\ L <= Len(R[f]) /\ \A n \in 1..L : R[f][n] = Q[f][n]
        <4>1. q + 1 - hole = q + 1
          BY <1>7, <2>16
        <4>2. Len(R[f]) \in Nat
          BY <1>5, <2>8, ChainTypes
        <4> QED BY <1>1, <2>7, <4>1, <4>2 DEF Moved
      <3>2. A <= L
        BY <1>1, <1>3 DEF Moved
      <3> SUFFICES ASSUME NEW j \in Nat, j \div BLOCK_SIZE < Len(R[f])
                   PROVE  /\ j \in offset .. offset+w.written-1 =>
                               Byte(w.fs, R[f], j) = buffer[j - offset + 1]
                          /\ j \div BLOCK_SIZE < Len(P[f]) /\ j \notin offset .. offset+w.written-1 =>
                               Byte(w.fs, R[f], j) = Byte(s, P[f], j)
        BY DEF Written
      <3>3. PICK jq, jr : jq = j \div BLOCK_SIZE /\ jr = j % BLOCK_SIZE
        OBVIOUS
      <3>4. jq \in Nat /\ jr \in 0..BLOCK_SIZE-1 /\ jq < Len(R[f])
        BY <1>7, <3>3, DivMod
      <3>5. /\ j \in pos..pos+size-1 <=> jq = q /\ jr \in at..at+size-1
            /\ j \in pos..pos+size-1 => jr - at = j - pos
        <4>1. /\ j \in pos..pos+size-1 <=> /\ j \div BLOCK_SIZE = pos \div BLOCK_SIZE
                                           /\ j % BLOCK_SIZE \in at..at+size-1
              /\ j \in pos..pos+size-1 => (j % BLOCK_SIZE) - at = j - pos
          BY <1>4, <1>6, <1>2, InChunk
        <4> QED BY <1>2, <3>3, <4>1, Zenon
      <3>6. Byte(w.fs, R[f], j) = w.fs.data[R[f][jq+1]][jr]
        BY <3>3 DEF Byte
      <3>7. jq + 1 \in 1..Len(R[f]) /\ R[f][jq+1] \in Blocks
        <4>1. jq + 1 \in 1..Len(R[f])
          BY <3>1, <3>4
        <4> QED BY <1>5, <2>8, <4>1, ChainTypes
      <3>8. R[f][jq+1] = b <=> jq = q
        BY <1>5, <1>7, <2>13, <3>1, <3>4, <3>7
      <3>9. ASSUME j \in pos..pos+size-1 PROVE Byte(w.fs, R[f], j) = buffer[j - offset + 1]
        <4>1. R[f][jq+1] = b /\ jr \in at..at+size-1 /\ jr - at = j - pos
          BY <3>5, <3>8, <3>9
        <4>2. Byte(w.fs, R[f], j) = buffer[wr + jr - at + 1]
          BY <2>3, <2>4, <2>14, <3>4, <3>6, <4>1
        <4>3. wr + jr - at + 1 = j - offset + 1
          <5>1. at \in Int /\ jr \in Int /\ pos = offset + wr
            BY <1>1, <1>7, <3>4
          <5> QED BY <1>4, <4>1, <5>1
        <4> QED BY <4>2, <4>3
      <3>10. ASSUME j \notin pos..pos+size-1, jq < L
             PROVE  Byte(w.fs, R[f], j) = Byte(r.fs, Q[f], j)
        <4>1. R[f][jq+1] = Q[f][jq+1]
          BY <1>5, <3>1, <3>4, <3>10
        <4>2. w.fs.data[R[f][jq+1]][jr] = r.fs.data[R[f][jq+1]][jr]
          <5>1. CASE jq = q
            <6>1. jr \notin at..at+size-1 /\ R[f][jq+1] = b
              BY <3>5, <3>8, <3>10, <5>1
            <6>2. w.fs.data[b] = bytes
              BY <2>4, <2>14
            <6>3. bytes[jr] = r.fs.data[b][jr]
              BY <2>3, <2>7, <3>4, <6>1
            <6> QED BY <6>1, <6>2, <6>3
          <5>2. CASE jq # q
            BY <2>14, <3>7, <3>8, <5>2
          <5> QED BY <5>1, <5>2
        <4> QED BY <3>3, <3>6, <4>1, <4>2 DEF Byte
      <3>11. Written(s, P, f, buffer, offset, r, Q)
        BY <1>1, <2>16 DEF Writing
      <3>12. offset .. offset+w.written-1 = (offset .. offset+r.written-1) \cup (pos..pos+size-1)
        <4>1. offset + w.written = pos + size /\ offset + r.written = pos
          BY <1>1, <2>11
        <4>2. pos \in Int /\ size \in Nat /\ offset <= pos
          BY <1>1, <1>4, <1>7
        <4>3. offset .. (pos + size)-1 = (offset .. pos-1) \cup (pos..pos+size-1)
          BY <4>2
        <4>4. /\ offset .. offset+w.written-1 = offset .. (pos + size)-1
              /\ offset .. offset+r.written-1 = offset .. pos-1
          <5>1. w.written \in Nat /\ r.written \in Nat
            BY <1>1, <1>4, <1>12 DEF LoopOK
          <5>2. PICK m, n : m = w.written /\ n = r.written
            OBVIOUS
          <5>3. m \in Nat /\ n \in Nat /\ offset + m = pos + size /\ offset + n = pos
            BY <4>1, <5>1, <5>2
          <5>4. offset+m-1 = (pos + size)-1 /\ offset+n-1 = pos-1
            BY <4>2, <5>3
          <5> QED BY <5>2, <5>4, Zenon
        <4> QED BY <4>3, <4>4, Zenon
      <3>13. ASSUME j \in offset .. offset+w.written-1
             PROVE  Byte(w.fs, R[f], j) = buffer[j - offset + 1]
        <4>1. CASE j \in pos..pos+size-1
          BY <3>9, <4>1
        <4>2. CASE j \notin pos..pos+size-1
          <5>1. j \in offset .. offset+r.written-1
            BY <3>12, <3>13, <4>2
          <5>2. jq < L
            <6>1. wr \in 1..Len(buffer)-1
              BY <1>1, <1>4, <1>15, <5>1
            <6>2. at = 0
              BY <1>1, <1>2, <6>1, Zenon DEF Writing
            <6>3. j < BLOCK_SIZE * q
              <7>1. j < pos
                BY <1>1, <1>4, <5>1
              <7> QED BY <1>8, <1>9, <6>2, <7>1
            <6>4. jq < q
              BY <1>7, <3>3, <6>3, DivBound
            <6>5. first <= j \div BLOCK_SIZE
              <7>1. PICK k : k = j \div BLOCK_SIZE
                OBVIOUS
              <7>2. offset <= j
                BY <5>1
              <7>3. j < BLOCK_SIZE * (jq + 1)
                <8>1. j \div BLOCK_SIZE < jq + 1 /\ jq + 1 \in Nat
                  BY <3>3, <3>4
                <8> QED BY <1>7, <8>1, DivBound
              <7>4. offset < BLOCK_SIZE * (jq + 1)
                <8>1. BLOCK_SIZE * (jq + 1) \in Nat
                  BY <1>7, <3>4
                <8> QED BY <7>2, <7>3, <8>1
              <7>5. first < jq + 1
                <8>1. jq + 1 \in Nat
                  BY <3>4
                <8>2. offset \div BLOCK_SIZE < jq + 1
                  BY <1>7, <7>4, <8>1, DivBound
                <8> QED BY <1>2, <8>2
              <7> QED BY <2>5, <3>3, <3>4, <7>5
            <6>6. q <= L
              <7>1. q > first
                BY <1>7, <2>5, <3>3, <3>4, <6>4, <6>5
              <7> QED BY <1>7, <2>5, <2>16, <7>1
            <6> QED BY <1>5, <1>7, <3>4, <6>4, <6>6
          <5>3. Byte(r.fs, Q[f], j) = buffer[j - offset + 1]
            BY <1>1, <3>3, <3>11, <5>1, <5>2 DEF Written
          <5> QED BY <3>10, <4>2, <5>2, <5>3
        <4> QED BY <4>1, <4>2
      <3>14. ASSUME jq < A, j \notin offset .. offset+w.written-1
             PROVE  Byte(w.fs, R[f], j) = Byte(s, P[f], j)
        <4>1. jq < L /\ j \notin pos..pos+size-1 /\ j \notin offset .. offset+r.written-1
          BY <1>5, <3>2, <3>4, <3>12, <3>14
        <4>2. Byte(r.fs, Q[f], j) = Byte(s, P[f], j)
          BY <1>1, <3>3, <3>11, <3>14, <4>1 DEF Written
        <4> QED BY <3>10, <4>1, <4>2
      <3> QED BY <1>1, <3>3, <3>13, <3>14
    <2>17. /\ BlocksFor(offset + w.written) - Hole(P, f, offset) <= Len(R[f])
           /\ \/ Len(R[f]) = Len(P[f])
              \/ Len(R[f]) = BlocksFor(offset + w.written) - Hole(P, f, offset)
      <3>1. PICK E, H, l : E = BlocksFor(offset + w.written) /\ H = Hole(P, f, offset)
                           /\ l = Len(R[f])
        OBVIOUS
      <3>2. E = q + 1 /\ H = hole /\ q + 1 - hole <= l /\ (l = A \/ l = q + 1 - hole)
        BY <1>1, <2>7, <2>11, <3>1, Zenon
      <3>3. E - H <= l /\ (l = A \/ l = E - H)
        <4>1. hole \in Nat /\ q \in Nat
          BY <1>5, <1>7, <2>5
        <4> QED BY <3>2, <4>1
      <3> QED BY <1>1, <3>1, <3>3, Zenon
    <2>18. w.written # 0
      BY <1>4, <1>7, <2>4
    <2>19. Hole(P, f, offset) = 0 => Written(s, P, f, buffer, offset, w, R)
      BY <1>1, <2>16
    <2>20. Writing(s, P, f, buffer, offset, w, R)
      BY <1>12, <2>4, <2>9, <2>10, <2>12, <2>15, <2>17, <2>18, <2>19 DEF Writing
    <2> QED BY <2>20
  <1> QED BY <1>11, <1>13, <1>14, <1>15
----------------------------------------------------------------------------
(* An iteration keeps the types and modes, whatever the chains are, and    *)
(* fails, ends or writes something.                                        *)
LEMMA WriteBlockTypes ==
  ASSUME NEW buffer \in Seq(Bytes), NEW f \in Files, NEW offset \in Nat,
         NEW r, LoopOK(r, buffer), NEW w, w = write_block(r, f, buffer, offset)
  PROVE  /\ LoopOK(w, buffer)
         /\ \A g \in Files : w.fs.root[g].mode = r.fs.root[g].mode
         /\ \/ w = r /\ (r.failed \/ r.written = Len(buffer))
            \/ w.failed
            \/ w.written > r.written
  <1>1. LoopOK(w, buffer)
    BY WriteBlock
  <1>2. CASE w = r /\ (r.failed \/ r.written = Len(buffer))
    BY <1>1, <1>2
  <1>3. CASE w.fs = r.fs /\ w.failed
    BY <1>1, <1>3
  <1>4. CASE r.written < Len(buffer) /\ \E grown, b : Advances(r, f, buffer, offset, w, grown, b)
    <2>1. PICK grown, b : Advances(r, f, buffer, offset, w, grown, b)
      BY <1>4
    <2>2. PICK pos, left : pos = offset + r.written /\ left = Len(buffer) - r.written
      OBVIOUS
    <2>3. PICK size : size = Chunk(pos, left)
      OBVIOUS
    <2>4. /\ size > 0 /\ w.written = r.written + size
          /\ \/ Added(r.fs, f, grown)
             \/ grown = r.fs
          /\ \E bytes, total : Stored(grown, f, b, bytes, total, w.fs)
      BY <2>1, <2>2, <2>3 DEF Advances
    <2>5. PICK bytes, total : Stored(grown, f, b, bytes, total, w.fs)
      BY <2>4
    <2>6. r.written \in Nat /\ left \in Nat /\ pos \in Nat
      BY <1>4, <2>2 DEF LoopOK
    <2>7. size \in 0..left
      BY <2>3, <2>6, ChunkFits
    <2>8. w.written > r.written
      BY <2>4, <2>6, <2>7
    <2>9. FsOK(grown) /\ \A g \in Files : grown.root[g].mode = r.fs.root[g].mode
      BY <2>4 DEF Added, LoopOK
    <2>10. \A g \in Files : w.fs.root[g].mode = grown.root[g].mode
      <3>1. grown.root[f] \in [mode : {FREE_TYPE} \cup Modes, size : Nat,
                               first_block : Blocks \cup {EOC},
                               last_block : Blocks \cup {EOC}]
        BY <2>9 DEF FsOK
      <3>2. w.fs.root[f] = [grown.root[f] EXCEPT !.size = total]
        BY <2>5 DEF Stored
      <3>3. w.fs.root[f].mode = grown.root[f].mode
        BY <3>1, <3>2
      <3> QED BY <2>5, <3>3 DEF Stored
    <2> QED BY <1>1, <2>8, <2>9, <2>10
  <1> QED BY <1>2, <1>3, <1>4, WriteBlock

(* A write keeps the types and the modes.                                  *)
LEMMA FatWriteTypes ==
  ASSUME NEW buffer \in Seq(Bytes), NEW f \in Files, NEW offset \in Nat,
         NEW s, FsOK(s), NEW t, t = fat_write(s, f, buffer, offset).fs
  PROVE  FsOK(t) /\ \A g \in Files : t.root[g].mode = s.root[g].mode
  <1>1. PICK total : total = Len(buffer)
    OBVIOUS
  <1>2. total \in Nat
    BY <1>1
  <1>3. PICK g : WriteLoop(g, s, f, buffer, offset, total)
    BY <1>1, <1>2, WriteLoopDef
  <1>4. /\ g[0] = [fs |-> s, written |-> 0, failed |-> FALSE]
        /\ \A n \in 1..total : g[n] = write_block(g[n-1], f, buffer, offset)
        /\ fat_write(s, f, buffer, offset) = g[total]
    BY <1>3 DEF WriteLoop
  <1> DEFINE I == {n \in Nat : n <= total =>
                     LoopOK(g[n], buffer)
                       /\ \A h \in Files : g[n].fs.root[h].mode = s.root[h].mode}
  <1>5. 0 \in I
    <2>1. /\ g[0].fs = s /\ g[0].written = 0 /\ g[0].failed = FALSE
          /\ DOMAIN g[0] = {"fs", "written", "failed"}
      BY <1>4
    <2>2. 0 \in 0..Len(buffer)
      BY <1>1, <1>2
    <2> QED BY <2>1, <2>2 DEF LoopOK
  <1>6. ASSUME NEW n \in Nat, n \in I PROVE n+1 \in I
    <2> SUFFICES ASSUME n+1 <= total
                 PROVE  LoopOK(g[n+1], buffer)
                          /\ \A h \in Files : g[n+1].fs.root[h].mode = s.root[h].mode
      OBVIOUS
    <2>1. /\ LoopOK(g[n], buffer)
          /\ \A h \in Files : g[n].fs.root[h].mode = s.root[h].mode
          /\ n+1 \in 1..total /\ (n+1)-1 = n
      BY <1>2, <1>6
    <2>2. g[n+1] = write_block(g[n], f, buffer, offset)
      BY <1>4, <2>1
    <2> QED BY <2>1, <2>2, WriteBlockTypes
  <1>7. total \in I
    <2> HIDE DEF I
    <2> QED BY <1>2, <1>5, <1>6, NatSetInduction
  <1> QED BY <1>4, <1>7 DEF LoopOK

(* The whole loop, when the blocks are divided into chains.                *)
LEMMA FatWrite ==
  ASSUME NEW buffer \in Seq(Bytes), NEW f \in Files, NEW offset \in Nat,
         NEW s, FsOK(s), NEW P, Divided(s, P), s.root[f].last_block = LastOf(P[f])
  PROVE  \E r, Q : /\ fat_write(s, f, buffer, offset) = r
                   /\ Writing(s, P, f, buffer, offset, r, Q)
                   /\ r.failed \/ r.written = Len(buffer)
  <1>1. PICK total : total = Len(buffer)
    OBVIOUS
  <1>2. total \in Nat
    BY <1>1
  <1>3. PICK g : WriteLoop(g, s, f, buffer, offset, total)
    BY <1>1, <1>2, WriteLoopDef
  <1>4. /\ g[0] = [fs |-> s, written |-> 0, failed |-> FALSE]
        /\ \A n \in 1..total : g[n] = write_block(g[n-1], f, buffer, offset)
        /\ fat_write(s, f, buffer, offset) = g[total]
    BY <1>3 DEF WriteLoop
  <1>5. Writing(s, P, f, buffer, offset, g[0], P)
    <2>1. /\ g[0].fs = s /\ g[0].written = 0 /\ g[0].failed = FALSE
          /\ DOMAIN g[0] = {"fs", "written", "failed"}
      BY <1>4
    <2>2. LoopOK(g[0], buffer)
      <3>1. 0 \in 0..Len(buffer)
        BY <1>1, <1>2
      <3> QED BY <2>1, <3>1 DEF LoopOK
    <2>3. Moved(s, P, s, P, f)
      <3>1. Len(P[f]) \in Nat /\ Len(P[Nobody]) \in Nat
        BY OwnersFacts, ChainTypes
      <3> QED BY <3>1 DEF Moved
    <2>4. Written(s, P, f, buffer, offset, g[0], P)
      <3>1. offset .. offset + g[0].written - 1 = {}
        BY <2>1
      <3> QED BY <2>1, <3>1 DEF Written
    <2> QED BY <2>1, <2>2, <2>3, <2>4 DEF Writing
  <1> DEFINE I == {n \in Nat : n <= total =>
                     /\ \E Q : Writing(s, P, f, buffer, offset, g[n], Q)
                     /\ g[n].failed \/ g[n].written >= n}
  <1>6. 0 \in I
    <2>1. g[0].written = 0
      BY <1>4
    <2> QED BY <1>5, <2>1
  <1>7. ASSUME NEW n \in Nat, n \in I PROVE n+1 \in I
    <2> SUFFICES ASSUME n+1 <= total
                 PROVE  /\ \E Q : Writing(s, P, f, buffer, offset, g[n+1], Q)
                        /\ g[n+1].failed \/ g[n+1].written >= n+1
      OBVIOUS
    <2>1. /\ g[n].failed \/ g[n].written >= n
          /\ n+1 \in 1..total /\ (n+1)-1 = n
      BY <1>2, <1>7
    <2>2. PICK Q : Writing(s, P, f, buffer, offset, g[n], Q)
      BY <1>2, <1>7
    <2>3. g[n+1] = write_block(g[n], f, buffer, offset)
      BY <1>4, <2>1
    <2>4. \E R : Writing(s, P, f, buffer, offset, g[n+1], R)
      BY <2>2, <2>3, WritingStep
    <2>5. LoopOK(g[n], buffer)
      BY <2>2 DEF Writing
    <2>6. /\ LoopOK(g[n+1], buffer)
          /\ \/ g[n+1] = g[n] /\ (g[n].failed \/ g[n].written = Len(buffer))
             \/ g[n+1].failed
             \/ g[n+1].written > g[n].written
      BY <2>3, <2>5, WriteBlockTypes
    <2>7. g[n].written \in Nat /\ g[n+1].written \in Nat
      BY <2>5, <2>6 DEF LoopOK
    <2>8. g[n+1].failed \/ g[n+1].written >= n+1
      <3>1. PICK x, y : x = g[n].written /\ y = g[n+1].written
        OBVIOUS
      <3>2. CASE g[n].failed
        <4>1. write_block(g[n], f, buffer, offset) = g[n]
          BY <3>2 DEF write_block
        <4> QED BY <2>3, <3>2, <4>1
      <3>3. CASE ~g[n].failed
        <4>1. x >= n /\ (g[n+1].failed \/ y > x \/ (y = x /\ x = Len(buffer)))
          BY <2>1, <2>6, <3>1, <3>3
        <4>2. (y > x \/ (y = x /\ x = Len(buffer))) => y >= n+1
          BY <1>1, <1>2, <2>7, <3>1, <4>1
        <4> QED BY <3>1, <4>1, <4>2
      <3> QED BY <3>2, <3>3
    <2> QED BY <2>4, <2>8
  <1>8. total \in I
    <2> HIDE DEF I
    <2> QED BY <1>2, <1>6, <1>7, NatSetInduction
  <1>9. PICK Q : Writing(s, P, f, buffer, offset, g[total], Q)
    BY <1>2, <1>8
  <1>10. g[total].failed \/ g[total].written = Len(buffer)
    <2>1. g[total].written \in 0..Len(buffer)
      BY <1>9 DEF Writing, LoopOK
    <2> QED BY <1>1, <1>2, <1>8, <2>1
  <1> QED BY <1>4, <1>9, <1>10
----------------------------------------------------------------------------
(* Creating and removing files.                                            *)

(* What fat_create and fat_unlink do, field by field.                      *)
Created(s, f, mode, t) ==
  /\ FsOK(t)
  /\ t.block_lists = s.block_lists /\ t.data = s.data
  /\ t.first_free_block = s.first_free_block
  /\ t.last_free_block = s.last_free_block
  /\ t.free_block_count = s.free_block_count
  /\ t.used_block_count = s.used_block_count
  /\ \A g \in Files \ {f} : t.root[g] = s.root[g]
  /\ t.root[f] = [mode |-> mode, size |-> 0, first_block |-> EOC, last_block |-> EOC]

Unlinked(s, f, t) ==
  /\ FsOK(t) /\ t.data = s.data
  /\ t.free_block_count = s.free_block_count + BlocksOf(s.root[f].size)
  /\ t.used_block_count = s.used_block_count - BlocksOf(s.root[f].size)
  /\ \A g \in Files \ {f} : t.root[g] = s.root[g]
  /\ t.root[f] = FreeEntry
  /\ IF s.last_free_block # EOC
     THEN /\ t.block_lists = [s.block_lists EXCEPT ![s.last_free_block]
                                = s.root[f].first_block]
          /\ t.first_free_block = s.first_free_block
          /\ t.last_free_block = s.last_free_block
     ELSE /\ t.block_lists = s.block_lists
          /\ t.first_free_block = s.root[f].first_block
          /\ t.last_free_block = s.root[f].last_block

(* fat_create does what Created says.                                      *)
LEMMA CreateTypes ==
  ASSUME NEW s, FsOK(s), NEW f \in Files, NEW mode \in Modes
  PROVE  Created(s, f, mode, fat_create(s, f, mode))
  <1>1. PICK t : t = fat_create(s, f, mode)
    OBVIOUS
  <1>2. PICK e : e = [mode |-> mode, size |-> 0, first_block |-> EOC, last_block |-> EOC]
    OBVIOUS
  <1>3. e = [FreeEntry EXCEPT !.mode = mode] /\ e \in FileEntry
    BY <1>2 DEF FreeEntry, FileEntry
  <1>4. PICK root : root = [s.root EXCEPT ![f] = e]
    OBVIOUS
  <1>5. root \in [Files -> FileEntry]
    BY <1>3, <1>4 DEF FsOK, FileEntry
  <1>6. t = [s EXCEPT !.root = root]
    BY <1>3, <1>4, <1>1 DEF FsOK, fat_create
  <1>7. FsOK(t)
    BY <1>5, <1>6 DEF FsOK, FileEntry
  <1>8. /\ t.block_lists = s.block_lists /\ t.data = s.data
        /\ t.first_free_block = s.first_free_block
        /\ t.last_free_block = s.last_free_block
        /\ t.free_block_count = s.free_block_count
        /\ t.used_block_count = s.used_block_count
        /\ t.root = root
    BY <1>6 DEF FsOK
  <1>9. (\A g \in Files \ {f} : root[g] = s.root[g]) /\ root[f] = e
    BY <1>4 DEF FsOK
  <1>10. Created(s, f, mode, t)
    BY <1>2, <1>7, <1>8, <1>9 DEF Created
  <1> QED BY <1>1, <1>10

(* fat_unlink does what Unlinked says.                                     *)
LEMMA UnlinkTypes ==
  ASSUME NEW s, FsOK(s), NEW f \in Files
  PROVE  Unlinked(s, f, fat_unlink(s, f))
  <1>1. PICK t : t = fat_unlink(s, f)
    OBVIOUS
  <1>2. PICK entry : entry = s.root[f]
    OBVIOUS
  <1>3. entry \in FileEntry
    BY <1>2 DEF FsOK, FileEntry
  <1>4. PICK joined : joined = IF s.last_free_block # EOC
                THEN [s EXCEPT !.block_lists[s.last_free_block] = entry.first_block]
                ELSE [s EXCEPT !.first_free_block = entry.first_block,
                               !.last_free_block  = entry.last_block]
    OBVIOUS
  <1>5. /\ FsOK(joined) /\ joined.root = s.root /\ joined.data = s.data
        /\ joined.free_block_count = s.free_block_count
        /\ joined.used_block_count = s.used_block_count
        /\ IF s.last_free_block # EOC
           THEN /\ joined.block_lists = [s.block_lists EXCEPT ![s.last_free_block]
                                           = entry.first_block]
                /\ joined.first_free_block = s.first_free_block
                /\ joined.last_free_block = s.last_free_block
           ELSE /\ joined.block_lists = s.block_lists
                /\ joined.first_free_block = entry.first_block
                /\ joined.last_free_block = entry.last_block
    BY <1>3, <1>4 DEF FsOK, FileEntry, Links
  <1>6. PICK n : n = BlocksOf(entry.size)
    OBVIOUS
  <1>7. n \in Int
    <2>1. entry.size \in Nat /\ BLOCK_SIZE \in Nat \ {0}
      BY <1>3, Sizes DEF FileEntry
    <2>2. entry.size \div BLOCK_SIZE \in Nat
      BY <2>1, DivMod
    <2> QED BY <1>6, <2>2 DEF BlocksOf
  <1>8. FreeEntry \in FileEntry
    BY DEF FreeEntry, FileEntry
  <1>9. PICK root, free, used : /\ root = [s.root EXCEPT ![f] = FreeEntry]
                                /\ free = s.free_block_count + n
                                /\ used = s.used_block_count - n
    OBVIOUS
  <1>10. root \in [Files -> FileEntry] /\ free \in Int /\ used \in Int
    BY <1>7, <1>8, <1>9 DEF FsOK, FileEntry
  <1>11. t = [joined EXCEPT !.free_block_count = @ + n, !.used_block_count = @ - n,
                            !.root[f] = FreeEntry]
    BY <1>2, <1>4, <1>6, <1>1 DEF fat_unlink
  <1>12. t = [joined EXCEPT !.free_block_count = free, !.used_block_count = used,
                            !.root = root]
    BY <1>5, <1>9, <1>11 DEF FsOK
  <1>13. FsOK(t)
    BY <1>5, <1>10, <1>12 DEF FsOK, FileEntry
  <1>14. /\ t.data = joined.data /\ t.block_lists = joined.block_lists
         /\ t.first_free_block = joined.first_free_block
         /\ t.last_free_block = joined.last_free_block
         /\ t.free_block_count = free /\ t.used_block_count = used
         /\ t.root = root
    BY <1>5, <1>12 DEF FsOK
  <1>15. (\A g \in Files \ {f} : root[g] = s.root[g]) /\ root[f] = FreeEntry
    BY <1>9 DEF FsOK
  <1>16. Unlinked(s, f, t)
    BY <1>2, <1>5, <1>6, <1>9, <1>13, <1>14, <1>15 DEF Unlinked
  <1> QED BY <1>1, <1>16

(* initZeOSFAT has the types.                                              *)
LEMMA InitTypes == FsOK(initZeOSFAT)
  <1>1. FreeEntry \in FileEntry
    BY DEF FreeEntry, FileEntry
  <1>2. [f \in Files |-> FreeEntry] \in [Files -> FileEntry]
    BY <1>1
  <1>3. [b \in Blocks |-> IF b = MAX_BLOCKS-1 THEN EOC ELSE b + 1] \in Links
    BY Sizes DEF Links, Blocks
  <1>4. 0 \in Blocks /\ MAX_BLOCKS-1 \in Blocks
    BY Sizes DEF Blocks
  <1> QED BY <1>2, <1>3, <1>4, Sizes DEF initZeOSFAT, FsOK, FileEntry
----------------------------------------------------------------------------
(* What holds in every reachable state, whatever the chains are.           *)
Kept == FsOK(fs) /\ opened \subseteq Files /\ Used(fs) \subseteq opened

(* The file that is created.                                               *)
LEMMA FirstFree ==
  ASSUME NEW S, S \subseteq Files, S # {}
  PROVE  Min(S) \in S
  <1>1. S \subseteq Nat
    BY Sizes
  <1>2. PICK m \in S : \A k \in S : ~(k < m)
    BY <1>1, NatWellOrdered
  <1>3. \A k \in S : m <= k
    BY <1>1, <1>2
  <1> QED BY <1>3 DEF Min

(* Every operation keeps them.                                             *)
LEMMA KeptStep ==
  ASSUME Kept, [Next]_<<fs, opened>>
  PROVE  Kept'
  <1>1. ASSUME NEW mode \in Modes, Create(mode) PROVE Kept'
    <2>1. PICK file : file = Min(Files \ Used(fs))
      OBVIOUS
    <2>2. file \in Files /\ fs' = fat_create(fs, file, mode) /\ opened' = opened \cup {file}
      <3>1. Files \ Used(fs) # {}
        BY <1>1 DEF Create, Used
      <3> QED BY <1>1, <2>1, <3>1, FirstFree DEF Create
    <2>3. FsOK(fs')
      BY <2>2, CreateTypes DEF Kept, Created
    <2>4. Used(fs') \subseteq Used(fs) \cup {file}
      <3>1. PICK t : t = fs'
        OBVIOUS
      <3>2. FsOK(fs) /\ t = fat_create(fs, file, mode) /\ file \in Files
        BY <2>2, <3>1 DEF Kept
      <3>3. \A g \in Files \ {file} : t.root[g] = fs.root[g]
        BY <3>2, CreateTypes DEF Created
      <3> QED BY <3>1, <3>3 DEF Used
    <2> QED BY <2>2, <2>3, <2>4 DEF Kept
  <1>2. ASSUME NEW file \in Files, NEW offset \in 0 .. MAX_BLOCKS*BLOCK_SIZE,
               NEW buffer \in Buffers, Write(file, offset, buffer)
        PROVE  Kept'
    <2>1. buffer \in Seq(Bytes) /\ offset \in Nat
      BY FatAssumption
    <2>2. fs' = fat_write(fs, file, buffer, offset).fs /\ opened' = opened
      BY <1>2 DEF Write
    <2>3. FsOK(fs') /\ \A g \in Files : fs'.root[g].mode = fs.root[g].mode
      BY <2>1, <2>2, FatWriteTypes DEF Kept
    <2> QED BY <2>2, <2>3 DEF Kept, Used
  <1>3. ASSUME NEW file \in Files, Unlink(file) PROVE Kept'
    <2>1. fs' = fat_unlink(fs, file) /\ opened' = opened
      BY <1>3 DEF Unlink
    <2>2. FsOK(fs')
      BY <2>1, UnlinkTypes DEF Kept, Unlinked
    <2>3. Used(fs') \subseteq Used(fs)
      <3>1. PICK t : t = fs'
        OBVIOUS
      <3>2. (\A g \in Files \ {file} : t.root[g] = fs.root[g]) /\ t.root[file] = FreeEntry
        <4>1. FsOK(fs) /\ t = fat_unlink(fs, file)
          BY <2>1, <3>1 DEF Kept
        <4> QED BY <4>1, UnlinkTypes DEF Unlinked
      <3> QED BY <3>1, <3>2 DEF Used, FreeEntry
    <2> QED BY <2>1, <2>2, <2>3 DEF Kept
  <1>4. CASE UNCHANGED <<fs, opened>>
    BY <1>4 DEF Kept, Used
  <1> QED BY <1>1, <1>2, <1>3, <1>4 DEF Next

(* They hold in every reachable state.                                     *)
LEMMA KeptAlways == Spec => []Kept
  <1>1. Init => Kept
    <2>1. Used(initZeOSFAT) = {}
      BY DEF Used, initZeOSFAT, FreeEntry
    <2> QED BY <2>1, InitTypes DEF Init, Kept
  <1>2. Kept /\ [Next]_<<fs, opened>> => Kept'
    BY KeptStep
  <1> QED BY <1>1, <1>2, PTL DEF Spec

(* The bound on sizes in TypeOK.                                           *)
MaxSize == 2*MAX_BLOCKS*BLOCK_SIZE + Longest

(* The longest buffer and the bound on sizes are numbers.                  *)
LEMMA LongestIs ==
  /\ Longest \in Nat /\ \A buffer \in Buffers : Len(buffer) <= Longest
  /\ MAX_BLOCKS*BLOCK_SIZE \in Nat /\ MaxSize \in Nat
  /\ MAX_BLOCKS*BLOCK_SIZE <= 2*MAX_BLOCKS*BLOCK_SIZE
  <1>1. PICK long \in Buffers : \A buffer \in Buffers : Len(buffer) <= Len(long)
    BY FatAssumption
  <1> DEFINE lengths == {Len(buffer) : buffer \in Buffers}
  <1>2. Len(long) \in lengths /\ \A n \in lengths : n \in Nat /\ n <= Len(long)
    BY <1>1, FatAssumption
  <1>3. Max(lengths) \in lengths /\ \A n \in lengths : n <= Max(lengths)
    <2>1. \E n \in lengths : \A m \in lengths : n >= m
      BY <1>2
    <2>2. \A n, m \in lengths : n >= m => m <= n
      BY <1>2
    <2> HIDE DEF lengths
    <2> QED BY <2>1, <2>2 DEF Max
  <1>4. Longest \in Nat /\ \A buffer \in Buffers : Len(buffer) <= Longest
    BY <1>2, <1>3 DEF Longest
  <1>5. PICK n : n = MAX_BLOCKS*BLOCK_SIZE
    OBVIOUS
  <1>6. n \in Nat /\ 2*MAX_BLOCKS*BLOCK_SIZE = 2*n
    BY <1>5, Sizes
  <1> QED BY <1>4, <1>5, <1>6 DEF MaxSize

(* Whatever was created, written and removed before, a read returns the    *)
(* bytes of the file from offset on, up to its end.                        *)
THEOREM ReadsContents == Spec => []ReadsBack
  <1>1. Kept => ReadsBack
    <2> SUFFICES ASSUME Kept, Sound(fs), NEW f \in Used(fs),
                        NEW offset \in 0 .. Len(Content(fs, f))+1, NEW count \in 0 .. Longest
                 PROVE  fat_read(fs, f, offset, count) =
                          SubSeq(Content(fs, f), offset+1,
                                 Min({offset+count, Len(Content(fs, f))}))
      BY DEF ReadsBack
    <2>1. f \in Files /\ FsOK(fs)
      BY DEF Kept, Used
    <2>2. Len(Content(fs, f)) \in Nat
      BY <2>1, ContentIs DEF FsOK
    <2>3. Longest \in Nat
      BY LongestIs
    <2>4. offset \in Nat /\ offset <= Len(Content(fs, f)) + 1 /\ count \in Nat
      BY <2>2, <2>3
    <2> QED BY <2>1, <2>4, ReadsContent
  <1> QED BY <1>1, KeptAlways, PTL
----------------------------------------------------------------------------
(* The places of the blocks of these files.                                *)
FilePlaces(P, F) == UNION {{f} \X (1..Len(P[f])) : f \in F}

(* A block that is in no file is free.                                     *)
LEMMA FreeCount ==
  ASSUME NEW P \in [Owners -> Seq(Blocks)], Distinct(P), Complete(P),
         NEW F \in SUBSET Files, \A f \in Files \ F : Len(P[f]) = 0
  PROVE  Len(P[Nobody]) = MAX_BLOCKS - Cardinality(FilePlaces(P, F))
  <1>1. PICK c, T : c = P[Nobody] /\ T = FilePlaces(P, F)
    OBVIOUS
  <1>2. PICK n, S : n = Len(c) /\ S = 1..n
    OBVIOUS
  <1>3. PICK R, U : R = {c[i] : i \in S} /\ U = Blocks \ R
    OBVIOUS
  <1>4. /\ \A o \in Owners : P[o] \in Seq(Blocks)
        /\ \A o, p \in Owners : \A i \in 1..Len(P[o]), j \in 1..Len(P[p]) :
             P[o][i] = P[p][j] => o = p /\ i = j
    BY DEF Distinct
  <1>5. c \in Seq(Blocks) /\ n \in Nat /\ MAX_BLOCKS \in Nat
    BY <1>1, <1>2, <1>4, OwnersFacts, Sizes
  <1>6. R \subseteq Blocks
    BY <1>2, <1>3, <1>5
  <1>7. IsFiniteSet(R) /\ IsFiniteSet(U)
        /\ Cardinality(U) = MAX_BLOCKS - Cardinality(R)
    <2>1. IsFiniteSet(R)
      BY <1>6, BlocksFinite, FS_Subset
    <2>2. IsFiniteSet(U) /\ Cardinality(U) = Cardinality(Blocks) - Cardinality(Blocks \cap R)
      BY <1>3, BlocksFinite, FS_Difference
    <2>3. Blocks \cap R = R
      BY <1>6
    <2> QED BY <2>1, <2>2, <2>3, BlocksFinite
  <1>8. Cardinality(R) = n
    <2>1. PICK h : h = [i \in S |-> c[i]]
      OBVIOUS
    <2>2. \A i, j \in S : h[i] = h[j] => i = j
      BY <1>1, <1>2, <1>4, <2>1, OwnersFacts
    <2>3. h \in [S -> R] /\ \A x \in R : \E i \in S : h[i] = x
      BY <1>3, <2>1
    <2>4. h \in Injection(S, R) /\ h \in Surjection(S, R)
      BY <2>2, <2>3 DEF Injection, IsInjective, Surjection
    <2>5. Cardinality(S) = Cardinality(R)
      BY <1>7, <2>4, FS_Injection
    <2>6. Cardinality(S) = n
      <3>1. 1 \in Int /\ n \in Int
        BY <1>5
      <3>2. Cardinality(1..n) = IF 1 > n THEN 0 ELSE n-1+1
        BY <3>1, FS_Interval
      <3> QED BY <1>2, <1>5, <3>2
    <2> QED BY <2>5, <2>6
  <1>9. \A p : p \in T <=> \E f \in F : \E i \in 1..Len(P[f]) : p = <<f, i>>
    <2>1. \A f \in F : \A p : p \in {f} \X (1..Len(P[f])) <=>
                                \E i \in 1..Len(P[f]) : p = <<f, i>>
      OBVIOUS
    <2> QED BY <1>1, <2>1 DEF FilePlaces
  <1>10. Cardinality(T) = Cardinality(U)
    <2>1. PICK h : h = [p \in T |-> P[p[1]][p[2]]]
      OBVIOUS
    <2>2. \A f \in F : \A i \in 1..Len(P[f]) : <<f, i>> \in T /\ h[<<f, i>>] = P[f][i]
      BY <1>9, <2>1
    <2>3. ASSUME NEW p \in T PROVE h[p] \in U
      <3>1. PICK f, i : f \in F /\ i \in 1..Len(P[f]) /\ p = <<f, i>>
        BY <1>9
      <3>2. f \in Owners /\ f # Nobody /\ h[p] = P[f][i]
        BY <2>2, <3>1, OwnersFacts
      <3>3. P[f][i] \in Blocks
        BY <1>4, <3>1, <3>2
      <3>4. \A j \in S : c[j] # P[f][i]
        BY <1>1, <1>2, <1>4, <3>1, <3>2, OwnersFacts
      <3> QED BY <1>3, <3>2, <3>3, <3>4
    <2>4. ASSUME NEW p \in T, NEW q \in T, h[p] = h[q] PROVE p = q
      <3>1. PICK f, i : f \in F /\ i \in 1..Len(P[f]) /\ p = <<f, i>>
        BY <1>9
      <3>2. PICK g, j : g \in F /\ j \in 1..Len(P[g]) /\ q = <<g, j>>
        BY <1>9
      <3>3. P[f][i] = P[g][j] /\ f \in Owners /\ g \in Owners
        BY <2>2, <2>4, <3>1, <3>2, OwnersFacts
      <3>4. f = g /\ i = j
        BY <1>4, <3>1, <3>2, <3>3
      <3> QED BY <3>1, <3>2, <3>4
    <2>5. ASSUME NEW b \in U PROVE \E p \in T : h[p] = b
      <3>1. PICK o, i : o \in Owners /\ i \in 1..Len(P[o]) /\ P[o][i] = b
        BY <1>3 DEF Complete
      <3>2. o # Nobody
        BY <1>1, <1>2, <1>3, <3>1
      <3>3. o \in F
        <4>1. Len(P[o]) # 0
          BY <1>4, <3>1
        <4> QED BY <3>1, <3>2, <4>1, OwnersFacts
      <3> QED BY <2>2, <3>1, <3>3
    <2>6. h \in [T -> U]
      BY <2>1, <2>3
    <2>7. h \in Injection(T, U) /\ h \in Surjection(T, U)
      BY <2>4, <2>5, <2>6 DEF Injection, IsInjective, Surjection
    <2> QED BY <1>7, <2>7, FS_Injection
  <1>11. Len(P[Nobody]) = n
    BY <1>1, <1>2
  <1>12. PICK k : k = Cardinality(FilePlaces(P, F))
    OBVIOUS
  <1>13. k = MAX_BLOCKS - n
    BY <1>1, <1>7, <1>8, <1>10, <1>12
  <1>14. n = MAX_BLOCKS - k
    BY <1>5, <1>13
  <1> QED BY <1>11, <1>12, <1>14

(* Unlink counts the blocks that a size needs.                             *)
LEMMA BlocksOfIs ==
  ASSUME NEW size \in Nat
  PROVE  BlocksOf(size) = BlocksFor(size)
  <1>1. PICK q, r : q = size \div BLOCK_SIZE /\ r = size % BLOCK_SIZE
    OBVIOUS
  <1>2. BLOCK_SIZE \in Nat \ {0}
    BY Sizes
  <1>3. q \in Nat /\ r \in 0..BLOCK_SIZE-1 /\ size = BLOCK_SIZE * q + r
    BY <1>1, <1>2, DivMod
  <1>4. PICK n : n = q + (IF r # 0 THEN 1 ELSE 0)
    OBVIOUS
  <1>5. BLOCK_SIZE * q \in Nat /\ BLOCK_SIZE * (q+1) = BLOCK_SIZE * q + BLOCK_SIZE
    BY <1>2, <1>3
  <1>6. n \in Nat /\ size <= BLOCK_SIZE * n /\ BLOCK_SIZE * n < size + BLOCK_SIZE
    <2>1. CASE r = 0
      <3>1. n = q
        BY <1>3, <1>4, <2>1
      <3> QED BY <1>2, <1>3, <1>5, <2>1, <3>1
    <2>2. CASE r # 0
      <3>1. n = q+1
        BY <1>3, <1>4, <2>2
      <3> QED BY <1>2, <1>3, <1>5, <2>2, <3>1
    <2> QED BY <2>1, <2>2
  <1>7. BlocksFor(size) = n
    BY <1>6, BlocksForIs
  <1> QED BY <1>1, <1>4, <1>7 DEF BlocksOf
----------------------------------------------------------------------------
(* The new file system: every block is free.                               *)
LEMMA InitDivided ==
  \E P : /\ Divided(initZeOSFAT, P) /\ Fits(initZeOSFAT, P)
         /\ Len(P[Nobody]) = MAX_BLOCKS
         /\ initZeOSFAT.last_free_block = LastOf(P[Nobody])
  <1>1. PICK s, c : s = initZeOSFAT /\ c = [n \in 1..MAX_BLOCKS |-> n-1]
    OBVIOUS
  <1>2. /\ s.root = [f \in Files |-> FreeEntry]
        /\ s.block_lists = [b \in Blocks |-> IF b = MAX_BLOCKS-1 THEN EOC ELSE b + 1]
        /\ s.first_free_block = 0 /\ s.last_free_block = MAX_BLOCKS-1
    BY <1>1 DEF initZeOSFAT
  <1>3. MAX_BLOCKS \in Nat \ {0}
    BY Sizes
  <1>4. c \in Seq(Blocks) /\ Len(c) = MAX_BLOCKS /\ \A n \in 1..MAX_BLOCKS : c[n] = n-1
    BY <1>1, <1>3 DEF Blocks
  <1>5. PICK P : P = [o \in Owners |-> IF o = Nobody THEN c ELSE <<>>]
    OBVIOUS
  <1>6. <<>> \in Seq(Blocks) /\ Len(<<>>) = 0
    OBVIOUS
  <1>7. /\ P \in [Owners -> Seq(Blocks)] /\ P[Nobody] = c
        /\ \A f \in Files : P[f] = <<>>
    BY <1>4, <1>5, <1>6, OwnersFacts
  <1>8. Linked(s, 0, c)
    <2>1. Nth(c, 1) = 0
      BY <1>3, <1>4 DEF Nth
    <2>2. ASSUME NEW n \in 1..Len(c) PROVE s.block_lists[c[n]] = Nth(c, n+1)
      <3>1. c[n] = n-1 /\ n-1 \in Blocks /\ n \in 1..MAX_BLOCKS
        BY <1>3, <1>4 DEF Blocks
      <3>2. s.block_lists[n-1] = IF n-1 = MAX_BLOCKS-1 THEN EOC ELSE (n-1) + 1
        BY <1>2, <3>1
      <3>3. CASE n = MAX_BLOCKS
        <4>1. Nth(c, n+1) = EOC
          BY <1>3, <1>4, <3>3 DEF Nth
        <4> QED BY <3>1, <3>2, <3>3, <4>1
      <3>4. CASE n # MAX_BLOCKS
        <4>1. n+1 \in 1..MAX_BLOCKS /\ n-1 # MAX_BLOCKS-1 /\ (n-1) + 1 = n /\ (n+1)-1 = n
          BY <1>3, <3>1, <3>4
        <4>2. Nth(c, n+1) = n
          BY <1>4, <4>1 DEF Nth
        <4> QED BY <3>1, <3>2, <4>1, <4>2
      <3> QED BY <3>3, <3>4
    <2> QED BY <1>4, <2>1, <2>2 DEF Linked
  <1>9. \A o \in Owners : Linked(s, Start(s, o), P[o])
    <2>1. Start(s, Nobody) = 0
      BY <1>2 DEF Start
    <2>2. ASSUME NEW f \in Files PROVE Linked(s, Start(s, f), P[f])
      <3>1. Start(s, f) = EOC
        BY <1>2, OwnersFacts DEF Start, FreeEntry
      <3>2. 1..Len(<<>>) = {} /\ <<>> \in Seq(Blocks)
        BY <1>6
      <3>3. Linked(s, EOC, <<>>)
        BY <3>2 DEF Linked, Nth
      <3> QED BY <1>7, <3>1, <3>3
    <2> QED BY <1>7, <1>8, <2>1, <2>2, OwnersFacts
  <1>10. Distinct(P)
    <2> SUFFICES ASSUME NEW o \in Owners, NEW p \in Owners,
                        NEW i \in 1..Len(P[o]), NEW j \in 1..Len(P[p]), P[o][i] = P[p][j]
                 PROVE  o = p /\ i = j
      BY DEF Distinct
    <2>1. o = Nobody /\ p = Nobody
      BY <1>6, <1>7, OwnersFacts
    <2> QED BY <1>3, <1>4, <1>7, <2>1
  <1>11. Complete(P)
    <2> SUFFICES ASSUME NEW b \in Blocks
                 PROVE  \E o \in Owners : \E i \in 1..Len(P[o]) : P[o][i] = b
      BY DEF Complete
    <2>1. b+1 \in 1..MAX_BLOCKS /\ (b+1)-1 = b
      BY <1>3 DEF Blocks
    <2>2. b+1 \in 1..Len(P[Nobody]) /\ P[Nobody][b+1] = b
      BY <1>4, <1>7, <2>1
    <2> QED BY <2>2, OwnersFacts
  <1>12. Fits(s, P)
    <2> SUFFICES ASSUME NEW f \in Files
                 PROVE  /\ Len(P[f]) = BlocksFor(s.root[f].size)
                        /\ s.root[f].last_block = LastOf(P[f])
                        /\ f \notin Used(s) => s.root[f].first_block = EOC
      BY DEF Fits
    <2>1. BlocksFor(0) = 0
      BY BlocksForIs, Sizes
    <2> QED BY <1>2, <1>6, <1>7, <2>1 DEF FreeEntry, LastOf
  <1>13. LastOf(c) = MAX_BLOCKS-1
    BY <1>3, <1>4, LastBlock
  <1>14. Divided(s, P)
    BY <1>7, <1>9, <1>10, <1>11 DEF Divided
  <1>15. Len(P[Nobody]) = MAX_BLOCKS /\ s.last_free_block = LastOf(P[Nobody])
    BY <1>2, <1>4, <1>7, <1>13
  <1>16. /\ Divided(initZeOSFAT, P) /\ Fits(initZeOSFAT, P)
         /\ Len(P[Nobody]) = MAX_BLOCKS
         /\ initZeOSFAT.last_free_block = LastOf(P[Nobody])
    BY <1>1, <1>12, <1>14, <1>15, Zenon
  <1> QED BY <1>16

(* A file that is created has no block yet.                                *)
LEMMA CreateDivided ==
  ASSUME NEW s, FsOK(s), NEW P, Divided(s, P), Fits(s, P), NEW f \in Files, f \notin Used(s),
         NEW mode, mode # FREE_TYPE, NEW t, Created(s, f, mode, t)
  PROVE  /\ Divided(t, P) /\ Fits(t, P) /\ P[f] = <<>> /\ Used(t) = Used(s) \cup {f}
  <1>1. s.root[f].first_block = EOC /\ f \in Owners
    BY OwnersFacts DEF Fits
  <1>2. P[f] = <<>>
    <2>1. P[f] \in Seq(Blocks) /\ Nth(P[f], 1) = EOC
      BY <1>1, ChainTypes, OwnersFacts DEF Start
    <2>2. 1 \notin 1..Len(P[f])
      BY <2>1, NthType
    <2> QED BY <2>1, <2>2
  <1>3. /\ t.root[f].first_block = EOC /\ t.root[f].last_block = EOC
        /\ t.root[f].size = 0 /\ t.root[f].mode = mode
        /\ \A g \in Files \ {f} : t.root[g] = s.root[g]
    BY DEF Created
  <1>4. \A o \in Owners : Start(t, o) = Start(s, o)
    BY <1>1, <1>3, OwnersFacts DEF Created, Start
  <1>5. Divided(t, P)
    BY <1>4 DEF Divided, Linked, Created
  <1>6. Used(t) = Used(s) \cup {f}
    BY <1>3 DEF Used
  <1>7. BlocksFor(0) = 0
    BY BlocksForIs, Sizes
  <1>8. Fits(t, P)
    BY <1>2, <1>3, <1>6, <1>7 DEF Fits, LastOf
  <1> QED BY <1>2, <1>5, <1>6, <1>8
----------------------------------------------------------------------------
(* The blocks of a file follow the free blocks.                            *)
Joined(P, f) == [P EXCEPT ![Nobody] = P[Nobody] \o P[f], ![f] = <<>>]

(* Then every block still is in one chain at one place.                    *)
LEMMA JoinedDivides ==
  ASSUME NEW P \in [Owners -> Seq(Blocks)], Distinct(P), Complete(P), NEW f \in Files
  PROVE  /\ Joined(P, f) \in [Owners -> Seq(Blocks)]
         /\ Distinct(Joined(P, f)) /\ Complete(Joined(P, f))
  <1>1. PICK c, d : c = P[f] /\ d = P[Nobody]
    OBVIOUS
  <1>2. /\ c \in Seq(Blocks) /\ Len(c) \in Nat /\ d \in Seq(Blocks) /\ Len(d) \in Nat
        /\ f \in Owners /\ Nobody \in Owners /\ f # Nobody
    BY <1>1, OwnersFacts
  <1>3. PICK x : x = d \o c
    OBVIOUS
  <1>4. /\ x \in Seq(Blocks) /\ Len(x) = Len(d) + Len(c)
        /\ \A i \in 1..Len(d) + Len(c) : x[i] = IF i <= Len(d) THEN d[i] ELSE c[i - Len(d)]
    BY <1>2, <1>3, ConcatProperties
  <1>5. PICK Q : Q = [P EXCEPT ![Nobody] = x, ![f] = <<>>]
    OBVIOUS
  <1>6. <<>> \in Seq(Blocks) /\ Len(<<>>) = 0
    OBVIOUS
  <1>7. /\ Q \in [Owners -> Seq(Blocks)] /\ Q[Nobody] = x /\ Q[f] = <<>>
        /\ \A g \in Files \ {f} : Q[g] = P[g]
    BY <1>2, <1>4, <1>5, <1>6, OwnersFacts
  <1>8. /\ \A o \in Owners : P[o] \in Seq(Blocks)
        /\ \A o, p \in Owners : \A i \in 1..Len(P[o]), j \in 1..Len(P[p]) :
             P[o][i] = P[p][j] => o = p /\ i = j
    BY DEF Distinct
  (* Every place of Q is a place of P.                                     *)
  <1> DEFINE owner(o, i) == IF o = Nobody /\ i > Len(d) THEN f ELSE o
             index(o, i) == IF o = Nobody /\ i > Len(d) THEN i - Len(d) ELSE i
  <1>9. ASSUME NEW o \in Owners, NEW i \in 1..Len(Q[o])
        PROVE  /\ owner(o, i) \in Owners /\ index(o, i) \in 1..Len(P[owner(o, i)])
               /\ Q[o][i] = P[owner(o, i)][index(o, i)]
               /\ o # f
    <2>1. CASE o = Nobody
      <3>1. i \in 1..Len(d) + Len(c)
        BY <1>4, <1>7, <2>1
      <3>2. CASE i > Len(d)
        <4>1. i - Len(d) \in 1..Len(c) /\ Q[o][i] = c[i - Len(d)]
          BY <1>2, <1>4, <1>7, <2>1, <3>1, <3>2
        <4> QED BY <1>1, <1>2, <2>1, <3>2, <4>1
      <3>3. CASE ~(i > Len(d))
        <4>1. i \in 1..Len(d) /\ Q[o][i] = d[i]
          BY <1>2, <1>4, <1>7, <2>1, <3>1, <3>3
        <4> QED BY <1>1, <1>2, <2>1, <3>3, <4>1
      <3> QED BY <3>2, <3>3
    <2>2. CASE o = f
      BY <1>6, <1>7, <2>2
    <2>3. CASE o \in Files \ {f}
      BY <1>7, <2>3, OwnersFacts
    <2> QED BY <2>1, <2>2, <2>3, OwnersFacts
  <1>10. Distinct(Q)
    <2> SUFFICES ASSUME NEW o \in Owners, NEW p \in Owners,
                        NEW i \in 1..Len(Q[o]), NEW j \in 1..Len(Q[p]), Q[o][i] = Q[p][j]
                 PROVE  o = p /\ i = j
      BY DEF Distinct
    <2>1. owner(o, i) = owner(p, j) /\ index(o, i) = index(p, j)
      <3>1. /\ owner(o, i) \in Owners /\ index(o, i) \in 1..Len(P[owner(o, i)])
            /\ Q[o][i] = P[owner(o, i)][index(o, i)]
        BY <1>9, Zenon
      <3>2. /\ owner(p, j) \in Owners /\ index(p, j) \in 1..Len(P[owner(p, j)])
            /\ Q[p][j] = P[owner(p, j)][index(p, j)]
        BY <1>9, Zenon
      <3>3. PICK v, k, w, l : /\ v = owner(o, i) /\ k = index(o, i)
                              /\ w = owner(p, j) /\ l = index(p, j)
        OBVIOUS
      <3> HIDE DEF owner, index
      <3>4. P[v][k] = P[w][l] /\ v \in Owners /\ w \in Owners
            /\ k \in 1..Len(P[v]) /\ l \in 1..Len(P[w])
        BY <3>1, <3>2, <3>3, Zenon
      <3>5. v = w /\ k = l
        BY <1>8, <3>4
      <3> QED BY <3>3, <3>5
    <2>2. i \in Nat \ {0} /\ j \in Nat \ {0} /\ o # f /\ p # f
      <3>1. o # f /\ p # f
        BY <1>9, Zenon
      <3> QED BY <1>7, <3>1
    <2> QED BY <1>2, <2>1, <2>2
  <1>11. Complete(Q)
    <2> SUFFICES ASSUME NEW z \in Blocks
                 PROVE  \E o \in Owners : \E i \in 1..Len(Q[o]) : Q[o][i] = z
      BY DEF Complete
    <2>1. PICK o, i : o \in Owners /\ i \in 1..Len(P[o]) /\ P[o][i] = z
      BY DEF Complete
    <2>2. CASE o = Nobody
      <3>1. i \in 1..Len(d) + Len(c) /\ i <= Len(d) /\ P[o][i] = d[i]
        <4>1. i \in 1..Len(d) /\ P[o][i] = d[i]
          BY <1>1, <2>1, <2>2
        <4> QED BY <1>2, <4>1
      <3>2. i \in 1..Len(Q[Nobody]) /\ Q[Nobody][i] = z
        BY <1>4, <1>7, <2>1, <3>1
      <3> QED BY <1>2, <3>2
    <2>3. CASE o = f
      <3>1. PICK k : k = i + Len(d)
        OBVIOUS
      <3>2. k \in 1..Len(d) + Len(c) /\ k > Len(d) /\ k - Len(d) = i
        <4>1. i \in 1..Len(c)
          BY <1>1, <2>1, <2>3
        <4> QED BY <1>2, <3>1, <4>1
      <3>3. k \in 1..Len(Q[Nobody]) /\ Q[Nobody][k] = z
        <4>1. x[k] = c[i]
          BY <1>2, <1>4, <3>2
        <4>2. c[i] = z
          BY <1>1, <2>1, <2>3
        <4> QED BY <1>4, <1>7, <3>2, <4>1, <4>2
      <3> QED BY <1>2, <3>3
    <2>4. CASE o \in Files \ {f}
      BY <1>7, <2>1, <2>4
    <2> QED BY <2>1, <2>2, <2>3, <2>4, OwnersFacts
  <1> QED BY <1>1, <1>3, <1>5, <1>7, <1>10, <1>11 DEF Joined

(* Removing a file when last_free_block is the last free block.            *)
LEMMA UnlinkDivided ==
  ASSUME NEW s, FsOK(s), NEW P, Divided(s, P), Fits(s, P), NEW f \in Files,
         s.last_free_block = LastOf(P[Nobody]), NEW t, Unlinked(s, f, t)
  PROVE  Divided(t, Joined(P, f)) /\ Fits(t, Joined(P, f))
  <1>1. PICK c, d : c = P[f] /\ d = P[Nobody]
    OBVIOUS
  <1>2. /\ c \in Seq(Blocks) /\ Len(c) \in Nat /\ d \in Seq(Blocks) /\ Len(d) \in Nat
        /\ Linked(s, s.root[f].first_block, c) /\ Linked(s, s.first_free_block, d)
        /\ f \in Owners /\ Nobody \in Owners /\ f # Nobody
    BY <1>1, OwnersFacts, ChainTypes DEF Start
  <1>3. PICK x : x = d \o c
    OBVIOUS
  <1>4. /\ x \in Seq(Blocks) /\ Len(x) = Len(d) + Len(c)
        /\ \A i \in 1..Len(d) + Len(c) : x[i] = IF i <= Len(d) THEN d[i] ELSE c[i - Len(d)]
    BY <1>2, <1>3, ConcatProperties
  <1>5. PICK Q : Q = [P EXCEPT ![Nobody] = x, ![f] = <<>>]
    OBVIOUS
  <1>6. <<>> \in Seq(Blocks) /\ Len(<<>>) = 0
    OBVIOUS
  <1>7. /\ Q \in [Owners -> Seq(Blocks)] /\ Q[Nobody] = x /\ Q[f] = <<>>
        /\ \A g \in Files \ {f} : Q[g] = P[g]
    BY <1>2, <1>4, <1>5, <1>6, OwnersFacts DEF Divided
  <1>8. /\ \A o \in Owners : P[o] \in Seq(Blocks)
        /\ \A o, p \in Owners : \A i \in 1..Len(P[o]), j \in 1..Len(P[p]) :
             P[o][i] = P[p][j] => o = p /\ i = j
    BY DEF Divided, Distinct
  <1>9. Q = Joined(P, f)
    BY <1>1, <1>3, <1>5 DEF Joined
  <1>10. Distinct(Q) /\ Complete(Q)
    BY <1>9, JoinedDivides DEF Divided
  (* The links: only that of the last free block changes.                  *)
  <1>11. PICK last, start : last = LastOf(d) /\ start = s.root[f].first_block
    OBVIOUS
  <1>12. start = Nth(c, 1) /\ s.last_free_block = last
    BY <1>1, <1>2, <1>11 DEF Linked
  <1>13. IF d # <<>> THEN last \in Blocks /\ last = d[Len(d)] /\ Len(d) \in 1..Len(d)
                     ELSE last = EOC /\ Len(d) = 0
    BY <1>2, <1>11, LastBlock
  <1>14. \A z \in Blocks : t.block_lists[z] = IF d # <<>> /\ z = last THEN start
                                              ELSE s.block_lists[z]
    <2>1. s.block_lists \in Links
      BY DEF FsOK
    <2>2. CASE d # <<>>
      <3>1. t.block_lists = [s.block_lists EXCEPT ![last] = start]
        BY <1>11, <1>12, <1>13, <2>2, Sizes DEF Unlinked
      <3> QED BY <2>1, <2>2, <3>1 DEF Links
    <2>3. CASE d = <<>>
      BY <1>12, <1>13, <2>3 DEF Unlinked
    <2> QED BY <2>2, <2>3
  <1>15. \A o \in Owners \ {Nobody} : \A n \in 1..Len(P[o]) : d # <<>> => P[o][n] # last
    <2> TAKE o \in Owners \ {Nobody}
    <2> TAKE n \in 1..Len(P[o])
    <2> SUFFICES ASSUME d # <<>> PROVE P[o][n] # last
      OBVIOUS
    <2> QED BY <1>1, <1>2, <1>8, <1>13
  <1>16. Linked(t, Start(t, Nobody), x)
    <2>1. Start(t, Nobody) = Nth(x, 1)
      <3>1. CASE d # <<>>
        <4>1. t.first_free_block = s.first_free_block
          BY <1>12, <1>13, <3>1, Sizes DEF Unlinked
        <4>2. 1 \in 1..Len(d) /\ 1 \in 1..Len(x) /\ x[1] = d[1]
          BY <1>2, <1>4, <1>13, <3>1
        <4> QED BY <1>2, <4>1, <4>2 DEF Start, Linked, Nth
      <3>2. CASE d = <<>>
        <4>1. t.first_free_block = start
          BY <1>11, <1>12, <1>13, <3>2 DEF Unlinked
        <4>2. Len(d) = 0
          BY <3>2
        <4>3. Nth(x, 1) = Nth(c, 1)
          BY <1>2, <1>4, <4>2 DEF Nth
        <4> QED BY <1>12, <4>1, <4>3 DEF Start
      <3> QED BY <3>1, <3>2
    <2>2. ASSUME NEW n \in 1..Len(x) PROVE t.block_lists[x[n]] = Nth(x, n+1)
      <3>1. n \in 1..Len(d) + Len(c) /\ n \in Nat
        BY <1>4
      <3>2. CASE n < Len(d)
        <4>1. x[n] = d[n] /\ n \in 1..Len(d) /\ n+1 \in 1..Len(d) /\ x[n+1] = d[n+1]
              /\ n+1 \in 1..Len(x)
          BY <1>2, <1>4, <3>1, <3>2
        <4>2. d[n] # last /\ d[n] \in Blocks
          BY <1>1, <1>2, <1>8, <1>13, <3>2, <4>1
        <4>3. s.block_lists[d[n]] = d[n+1]
          BY <1>2, <4>1 DEF Linked, Nth
        <4> QED BY <1>14, <4>1, <4>2, <4>3 DEF Nth
      <3>3. CASE n = Len(d)
        <4>1. d # <<>> /\ x[n] = last
          BY <1>2, <1>4, <1>13, <3>1, <3>3
        <4>2. t.block_lists[x[n]] = Nth(c, 1)
          BY <1>12, <1>13, <1>14, <4>1
        <4>3. Nth(x, n+1) = Nth(c, 1)
          <5>1. n+1 \in 1..Len(x) <=> 1 \in 1..Len(c)
            BY <1>2, <1>4, <3>3
          <5>2. 1 \in 1..Len(c) => x[n+1] = c[1]
            <6>1. (n+1) - Len(d) = 1 /\ ~(n+1 <= Len(d))
              BY <1>2, <3>3
            <6> QED BY <1>2, <1>4, <5>1, <6>1
          <5> QED BY <5>1, <5>2 DEF Nth
        <4> QED BY <4>2, <4>3
      <3>4. CASE n > Len(d)
        <4>1. PICK k : k = n - Len(d)
          OBVIOUS
        <4>2. k \in 1..Len(c) /\ x[n] = c[k] /\ n = k + Len(d)
          BY <1>2, <1>4, <3>1, <3>4, <4>1
        <4>3. c[k] \in Blocks /\ (d # <<>> => c[k] # last)
          BY <1>1, <1>2, <1>15, <4>2
        <4>4. s.block_lists[c[k]] = Nth(c, k+1)
          BY <1>2, <4>2 DEF Linked
        <4>5. Nth(x, n+1) = Nth(c, k+1)
          <5>1. n+1 \in 1..Len(x) <=> k+1 \in 1..Len(c)
            BY <1>2, <1>4, <4>2
          <5>2. n+1 \in 1..Len(x) => x[n+1] = c[k+1]
            <6>1. (n+1) - Len(d) = k+1 /\ ~(n+1 <= Len(d))
              BY <1>2, <4>2
            <6> QED BY <1>2, <1>4, <6>1
          <5> QED BY <5>1, <5>2 DEF Nth
        <4> QED BY <1>14, <4>2, <4>3, <4>4, <4>5
      <3> QED BY <1>2, <3>1, <3>2, <3>3, <3>4
    <2> QED BY <1>4, <2>1, <2>2 DEF Linked
  <1>17. ASSUME NEW g \in Files \ {f} PROVE Linked(t, Start(t, g), P[g])
    <2>1. g \in Owners /\ g # Nobody /\ Start(t, g) = Start(s, g)
      BY OwnersFacts DEF Unlinked, Start
    <2>2. Linked(s, Start(s, g), P[g])
      BY <2>1 DEF Divided
    <2>3. ASSUME NEW n \in 1..Len(P[g]) PROVE t.block_lists[P[g][n]] = s.block_lists[P[g][n]]
      <3>1. P[g][n] \in Blocks /\ (d # <<>> => P[g][n] # last)
        BY <1>8, <1>15, <2>1
      <3> QED BY <1>14, <3>1
    <2> QED BY <2>1, <2>2, <2>3 DEF Linked
  <1>18. Linked(t, Start(t, f), <<>>)
    <2>1. Start(t, f) = EOC
      BY <1>2 DEF Start, Unlinked, FreeEntry
    <2> QED BY <1>6, <2>1 DEF Linked, Nth
  <1>19. Divided(t, Q)
    <2>1. \A o \in Owners : Linked(t, Start(t, o), Q[o])
      BY <1>7, <1>16, <1>17, <1>18, OwnersFacts
    <2> QED BY <1>7, <1>10, <2>1 DEF Divided
  <1>20. Fits(t, Q)
    <2>1. ASSUME NEW g \in Files \ {f}
          PROVE  /\ Len(Q[g]) = BlocksFor(t.root[g].size)
                 /\ t.root[g].last_block = LastOf(Q[g])
                 /\ g \notin Used(t) => t.root[g].first_block = EOC
      BY <1>7 DEF Fits, Unlinked, Used
    <2>2. /\ Len(Q[f]) = BlocksFor(t.root[f].size)
          /\ t.root[f].last_block = LastOf(Q[f])
          /\ t.root[f].first_block = EOC
      <3>1. BlocksFor(0) = 0
        BY BlocksForIs, Sizes
      <3> QED BY <1>6, <1>7, <3>1 DEF Unlinked, FreeEntry, LastOf
    <2> QED BY <2>1, <2>2 DEF Fits
  <1> QED BY <1>9, <1>19, <1>20
----------------------------------------------------------------------------
(* When the blocks are still divided after a removal, the chains of the    *)
(* other files are as before, wherever last_free_block was.                *)
LEMMA UnlinkOthers ==
  ASSUME NEW s, FsOK(s), NEW P, Divided(s, P), Fits(s, P), NEW f \in Files,
         NEW t, Unlinked(s, f, t), NEW Q, Divided(t, Q), Fits(t, Q)
  PROVE  Q[f] = <<>> /\ \A g \in Files \ {f} : Q[g] = P[g]
  <1>1. PICK last, start : last = s.last_free_block /\ start = s.root[f].first_block
    OBVIOUS
  <1>2. s.block_lists \in Links /\ t.block_lists \in Links /\ last \in Blocks \cup {EOC}
    BY <1>1 DEF FsOK, Unlinked
  <1>3. \A z \in Blocks : t.block_lists[z] = IF last # EOC /\ z = last THEN start
                                             ELSE s.block_lists[z]
    BY <1>1, <1>2 DEF Unlinked, Links
  <1>4. /\ \A o, p \in Owners : \A i \in 1..Len(P[o]), j \in 1..Len(P[p]) :
             P[o][i] = P[p][j] => o = p /\ i = j
        /\ \A o \in Owners : P[o] \in Seq(Blocks) /\ Q[o] \in Seq(Blocks)
    BY DEF Divided, Distinct
  <1>5. f \in Owners /\ f # Nobody /\ Nobody \in Owners /\ start = Nth(P[f], 1)
    BY <1>1, OwnersFacts, ChainTypes DEF Start
  <1>6. Q[f] = <<>>
    <2>1. Nth(Q[f], 1) = EOC
      <3>1. Start(t, f) = EOC
        BY <1>5 DEF Start, Unlinked, FreeEntry
      <3> QED BY <1>5, <3>1, ChainTypes
    <2>2. 1 \notin 1..Len(Q[f])
      BY <1>4, <1>5, <2>1, NthType
    <2> QED BY <1>4, <1>5, <2>2
  <1>7. ASSUME NEW g \in Files \ {f} PROVE Q[g] = P[g]
    <2>1. g \in Owners /\ g # Nobody /\ g # f /\ Start(t, g) = Start(s, g)
      BY OwnersFacts DEF Start, Unlinked
    <2>2. Len(Q[g]) = Len(P[g]) /\ Len(P[g]) \in Nat
      BY <1>4, <2>1 DEF Fits, Unlinked
    <2>3. ASSUME \A n \in 1..Len(P[g]) : t.block_lists[P[g][n]] = s.block_lists[P[g][n]]
          PROVE  Q[g] = P[g]
      <3>1. Linked(t, Start(t, g), P[g])
        BY <2>1, <2>3 DEF Divided, Linked
      <3>2. Len(P[g]) <= MAX_BLOCKS+1
        BY <2>1, <2>2, ChainTypes, Sizes
      <3>3. Chain(t, Start(t, g)) = P[g]
        BY <1>2, <3>1, <3>2, ChainFound
      <3>4. FileChain(t, g) = Q[g]
        BY <1>2, DividedChains
      <3> QED BY <2>1, <3>3, <3>4 DEF FileChain, Start
    <2>4. CASE last = EOC \/ \A n \in 1..Len(P[g]) : P[g][n] # last
      <3>1. \A n \in 1..Len(P[g]) : P[g][n] \in Blocks
        BY <2>1, ChainTypes
      <3> QED BY <1>3, <2>3, <2>4, <3>1
    <2>5. CASE last # EOC /\ \E n \in 1..Len(P[g]) : P[g][n] = last
      <3>1. PICK i \in 1..Len(P[g]) : P[g][i] = last
        BY <2>5
      <3>2. s.block_lists[last] = Nth(P[g], i+1) /\ t.block_lists[last] = start
            /\ last \in Blocks
        BY <1>2, <1>3, <2>1, <2>5, <3>1, ChainTypes
      <3>3. CASE start = Nth(P[g], i+1)
        <4>1. \A n \in 1..Len(P[g]) : P[g][n] \in Blocks
          BY <2>1, ChainTypes
        <4> QED BY <1>3, <2>3, <3>2, <3>3, <4>1
      <3>4. CASE start # Nth(P[g], i+1) /\ i = Len(P[g])
        (* The chain of g would go on with that of f.                      *)
        <4>1. Nth(P[g], i+1) = EOC
          BY <2>2, <3>4 DEF Nth
        <4> DEFINE I == {n \in Nat : n+1 \in 1..Len(P[g]) => Q[g][n+1] = P[g][n+1]}
        <4>2. 0 \in I
          <5>1. Nth(Q[g], 1) = Nth(P[g], 1)
            BY <2>1, ChainTypes
          <5> QED BY <2>2, <5>1 DEF Nth
        <4>3. ASSUME NEW n \in Nat, n \in I PROVE n+1 \in I
          <5> SUFFICES ASSUME (n+1)+1 \in 1..Len(P[g])
                       PROVE  Q[g][(n+1)+1] = P[g][(n+1)+1]
            OBVIOUS
          <5>1. n+1 \in 1..Len(P[g]) /\ n+1 # i
            BY <2>2, <3>4
          <5>2. Q[g][n+1] = P[g][n+1]
            BY <4>3, <5>1
          <5>3. P[g][n+1] # last /\ P[g][n+1] \in Blocks
            BY <1>4, <2>1, <3>1, <5>1, ChainTypes
          <5>4. t.block_lists[Q[g][n+1]] = Nth(Q[g], (n+1)+1)
                /\ s.block_lists[P[g][n+1]] = Nth(P[g], (n+1)+1)
            BY <2>1, <2>2, <5>1, ChainTypes
          <5> QED BY <1>3, <2>2, <5>2, <5>3, <5>4 DEF Nth
        <4>4. i-1 \in I
          <5>1. i-1 \in Nat
            BY <2>2
          <5> HIDE DEF I
          <5> QED BY <4>2, <4>3, <5>1, NatSetInduction
        <4>5. Q[g][i] = last
          <5>1. (i-1)+1 = i
            BY <2>2
          <5> QED BY <3>1, <4>4, <5>1
        <4>6. t.block_lists[Q[g][i]] = Nth(Q[g], i+1)
          BY <2>1, <2>2, ChainTypes
        <4>7. Nth(Q[g], i+1) = EOC
          BY <2>2, <3>4 DEF Nth
        <4> QED BY <3>2, <3>4, <4>1, <4>5, <4>6, <4>7
      <3>5. CASE start # Nth(P[g], i+1) /\ i # Len(P[g])
        (* The block after last would be in no chain.                      *)
        <4>1. PICK x : x = P[g][i+1]
          OBVIOUS
        <4>2. i+1 \in 1..Len(P[g]) /\ Nth(P[g], i+1) = x /\ x \in Blocks /\ x # EOC
          <5>1. i+1 \in 1..Len(P[g])
            BY <2>2, <3>5
          <5> QED BY <2>1, <4>1, <5>1, ChainTypes DEF Nth
        <4>3. PICK o, k : o \in Owners /\ k \in 1..Len(Q[o]) /\ Q[o][k] = x
          BY <4>2 DEF Divided, Complete
        <4>4. CASE k = 1
          <5>1. Start(t, o) = x
            <6>1. Start(t, o) = Nth(Q[o], 1)
              BY <4>3, ChainTypes
            <6> QED BY <4>3, <4>4, <6>1 DEF Nth
          <5>2. o # f
            BY <1>6, <4>3
          <5>3. Start(t, o) = Start(s, o)
            BY <1>1, <1>5, <2>5, <4>3, <5>2, OwnersFacts DEF Start, Unlinked
          <5>4. Nth(P[o], 1) = x
            BY <4>3, <5>1, <5>3, ChainTypes
          <5>5. 1 \in 1..Len(P[o]) /\ P[o][1] = x
            BY <4>2, <5>4 DEF Nth
          <5>6. o = g /\ 1 = i+1
            BY <1>4, <2>1, <4>1, <4>2, <4>3, <5>5
          <5> QED BY <2>2, <5>6
        <4>5. CASE k # 1
          <5>1. PICK y : y = Q[o][k-1]
            OBVIOUS
          <5>2. k-1 \in 1..Len(Q[o]) /\ (k-1)+1 = k
            BY <1>4, <4>3, <4>5
          <5>3. y \in Blocks /\ t.block_lists[y] = x
            <6>1. t.block_lists[Q[o][k-1]] = Nth(Q[o], (k-1)+1) /\ Q[o][k-1] \in Blocks
              BY <4>3, <5>2, ChainTypes
            <6> QED BY <4>3, <5>1, <5>2, <6>1 DEF Nth
          <5>4. CASE y = last
            <6>1. start = x
              BY <3>2, <5>3, <5>4
            <6> QED BY <3>5, <4>2, <6>1
          <5>5. CASE y # last
            <6>1. s.block_lists[y] = x
              BY <1>3, <5>3, <5>5
            <6>2. PICK p, m : p \in Owners /\ m \in 1..Len(P[p]) /\ P[p][m] = y
              BY <5>3 DEF Divided, Complete
            <6>3. Nth(P[p], m+1) = x
              BY <6>1, <6>2, ChainTypes
            <6>4. m+1 \in 1..Len(P[p]) /\ P[p][m+1] = x
              BY <4>2, <6>3 DEF Nth
            <6>5. p = g /\ m+1 = i+1
              BY <1>4, <2>1, <4>1, <4>2, <6>2, <6>4
            <6>6. m = i
              BY <1>4, <2>2, <6>2, <6>5
            <6> QED BY <3>1, <5>5, <6>2, <6>5, <6>6
          <5> QED BY <5>4, <5>5
        <4> QED BY <4>4, <4>5
      <3> QED BY <3>3, <3>4, <3>5
    <2> QED BY <2>4, <2>5
  <1> QED BY <1>6, <1>7

(* Then as many blocks are free as there were and the file had.            *)
LEMMA UnlinkFrees ==
  ASSUME NEW s, FsOK(s), NEW P, Divided(s, P), Fits(s, P), NEW f \in Files,
         NEW t, Unlinked(s, f, t), NEW Q, Divided(t, Q), Fits(t, Q)
  PROVE  Len(Q[Nobody]) = Len(P[Nobody]) + Len(P[f])
  <1>1. Q[f] = <<>> /\ \A g \in Files \ {f} : Q[g] = P[g]
    BY UnlinkOthers
  <1>2. PICK R, F : R = Joined(P, f) /\ F = Files \ {f}
    OBVIOUS
  <1>3. R \in [Owners -> Seq(Blocks)] /\ Distinct(R) /\ Complete(R)
    BY <1>2, JoinedDivides DEF Divided
  <1>4. /\ R[Nobody] = P[Nobody] \o P[f] /\ R[f] = <<>>
        /\ \A g \in F : R[g] = P[g]
    BY <1>2, OwnersFacts DEF Joined, Divided
  <1>5. F \in SUBSET Files /\ \A g \in Files \ F : g = f
    BY <1>2
  <1>6. Len(R[Nobody]) = MAX_BLOCKS - Cardinality(FilePlaces(R, F))
    <2>1. \A g \in Files \ F : Len(R[g]) = 0
      BY <1>4, <1>5
    <2> QED BY <1>3, <1>5, <2>1, FreeCount
  <1>7. Len(Q[Nobody]) = MAX_BLOCKS - Cardinality(FilePlaces(Q, F))
    <2>1. \A g \in Files \ F : Len(Q[g]) = 0
      BY <1>1, <1>5
    <2> QED BY <1>5, <2>1, FreeCount DEF Divided
  <1>8. FilePlaces(Q, F) = FilePlaces(R, F)
    BY <1>1, <1>2, <1>4 DEF FilePlaces
  <1>9. Len(R[Nobody]) = Len(P[Nobody]) + Len(P[f])
    <2>1. P[Nobody] \in Seq(Blocks) /\ P[f] \in Seq(Blocks)
      BY OwnersFacts DEF Divided
    <2> QED BY <1>4, <2>1, ConcatProperties
  <1> QED BY <1>6, <1>7, <1>8, <1>9
----------------------------------------------------------------------------
(* The counters and the types, as long as the blocks are divided.          *)

(* Behaviours that end with the first state where they are not: that is    *)
(* what the run explores.                                                  *)
SoundSpec == Init /\ [][Next /\ Sound(fs)]_<<fs, opened>>

(* Sizes and counters stay in their ranges.                                *)
InRange(s) ==
  /\ \A f \in Files : s.root[f].size <= MaxSize
  /\ s.free_block_count \in 0..MAX_BLOCKS
  /\ s.used_block_count \in 0..MAX_BLOCKS

(* What TypeOK adds to FsOK.                                               *)
LEMMA TypeOKIs ==
  ASSUME Kept
  PROVE  TypeOK <=> InRange(fs)
  <1>1. FsOK(fs) /\ opened \subseteq Files
    BY DEF Kept
  <1>2. ASSUME InRange(fs) PROVE fs.root \in [Files -> Entry]
    <2>1. \A f \in Files : fs.root[f] \in FileEntry /\ fs.root[f].size <= MaxSize
      BY <1>1, <1>2 DEF FsOK, FileEntry, InRange
    <2>2. \A e \in FileEntry : e.size <= MaxSize => e \in Entry
      BY LongestIs DEF FileEntry, Entry, MaxSize
    <2>3. \A f \in Files : fs.root[f] \in Entry
      BY <2>1, <2>2
    <2> QED BY <1>1, <2>3 DEF FsOK
  <1>3. ASSUME InRange(fs) PROVE TypeOK
    BY <1>1, <1>2, <1>3 DEF FsOK, TypeOK, Links, InRange
  <1>4. ASSUME TypeOK PROVE InRange(fs)
    <2>1. fs.root \in [Files -> Entry]
      BY <1>4 DEF TypeOK
    <2>2. \A e \in Entry : e.size <= MaxSize
      BY LongestIs DEF Entry, MaxSize
    <2>3. \A f \in Files : fs.root[f].size <= MaxSize
      BY <2>1, <2>2
    <2>4. fs.free_block_count \in 0..MAX_BLOCKS /\ fs.used_block_count \in 0..MAX_BLOCKS
      BY <1>4 DEF TypeOK
    <2> QED BY <2>3, <2>4 DEF InRange
  <1> QED BY <1>3, <1>4

(* The counters count the free chain of a division.                        *)
Counted(s, P) ==
  /\ s.free_block_count = Len(P[Nobody])
  /\ s.used_block_count = MAX_BLOCKS - Len(P[Nobody])

(* Counters of a division are in range and match the lists.                *)
LEMMA CountedIs ==
  ASSUME NEW s, FsOK(s), NEW P, Divided(s, P), Counted(s, P)
  PROVE  /\ s.free_block_count \in 0..MAX_BLOCKS
         /\ s.used_block_count \in 0..MAX_BLOCKS
         /\ s.free_block_count = Len(FreeChain(s))
         /\ s.used_block_count = MAX_BLOCKS - Len(FreeChain(s))
  <1>1. Len(P[Nobody]) \in Nat /\ Len(P[Nobody]) <= MAX_BLOCKS /\ MAX_BLOCKS \in Nat
    BY OwnersFacts, ChainTypes, Sizes
  <1>2. FreeChain(s) = P[Nobody]
    BY DividedChains DEF FsOK
  <1> QED BY <1>1, <1>2 DEF Counted

(* An operation on a sound file system keeps ranges and counters.          *)
LEMMA CountersStep ==
  ASSUME Kept, TypeOK, CountersMatchLists, Sound(fs), Next
  PROVE  InRange(fs') /\ CountersMatchLists'
  <1>1. PICK s, P, t : s = fs /\ P = Division(fs) /\ t = fs'
    OBVIOUS
  <1>2. FsOK(s) /\ Divided(s, P) /\ Fits(s, P) /\ InRange(s)
    BY <1>1, SoundDivided, TypeOKIs DEF Kept
  <1>3. Counted(s, P)
    <2>1. FreeChain(s) = P[Nobody]
      BY <1>2, DividedChains DEF FsOK
    <2> QED BY <1>1, <2>1 DEF CountersMatchLists, Counted
  <1>4. ASSUME FsOK(t), \A f \in Files : t.root[f].size <= MaxSize,
               NEW Q, Divided(t, Q), Counted(t, Q)
        PROVE  InRange(fs') /\ CountersMatchLists'
    BY <1>1, <1>4, CountedIs DEF InRange, CountersMatchLists
  <1>5. ASSUME NEW mode \in Modes, Create(mode) PROVE InRange(fs') /\ CountersMatchLists'
    <2>1. PICK file : file = Min(Files \ Used(fs))
      OBVIOUS
    <2>2. file \in Files /\ file \notin Used(s) /\ t = fat_create(s, file, mode)
      <3>1. Files \ Used(fs) # {}
        BY <1>5 DEF Create, Used
      <3> QED BY <1>1, <1>5, <2>1, <3>1, FirstFree DEF Create
    <2>3. Created(s, file, mode, t)
      BY <1>2, <2>2, CreateTypes
    <2>4. mode # FREE_TYPE
      BY FatAssumption DEF FREE_TYPE
    <2>5. Divided(t, P)
      BY <1>2, <2>2, <2>3, <2>4, CreateDivided
    <2>6. Counted(t, P)
      BY <1>3, <2>3 DEF Counted, Created
    <2>7. \A f \in Files : t.root[f].size <= MaxSize
      <3>1. t.root[file].size = 0
        BY <2>3 DEF Created
      <3> QED BY <1>2, <2>3, <3>1, LongestIs DEF Created, InRange
    <2> QED BY <1>4, <2>3, <2>5, <2>6, <2>7 DEF Created
  <1>6. ASSUME NEW file \in Files, NEW offset \in 0 .. MAX_BLOCKS*BLOCK_SIZE,
               NEW buffer \in Buffers, Write(file, offset, buffer)
        PROVE  InRange(fs') /\ CountersMatchLists'
    <2>1. buffer \in Seq(Bytes) /\ offset \in Nat /\ offset <= MAX_BLOCKS*BLOCK_SIZE
      BY FatAssumption, LongestIs
    <2>2. s.root[file].last_block = LastOf(P[file])
      BY <1>2 DEF Fits
    <2>3. PICK r, Q : /\ fat_write(s, file, buffer, offset) = r
                      /\ Writing(s, P, file, buffer, offset, r, Q)
      BY <1>2, <2>1, <2>2, FatWrite
    <2>4. t = r.fs
      BY <1>1, <1>6, <2>3 DEF Write
    <2>5. Moved(s, P, t, Q, file) /\ LoopOK(r, buffer)
      BY <2>3, <2>4 DEF Writing
    <2>6. FsOK(t) /\ Divided(t, Q)
      BY <2>5 DEF Moved
    <2>7. Counted(t, Q)
      <3>1. PICK m, n, free, used : /\ m = Len(P[Nobody]) /\ n = Len(Q[Nobody])
                                    /\ free = t.free_block_count
                                    /\ used = t.used_block_count
        OBVIOUS
      <3>2. m \in Nat /\ n \in Nat
        BY <1>2, <2>6, <3>1, OwnersFacts, ChainTypes
      <3>3. free \in Int /\ used \in Int
        BY <2>6, <3>1 DEF FsOK
      <3>4. free - n = m - m /\ used + n = (MAX_BLOCKS - m) + m
        BY <1>3, <2>5, <3>1 DEF Moved, Counted
      <3>5. free = n /\ used = MAX_BLOCKS - n
        BY <3>2, <3>3, <3>4, Sizes
      <3> QED BY <3>1, <3>5 DEF Counted
    <2>8. t.root[file].size <= MaxSize
      <3>1. CASE r.written = 0
        <4>1. t = s
          BY <2>3, <2>4, <3>1 DEF Writing
        <4> QED BY <1>2, <4>1 DEF InRange
      <3>2. CASE r.written # 0
        <4>1. PICK x, y : x = s.root[file].size /\ y = offset + r.written
          OBVIOUS
        <4>2. r.written \in Nat /\ r.written <= Len(buffer) /\ Len(buffer) \in Nat
              /\ Len(buffer) <= Longest
          BY <2>1, <2>5, LongestIs DEF LoopOK
        <4>3. t.root[file].size = Max({x, y})
          BY <2>3, <2>4, <3>2, <4>1, <4>2 DEF Writing
        <4>4. x \in Int /\ y \in Int /\ x <= MaxSize
          BY <1>2, <2>1, <4>1, <4>2 DEF FsOK, InRange
        <4>5. y <= MaxSize
          <5>1. PICK m, d : m = MAX_BLOCKS*BLOCK_SIZE /\ d = 2*MAX_BLOCKS*BLOCK_SIZE
            OBVIOUS
          <5>2. d \in Nat
            BY <5>1, Sizes
          <5> QED BY <2>1, <4>1, <4>2, <5>1, <5>2, LongestIs DEF MaxSize
        <4>6. Max({x, y}) = IF x <= y THEN y ELSE x
          BY <4>4, MinMaxOfPair
        <4> QED BY <4>3, <4>4, <4>5, <4>6
      <3> QED BY <3>1, <3>2
    <2>9. \A f \in Files : t.root[f].size <= MaxSize
      BY <1>2, <2>5, <2>8 DEF Moved, InRange
    <2> QED BY <1>4, <2>6, <2>7, <2>9
  <1>7. ASSUME NEW file \in Files, Unlink(file) PROVE InRange(fs') /\ CountersMatchLists'
    <2>1. t = fat_unlink(s, file)
      BY <1>1, <1>7 DEF Unlink
    <2>2. Unlinked(s, file, t)
      BY <1>2, <2>1, UnlinkTypes
    <2>3. \A f \in Files : t.root[f].size <= MaxSize
      BY <1>2, <2>2, LongestIs DEF Unlinked, FreeEntry, InRange
    <2>4. PICK m, n : m = Len(P[Nobody]) /\ n = Len(P[file])
      OBVIOUS
    <2>5. m \in Nat /\ n \in Nat /\ m + n <= MAX_BLOCKS
      <3>1. P \in [Owners -> Seq(Blocks)] /\ Distinct(P)
        BY <1>2 DEF Divided
      <3>2. Nobody \in Owners /\ file \in Owners /\ file # Nobody
        BY OwnersFacts
      <3>3. Len(P[Nobody]) \in Nat /\ Len(P[file]) \in Nat
        BY <3>1, <3>2
      <3>4. Len(P[Nobody]) + Len(P[file]) <= MAX_BLOCKS
        BY <3>1, <3>2, ShortChains
      <3> QED BY <2>4, <3>3, <3>4
    <2>6. BlocksOf(s.root[file].size) = n
      <3>1. s.root[file].size \in Nat
        BY <1>2 DEF FsOK
      <3> QED BY <1>2, <2>4, <3>1, BlocksOfIs DEF Fits
    <2>7. t.free_block_count = m + n /\ t.used_block_count = MAX_BLOCKS - (m + n)
      <3>1. t.free_block_count = m + n /\ t.used_block_count = (MAX_BLOCKS - m) - n
        BY <1>3, <2>2, <2>4, <2>6 DEF Unlinked, Counted
      <3> QED BY <2>5, <3>1, Sizes
    <2>8. InRange(t)
      BY <2>3, <2>5, <2>7, Sizes DEF InRange
    <2>9. ASSUME Sound(t)
          PROVE  /\ t.free_block_count = Len(FreeChain(t))
                 /\ t.used_block_count = MAX_BLOCKS - Len(FreeChain(t))
      <3>1. FsOK(t)
        BY <2>2 DEF Unlinked
      <3>2. PICK Q : Q = Division(t)
        OBVIOUS
      <3>3. Divided(t, Q) /\ Fits(t, Q)
        BY <2>9, <3>1, <3>2, SoundDivided
      <3>4. Len(Q[Nobody]) = m + n
        BY <1>2, <2>2, <2>4, <3>3, UnlinkFrees
      <3>5. FreeChain(t) = Q[Nobody]
        BY <3>1, <3>3, DividedChains DEF FsOK
      <3> QED BY <2>7, <3>4, <3>5
    <2> QED BY <1>1, <2>8, <2>9 DEF CountersMatchLists
  <1> QED BY <1>5, <1>6, <1>7 DEF Next

(* The invariant of SoundSpec.                                             *)
LEMMA Ranges == SoundSpec => [](Kept /\ TypeOK /\ CountersMatchLists)
  <1>1. Init => Kept /\ TypeOK /\ CountersMatchLists
    <2> SUFFICES ASSUME Init PROVE Kept /\ TypeOK /\ CountersMatchLists
      OBVIOUS
    <2>1. Kept
      <3>1. Used(initZeOSFAT) = {}
        BY DEF Used, initZeOSFAT, FreeEntry
      <3> QED BY <3>1, InitTypes DEF Init, Kept
    <2>2. PICK P : Divided(initZeOSFAT, P) /\ Len(P[Nobody]) = MAX_BLOCKS
      BY InitDivided
    <2>3. Counted(initZeOSFAT, P)
      BY <2>2, Sizes DEF Counted, initZeOSFAT
    <2>4. \A f \in Files : initZeOSFAT.root[f].size = 0
      BY DEF initZeOSFAT, FreeEntry
    <2>5. InRange(initZeOSFAT)
      BY <2>2, <2>3, <2>4, InitTypes, CountedIs, LongestIs DEF InRange
    <2>6. TypeOK
      BY <2>1, <2>5, TypeOKIs DEF Init
    <2>7. CountersMatchLists
      BY <2>2, <2>3, InitTypes, CountedIs DEF Init, CountersMatchLists
    <2> QED BY <2>1, <2>6, <2>7
  <1>2. Kept /\ InRange(fs) => TypeOK
    BY TypeOKIs
  <1>3. (Kept /\ InRange(fs) => TypeOK)'
    BY <1>2, PTL
  <1>4. ASSUME Kept, TypeOK, CountersMatchLists, [Next /\ Sound(fs)]_<<fs, opened>>
        PROVE  (Kept /\ TypeOK /\ CountersMatchLists)'
    <2>1. CASE UNCHANGED <<fs, opened>>
      BY <1>4, <2>1 DEF Kept, TypeOK, CountersMatchLists, Used
    <2>2. CASE Next /\ Sound(fs)
      <3>1. Kept'
        BY <1>4, <2>2, KeptStep
      <3>2. InRange(fs') /\ CountersMatchLists'
        BY <1>4, <2>2, CountersStep
      <3>3. InRange(fs)'
        BY <3>2 DEF InRange
      <3> QED BY <1>3, <3>1, <3>2, <3>3
    <2> QED BY <1>4, <2>1, <2>2
  <1> QED BY <1>1, <1>4, PTL DEF SoundSpec

(* Every link is a block or EOC, and neither block counter leaves          *)
(* 0..MAX_BLOCKS, up to and including the first state with unsound chains. *)
THEOREM TypeCorrect == SoundSpec => []TypeOK
  BY Ranges, PTL

(* The counters of used and free blocks, which unlink computes from sizes  *)
(* and add_block one by one, agree with the lists.                         *)
THEOREM CountersAgree == SoundSpec => []CountersMatchLists
  BY Ranges, PTL
----------------------------------------------------------------------------
(* The contents that Files speaks of.                                      *)
Contents(s) == [f \in Used(s) |-> Content(s, f)]

(* What the contents have of a state.                                      *)
LEMMA ContentsIs ==
  ASSUME NEW s, FsOK(s)
  PROVE  /\ DOMAIN Contents(s) = Used(s) /\ Used(s) \subseteq Files
         /\ \A f \in Used(s) : /\ Contents(s)[f] = Content(s, f)
                               /\ Len(Contents(s)[f]) = s.root[f].size
  <1>1. Used(s) \subseteq Files
    BY DEF Used
  <1>2. \A f \in Files : Len(Content(s, f)) = s.root[f].size
    BY ContentIs DEF FsOK
  <1> QED BY <1>1, <1>2 DEF Contents

(* A file whose chain, size and bytes are the same has the same content.   *)
LEMMA SameContent ==
  ASSUME NEW s, FsOK(s), NEW P, Divided(s, P), NEW t, FsOK(t), NEW Q, Divided(t, Q),
         NEW g \in Files, Q[g] = P[g], t.root[g].size = s.root[g].size,
         \A n \in 1..Len(P[g]) : t.data[P[g][n]] = s.data[P[g][n]]
  PROVE  Content(t, g) = Content(s, g)
  <1>1. PICK c, size : c = P[g] /\ size = s.root[g].size
    OBVIOUS
  <1>2. FileChain(s, g) = c /\ FileChain(t, g) = c
    <2>1. s.block_lists \in Links /\ t.block_lists \in Links
      BY DEF FsOK
    <2> QED BY <1>1, <2>1, DividedChains
  <1>3. c \in Seq(Blocks) /\ Len(c) \in Nat /\ size \in Nat
    BY <1>1, OwnersFacts, ChainTypes DEF FsOK
  <1>4. ASSUME NEW i \in 1..size, (i-1) \div BLOCK_SIZE + 1 <= Len(c)
        PROVE  t.data[c[(i-1) \div BLOCK_SIZE + 1]] = s.data[c[(i-1) \div BLOCK_SIZE + 1]]
    <2>1. i-1 \in Nat /\ BLOCK_SIZE \in Nat \ {0}
      BY <1>3, Sizes
    <2>2. (i-1) \div BLOCK_SIZE \in Nat
      BY <2>1, DivMod
    <2>3. (i-1) \div BLOCK_SIZE + 1 \in 1..Len(c)
      BY <1>3, <1>4, <2>2
    <2> QED BY <1>1, <2>3
  <1> QED BY <1>1, <1>2, <1>4 DEF Content

(* When the other files keep blocks and bytes, they are untouched.         *)
LEMMA OthersSame ==
  ASSUME NEW s, FsOK(s), NEW P, Divided(s, P), NEW t, FsOK(t), NEW Q, Divided(t, Q),
         NEW f \in Files,
         \A g \in Files \ {f} :
           /\ Q[g] = P[g] /\ t.root[g] = s.root[g]
           /\ \A n \in 1..Len(P[g]) : t.data[P[g][n]] = s.data[P[g][n]]
  PROVE  Promise!OthersUntouched(f, Contents(s), Contents(t))
  <1>1. Used(t) \ {f} = Used(s) \ {f}
    BY DEF Used
  <1>2. \A g \in Used(s) \ {f} : Content(t, g) = Content(s, g)
    <2> TAKE g \in Used(s) \ {f}
    <2>1. g \in Files \ {f}
      BY DEF Used
    <2> QED BY <2>1, SameContent
  <1>3. \A g \in Used(s) \ {f} : g \in Used(s) /\ g \in Used(t)
    BY <1>1
  <1> QED BY <1>1, <1>2, <1>3, ContentsIs DEF Promise!OthersUntouched

(* The room that Files computes from the contents.                         *)
LEMMA RoomIs ==
  ASSUME NEW s, FsOK(s), NEW P, Divided(s, P), Fits(s, P)
  PROVE  /\ Promise!Free(Contents(s)) = Len(P[Nobody])
         /\ \A f \in Used(s) : Promise!Allocated(f, Contents(s)) = Len(P[f])
         /\ \A f \in Files \ Used(s) : P[f] = <<>>
  <1>1. \A f \in Used(s) : Promise!Allocated(f, Contents(s)) = Len(P[f])
    <2> TAKE f \in Used(s)
    <2>1. f \in Files /\ Len(P[f]) = BlocksFor(s.root[f].size)
      BY DEF Used, Fits
    <2>2. Promise!BlocksFor(s.root[f].size) = BlocksFor(s.root[f].size)
      BY DEF Promise!BlocksFor, BlocksFor
    <2> QED BY <2>1, <2>2, ContentsIs DEF Promise!Allocated
  <1>2. \A f \in Files \ Used(s) : P[f] = <<>>
    <2> TAKE f \in Files \ Used(s)
    <2>1. Start(s, f) = EOC /\ f \in Owners
      BY OwnersFacts DEF Fits, Start
    <2>2. P[f] \in Seq(Blocks) /\ Nth(P[f], 1) = EOC
      BY <2>1, ChainTypes
    <2>3. 1 \notin 1..Len(P[f])
      BY <2>2, NthType
    <2> QED BY <2>2, <2>3
  <1>3. Used(s) \in SUBSET Files /\ \A f \in Files \ Used(s) : Len(P[f]) = 0
    BY <1>2 DEF Used
  <1>4. Len(P[Nobody]) = MAX_BLOCKS - Cardinality(FilePlaces(P, Used(s)))
    BY <1>3, FreeCount DEF Divided
  <1>5. Promise!Places(Contents(s)) = FilePlaces(P, Used(s))
    <2>1. DOMAIN Contents(s) = Used(s)
      BY DEF Contents
    <2> QED BY <1>1, <2>1 DEF Promise!Places, FilePlaces
  <1>6. Promise!Free(Contents(s)) = Len(P[Nobody])
    BY <1>4, <1>5 DEF Promise!Free, Promise!Cardinality, Cardinality
  <1> QED BY <1>1, <1>2, <1>6

(* Fragile, as a division shows it.                                        *)
LEMMA FragileIs ==
  ASSUME NEW s, FsOK(s), NEW P, Divided(s, P)
  PROVE  Fragile(s) <=> s.last_free_block # LastOf(P[Nobody])
  <1>1. FreeChain(s) = P[Nobody]
    BY DividedChains DEF FsOK
  <1> QED BY <1>1 DEF Fragile
----------------------------------------------------------------------------
(* A step of Files in terms of two file systems.                           *)
LEMMA PromiseStep ==
  ASSUME NEW f \in Files, Promise!Step(f, Contents(fs), Contents(fs'))
  PROVE  Promise!Next
  <1>1. Promise!Step(f, Contents(fs), Contents(fs)')
    OBVIOUS
  <1> QED BY <1>1 DEF Promise!Next, Contents

(* The initial states are initial states of Files.                         *)
LEMMA PromiseInit ==
  ASSUME Init
  PROVE  Promise!Init
  <1>1. PICK s : s = initZeOSFAT
    OBVIOUS
  <1>2. PICK P : /\ Divided(s, P) /\ Fits(s, P)
                 /\ s.last_free_block = LastOf(P[Nobody])
    BY <1>1, InitDivided
  <1>3. FsOK(s)
    BY <1>1, InitTypes
  <1>4. Sound(s) /\ ~Fragile(s)
    BY <1>2, <1>3, DividedSound, FragileIs DEF FsOK
  <1>5. Used(s) = {}
    BY <1>1 DEF Used, initZeOSFAT, FreeEntry
  <1>6. fs = s /\ opened = {}
    BY <1>1 DEF Init
  <1>7. [f \in Used(s) |-> Content(s, f)] = <<>>
    BY <1>5
  <1> QED BY <1>4, <1>5, <1>6, <1>7 DEF Promise!Init

(* A creation is one for Files.                                            *)
LEMMA PromiseCreate ==
  ASSUME Kept, Sound(fs), NEW mode \in Modes, Create(mode)
  PROVE  Promise!Next
  <1>1. PICK s, t, f : s = fs /\ t = fs' /\ f = Min(Files \ Used(fs))
    OBVIOUS
  <1>2. f \in Files /\ f \notin Used(s) /\ t = fat_create(s, f, mode)
        /\ opened' = opened \cup {f}
    <2>1. Files \ Used(fs) # {}
      BY DEF Create, Used
    <2> QED BY <1>1, <2>1, FirstFree DEF Create
  <1>3. PICK P : P = Division(s)
    OBVIOUS
  <1>4. FsOK(s) /\ Divided(s, P) /\ Fits(s, P)
    BY <1>1, <1>3, SoundDivided DEF Kept
  <1>5. Created(s, f, mode, t) /\ mode # FREE_TYPE
    BY <1>2, <1>4, CreateTypes, FatAssumption DEF FREE_TYPE
  <1>6. Divided(t, P) /\ Fits(t, P) /\ P[f] = <<>> /\ Used(t) = Used(s) \cup {f}
    BY <1>2, <1>4, <1>5, CreateDivided
  <1>7. FsOK(t)
    BY <1>5 DEF Created
  <1>8. Sound(t)
    BY <1>6, <1>7, DividedSound DEF FsOK
  <1>9. Fragile(t) = Fragile(s)
    <2>1. t.last_free_block = s.last_free_block
      BY <1>5 DEF Created
    <2>2. s.block_lists \in Links /\ t.block_lists \in Links
      BY <1>4, <1>7 DEF FsOK
    <2>3. FreeChain(t) = FreeChain(s)
      BY <1>4, <1>6, <2>2, DividedChains
    <2> QED BY <2>1, <2>3 DEF Fragile
  <1>10. Promise!OthersUntouched(f, Contents(s), Contents(t))
    <2>1. t.data = s.data /\ \A g \in Files \ {f} : t.root[g] = s.root[g]
      BY <1>5 DEF Created
    <2> QED BY <1>2, <1>4, <1>6, <1>7, <2>1, OthersSame
  <1>11. Promise!Created(f, Contents(s), Contents(t))
    <2>1. t.root[f].size = 0
      BY <1>5 DEF Created
    <2>2. Content(t, f) \in Seq(Data) /\ Len(Content(t, f)) = 0
      BY <1>2, <1>7, <2>1, ContentIs DEF FsOK
    <2>3. Content(t, f) = <<>>
      BY <2>2
    <2> QED BY <1>2, <1>4, <1>6, <1>7, <2>3, ContentsIs DEF Promise!Created
  <1>12. opened' \ Used(t) = (opened \ Used(s)) \ {f}
    BY <1>2, <1>6
  <1>13. Promise!Step(f, Contents(s), Contents(t))
    BY <1>1, <1>8, <1>9, <1>10, <1>11, <1>12 DEF Promise!Step
  <1> QED BY <1>1, <1>2, <1>13, PromiseStep

(* A removal is one for Files, or the promise ended with it.               *)
LEMMA PromiseUnlink ==
  ASSUME Kept, Sound(fs), NEW f \in Files, Unlink(f)
  PROVE  Promise!Next
  <1>1. PICK s, t, P : s = fs /\ t = fs' /\ P = Division(fs)
    OBVIOUS
  <1>2. f \in Used(s) /\ t = fat_unlink(s, f) /\ opened' = opened
    BY <1>1 DEF Unlink
  <1>3. FsOK(s) /\ Divided(s, P) /\ Fits(s, P) /\ Used(s) \subseteq opened
    BY <1>1, SoundDivided DEF Kept
  <1>4. Unlinked(s, f, t)
    BY <1>2, <1>3, UnlinkTypes
  <1>5. FsOK(t) /\ t.data = s.data /\ \A g \in Files \ {f} : t.root[g] = s.root[g]
    BY <1>4 DEF Unlinked
  <1>6. Used(t) = Used(s) \ {f}
    BY <1>4, <1>5 DEF Unlinked, Used, FreeEntry
  <1>7. Promise!Removed(f, Contents(s), Contents(t))
    BY <1>2, <1>3, <1>5, <1>6, ContentsIs DEF Promise!Removed
  <1>8. CASE Sound(t)
    <2>1. PICK Q : Q = Division(t)
      OBVIOUS
    <2>2. Divided(t, Q) /\ Fits(t, Q)
      BY <1>5, <1>8, <2>1, SoundDivided
    <2>3. \A g \in Files \ {f} : Q[g] = P[g]
      BY <1>3, <1>4, <2>2, UnlinkOthers
    <2>4. Promise!OthersUntouched(f, Contents(s), Contents(t))
      BY <1>3, <1>5, <2>2, <2>3, OthersSame
    <2>5. opened' \ Used(t) = (opened \ Used(s)) \cup {f}
      BY <1>2, <1>3, <1>6
    <2>6. Promise!Step(f, Contents(s), Contents(t))
      BY <1>1, <1>7, <1>8, <2>4, <2>5 DEF Promise!Step
    <2> QED BY <1>1, <2>6, PromiseStep
  <1>9. CASE ~Sound(t)
    <2>1. Fragile(s)
      <3>1. SUFFICES ASSUME s.last_free_block = LastOf(P[Nobody]) PROVE FALSE
        BY <1>3, FragileIs
      <3>2. Divided(t, Joined(P, f)) /\ Fits(t, Joined(P, f))
        BY <1>3, <1>4, <3>1, UnlinkDivided
      <3>3. t.block_lists \in Links
        BY <1>5 DEF FsOK
      <3> QED BY <1>9, <3>2, <3>3, DividedSound
    <2>2. Promise!Step(f, Contents(s), Contents(t))
      BY <1>1, <1>7, <1>9, <2>1 DEF Promise!Step
    <2> QED BY <1>1, <2>2, PromiseStep
  <1> QED BY <1>8, <1>9
----------------------------------------------------------------------------
(* Min and Max as Files has them.                                          *)
LEMMA PromiseMinMax ==
  ASSUME NEW a \in Int, NEW b \in Int
  PROVE  /\ Promise!Min({a, b}) = IF a <= b THEN a ELSE b
         /\ Promise!Max({a, b}) = IF a <= b THEN b ELSE a
  BY MinMaxOfPair DEF Promise!Min, Promise!Max, Min, Max

(* A longer file has as many blocks or more.                               *)
LEMMA MoreBlocks ==
  ASSUME NEW a \in Nat, NEW b \in Nat, a <= b
  PROVE  BlocksFor(a) <= BlocksFor(b)
  <1>1. PICK m, n, x, y : /\ m = BlocksFor(a) /\ n = BlocksFor(b)
                          /\ x = BLOCK_SIZE * m /\ y = BLOCK_SIZE * n
    OBVIOUS
  <1>2. m \in Nat /\ n \in Nat /\ x \in Nat /\ y \in Nat /\ x < a + BLOCK_SIZE /\ b <= y
    BY <1>1, BlocksForSize
  <1>3. BLOCK_SIZE \in Nat \ {0}
    BY Sizes
  <1>4. BLOCK_SIZE * (n+1) = y + BLOCK_SIZE
    BY <1>1, <1>2, <1>3, Successor
  <1>5. ASSUME n+1 <= m PROVE FALSE
    <2>1. BLOCK_SIZE * (n+1) <= BLOCK_SIZE * m
      BY <1>2, <1>3, <1>5, ProductMonotone
    <2> QED BY <1>1, <1>2, <1>3, <1>4, <2>1
  <1> QED BY <1>1, <1>2, <1>5

(* A write of w of len bytes that begins in a block of the file or in the  *)
(* next one: L are the blocks of the file after it, K all that it can have.*)
Inside(size, offset, len, w, L, K) ==
  /\ BlocksFor(Max({size, offset+w})) = L
  /\ Promise!Min({len, Promise!Max({0, K * BLOCK_SIZE - offset})}) = w

(* The numbers of such a write.                                            *)
LEMMA InsideNumbers ==
  ASSUME NEW size \in Nat, NEW offset \in Nat, NEW len \in Nat,
         NEW w \in Nat, 0 < w, w <= len, NEW L \in Nat, NEW K \in Nat, L <= K,
         BlocksFor(size) <= L, BlocksFor(offset+w) <= L,
         L = BlocksFor(size) \/ L = BlocksFor(offset+w),
         \/ w = len
         \/ w < len /\ L = K /\ L <= (offset+w) \div BLOCK_SIZE
  PROVE  Inside(size, offset, len, w, L, K)
  <1>1. PICK end, E, A, e, l, k : /\ end = offset + w
                                  /\ E = BlocksFor(end) /\ A = BlocksFor(size)
                                  /\ e = BLOCK_SIZE * E /\ l = BLOCK_SIZE * L
                                  /\ k = BLOCK_SIZE * K
    OBVIOUS
  <1>2. end \in Nat /\ BLOCK_SIZE \in Nat \ {0}
    BY <1>1, Sizes
  <1>3. E \in Nat /\ A \in Nat /\ e \in Nat /\ end <= e
    BY <1>1, <1>2, BlocksForSize
  <1>4. l \in Nat /\ k \in Nat
    BY <1>1, <1>2
  <1>5. e <= l /\ l <= k
    BY <1>1, <1>2, <1>3, ProductMonotone
  <1>6. size \in Int /\ end \in Int
    BY <1>2
  <1>7. BlocksFor(Max({size, end})) = L
    <2>1. CASE size <= end
      <3>1. A <= E
        BY <1>1, <1>2, <2>1, MoreBlocks
      <3>2. Max({size, end}) = end
        BY <1>6, <2>1, MinMaxOfPair
      <3> QED BY <1>1, <1>3, <3>1, <3>2
    <2>2. CASE ~(size <= end)
      <3>1. E <= A
        BY <1>1, <1>2, <2>2, MoreBlocks
      <3>2. Max({size, end}) = size
        BY <1>6, <2>2, MinMaxOfPair
      <3> QED BY <1>1, <1>3, <3>1, <3>2
    <2> QED BY <2>1, <2>2
  <1>8. K * BLOCK_SIZE = k
    BY <1>1, <1>2
  <1>9. Promise!Max({0, k - offset}) = k - offset /\ k - offset \in Nat /\ w <= k - offset
    <2>1. w <= k - offset
      BY <1>1, <1>3, <1>4, <1>5
    <2>2. k - offset \in Int
      BY <1>4
    <2>3. Promise!Max({0, k - offset}) = IF 0 <= k - offset THEN k - offset ELSE 0
      <3>1. 0 \in Int
        OBVIOUS
      <3> QED BY <2>2, <3>1, PromiseMinMax
    <2> QED BY <2>1, <2>2, <2>3
  <1>10. Promise!Min({len, k - offset}) = IF len <= k - offset THEN len ELSE k - offset
    BY <1>9, PromiseMinMax
  <1>11. w = len \/ (w = k - offset /\ w < len)
    <2>1. CASE w < len /\ L = K /\ L <= end \div BLOCK_SIZE
      <3>1. PICK m, n : m = end \div BLOCK_SIZE /\ n = BLOCK_SIZE * m
        OBVIOUS
      <3>2. m \in Nat /\ n \in Nat /\ n <= end
        <4>1. PICK d : d = end % BLOCK_SIZE
          OBVIOUS
        <4>2. m \in Nat /\ d \in 0..BLOCK_SIZE-1 /\ end = n + d
          BY <1>2, <3>1, <4>1, DivMod
        <4>3. n \in Nat
          BY <1>2, <3>1, <4>2
        <4> QED BY <1>2, <4>2, <4>3
      <3>3. l <= n
        BY <1>1, <1>2, <2>1, <3>1, <3>2, ProductMonotone
      <3>4. l = k
        BY <1>1, <2>1
      <3> QED BY <1>1, <1>3, <1>4, <1>5, <2>1, <3>2, <3>3, <3>4
    <2> QED BY <1>1, <2>1
  <1>12. BlocksFor(Max({size, offset+w})) = L
    BY <1>1, <1>7, Zenon
  <1>13. Promise!Max({0, K * BLOCK_SIZE - offset}) = k - offset
    BY <1>8, <1>9
  <1>14. Promise!Min({len, k - offset}) = w
    BY <1>9, <1>10, <1>11
  <1> QED BY <1>12, <1>13, <1>14 DEF Inside

(* One that begins beyond: A are the blocks of the file, F the free ones.  *)
Beyond(size, offset, len, w, A, L, F) ==
  /\ Max({size, offset+w}) = offset+w
  /\ BlocksFor(offset+w) # L
  /\ (A+1) * BLOCK_SIZE <= offset
  /\ Promise!Min({len, F * BLOCK_SIZE - (offset % BLOCK_SIZE)}) = w

(* The numbers of such a write.                                            *)
LEMMA BeyondNumbers ==
  ASSUME NEW size \in Nat, NEW offset \in Nat, NEW len \in Nat,
         NEW w \in Nat, 0 < w, w <= len, NEW A \in Nat, A = BlocksFor(size),
         NEW q, q = offset \div BLOCK_SIZE, A < q,
         NEW L \in Nat, NEW F \in Nat, L <= A + F,
         BlocksFor(offset+w) - (q - A) <= L,
         L = A \/ L = BlocksFor(offset+w) - (q - A),
         \/ w = len
         \/ w < len /\ L = A + F /\ (offset+w) % BLOCK_SIZE = 0
  PROVE  Beyond(size, offset, len, w, A, L, F)
  <1>1. PICK end, E, o : /\ end = offset + w /\ E = BlocksFor(end)
                         /\ o = offset % BLOCK_SIZE
    OBVIOUS
  <1>2. BLOCK_SIZE \in Nat \ {0} /\ end \in Nat
    BY <1>1, Sizes
  <1>3. PICK a, b, e, f, c : /\ a = BLOCK_SIZE * A /\ b = BLOCK_SIZE * q
                             /\ e = BLOCK_SIZE * E /\ f = BLOCK_SIZE * F
                             /\ c = BLOCK_SIZE * (A+1)
    OBVIOUS
  <1>4. q \in Nat /\ o \in 0..BLOCK_SIZE-1 /\ offset = b + o
    BY <1>1, <1>2, <1>3, DivMod
  <1>5. E \in Nat /\ e \in Nat /\ end <= e /\ e < end + BLOCK_SIZE /\ size <= a
    BY <1>1, <1>2, <1>3, BlocksForSize
  <1>6. a \in Nat /\ b \in Nat /\ f \in Nat /\ c \in Nat
    BY <1>2, <1>3, <1>4
  <1>7. a <= c /\ c <= b
    BY <1>2, <1>3, <1>4, ProductMonotone
  <1>8. q < E
    <2>1. SUFFICES ASSUME E <= q PROVE FALSE
      BY <1>4, <1>5
    <2>2. e <= b
      BY <1>2, <1>3, <1>4, <1>5, <2>1, ProductMonotone
    <2> QED BY <1>1, <1>2, <1>4, <1>5, <1>6, <2>2
  <1>9. L = E - (q - A) /\ L # E
    BY <1>1, <1>4, <1>5, <1>8
  <1>10. E <= q + F
    BY <1>4, <1>5, <1>9
  <1>11. BLOCK_SIZE * (q + F) = b + f
    BY <1>2, <1>3, <1>4
  <1>12. e <= b + f
    <2>1. BLOCK_SIZE * E <= BLOCK_SIZE * (q + F)
      BY <1>2, <1>4, <1>5, <1>10, ProductMonotone
    <2> QED BY <1>3, <1>11, <2>1
  <1>13. Max({size, end}) = end
    <2>1. size <= end
      BY <1>1, <1>2, <1>4, <1>5, <1>6, <1>7
    <2>2. size \in Int /\ end \in Int
      BY <1>2
    <2> QED BY <2>1, <2>2, MinMaxOfPair
  <1>14. w <= f - o
    <2>1. end = b + o + w /\ o \in Nat
      BY <1>1, <1>2, <1>4, <1>6
    <2>2. end <= b + f
      BY <1>2, <1>5, <1>6, <1>12
    <2> QED BY <1>6, <2>1, <2>2
  <1>15. ASSUME w < len PROVE w = f - o
    <2>1. L = A + F /\ end % BLOCK_SIZE = 0
      BY <1>1, <1>15
    <2>2. PICK m, n : m = end \div BLOCK_SIZE /\ n = BLOCK_SIZE * m
      OBVIOUS
    <2>3. m \in Nat /\ end = n
      <3>1. m \in Nat /\ end = n + (end % BLOCK_SIZE)
        BY <1>2, <2>2, DivMod
      <3>2. n \in Nat
        BY <1>2, <2>2, <3>1
      <3> QED BY <2>1, <3>1, <3>2
    <2>4. E = m
      <3>1. end <= BLOCK_SIZE * m /\ BLOCK_SIZE * m < end + BLOCK_SIZE
        BY <1>2, <2>2, <2>3
      <3> QED BY <1>1, <1>2, <2>3, <3>1, BlocksForIs
    <2>5. E = q + F
      BY <1>4, <1>5, <1>9, <2>1
    <2>6. e = b + f
      BY <1>3, <1>11, <2>5
    <2>7. end = e
      BY <1>3, <2>2, <2>3, <2>4
    <2>8. end = b + o + w /\ o \in Nat
      BY <1>1, <1>2, <1>4, <1>6
    <2> QED BY <1>6, <2>6, <2>7, <2>8
  <1>16. Promise!Min({len, f - o}) = w
    <2>1. f - o \in Int /\ BLOCK_SIZE \in Nat
      BY <1>2, <1>4, <1>6
    <2>2. Promise!Min({len, f - o}) = IF len <= f - o THEN len ELSE f - o
      BY <2>1, PromiseMinMax
    <2> QED BY <1>14, <1>15, <2>1, <2>2
  <1>17. (A+1) * BLOCK_SIZE = c /\ F * BLOCK_SIZE = f
    BY <1>2, <1>3
  <1>18. c <= offset
    BY <1>2, <1>4, <1>6, <1>7
  <1> QED BY <1>1, <1>9, <1>13, <1>16, <1>17, <1>18 DEF Beyond

(* Every byte of a content is in a block of the file.                      *)
LEMMA BytesOf ==
  ASSUME NEW s, FsOK(s), NEW P, Divided(s, P), NEW f \in Files,
         Len(P[f]) = BlocksFor(s.root[f].size)
  PROVE  /\ s.root[f].size \in Nat /\ Content(s, f) \in Seq(Data)
         /\ Len(Content(s, f)) = s.root[f].size
         /\ \A j \in 0..s.root[f].size-1 : /\ Content(s, f)[j+1] = Byte(s, P[f], j)
                                          /\ j \div BLOCK_SIZE < Len(P[f])
  <1>1. PICK c, size : c = P[f] /\ size = s.root[f].size
    OBVIOUS
  <1>2. c = FileChain(s, f)
    <2>1. s.block_lists \in Links
      BY DEF FsOK
    <2> QED BY <1>1, <2>1, DividedChains
  <1>3. size \in Nat
    BY <1>1 DEF FsOK
  <1>4. /\ Content(s, f) \in Seq(Data)
        /\ Len(Content(s, f)) = size
        /\ \A i \in 1..size :
             (i-1) \div BLOCK_SIZE < Len(c) => Content(s, f)[i] = Byte(s, c, i-1)
    BY <1>1, <1>2, ContentIs
  <1>5. \A j \in 0..size-1 : j \div BLOCK_SIZE < Len(c)
    BY <1>1, <1>3, BlocksForSize
  <1>6. ASSUME NEW j \in 0..size-1 PROVE Content(s, f)[j+1] = Byte(s, c, j)
    <2>1. j+1 \in 1..size /\ (j+1)-1 = j
      BY <1>3
    <2> QED BY <1>4, <1>5, <2>1
  <1> QED BY <1>1, <1>3, <1>4, <1>5, <1>6

(* The bytes that a write to the blocks of a file leaves there.            *)
LEMMA OverwrittenInside ==
  ASSUME NEW buffer \in Seq(Bytes), NEW offset \in Nat, NEW f \in Files,
         NEW s, FsOK(s), NEW P, Divided(s, P), Len(P[f]) = BlocksFor(s.root[f].size),
         NEW r, NEW t, t = r.fs, FsOK(t), NEW Q, Divided(t, Q),
         Len(Q[f]) = BlocksFor(t.root[f].size),
         NEW w \in Nat, w = r.written, 0 < w,
         t.root[f].size = Max({s.root[f].size, offset + w}),
         Written(s, P, f, buffer, offset, r, Q),
         NEW room, Promise!Min({Len(buffer), Promise!Max({0, room - offset})}) = w
  PROVE  Promise!Overwritten(Content(s, f), Content(t, f), offset, buffer, room)
  <1>1. PICK old, new, m, n : /\ old = Content(s, f) /\ new = Content(t, f)
                              /\ m = s.root[f].size /\ n = t.root[f].size
    OBVIOUS
  <1>2. m \in Nat /\ Len(old) = m
        /\ \A j \in 0..m-1 : /\ old[j+1] = Byte(s, P[f], j)
                             /\ j \div BLOCK_SIZE < Len(P[f])
    BY <1>1, BytesOf
  <1>3. n \in Nat /\ Len(new) = n
        /\ \A j \in 0..n-1 : /\ new[j+1] = Byte(t, Q[f], j)
                             /\ j \div BLOCK_SIZE < Len(Q[f])
    BY <1>1, BytesOf
  <1>4. n = Promise!Max({m, offset + w}) /\ m <= n /\ offset + w <= n
    <2>1. PICK e : e = offset + w
      OBVIOUS
    <2>2. e \in Int /\ m \in Int
      BY <1>2, <2>1
    <2>3. Max({m, e}) = IF m <= e THEN e ELSE m
      BY <2>2, MinMaxOfPair
    <2>4. Promise!Max({m, e}) = IF m <= e THEN e ELSE m
      BY <2>2, PromiseMinMax
    <2>5. n = Max({m, e})
      BY <1>1, <2>1
    <2> QED BY <2>1, <2>2, <2>3, <2>4, <2>5
  <1>5. \A j \in Nat : j \div BLOCK_SIZE < Len(Q[f]) =>
          /\ j \in offset .. offset+w-1 => Byte(t, Q[f], j) = buffer[j - offset + 1]
          /\ j \div BLOCK_SIZE < Len(P[f]) /\ j \notin offset .. offset+w-1 =>
               Byte(t, Q[f], j) = Byte(s, P[f], j)
    BY DEF Written
  <1>6. m \in Nat /\ n \in Nat /\ m <= n /\ offset + w <= n
    BY <1>2, <1>3, <1>4
  <1>7. ASSUME NEW i \in 1..w PROVE new[offset + i] = buffer[i]
    <2>1. PICK j : j = offset + i - 1
      OBVIOUS
    <2>2. j \in 0..n-1 /\ j \in Nat /\ j \in offset..offset+w-1
          /\ j+1 = offset + i /\ j - offset + 1 = i
      BY <1>6, <2>1
    <2>3. Byte(t, Q[f], j) = buffer[j - offset + 1]
      BY <1>3, <1>5, <2>2
    <2> QED BY <1>3, <2>2, <2>3
  <1>8. ASSUME NEW i \in 1..m, i \notin offset+1 .. offset+w PROVE new[i] = old[i]
    <2>1. PICK j : j = i - 1
      OBVIOUS
    <2>2. j \in 0..m-1 /\ j \in 0..n-1 /\ j \in Nat /\ j \notin offset..offset+w-1
          /\ j+1 = i
      BY <1>8, <1>6, <2>1
    <2>3. Byte(t, Q[f], j) = Byte(s, P[f], j)
      BY <1>2, <1>3, <1>5, <2>2
    <2> QED BY <1>2, <1>3, <2>2, <2>3
  <1>9. Promise!Overwritten(old, new, offset, buffer, room)
    <2>1. Len(new) = IF w = 0 THEN Len(old) ELSE Promise!Max({Len(old), offset + w})
      BY <1>2, <1>3, <1>4
    <2>2. \A i \in {i \in 1..Len(old) : i \notin offset+1 .. offset+w} : new[i] = old[i]
      BY <1>2, <1>8
    <2> QED BY <1>7, <2>1, <2>2, Zenon DEF Promise!Overwritten
  <1> QED BY <1>1, <1>9
----------------------------------------------------------------------------
(* What a write of at least one byte to a file leads to.                   *)

(* The file had been removed.                                              *)
LEMMA WriteRemoved ==
  ASSUME NEW s, FsOK(s), NEW P, Divided(s, P), Fits(s, P), NEW f \in Files \ Used(s),
         NEW t, FsOK(t), NEW Q, Divided(t, Q), Used(t) = Used(s),
         NEW n \in Nat, 0 < n, t.root[f].size = Max({s.root[f].size, n})
  PROVE  ~Sound(t)
  <1>1. s.root[f].size \in Int /\ n \in Int /\ t.root[f].size \in Nat
    BY DEF FsOK
  <1>2. n <= t.root[f].size
    <2>1. PICK m, k : m = s.root[f].size /\ k = t.root[f].size
      OBVIOUS
    <2>2. m \in Int /\ k = Max({m, n})
      BY <1>1, <2>1
    <2>3. Max({m, n}) = IF m <= n THEN n ELSE m
      BY <1>1, <2>2, MinMaxOfPair
    <2> QED BY <1>1, <2>1, <2>2, <2>3
  <1>3. SUFFICES ASSUME Fits(t, Q) PROVE FALSE
    <2>1. t.block_lists \in Links
      BY DEF FsOK
    <2> QED BY <2>1, DividedSound
  <1>4. Q[f] = <<>>
    BY <1>3, RoomIs
  <1>5. BlocksFor(t.root[f].size) = 0
    BY <1>3, <1>4 DEF Fits
  <1>6. t.root[f].size <= BLOCK_SIZE * 0
    BY <1>1, <1>5, BlocksForSize
  <1>7. BLOCK_SIZE * 0 = 0
    BY Sizes
  <1> QED BY <1>1, <1>2, <1>6, <1>7

(* What a write of w bytes leaves, that begins past offset for hole blocks *)
(* of the file: A and L are its blocks before and after, F the free ones.  *)
Grown(s, t, f, buffer, offset, w, A, L, F, hole) ==
  /\ A \in Nat /\ L \in Nat /\ F \in Nat /\ A <= L /\ L <= A + F
  /\ w \in Nat /\ w <= Len(buffer) /\ s.root[f].size \in Nat
  /\ t.root[f].size = Max({s.root[f].size, offset + w})
  /\ BlocksFor(offset + w) - hole <= L
  /\ L = A \/ L = BlocksFor(offset + w) - hole
  /\ \/ w = Len(buffer)
     \/ /\ w < Len(buffer) /\ L = A + F /\ L <= (offset + w) \div BLOCK_SIZE
        /\ (offset + w) % BLOCK_SIZE = 0

(* That is what fat_write leaves.                                          *)
LEMMA WriteGrows ==
  ASSUME NEW buffer \in Seq(Bytes), NEW f \in Files, NEW offset \in Nat,
         NEW s, FsOK(s), NEW P, Divided(s, P),
         NEW r, NEW Q, Writing(s, P, f, buffer, offset, r, Q),
         r.failed \/ r.written = Len(buffer), 0 < r.written
  PROVE  Grown(s, r.fs, f, buffer, offset, r.written,
               Len(P[f]), Len(Q[f]), Len(P[Nobody]), Hole(P, f, offset))
  <1>1. PICK t, w, A, L, F, G, hole, len :
          /\ t = r.fs /\ w = r.written /\ A = Len(P[f]) /\ L = Len(Q[f])
          /\ F = Len(P[Nobody]) /\ G = Len(Q[Nobody])
          /\ hole = Hole(P, f, offset) /\ len = Len(buffer)
    OBVIOUS
  <1>2. LoopOK(r, buffer) /\ Moved(s, P, t, Q, f)
    BY <1>1 DEF Writing
  <1>3. Divided(t, Q) /\ A <= L /\ L + G = A + F
    BY <1>1, <1>2 DEF Moved
  <1>4. A \in Nat /\ F \in Nat
    BY <1>1, OwnersFacts, ChainTypes
  <1>5. L \in Nat /\ G \in Nat
    BY <1>1, <1>3, OwnersFacts, ChainTypes
  <1>6. len \in Nat /\ w \in Nat /\ w <= len /\ 0 < w
    BY <1>1, <1>2 DEF LoopOK
  <1>7. /\ t.root[f].size = Max({s.root[f].size, offset + w})
        /\ BlocksFor(offset + w) - hole <= L
        /\ L = A \/ L = BlocksFor(offset + w) - hole
    BY <1>1, <1>6 DEF Writing
  <1>8. ASSUME r.failed
        PROVE  /\ w < len /\ L = A + F /\ L <= (offset + w) \div BLOCK_SIZE
               /\ (offset + w) % BLOCK_SIZE = 0
    <2>1. w < len /\ Q[Nobody] = <<>> /\ L <= (offset + w) \div BLOCK_SIZE
      BY <1>1, <1>8 DEF Writing
    <2>2. G = 0
      BY <1>1, <2>1
    <2>3. w \in 1..len-1
      BY <1>6, <2>1
    <2>4. (offset + w) % BLOCK_SIZE = 0
      BY <1>1, <2>3 DEF Writing
    <2> QED BY <1>3, <1>4, <1>5, <2>1, <2>2, <2>4
  <1>9. s.root[f].size \in Nat
    BY DEF FsOK
  <1>10. L <= A + F
    BY <1>3, <1>4, <1>5
  <1> QED BY <1>1, <1>3, <1>4, <1>5, <1>6, <1>7, <1>8, <1>9, <1>10 DEF Grown

(* A write is one for Files, or the promise ended with it.                 *)
LEMMA PromiseWrite ==
  ASSUME Kept, Sound(fs), NEW f \in Files, NEW offset \in 0 .. MAX_BLOCKS*BLOCK_SIZE,
         NEW buffer \in Buffers, Write(f, offset, buffer)
  PROVE  Promise!Next \/ UNCHANGED <<fs, opened>>
  <1>1. PICK s, t, P : s = fs /\ t = fs' /\ P = Division(fs)
    OBVIOUS
  <1>2. buffer \in Seq(Bytes) /\ offset \in Nat
    BY FatAssumption
  <1>3. FsOK(s) /\ Divided(s, P) /\ Fits(s, P) /\ s.root[f].last_block = LastOf(P[f])
    BY <1>1, SoundDivided DEF Kept, Fits
  <1>4. PICK r, Q : /\ fat_write(s, f, buffer, offset) = r
                    /\ Writing(s, P, f, buffer, offset, r, Q)
                    /\ r.failed \/ r.written = Len(buffer)
    BY <1>2, <1>3, FatWrite
  <1>5. t = r.fs /\ opened' = opened /\ f \in opened
    BY <1>1, <1>4 DEF Write
  <1>6. LoopOK(r, buffer) /\ Moved(s, P, t, Q, f)
    BY <1>4, <1>5 DEF Writing
  <1>7. /\ FsOK(t) /\ Divided(t, Q) /\ t.root[f].mode = s.root[f].mode
        /\ t.root[f].last_block = LastOf(Q[f])
        /\ \A g \in Files \ {f} : Q[g] = P[g] /\ t.root[g] = s.root[g]
        /\ s.last_free_block = LastOf(P[Nobody]) => t.last_free_block = LastOf(Q[Nobody])
    BY <1>6 DEF Moved
  <1>8. Used(t) = Used(s) /\ opened' \ Used(t) = opened \ Used(s)
    <2>1. \A g \in Files : t.root[g].mode = s.root[g].mode
      BY <1>7
    <2>2. Used(t) = Used(s)
      BY <2>1 DEF Used
    <2> QED BY <1>5, <2>2
  <1>9. Promise!OthersUntouched(f, Contents(s), Contents(t))
    <2>1. \A g \in Files \ {f} : \A n \in 1..Len(P[g]) : t.data[P[g][n]] = s.data[P[g][n]]
      BY <1>4, <1>5 DEF Writing
    <2>2. \A g \in Files \ {f} :
            /\ Q[g] = P[g] /\ t.root[g] = s.root[g]
            /\ \A n \in 1..Len(P[g]) : t.data[P[g][n]] = s.data[P[g][n]]
      BY <1>7, <2>1
    <2>3. FsOK(t) /\ Divided(t, Q)
      BY <1>7
    <2> QED BY <1>3, <2>2, <2>3, OthersSame
  <1>10. CASE r.written = 0
    BY <1>1, <1>4, <1>5, <1>10 DEF Writing
  <1>11. ASSUME r.written # 0 PROVE Promise!Step(f, Contents(s), Contents(t))
    <2>1. PICK w, A, L, F, hole : /\ w = r.written /\ A = Len(P[f]) /\ L = Len(Q[f])
                                  /\ F = Len(P[Nobody]) /\ hole = Hole(P, f, offset)
      OBVIOUS
    <2>2. w \in Nat /\ 0 < w
      BY <1>6, <1>11, <2>1 DEF LoopOK
    <2>3. Grown(s, t, f, buffer, offset, w, A, L, F, hole)
      BY <1>2, <1>3, <1>4, <1>5, <2>1, <2>2, WriteGrows
    <2>4. CASE f \notin Used(s)
      <3>1. ~Sound(t)
        <4>1. PICK n : n = offset + w
          OBVIOUS
        <4>2. n \in Nat /\ 0 < n /\ t.root[f].size = Max({s.root[f].size, n})
          BY <1>2, <2>2, <2>3, <4>1 DEF Grown
        <4> QED BY <1>3, <1>7, <1>8, <2>4, <4>2, WriteRemoved
      <3>2. Contents(t) = Contents(s)
        <4>1. \A g \in Used(s) : g \in Used(s) \ {f}
          BY <2>4
        <4>2. \A g \in Used(s) : Content(t, g) = Content(s, g)
          BY <1>3, <1>7, <1>8, <1>9, <4>1, ContentsIs DEF Promise!OthersUntouched
        <4> QED BY <1>8, <4>2 DEF Contents
      <3> QED BY <1>1, <1>5, <2>4, <3>1, <3>2 DEF Promise!Step
    <2>5. PICK q, size, len : /\ q = offset \div BLOCK_SIZE
                              /\ size = s.root[f].size /\ len = Len(buffer)
      OBVIOUS
    <2>6. /\ A \in Nat /\ L \in Nat /\ F \in Nat /\ q \in Nat /\ len \in Nat
          /\ size \in Nat /\ A = BlocksFor(size) /\ BLOCK_SIZE \in Nat \ {0}
      <3>1. A \in Nat /\ L \in Nat /\ F \in Nat /\ size \in Nat
        BY <2>3, <2>5 DEF Grown
      <3>2. BLOCK_SIZE \in Nat \ {0} /\ len \in Nat
        BY <1>2, <2>5, Sizes
      <3>3. q \in Nat
        BY <1>2, <2>5, <3>2, DivMod
      <3>4. A = BlocksFor(size)
        BY <1>3, <2>1, <2>5 DEF Fits
      <3> QED BY <3>1, <3>2, <3>3, <3>4
    <2>7. hole = IF q > A THEN q - A ELSE 0
      BY <2>1, <2>5 DEF Hole
    <2>8. ASSUME f \in Used(s)
          PROVE  /\ Promise!Free(Contents(s)) = F
                 /\ Promise!Allocated(f, Contents(s)) = A
                 /\ f \in DOMAIN Contents(s) /\ f \in DOMAIN Contents(t)
                 /\ Contents(s)[f] = Content(s, f) /\ Contents(t)[f] = Content(t, f)
                 /\ Len(Contents(t)[f]) = t.root[f].size
      BY <1>3, <1>7, <1>8, <2>1, <2>8, RoomIs, ContentsIs
    <2>9. /\ L <= A + F /\ w <= len /\ A <= L
          /\ t.root[f].size = Max({size, offset + w})
          /\ BlocksFor(offset + w) - hole <= L
          /\ L = A \/ L = BlocksFor(offset + w) - hole
          /\ \/ w = len
             \/ /\ w < len /\ L = A + F /\ L <= (offset + w) \div BLOCK_SIZE
                /\ (offset + w) % BLOCK_SIZE = 0
      BY <2>3, <2>5 DEF Grown
    <2>10. CASE f \in Used(s) /\ hole = 0
      <3>1. PICK K, E : K = A + F /\ E = BlocksFor(offset + w)
        OBVIOUS
      <3>2. E \in Nat /\ K \in Nat
        <4>1. PICK n : n = offset + w
          OBVIOUS
        <4>2. n \in Nat
          BY <1>2, <2>2, <4>1
        <4>3. BlocksFor(n) \in Nat
          BY <4>2, BlocksForSize
        <4> QED BY <2>6, <3>1, <4>1, <4>3
      <3>3. L <= K /\ E <= L /\ (L = A \/ L = E)
        BY <2>6, <2>9, <2>10, <3>1, <3>2
      <3>4. /\ BlocksFor(t.root[f].size) = L
            /\ Promise!Min({len, Promise!Max({0, K * BLOCK_SIZE - offset})}) = w
        <4>1. BlocksFor(size) <= L /\ BlocksFor(offset+w) <= L
              /\ (L = BlocksFor(size) \/ L = BlocksFor(offset+w))
          BY <2>6, <2>9, <3>1, <3>3
        <4>2. \/ w = len
              \/ w < len /\ L = K /\ L <= (offset+w) \div BLOCK_SIZE
          BY <2>9, <3>1
        <4>3. /\ BlocksFor(Max({size, offset+w})) = L
              /\ Promise!Min({len, Promise!Max({0, K * BLOCK_SIZE - offset})}) = w
          <5>1. /\ size \in Nat /\ offset \in Nat /\ len \in Nat /\ w \in Nat /\ 0 < w
                /\ w <= len /\ L \in Nat /\ K \in Nat /\ L <= K
            BY <1>2, <2>2, <2>6, <2>9, <3>2, <3>3
          <5>2. Inside(size, offset, len, w, L, K)
            BY <4>1, <4>2, <5>1, InsideNumbers
          <5> QED BY <5>2 DEF Inside
        <4> QED BY <2>9, <4>3
      <3>5. Sound(t)
        <4>1. Fits(t, Q)
          BY <1>3, <1>7, <1>8, <2>1, <2>10, <3>4 DEF Fits
        <4>2. t.block_lists \in Links
          BY <1>7 DEF FsOK
        <4> QED BY <1>7, <4>1, <4>2, DividedSound
      <3>6. Fragile(t) => Fragile(s)
        BY <1>3, <1>7, FragileIs
      <3>7. Promise!Overwritten(Content(s, f), Content(t, f), offset, buffer, K * BLOCK_SIZE)
        <4>1. Written(s, P, f, buffer, offset, r, Q)
          BY <1>4, <2>1, <2>10 DEF Writing
        <4>2. Len(P[f]) = BlocksFor(s.root[f].size) /\ Len(Q[f]) = BlocksFor(t.root[f].size)
          BY <1>3, <2>1, <3>4 DEF Fits
        <4>3. t.root[f].size = Max({s.root[f].size, offset + w})
          BY <2>5, <2>9
        <4>4. Promise!Min({Len(buffer), Promise!Max({0, K * BLOCK_SIZE - offset})}) = w
          BY <2>5, <3>4
        <4>5. FsOK(t) /\ Divided(t, Q)
          BY <1>7
        <4> QED BY <1>2, <1>3, <1>5, <2>1, <2>2, <4>1, <4>2, <4>3, <4>4, <4>5,
                   OverwrittenInside
      <3>8. offset \in 0 .. (A + 1) * BLOCK_SIZE - 1
        <4>1. PICK c : c = BLOCK_SIZE * (A + 1)
          OBVIOUS
        <4>2. c \in Nat /\ c = (A + 1) * BLOCK_SIZE /\ A + 1 \in Nat
          BY <2>6, <4>1
        <4>3. q < A + 1
          BY <2>6, <2>7, <2>10
        <4>4. offset < c
          BY <1>2, <2>5, <2>6, <4>1, <4>2, <4>3, DivBound
        <4> QED BY <1>2, <4>2, <4>4
      <3>9. Promise!Written(f, Contents(s), Contents(t))
        BY <2>8, <2>10, <3>1, <3>7, <3>8 DEF Promise!Written
      <3> QED BY <1>1, <1>8, <1>9, <3>5, <3>6, <3>9 DEF Promise!Step
    <2>11. CASE f \in Used(s) /\ hole # 0
      <3>1. A < q /\ hole = q - A
        BY <2>6, <2>7, <2>11
      <3>2. /\ Max({size, offset+w}) = offset+w
            /\ BlocksFor(offset+w) # L
            /\ (A+1) * BLOCK_SIZE <= offset
            /\ Promise!Min({len, F * BLOCK_SIZE - (offset % BLOCK_SIZE)}) = w
        <4>1. /\ BlocksFor(offset+w) - (q - A) <= L
              /\ (L = A \/ L = BlocksFor(offset+w) - (q - A))
          BY <2>9, <3>1
        <4>2. \/ w = len
              \/ w < len /\ L = A + F /\ (offset+w) % BLOCK_SIZE = 0
          BY <2>9
        <4>3. /\ size \in Nat /\ offset \in Nat /\ len \in Nat /\ w \in Nat /\ 0 < w
              /\ w <= len /\ L \in Nat /\ A \in Nat /\ F \in Nat /\ L <= A + F
              /\ A = BlocksFor(size) /\ q = offset \div BLOCK_SIZE /\ A < q
          BY <1>2, <2>2, <2>5, <2>6, <2>9, <3>1
        <4>4. Beyond(size, offset, len, w, A, L, F)
          BY <4>1, <4>2, <4>3, BeyondNumbers
        <4> QED BY <4>4 DEF Beyond
      <3>3. t.root[f].size = offset + w
        BY <2>9, <3>2
      <3>4. ~Sound(t)
        <4>1. t.block_lists \in Links
          BY <1>7 DEF FsOK
        <4> QED BY <1>7, <2>1, <3>2, <3>3, <4>1, DividedSound DEF Fits
      <3>5. offset \in (A + 1) * BLOCK_SIZE .. Len(Contents(t)[f])
        <4>1. (A + 1) * BLOCK_SIZE \in Nat
          BY <2>6
        <4> QED BY <1>2, <2>2, <2>8, <2>11, <3>2, <3>3, <4>1
      <3>6. Promise!WrittenBeyond(f, Contents(s), Contents(t))
        <4>1. Len(Contents(t)[f]) = offset
                + Promise!Min({Len(buffer), F * BLOCK_SIZE - (offset % BLOCK_SIZE)})
          BY <2>5, <2>8, <2>11, <3>2, <3>3
        <4> QED BY <2>8, <2>11, <3>5, <4>1 DEF Promise!WrittenBeyond
      <3> QED BY <1>1, <1>9, <3>4, <3>6 DEF Promise!Step
    <2> QED BY <2>4, <2>10, <2>11
  <1>12. r.written # 0 => Promise!Next
    BY <1>1, <1>11, PromiseStep
  <1> QED BY <1>10, <1>12

(* The chains of blocks keep the promise of Files: every create, write and *)
(* unlink is a step of Files, or the promise has ended.                    *)
THEOREM Refinement == Spec => ImplementsFiles
  <1>1. Init => Promise!Init
    BY PromiseInit
  <1>2. ASSUME Kept, [Next]_<<fs, opened>> PROVE [Promise!Next]_(Promise!vars)
    <2>1. CASE UNCHANGED <<fs, opened>>
      BY <2>1 DEF Promise!vars, Used, Content
    <2>2. CASE ~Sound(fs)
      BY <2>2 DEF Promise!Next
    <2>3. CASE Sound(fs) /\ Next
      <3>1. Promise!Next \/ UNCHANGED <<fs, opened>>
        BY <1>2, <2>3, PromiseCreate, PromiseWrite, PromiseUnlink DEF Next
      <3> QED BY <2>1, <3>1
    <2> QED BY <1>2, <2>1, <2>2, <2>3
  <1> QED BY <1>1, <1>2, KeptAlways, PTL DEF Spec, ImplementsFiles, Promise!Spec
=============================================================================
