-------------------------- MODULE SchedulerProofs --------------------------
(***************************************************************************)
(* Theorems about Scheduler and LinkedScheduler, for every number of tasks *)
(* and semaphores: first the lists as sequences, then their pointers.      *)
(***************************************************************************)
EXTENDS LinkedScheduler, FiniteSetTheorems, SequenceTheorems,
        WellFoundedInduction, TLAPS

(* A set of natural numbers has a smallest element.                        *)
LEMMA NatWellOrdered ==
  ASSUME NEW T, T \subseteq Nat, T # {}
  PROVE  \E m \in T : \A k \in T : ~(k < m)
  <1>1. \E R : IsWellFoundedOn(R, Nat) /\ \A k, m \in Nat : k < m => <<k, m>> \in R
    <2>1. IsWellFoundedOn(OpToRel(<, Nat), Nat)
      BY NatLessThanWellFounded, Zenon
    <2>2. \A k, m \in Nat : k < m => <<k, m>> \in OpToRel(<, Nat)
      BY Zenon DEF OpToRel
    <2> QED BY <2>1, <2>2, Zenon
  <1>2. PICK R : IsWellFoundedOn(R, Nat) /\ \A k, m \in Nat : k < m => <<k, m>> \in R
    BY <1>1
  <1>3. PICK m \in T : \A k \in T : ~(<<k, m>> \in R)
    <2>1. IsWellFoundedOn(R, Nat)
      BY <1>2
    <2> QED BY <2>1, WFMin, Zenon
  <1> QED BY <1>2, <1>3

(* An inductive set of natural numbers holds them all.                     *)
LEMMA NatSetInduction ==
  ASSUME NEW I, 0 \in I, \A n \in Nat : n \in I => n+1 \in I
  PROVE  Nat \subseteq I
  <1> SUFFICES ASSUME Nat \ I # {} PROVE FALSE
    OBVIOUS
  <1>1. PICK m \in Nat \ I : \A k \in Nat \ I : ~(k < m)
    BY NatWellOrdered
  <1>2. m-1 \in Nat /\ m-1 < m /\ (m-1)+1 = m
    BY <1>1
  <1> QED BY <1>1, <1>2

----------------------------------------------------------------------------
(* RemoveFirst of an entry that occurs once at k skips position k.         *)
LEMMA RemoveFirstAt ==
  ASSUME NEW S, NEW s \in Seq(S), NEW k \in 1..Len(s),
         \A i \in 1..Len(s) : s[i] = s[k] => i = k
  PROVE  /\ RemoveFirst(s, s[k]) \in Seq(S)
         /\ Len(RemoveFirst(s, s[k])) = Len(s) - 1
         /\ \A i \in 1..Len(s)-1 :
              RemoveFirst(s, s[k])[i] = IF i < k THEN s[i] ELSE s[i+1]
  <1> DEFINE e == s[k]
             I == {i \in 1..Len(s) : s[i] = e}
             a == SubSeq(s, 1, k-1)
             b == SubSeq(s, k+1, Len(s))
  <1>1. Len(s) \in Nat /\ k \in Nat /\ k >= 1 /\ k <= Len(s)
    BY LenProperties
  <1>2. I = {k}
    OBVIOUS
  <1>3. Min(I) = k
    BY <1>1, <1>2 DEF Min
  <1>4. SelectInSeq(s, LAMBDA v : v = e) = k
    BY <1>2, <1>3 DEF SelectInSeq
  <1>5. RemoveFirst(s, e) = RemoveAt(s, k)
    BY <1>4 DEF RemoveFirst
  <1>6. RemoveFirst(s, e) = a \o b
    BY <1>5 DEF RemoveAt
  <1>7. \A i \in 1..Len(s) : s[i] \in S
    BY ElementOfSeq
  <1>8. /\ a \in Seq(S) /\ Len(a) = k-1
        /\ \A i \in 1..k-1 : a[i] = s[i]
    <2>1. /\ a \in Seq(S)
          /\ Len(a) = IF 1 <= k-1 THEN k-1-1+1 ELSE 0
          /\ \A i \in 1..k-1-1+1 : a[i] = s[1+i-1]
      <3>1. 1 \in Int /\ k-1 \in Int /\ \A i \in 1..k-1 : s[i] \in S
        BY <1>1, <1>7
      <3> QED BY <3>1, SubSeqProperties
    <2> QED BY <2>1, <1>1
  <1>9. /\ b \in Seq(S) /\ Len(b) = Len(s)-k
        /\ \A i \in 1..Len(s)-k : b[i] = s[k+i]
    <2>1. /\ b \in Seq(S)
          /\ Len(b) = IF k+1 <= Len(s) THEN Len(s)-(k+1)+1 ELSE 0
          /\ \A i \in 1..Len(s)-(k+1)+1 : b[i] = s[(k+1)+i-1]
      <3>1. k+1 \in Int /\ Len(s) \in Int /\ \A i \in k+1..Len(s) : s[i] \in S
        BY <1>1, <1>7
      <3> QED BY <3>1, SubSeqProperties
    <2> QED BY <2>1, <1>1
  <1> HIDE DEF a, b, e, I
  <1>10. /\ a \o b \in Seq(S)
         /\ Len(a \o b) = Len(a) + Len(b)
         /\ \A i \in 1..Len(a)+Len(b) :
              (a \o b)[i] = IF i <= Len(a) THEN a[i] ELSE b[i - Len(a)]
    BY <1>8, <1>9, ConcatProperties
  <1>11. ASSUME NEW i \in 1..Len(s)-1
         PROVE (a \o b)[i] = IF i < k THEN s[i] ELSE s[i+1]
    <2>1. CASE i < k
      BY <2>1, <1>1, <1>8, <1>9, <1>10
    <2>2. CASE ~(i < k)
      <3>1. i - (k-1) \in 1..Len(s)-k /\ k + (i - (k-1)) = i+1
        BY <2>2, <1>1
      <3>2. (a \o b)[i] = b[i - (k-1)]
        BY <2>2, <1>1, <1>8, <1>9, <1>10
      <3>3. b[i - (k-1)] = s[i+1]
        BY <3>1, <1>9
      <3> QED BY <2>2, <3>2, <3>3
    <2> QED BY <2>1, <2>2
  <1>12. Len(a \o b) = Len(s) - 1
    BY <1>1, <1>8, <1>9, <1>10
  <1> QED BY <1>6, <1>10, <1>11, <1>12 DEF e

(* ToSet over positions.                                                   *)
LEMMA ToSetPositions ==
  ASSUME NEW S, NEW s \in Seq(S)
  PROVE  /\ ToSet(s) = {s[i] : i \in 1..Len(s)}
         /\ ToSet(s) \subseteq S
         /\ s = <<>> <=> ToSet(s) = {}
         /\ s # <<>> => /\ Len(s) \in Nat \ {0}
                       /\ Head(s) = s[1]
                       /\ Head(s) \in ToSet(s)
  <1>1. ToSet(s) = {s[i] : i \in 1..Len(s)} /\ Len(s) \in Nat
    BY LenProperties DEF ToSet
  <1>2. ToSet(s) \subseteq S
    BY <1>1, ElementOfSeq
  <1>3. ASSUME s # <<>> PROVE Len(s) \in Nat \ {0} /\ Head(s) = s[1]
    BY <1>3, EmptySeq
  <1>4. ASSUME s # <<>> PROVE s[1] \in ToSet(s)
    BY <1>1, <1>3, <1>4
  <1>5. ASSUME s = <<>> PROVE ToSet(s) = {}
    BY <1>1, <1>5, EmptySeq
  <1> QED BY <1>1, <1>2, <1>3, <1>4, <1>5

(* OnOneList, split into what it says of one list and of two.              *)
LEMMA OnOneListSplit ==
  ASSUME NEW H, NEW S, NEW ls \in [H -> Seq(S)]
  PROVE  OnOneList(ls) <=>
           /\ \A h \in H : IsInjective(ls[h])
           /\ \A g, h \in H : \A x : x \in Entries(ls, g) /\ x \in Entries(ls, h) => g = h
  <1>1. \A h \in H : /\ DOMAIN ls[h] = 1..Len(ls[h])
                     /\ Entries(ls, h) = {ls[h][i] : i \in 1..Len(ls[h])}
    BY LenProperties, ToSetPositions DEF Entries
  <1>2. DOMAIN ls = H
    OBVIOUS
  <1>3. ASSUME OnOneList(ls)
        PROVE  /\ \A h \in H : IsInjective(ls[h])
               /\ \A g, h \in H : \A x : x \in Entries(ls, g) /\ x \in Entries(ls, h) => g = h
    BY <1>1, <1>2, <1>3 DEF OnOneList, IsInjective
  <1>4. ASSUME \A h \in H : IsInjective(ls[h]),
               \A g, h \in H : \A x : x \in Entries(ls, g) /\ x \in Entries(ls, h) => g = h
        PROVE  OnOneList(ls)
    <2> SUFFICES ASSUME NEW g \in H, NEW h \in H,
                        NEW i \in 1..Len(ls[g]), NEW j \in 1..Len(ls[h]),
                        ls[g][i] = ls[h][j]
                 PROVE  g = h /\ i = j
      BY <1>2 DEF OnOneList
    <2>1. ls[g][i] \in Entries(ls, g) /\ ls[h][j] \in Entries(ls, h)
      BY <1>1
    <2>2. g = h
      BY <2>1, <1>4
    <2> QED BY <2>2, <1>1, <1>4 DEF IsInjective
  <1> QED BY <1>3, <1>4

(* Unlinking an entry from one list.                                       *)
LEMMA RemoveFirstProperties ==
  ASSUME NEW S, NEW s \in Seq(S), IsInjective(s), NEW e
  PROVE  /\ RemoveFirst(s, e) \in Seq(S)
         /\ IsInjective(RemoveFirst(s, e))
         /\ ToSet(RemoveFirst(s, e)) = ToSet(s) \ {e}
  <1> DEFINE r == RemoveFirst(s, e)
  <1>0. Len(s) \in Nat /\ DOMAIN s = 1..Len(s)
    BY LenProperties
  <1>1. CASE ~ \E i \in 1..Len(s) : s[i] = e
    <2>1. r = s
      BY <1>1 DEF RemoveFirst
    <2>2. e \notin ToSet(s)
      BY <1>1, ToSetPositions
    <2> QED BY <2>1, <2>2
  <1>2. CASE \E i \in 1..Len(s) : s[i] = e
    <2>1. PICK k \in 1..Len(s) : s[k] = e
      BY <1>2
    <2>2. \A i, j \in 1..Len(s) : s[i] = s[j] => i = j
      BY <1>0 DEF IsInjective
    <2>3. /\ r \in Seq(S) /\ Len(r) = Len(s) - 1
          /\ \A i \in 1..Len(s)-1 : r[i] = IF i < k THEN s[i] ELSE s[i+1]
      BY <2>1, <2>2, RemoveFirstAt
    <2>4. DOMAIN r = 1..Len(s)-1 /\ ToSet(r) = {r[i] : i \in 1..Len(s)-1}
      BY <2>3, LenProperties, ToSetPositions
    <2> HIDE DEF r
    <2>5. IsInjective(r)
      <3> SUFFICES ASSUME NEW i \in 1..Len(s)-1, NEW j \in 1..Len(s)-1,
                          r[i] = r[j]
                   PROVE  i = j
        BY <2>4 DEF IsInjective
      <3>1. i \in 1..Len(s) /\ i+1 \in 1..Len(s)
        BY <1>0
      <3>2. j \in 1..Len(s) /\ j+1 \in 1..Len(s)
        BY <1>0
      <3>3. CASE i < k /\ j < k
        BY <3>1, <3>2, <3>3, <2>2, <2>3
      <3>4. CASE i < k /\ ~(j < k)
        <4>1. s[i] = s[j+1]
          BY <3>4, <2>3
        <4>2. i = j+1
          BY <4>1, <3>1, <3>2, <2>2
        <4> QED BY <4>2, <3>4, <1>0
      <3>5. CASE ~(i < k) /\ j < k
        <4>1. s[i+1] = s[j]
          BY <3>5, <2>3
        <4>2. i+1 = j
          BY <4>1, <3>1, <3>2, <2>2
        <4> QED BY <4>2, <3>5, <1>0
      <3>6. CASE ~(i < k) /\ ~(j < k)
        <4>1. s[i+1] = s[j+1]
          BY <3>6, <2>3
        <4>2. i+1 = j+1
          BY <4>1, <3>1, <3>2, <2>2
        <4> QED BY <4>2, <1>0
      <3> QED BY <3>3, <3>4, <3>5, <3>6
    <2>6. ToSet(r) \subseteq ToSet(s) \ {e}
      <3> SUFFICES ASSUME NEW i \in 1..Len(s)-1
                   PROVE  r[i] \in ToSet(s) \ {e}
        BY <2>4
      <3>1. CASE i < k
        <4>1. i \in 1..Len(s) /\ i # k /\ r[i] = s[i]
          BY <3>1, <1>0, <2>3
        <4> QED BY <4>1, <2>1, <2>2, ToSetPositions
      <3>2. CASE ~(i < k)
        <4>1. i+1 \in 1..Len(s) /\ i+1 # k
          BY <3>2, <1>0
        <4>2. r[i] = s[i+1]
          BY <3>2, <2>3
        <4> QED BY <4>1, <4>2, <2>1, <2>2, ToSetPositions
      <3> QED BY <3>1, <3>2
    <2>7. ToSet(s) \ {e} \subseteq ToSet(r)
      <3> SUFFICES ASSUME NEW i \in 1..Len(s), s[i] # e
                   PROVE  s[i] \in ToSet(r)
        BY ToSetPositions
      <3>1. i # k
        BY <2>1
      <3>2. CASE i < k
        <4>1. i \in 1..Len(s)-1 /\ r[i] = s[i]
          BY <3>2, <1>0, <2>3
        <4> QED BY <4>1, <2>4
      <3>3. CASE i > k
        <4>1. i-1 \in 1..Len(s)-1 /\ ~(i-1 < k) /\ (i-1)+1 = i
          BY <3>3, <1>0
        <4>2. r[i-1] = s[i]
          BY <4>1, <2>3
        <4> QED BY <4>1, <4>2, <2>4
      <3> QED BY <3>1, <3>2, <3>3, <1>0
    <2> QED BY <2>3, <2>5, <2>6, <2>7 DEF r
  <1> QED BY <1>1, <1>2

----------------------------------------------------------------------------
(* The operations on the function from heads to lists.                     *)

(* Lists of entries of S at the heads H, each entry on one list at most.   *)
WellLinked(ls, H, S) == ls \in [H -> Seq(S)] /\ OnOneList(ls)

(* WellLinked, one list at a time.                                         *)
LEMMA WellLinkedSplit ==
  ASSUME NEW H, NEW S, NEW ls, ls \in [H -> Seq(S)]
  PROVE  WellLinked(ls, H, S) <=>
           /\ \A h \in H : IsInjective(ls[h])
           /\ \A g, h \in H : \A x : x \in Entries(ls, g) /\ x \in Entries(ls, h) => g = h
  BY OnOneListSplit DEF WellLinked

(* What an operation that replaces some lists must show.                   *)
LEMMA WellLinkedIntro ==
  ASSUME NEW H, NEW S, NEW ls, ls \in [H -> Seq(S)],
         \A h \in H : IsInjective(ls[h]),
         \A g, h \in H : \A x : x \in Entries(ls, g) /\ x \in Entries(ls, h) => g = h
  PROVE  WellLinked(ls, H, S)
  BY WellLinkedSplit

(* What WellLinked says, in a form to cite.                                *)
LEMMA WellLinkedElim ==
  ASSUME NEW H, NEW S, NEW ls, WellLinked(ls, H, S)
  PROVE  /\ ls \in [H -> Seq(S)] /\ DOMAIN ls = H
         /\ \A h \in H : ls[h] \in Seq(S) /\ IsInjective(ls[h])
         /\ \A g, h \in H : \A x : x \in Entries(ls, g) /\ x \in Entries(ls, h) => g = h
         /\ \A h \in H : Entries(ls, h) \subseteq S
         /\ \A h \in H : list_empty(ls, h) <=> Entries(ls, h) = {}
         /\ \A h \in H : ~list_empty(ls, h) => list_first(ls, h) \in Entries(ls, h)
  <1>1. ls \in [H -> Seq(S)] /\ DOMAIN ls = H
    BY DEF WellLinked
  <1>2. /\ \A h \in H : ls[h] \in Seq(S) /\ IsInjective(ls[h])
        /\ \A g, h \in H : \A x : x \in Entries(ls, g) /\ x \in Entries(ls, h) => g = h
    BY <1>1, WellLinkedSplit
  <1>3. ASSUME NEW h \in H
        PROVE  /\ Entries(ls, h) \subseteq S
               /\ list_empty(ls, h) <=> Entries(ls, h) = {}
               /\ ~list_empty(ls, h) => list_first(ls, h) \in Entries(ls, h)
    BY <1>2, ToSetPositions DEF Entries, list_empty, list_first
  <1> QED BY <1>1, <1>2, <1>3

(* list_del unlinks the entry and leaves everything else where it was.     *)
LEMMA ListDel ==
  ASSUME NEW H, NEW S, NEW ls, WellLinked(ls, H, S), NEW e
  PROVE  /\ WellLinked(list_del(ls, e), H, S)
         /\ \A h \in H : Entries(list_del(ls, e), h) = Entries(ls, h) \ {e}
  <1> DEFINE r == list_del(ls, e)
  <1>1. /\ DOMAIN ls = H
        /\ \A h \in H : ls[h] \in Seq(S) /\ IsInjective(ls[h])
        /\ \A g, h \in H : \A x : x \in Entries(ls, g) /\ x \in Entries(ls, h) => g = h
    BY WellLinkedElim
  <1>2. r = [h \in H |-> RemoveFirst(ls[h], e)]
    BY <1>1 DEF list_del
  <1>3. \A h \in H : /\ RemoveFirst(ls[h], e) \in Seq(S)
                     /\ IsInjective(RemoveFirst(ls[h], e))
                     /\ ToSet(RemoveFirst(ls[h], e)) = Entries(ls, h) \ {e}
    BY <1>1, RemoveFirstProperties DEF Entries
  <1> HIDE DEF r
  <1>4. r \in [H -> Seq(S)]
    BY <1>2, <1>3
  <1>5. \A h \in H : IsInjective(r[h]) /\ Entries(r, h) = Entries(ls, h) \ {e}
    BY <1>2, <1>3 DEF Entries
  <1>6. \A g, h \in H : \A x : x \in Entries(r, g) /\ x \in Entries(r, h) => g = h
    BY <1>1, <1>5
  <1>7. WellLinked(r, H, S)
    BY <1>4, <1>5, <1>6, WellLinkedIntro
  <1> QED BY <1>5, <1>7 DEF r

(* Two lists without a common entry and without repetition, joined.        *)
LEMMA JoinLists ==
  ASSUME NEW S, NEW s \in Seq(S), NEW t \in Seq(S),
         IsInjective(s), IsInjective(t), ToSet(s) \cap ToSet(t) = {}
  PROVE  /\ s \o t \in Seq(S)
         /\ IsInjective(s \o t)
         /\ ToSet(s \o t) = ToSet(s) \cup ToSet(t)
  <1> DEFINE r == s \o t
  <1>1. /\ r \in Seq(S) /\ Len(r) = Len(s) + Len(t)
        /\ \A i \in 1..Len(s)+Len(t) :
             r[i] = IF i <= Len(s) THEN s[i] ELSE t[i - Len(s)]
    BY ConcatProperties
  <1>2. /\ Len(s) \in Nat /\ DOMAIN s = 1..Len(s)
        /\ Len(t) \in Nat /\ DOMAIN t = 1..Len(t)
        /\ DOMAIN r = 1..Len(s)+Len(t)
    BY <1>1, LenProperties
  <1>3. /\ ToSet(s) = {s[i] : i \in 1..Len(s)}
        /\ ToSet(t) = {t[i] : i \in 1..Len(t)}
        /\ ToSet(r) = {r[i] : i \in 1..Len(s)+Len(t)}
    BY <1>1, ToSetPositions
  <1> HIDE DEF r
  <1>4. ASSUME NEW i \in 1..Len(s)+Len(t)
        PROVE  \/ i \in 1..Len(s) /\ r[i] = s[i] /\ s[i] \in ToSet(s)
               \/ /\ ~(i <= Len(s)) /\ i - Len(s) \in 1..Len(t)
                  /\ r[i] = t[i - Len(s)] /\ t[i - Len(s)] \in ToSet(t)
    <2>1. CASE i <= Len(s)
      <3>1. i \in 1..Len(s)
        BY <2>1, <1>2
      <3>2. r[i] = s[i]
        BY <2>1, <1>1
      <3> QED BY <3>1, <3>2, <1>3
    <2>2. CASE ~(i <= Len(s))
      <3>1. i - Len(s) \in 1..Len(t)
        BY <2>2, <1>2
      <3>2. r[i] = t[i - Len(s)]
        BY <2>2, <1>1
      <3> QED BY <2>2, <3>1, <3>2, <1>3
    <2> QED BY <2>1, <2>2
  <1>5. IsInjective(r)
    <2> SUFFICES ASSUME NEW i \in 1..Len(s)+Len(t), NEW j \in 1..Len(s)+Len(t),
                        r[i] = r[j]
                 PROVE  i = j
      BY <1>2 DEF IsInjective
    <2>1. CASE i \in 1..Len(s) /\ r[i] = s[i] /\ s[i] \in ToSet(s)
      <3>1. j \in 1..Len(s) /\ r[j] = s[j]
        BY <2>1, <1>4
      <3> QED BY <2>1, <3>1, <1>2 DEF IsInjective
    <2>2. CASE /\ ~(i <= Len(s)) /\ i - Len(s) \in 1..Len(t)
               /\ r[i] = t[i - Len(s)] /\ t[i - Len(s)] \in ToSet(t)
      <3>1. j - Len(s) \in 1..Len(t) /\ r[j] = t[j - Len(s)]
        BY <2>2, <1>4
      <3>2. i - Len(s) = j - Len(s)
        BY <2>2, <3>1, <1>2 DEF IsInjective
      <3> QED BY <3>2, <1>2
    <2> QED BY <2>1, <2>2, <1>4
  <1>6. ToSet(r) \subseteq ToSet(s) \cup ToSet(t)
    BY <1>3, <1>4
  <1>7. ToSet(s) \subseteq ToSet(r)
    <2> SUFFICES ASSUME NEW i \in 1..Len(s) PROVE s[i] \in ToSet(r)
      BY <1>3
    <2>1. i \in 1..Len(s)+Len(t) /\ i <= Len(s)
      BY <1>2
    <2>2. r[i] = s[i]
      BY <2>1, <1>1
    <2> QED BY <2>1, <2>2, <1>3
  <1>8. ToSet(t) \subseteq ToSet(r)
    <2> SUFFICES ASSUME NEW i \in 1..Len(t) PROVE t[i] \in ToSet(r)
      BY <1>3
    <2>1. /\ i + Len(s) \in 1..Len(s)+Len(t) /\ ~(i + Len(s) <= Len(s))
          /\ (i + Len(s)) - Len(s) = i
      BY <1>2
    <2>2. r[i + Len(s)] = t[i]
      BY <2>1, <1>1
    <2> QED BY <2>1, <2>2, <1>3
  <1> QED BY <1>1, <1>5, <1>6, <1>7, <1>8 DEF r

(* A one-entry list.                                                       *)
LEMMA Singleton ==
  ASSUME NEW S, NEW e \in S
  PROVE  <<e>> \in Seq(S) /\ IsInjective(<<e>>) /\ ToSet(<<e>>) = {e}
  BY DEF IsInjective, ToSet

(* An entry that is on no list is joined to one, at either end.            *)
LEMMA ListExtend ==
  ASSUME NEW H, NEW S, NEW ls, WellLinked(ls, H, S), NEW e \in S, NEW head \in H,
         \A h \in H : e \notin Entries(ls, h)
  PROVE  \A r : r = list_add(ls, e, head) \/ r = list_add_tail(ls, e, head) =>
           /\ WellLinked(r, H, S)
           /\ \A h \in H : Entries(r, h) =
                IF h = head THEN Entries(ls, h) \cup {e} ELSE Entries(ls, h)
  <1> SUFFICES ASSUME NEW r,
                      r = list_add(ls, e, head) \/ r = list_add_tail(ls, e, head)
               PROVE  /\ WellLinked(r, H, S)
                      /\ \A h \in H : Entries(r, h) =
                           IF h = head THEN Entries(ls, h) \cup {e} ELSE Entries(ls, h)
    OBVIOUS
  <1>1. /\ ls \in [H -> Seq(S)]
        /\ \A h \in H : ls[h] \in Seq(S) /\ IsInjective(ls[h])
        /\ \A g, h \in H : \A x : x \in Entries(ls, g) /\ x \in Entries(ls, h) => g = h
    BY WellLinkedElim
  <1>2. <<e>> \in Seq(S) /\ IsInjective(<<e>>) /\ ToSet(<<e>>) = {e}
    BY Singleton
  <1>3. PICK one \in Seq(S) : one = <<e>>
    BY <1>2
  <1>4. PICK old \in Seq(S) : old = ls[head]
    BY <1>1
  <1>5. /\ IsInjective(one) /\ ToSet(one) = {e}
        /\ IsInjective(old) /\ ToSet(old) = Entries(ls, head)
        /\ ToSet(old) \cap ToSet(one) = {} /\ ToSet(one) \cap ToSet(old) = {}
    BY <1>1, <1>2, <1>3, <1>4 DEF Entries
  <1>6. /\ old \o one \in Seq(S) /\ IsInjective(old \o one)
        /\ ToSet(old \o one) = ToSet(old) \cup ToSet(one)
    BY <1>5, JoinLists
  <1>7. /\ one \o old \in Seq(S) /\ IsInjective(one \o old)
        /\ ToSet(one \o old) = ToSet(one) \cup ToSet(old)
    BY <1>5, JoinLists
  <1>8. PICK q \in {old \o one, one \o old} :
          r = [h \in H |-> IF h = head THEN q ELSE ls[h]]
    <2>1. Append(old, e) = old \o one
      BY <1>3, AppendIsConcat
    <2>2. CASE r = list_add(ls, e, head)
      <3>1. r = [h \in H |-> IF h = head THEN one \o old ELSE ls[h]]
        BY <2>2, <1>1, <1>3, <1>4 DEF list_add
      <3> QED BY <3>1
    <2>3. CASE r = list_add_tail(ls, e, head)
      <3>1. r = [h \in H |-> IF h = head THEN Append(old, e) ELSE ls[h]]
        BY <2>3, <1>1, <1>4 DEF list_add_tail
      <3> QED BY <3>1, <2>1
    <2> QED BY <2>2, <2>3
  <1>9. q \in Seq(S) /\ IsInjective(q) /\ ToSet(q) = Entries(ls, head) \cup {e}
    BY <1>5, <1>6, <1>7
  <1>10. r \in [H -> Seq(S)] /\ \A h \in H : IsInjective(r[h])
    BY <1>1, <1>8, <1>9
  <1>11. \A h \in H : Entries(r, h) =
           IF h = head THEN Entries(ls, h) \cup {e} ELSE Entries(ls, h)
    BY <1>8, <1>9 DEF Entries
  <1>12. \A g, h \in H : \A x : x \in Entries(r, g) /\ x \in Entries(r, h) => g = h
    BY <1>1, <1>11
  <1> QED BY <1>10, <1>11, <1>12, WellLinkedIntro

(* An entry, linked or not, moves to the front or to the tail of a list.   *)
LEMMA ListMove ==
  ASSUME NEW H, NEW S, NEW ls, WellLinked(ls, H, S), NEW e \in S, NEW head \in H
  PROVE  /\ WellLinked(list_add(list_del(ls, e), e, head), H, S)
         /\ \A h \in H : Entries(list_add(list_del(ls, e), e, head), h) =
              IF h = head THEN Entries(ls, h) \cup {e} ELSE Entries(ls, h) \ {e}
  <1>1. PICK d : d = list_del(ls, e)
    OBVIOUS
  <1>2. /\ WellLinked(d, H, S)
        /\ \A h \in H : Entries(d, h) = Entries(ls, h) \ {e}
    BY <1>1, ListDel
  <1>3. /\ WellLinked(list_add(d, e, head), H, S)
        /\ \A h \in H : Entries(list_add(d, e, head), h) =
             IF h = head THEN Entries(d, h) \cup {e} ELSE Entries(d, h)
    BY <1>2, ListExtend
  <1> QED BY <1>1, <1>2, <1>3

(* The lists after an entry moves to the tail of a list.                   *)
LEMMA ListMoveTail ==
  ASSUME NEW H, NEW S, NEW ls, WellLinked(ls, H, S), NEW e \in S, NEW head \in H
  PROVE  /\ WellLinked(list_add_tail(list_del(ls, e), e, head), H, S)
         /\ \A h \in H : Entries(list_add_tail(list_del(ls, e), e, head), h) =
              IF h = head THEN Entries(ls, h) \cup {e} ELSE Entries(ls, h) \ {e}
  <1>1. PICK d : d = list_del(ls, e)
    OBVIOUS
  <1>2. /\ WellLinked(d, H, S)
        /\ \A h \in H : Entries(d, h) = Entries(ls, h) \ {e}
    BY <1>1, ListDel
  <1>3. /\ WellLinked(list_add_tail(d, e, head), H, S)
        /\ \A h \in H : Entries(list_add_tail(d, e, head), h) =
             IF h = head THEN Entries(d, h) \cup {e} ELSE Entries(d, h)
    BY <1>2, ListExtend
  <1> QED BY <1>1, <1>2, <1>3

(* The whole of one list is moved to the tail of another.                  *)
LEMMA ListMoveAll ==
  ASSUME NEW H, NEW S, NEW ls, WellLinked(ls, H, S),
         NEW head \in H, NEW dest \in H, head # dest
  PROVE  /\ WellLinked(list_move_all(ls, head, dest), H, S)
         /\ \A h \in H : Entries(list_move_all(ls, head, dest), h) =
              IF h = dest THEN Entries(ls, dest) \cup Entries(ls, head)
              ELSE IF h = head THEN {} ELSE Entries(ls, h)
  <1>1. /\ ls \in [H -> Seq(S)]
        /\ \A h \in H : ls[h] \in Seq(S) /\ IsInjective(ls[h])
        /\ \A g, h \in H : \A x : x \in Entries(ls, g) /\ x \in Entries(ls, h) => g = h
    BY WellLinkedElim
  <1>2. PICK r : r = list_move_all(ls, head, dest)
    OBVIOUS
  <1>3. PICK s \in Seq(S) : s = ls[dest]
    BY <1>1
  <1>4. PICK t \in Seq(S) : t = ls[head]
    BY <1>1
  <1>5. /\ IsInjective(s) /\ IsInjective(t) /\ ToSet(s) \cap ToSet(t) = {}
        /\ ToSet(s) = Entries(ls, dest) /\ ToSet(t) = Entries(ls, head)
    BY <1>1, <1>3, <1>4 DEF Entries
  <1>6. PICK q \in Seq(S) : q = s \o t
    BY <1>5, JoinLists
  <1>7. IsInjective(q) /\ ToSet(q) = Entries(ls, dest) \cup Entries(ls, head)
    BY <1>5, <1>6, JoinLists
  <1>8. r = [h \in H |-> IF h = head THEN <<>>
                         ELSE IF h = dest THEN q ELSE ls[h]]
    BY <1>1, <1>2, <1>3, <1>4, <1>6 DEF list_move_all
  <1>9. <<>> \in Seq(S) /\ IsInjective(<<>>) /\ ToSet(<<>>) = {}
    BY DEF IsInjective, ToSet
  <1>10. r \in [H -> Seq(S)] /\ \A h \in H : IsInjective(r[h])
    BY <1>1, <1>7, <1>8, <1>9
  <1>11. \A h \in H : Entries(r, h) =
           IF h = dest THEN Entries(ls, dest) \cup Entries(ls, head)
           ELSE IF h = head THEN {} ELSE Entries(ls, h)
    BY <1>7, <1>8, <1>9 DEF Entries
  <1>12. \A g, h \in H : \A x : x \in Entries(r, g) /\ x \in Entries(r, h) => g = h
    BY <1>1, <1>11
  <1>13. WellLinked(r, H, S)
    BY <1>10, <1>12, WellLinkedIntro
  <1> QED BY <1>2, <1>11, <1>13

----------------------------------------------------------------------------
(* new is ls once the entries of M have left their lists and joined the    *)
(* one of dest, which may be no head at all.                               *)
Moved(ls, new, H, S, M, dest) ==
  /\ WellLinked(new, H, S)
  /\ \A h \in H : Entries(new, h) =
       IF h = dest THEN Entries(ls, h) \cup M ELSE Entries(ls, h) \ M

(* The operations above, each as a move.                                   *)
LEMMA MoveOne ==
  ASSUME NEW H, NEW S, NEW ls, WellLinked(ls, H, S), NEW e \in S, NEW head \in H
  PROVE  /\ Moved(ls, list_add(list_del(ls, e), e, head), H, S, {e}, head)
         /\ Moved(ls, list_add_tail(list_del(ls, e), e, head), H, S, {e}, head)
  BY ListMove, ListMoveTail DEF Moved

(* An entry that is unlinked has moved to no list.                         *)
LEMMA MoveAway ==
  ASSUME NEW H, NEW S, NEW ls, WellLinked(ls, H, S), NEW e, NEW nowhere, nowhere \notin H
  PROVE  Moved(ls, list_del(ls, e), H, S, {e}, nowhere)
  BY ListDel DEF Moved

(* The lists after all entries of one moved to another.                    *)
LEMMA MoveAll ==
  ASSUME NEW H, NEW S, NEW ls, WellLinked(ls, H, S),
         NEW head \in H, NEW dest \in H, head # dest
  PROVE  Moved(ls, list_move_all(ls, head, dest), H, S, Entries(ls, head), dest)
  <1>1. \A g, h \in H : \A x : x \in Entries(ls, g) /\ x \in Entries(ls, h) => g = h
    BY WellLinkedElim
  <1>2. \A h \in H : h # head => Entries(ls, h) \ Entries(ls, head) = Entries(ls, h)
    BY <1>1
  <1>3. \A h \in H : Entries(list_move_all(ls, head, dest), h) =
          IF h = dest THEN Entries(ls, h) \cup Entries(ls, head)
          ELSE Entries(ls, h) \ Entries(ls, head)
    BY <1>2, ListMoveAll
  <1> QED BY <1>3, ListMoveAll DEF Moved

----------------------------------------------------------------------------

(* One step of the loop of exit over the sems array.                       *)
Release(f, n, p) ==
  IF sems[n-1].owner = p THEN list_move_all(f[n-1], n-1, runqueue) ELSE f[n-1]

(* The recursive definition of Released has a solution.                    *)
LEMMA ReleasedDef ==
  ASSUME NEW p
  PROVE  \E f : /\ f = [n \in 0..NrSem |-> IF n = 0 THEN lists ELSE Release(f, n, p)]
                /\ Released(p) = f[NrSem]
  <1> DEFINE Sol(f, m) ==
               f = [n \in 0..m |-> IF n = 0 THEN lists ELSE Release(f, n, p)]
             I == {m \in Nat : \E f : Sol(f, m)}
  <1>1. 0 \in I
    <2>1. PICK f : f = [n \in 0..0 |-> lists]
      OBVIOUS
    <2>2. Sol(f, 0)
      BY <2>1
    <2> QED BY <2>2
  <1>2. ASSUME NEW m \in Nat, m \in I PROVE m+1 \in I
    <2>1. PICK f : Sol(f, m)
      BY <1>2
    <2>2. PICK g : g = [n \in 0..m+1 |-> IF n = m+1 THEN Release(f, m+1, p) ELSE f[n]]
      OBVIOUS
    <2>3. \A n \in 0..m : g[n] = f[n]
      BY <2>2
    <2>4. ASSUME NEW n \in 0..m+1
          PROVE g[n] = IF n = 0 THEN lists ELSE Release(g, n, p)
      <3>1. CASE n = 0
        <4>1. 0 \in 0..m /\ g[0] = f[0]
          BY <2>3
        <4>2. f[0] = lists
          BY <2>1, <4>1
        <4> QED BY <3>1, <4>1, <4>2
      <3>2. CASE n # 0
        <4>1. n-1 \in 0..m /\ g[n-1] = f[n-1]
          BY <3>2, <2>3
        <4>2. Release(g, n, p) = Release(f, n, p)
          BY <4>1 DEF Release
        <4>3. CASE n = m+1
          BY <4>2, <4>3, <2>2, <3>2
        <4>4. CASE n # m+1
          <5>1. n \in 0..m
            BY <4>4
          <5>2. f[n] = Release(f, n, p)
            BY <5>1, <2>1, <3>2
          <5> QED BY <4>2, <5>1, <5>2, <2>3, <3>2
        <4> QED BY <4>3, <4>4
      <3> QED BY <3>1, <3>2
    <2>5. Sol(g, m+1)
      BY <2>2, <2>4
    <2> QED BY <2>5
  <1>3. NrSem \in I
    <2> HIDE DEF I
    <2> QED BY <1>1, <1>2, NatSetInduction, SchedulerAssumption
  <1>4. PICK f : Sol(f, NrSem)
    BY <1>3
  <1> QED BY <1>4, Zenon DEF Released, Release

(* The tasks that exit wakes: the waiters of the semaphores below n of p.  *)
Waiters(n, p) == UNION {On(s) : s \in {s \in 0..n-1 : sems[s].owner = p}}

(* Exit moves them to the run queue and leaves the others where they are.  *)
LEMMA ReleasedMoves ==
  ASSUME WellLinked(lists, Heads, Slots), NEW p
  PROVE  Moved(lists, Released(p), Heads, Slots, Waiters(NrSem, p), runqueue)
  <1>1. PICK f : /\ f = [n \in 0..NrSem |-> IF n = 0 THEN lists ELSE Release(f, n, p)]
                 /\ Released(p) = f[NrSem]
    BY ReleasedDef
  <1> DEFINE I == {n \in Nat : n <= NrSem =>
                    Moved(lists, f[n], Heads, Slots, Waiters(n, p), runqueue)}
  <1>2. NrSem \in Nat /\ runqueue = NrSem
    BY SchedulerAssumption DEF runqueue
  <1>3. 0 \in I
    <2>1. f[0] = lists
      BY <1>1, <1>2
    <2>2. Waiters(0, p) = {}
      BY DEF Waiters
    <2>3. Moved(lists, lists, Heads, Slots, {}, runqueue)
      BY DEF Moved
    <2> QED BY <2>1, <2>2, <2>3
  <1>4. ASSUME NEW n \in Nat, n \in I PROVE n+1 \in I
    <2> SUFFICES ASSUME n+1 <= NrSem
                 PROVE  Moved(lists, f[n+1], Heads, Slots, Waiters(n+1, p), runqueue)
      OBVIOUS
    <2>1. /\ n+1 \in 0..NrSem /\ n+1 # 0 /\ (n+1)-1 = n
          /\ n \in Heads /\ runqueue \in Heads /\ n # runqueue
      BY <1>2 DEF Heads
    <2>2. Moved(lists, f[n], Heads, Slots, Waiters(n, p), runqueue)
      BY <1>2, <1>4
    <2>3. f[n+1] = IF sems[n].owner = p THEN list_move_all(f[n], n, runqueue) ELSE f[n]
      <3>1. f[n+1] = Release(f, n+1, p)
        BY <1>1, <2>1
      <3> QED BY <2>1, <3>1 DEF Release
    <2>4. 0..(n+1)-1 = (0..n-1) \cup {n}
      OBVIOUS
    <2>5. CASE sems[n].owner # p
      <3>1. Waiters(n+1, p) = Waiters(n, p)
        BY <2>4, <2>5 DEF Waiters
      <3> QED BY <2>2, <2>3, <2>5, <3>1
    <2>6. CASE sems[n].owner = p
      <3>1. Waiters(n+1, p) = Waiters(n, p) \cup On(n)
        BY <2>4, <2>6 DEF Waiters
      <3>2. PICK a : a = f[n]
        OBVIOUS
      <3>3. PICK b : b = list_move_all(a, n, runqueue)
        OBVIOUS
      <3>4. PICK W : W = Waiters(n, p)
        OBVIOUS
      <3>5. /\ WellLinked(a, Heads, Slots)
            /\ \A h \in Heads : Entries(a, h) =
                 IF h = runqueue THEN Entries(lists, h) \cup W ELSE Entries(lists, h) \ W
        BY <2>2, <3>2, <3>4 DEF Moved
      <3>6. Moved(a, b, Heads, Slots, Entries(a, n), runqueue)
        BY <2>1, <3>3, <3>5, MoveAll
      <3>7. /\ WellLinked(b, Heads, Slots)
            /\ \A h \in Heads : Entries(b, h) =
                 IF h = runqueue THEN Entries(a, h) \cup Entries(a, n)
                 ELSE Entries(a, h) \ Entries(a, n)
        BY <3>6 DEF Moved
      <3>8. Entries(a, n) = Entries(lists, n) \ W
        BY <2>1, <3>5
      <3>9. \A h \in Heads : Entries(b, h) =
              IF h = runqueue THEN Entries(lists, h) \cup (W \cup Entries(lists, n))
              ELSE Entries(lists, h) \ (W \cup Entries(lists, n))
        BY <3>5, <3>7, <3>8
      <3>10. Moved(lists, b, Heads, Slots, W \cup On(n), runqueue)
        BY <3>7, <3>9 DEF Moved, On
      <3> QED BY <2>3, <2>6, <3>1, <3>2, <3>3, <3>4, <3>10
    <2> QED BY <2>5, <2>6
  <1>5. NrSem \in I
    <2> HIDE DEF I
    <2> QED BY <1>2, <1>3, <1>4, NatSetInduction
  <1> QED BY <1>1, <1>2, <1>5

----------------------------------------------------------------------------
(* The inductive invariant: no property that the runs check is inductive   *)
(* without some of the others.  The tic that Clock subtracts is there      *)
(* because of QuantumInSync, a free semaphore can be initialised without   *)
(* losing a task because of NoForgottenWaiter, and the idle task stays on  *)
(* the run queue because UniquePids gives it the pid the guards test.      *)
IInv == /\ TypeOK
        /\ ListsPartition
        /\ RunqueueNeverEmpty
        /\ StateMatchesList
        /\ QuantumInSync
        /\ UniquePids
        /\ NoForgottenWaiter
        /\ WokenWithResult
        /\ InterruptsAcknowledged

(* The heads are distinct.                                                 *)
LEMMA HeadFacts ==
  /\ runqueue \in Heads /\ freequeue \in Heads /\ keyboardqueue \in WaitQueues
  /\ Sems \subseteq WaitQueues /\ WaitQueues \subseteq Heads
  /\ runqueue \notin WaitQueues /\ freequeue \notin WaitQueues
  /\ runqueue # freequeue /\ -1 \notin Heads
  /\ keyboardqueue \notin Sems /\ Idle \in Slots
  /\ Heads = WaitQueues \cup {runqueue, freequeue}
  BY SchedulerAssumption
     DEF runqueue, freequeue, keyboardqueue, Heads, Sems, WaitQueues, Idle, Slots

(* What the invariant says of the lists.                                   *)
LEMMA ListFacts ==
  ASSUME IInv
  PROVE  /\ WellLinked(lists, Heads, Slots)
         /\ \A h \in Heads : Entries(lists, h) \subseteq Slots
         /\ \A h \in Heads : list_empty(lists, h) <=> Entries(lists, h) = {}
         /\ \A h \in Heads : ~list_empty(lists, h) =>
                              list_first(lists, h) \in Entries(lists, h)
         /\ \A g, h \in Heads : \A x :
              x \in Entries(lists, g) /\ x \in Entries(lists, h) => g = h
         /\ \A t : t \in Live <=> \E h \in WaitQueues \cup {runqueue} : t \in Entries(lists, h)
         /\ Idle \in Entries(lists, runqueue) /\ current \in Entries(lists, runqueue)
  <1>1. WellLinked(lists, Heads, Slots)
    BY DEF IInv, TypeOK, ListsPartition, WellLinked
  <1>2. \A t : t \in Live <=> \E h \in WaitQueues \cup {runqueue} : t \in Entries(lists, h)
    BY DEF Live, On
  <1>3. Idle \in Entries(lists, runqueue) /\ current \in Entries(lists, runqueue)
    BY DEF IInv, RunqueueNeverEmpty, On
  <1> QED BY <1>1, <1>2, <1>3, WellLinkedElim

(* A step that moves tasks from list to list keeps the partition.          *)
LEMMA MoveKeepsPartition ==
  ASSUME IInv, NEW M, M \subseteq Slots, NEW dest, dest \in Heads \/ MemoryMayRunOut,
         Moved(lists, lists', Heads, Slots, M, dest)
  PROVE  ListsPartition' /\ lists' \in [Heads -> Seq(Slots)]
  <1>1. PICK new : new = lists'
    OBVIOUS
  <1>2. /\ WellLinked(new, Heads, Slots)
        /\ \A h \in Heads : Entries(new, h) =
             IF h = dest THEN Entries(lists, h) \cup M ELSE Entries(lists, h) \ M
    BY <1>1 DEF Moved
  <1>3. new \in [Heads -> Seq(Slots)] /\ OnOneList(new) /\ DOMAIN new = Heads
    BY <1>2 DEF WellLinked
  <1>4. ASSUME ~MemoryMayRunOut PROVE Slots = Linked(new)
    <2>1. Slots = Linked(lists) /\ DOMAIN lists = Heads
      BY <1>4 DEF IInv, ListsPartition, TypeOK
    <2>2. \A t \in Slots : \E h \in Heads : t \in Entries(lists, h)
      BY <2>1 DEF Linked
    <2>3. \A t \in Slots : \E h \in Heads : t \in Entries(new, h)
      BY <1>2, <1>4, <2>2
    <2>4. \A h \in Heads : Entries(new, h) \subseteq Slots
      BY <1>2, WellLinkedElim
    <2> QED BY <1>3, <2>3, <2>4 DEF Linked
  <1> QED BY <1>1, <1>3, <1>4 DEF ListsPartition

(* The invariant but for the semaphores, which each wake-up handles in its *)
(* own way.                                                                *)
TaskInv == /\ ListsPartition
           /\ RunqueueNeverEmpty
           /\ StateMatchesList
           /\ QuantumInSync
           /\ UniquePids
           /\ WokenWithResult
           /\ InterruptsAcknowledged

TaskTypeOK == /\ lists \in [Heads -> Seq(Slots)]
              /\ current \in Slots
              /\ pid \in [Slots -> -1 .. MaxPid]
              /\ state \in [Slots -> Modes]
              /\ quantum \in [Slots -> 0 .. MaxQuantum]
              /\ remaining_quantum \in [Slots -> 0 .. MaxQuantum]
              /\ eax \in [Slots -> Results]
              /\ pid_counter \in 0 .. MaxPid
              /\ roundtics \in 0 .. MaxQuantum
              /\ eoi_from_interrupt \in BOOLEAN
              /\ in_service \in BOOLEAN

(* Waiters that join the run queue, while the current task goes on.        *)
LEMMA WakeStep ==
  ASSUME IInv, NEW M, M \subseteq Slots,
         \A t \in M : \E q \in WaitQueues : t \in Entries(lists, q),
         Moved(lists, lists', Heads, Slots, M, runqueue),
         NEW result \in Results \ {"number"},
         state' = Unblocked(M), eax' = Stored(M, result),
         UNCHANGED <<current, pid, quantum, remaining_quantum, pid_counter,
                     roundtics, picvars>>
  PROVE  TaskInv' /\ TaskTypeOK'
  <1> USE HeadFacts
  <1>1. PICK new : new = lists'
    OBVIOUS
  <1>2. /\ WellLinked(new, Heads, Slots)
        /\ \A h \in Heads : Entries(new, h) =
             IF h = runqueue THEN Entries(lists, h) \cup M ELSE Entries(lists, h) \ M
    BY <1>1 DEF Moved
  <1>3. ListsPartition' /\ lists' \in [Heads -> Seq(Slots)]
    BY MoveKeepsPartition
  <1>4. /\ \A g, h \in Heads : \A x :
             x \in Entries(lists, g) /\ x \in Entries(lists, h) => g = h
        /\ Idle \in Entries(lists, runqueue) /\ current \in Entries(lists, runqueue)
        /\ \A h \in Heads : Entries(lists, h) \subseteq Slots
    BY ListFacts
  <1>5. Idle \in Entries(new, runqueue) /\ current \in Entries(new, runqueue)
    BY <1>2, <1>4
  <1>6. current \notin M
    BY <1>4
  <1>7. /\ state' = [t \in Slots |-> IF t \in M THEN READY ELSE state[t]]
        /\ eax' = [t \in Slots |-> IF t \in M THEN result ELSE eax[t]]
    BY DEF Unblocked, Stored
  <1>8. \A t : (\E h \in WaitQueues \cup {runqueue} : t \in Entries(new, h))
             <=> (\E h \in WaitQueues \cup {runqueue} : t \in Entries(lists, h))
    BY <1>2
  <1>9. Live' = Live
    BY <1>1, <1>8 DEF Live, On
  <1>10. RunqueueNeverEmpty'
    BY <1>1, <1>5 DEF RunqueueNeverEmpty, On
  <1>11. StateMatchesList'
    <2>1. ASSUME NEW t \in Slots
          PROVE  state'[t] = BLOCKED <=> \E q \in WaitQueues : t \in Entries(new, q)
      <3>1. state[t] = BLOCKED <=> \E q \in WaitQueues : t \in Entries(lists, q)
        BY DEF IInv, StateMatchesList, On
      <3> QED BY <1>2, <1>7, <3>1 DEF READY, BLOCKED
    <2>2. state'[current'] = RUNNING
      BY <1>6, <1>7 DEF IInv, StateMatchesList, TypeOK
    <2> QED BY <1>1, <2>1, <2>2 DEF StateMatchesList, On
  <1>12. QuantumInSync'
    BY <1>9 DEF IInv, QuantumInSync
  <1>13. UniquePids'
    BY <1>9 DEF IInv, UniquePids
  <1>14. WokenWithResult'
    <2>1. ASSUME NEW t \in Entries(new, runqueue) PROVE eax'[t] # "number"
      <3>1. t \in Slots /\ (t \in M \/ t \in Entries(lists, runqueue))
        BY <1>2, <1>4
      <3> QED BY <1>7, <3>1 DEF IInv, WokenWithResult, On
    <2> QED BY <1>1, <2>1 DEF WokenWithResult, On
  <1>15. InterruptsAcknowledged'
    BY DEF IInv, InterruptsAcknowledged, picvars
  <1>16. TaskTypeOK'
    <2>1. state' \in [Slots -> Modes] /\ eax' \in [Slots -> Results]
      BY <1>7 DEF IInv, TypeOK, Modes
    <2> QED BY <1>3, <2>1 DEF IInv, TypeOK, TaskTypeOK, picvars
  <1> QED BY <1>3, <1>10, <1>11, <1>12, <1>13, <1>14, <1>15, <1>16 DEF TaskInv

(* A switch continues the first task of the run queue.                     *)
LEMMA Continue ==
  ASSUME TaskTypeOK, NEW ls, WellLinked(ls, Heads, Slots),
         Idle \in Entries(ls, runqueue),
         NEW st \in [Slots -> Modes], NEW rem \in [Slots -> 0 .. MaxQuantum],
         sched_continue(ls, st, rem)
  PROVE  /\ lists' = ls
         /\ current' \in Slots /\ current' \in Entries(ls, runqueue)
         /\ roundtics' = quantum[current']
         /\ remaining_quantum' \in [Slots -> 0 .. MaxQuantum]
         /\ remaining_quantum'[current'] = quantum[current']
         /\ state' = [st EXCEPT ![current'] = RUNNING]
         /\ roundtics' \in 0 .. MaxQuantum
  <1>1. lists' = ls
    BY DEF sched_continue
  <1>2. PICK tsk : tsk = list_first(ls, runqueue)
    OBVIOUS
  <1>3. tsk \in Slots /\ tsk \in Entries(ls, runqueue)
    BY <1>2, HeadFacts, WellLinkedElim
  <1>4. /\ current' = tsk /\ roundtics' = quantum[tsk]
        /\ remaining_quantum' = [rem EXCEPT ![tsk] = quantum[tsk]]
        /\ state' = [st EXCEPT ![tsk] = RUNNING]
    BY <1>2 DEF sched_continue
  <1>5. quantum[tsk] \in 0 .. MaxQuantum
    BY <1>3 DEF TaskTypeOK
  <1> QED BY <1>1, <1>3, <1>4, <1>5

(* A task other than the idle task blocks, and the next one continues.     *)
LEMMA BlockStep ==
  ASSUME IInv, NEW q \in WaitQueues, IsProcess, BlockOn(q)
  PROVE  /\ TaskInv' /\ TaskTypeOK'
         /\ Moved(lists, lists', Heads, Slots, {current}, q)
         /\ Live' = Live /\ pid' = pid
  <1> USE HeadFacts
  <1>1. /\ TaskTypeOK /\ ~in_service
        /\ current \in Slots /\ current # Idle
    BY DEF IInv, TypeOK, TaskTypeOK, InterruptsAcknowledged, UniquePids, IsProcess
  <1>2. /\ WellLinked(lists, Heads, Slots)
        /\ \A g, h \in Heads : \A x :
             x \in Entries(lists, g) /\ x \in Entries(lists, h) => g = h
        /\ Idle \in Entries(lists, runqueue) /\ current \in Entries(lists, runqueue)
        /\ \A h \in Heads : Entries(lists, h) \subseteq Slots
    BY ListFacts
  <1>3. PICK new : new = Requeue(lists, current, q)
    OBVIOUS
  <1>4. Moved(lists, new, Heads, Slots, {current}, q)
    BY <1>1, <1>2, <1>3, MoveOne DEF Requeue
  <1>5. /\ WellLinked(new, Heads, Slots)
        /\ \A h \in Heads : Entries(new, h) =
             IF h = q THEN Entries(lists, h) \cup {current}
             ELSE Entries(lists, h) \ {current}
    BY <1>4 DEF Moved
  <1>6. PICK st \in [Slots -> Modes] : st = [state EXCEPT ![current] = BLOCKED]
    BY <1>1 DEF TaskTypeOK, Modes
  <1>7. sched_continue(new, st, remaining_quantum)
    BY <1>3, <1>6 DEF BlockOn
  <1>8. /\ lists' = new
        /\ current' \in Slots /\ current' \in Entries(new, runqueue)
        /\ roundtics' = quantum[current']
        /\ remaining_quantum' \in [Slots -> 0 .. MaxQuantum]
        /\ remaining_quantum'[current'] = quantum[current']
        /\ state' = [st EXCEPT ![current'] = RUNNING]
        /\ roundtics' \in 0 .. MaxQuantum
    <2>1. remaining_quantum \in [Slots -> 0 .. MaxQuantum]
      BY <1>1 DEF TaskTypeOK
    <2>2. Idle \in Entries(new, runqueue)
      BY <1>1, <1>2, <1>5
    <2> QED BY <1>1, <1>5, <1>7, <2>1, <2>2, Continue
  <1>9. /\ eax' = [eax EXCEPT ![current] = "number"]
        /\ pid' = pid /\ quantum' = quantum /\ pid_counter' = pid_counter
        /\ in_service' = FALSE /\ eoi_from_interrupt' = FALSE
    BY <1>1 DEF BlockOn, task_switch
  <1>10. ListsPartition' /\ lists' \in [Heads -> Seq(Slots)]
    BY <1>1, <1>4, <1>8, MoveKeepsPartition
  <1>11. Live' = Live
    <2>1. \A t : (\E h \in WaitQueues \cup {runqueue} : t \in Entries(new, h))
                 <=> (\E h \in WaitQueues \cup {runqueue} : t \in Entries(lists, h))
      BY <1>2, <1>5
    <2> QED BY <1>8, <2>1 DEF Live, On
  <1>12. RunqueueNeverEmpty'
    BY <1>1, <1>2, <1>5, <1>8 DEF RunqueueNeverEmpty, On
  <1>13. StateMatchesList'
    <2>1. ASSUME NEW t \in Slots
          PROVE  state'[t] = BLOCKED <=> \E g \in WaitQueues : t \in Entries(new, g)
      <3>1. state[t] = BLOCKED <=> \E g \in WaitQueues : t \in Entries(lists, g)
        BY DEF IInv, StateMatchesList, On
      <3>2. CASE t = current'
        <4>1. ~ \E g \in WaitQueues : t \in Entries(new, g)
          BY <1>5, <1>8, <3>2, WellLinkedElim
        <4>2. state'[t] = RUNNING
          BY <1>8, <3>2
        <4> QED BY <4>1, <4>2 DEF RUNNING, BLOCKED
      <3>3. CASE t # current' /\ t = current
        <4>1. state'[t] = BLOCKED
          BY <1>1, <1>6, <1>8, <3>3 DEF TaskTypeOK
        <4> QED BY <4>1, <1>5, <3>3
      <3>4. CASE t # current' /\ t # current
        <4>1. state'[t] = state[t]
          BY <1>6, <1>8, <3>4
        <4> QED BY <4>1, <1>5, <3>1, <3>4
      <3> QED BY <3>2, <3>3, <3>4
    <2>2. state'[current'] = RUNNING
      BY <1>8
    <2> QED BY <1>8, <2>1, <2>2 DEF StateMatchesList, On
  <1>14. QuantumInSync'
    <2>1. current' \in Live
      BY <1>8, <1>11 DEF Live, On
    <2>2. \A t \in Live : quantum[t] >= 1
      BY DEF IInv, QuantumInSync
    <2> QED BY <1>8, <1>9, <1>11, <2>1, <2>2 DEF QuantumInSync
  <1>15. UniquePids'
    BY <1>9, <1>11 DEF IInv, UniquePids
  <1>16. WokenWithResult'
    <2>1. ASSUME NEW t \in Entries(new, runqueue) PROVE eax'[t] # "number"
      <3>1. t \in Slots /\ t # current /\ t \in Entries(lists, runqueue)
        BY <1>2, <1>5
      <3> QED BY <1>1, <1>9, <3>1 DEF IInv, WokenWithResult, On, TaskTypeOK
    <2> QED BY <1>8, <2>1 DEF WokenWithResult, On
  <1>17. InterruptsAcknowledged'
    BY <1>9 DEF InterruptsAcknowledged
  <1>18. TaskTypeOK'
    <2>1. state' \in [Slots -> Modes] /\ eax' \in [Slots -> Results]
      BY <1>1, <1>8, <1>9 DEF TaskTypeOK, Modes, Results
    <2> QED BY <1>1, <1>8, <1>9, <1>10, <2>1 DEF TaskTypeOK
  <1> QED BY <1>4, <1>8, <1>9, <1>10, <1>11, <1>12, <1>13, <1>14, <1>15, <1>16,
             <1>17, <1>18 DEF TaskInv

(* A tic, with or without the end of the turn.                             *)
LEMMA ClockStep ==
  ASSUME IInv, Clock
  PROVE  IInv'
  <1> USE HeadFacts
  <1>0. \A n \in 0 .. MaxQuantum : n >= 1 => n - 1 \in 0 .. MaxQuantum
    BY SchedulerAssumption
  <1>1. /\ TaskTypeOK /\ current \in Slots
        /\ roundtics >= 1 /\ roundtics = remaining_quantum[current]
    BY DEF IInv, TypeOK, TaskTypeOK, QuantumInSync
  <1>2. /\ WellLinked(lists, Heads, Slots)
        /\ \A g, h \in Heads : \A x :
             x \in Entries(lists, g) /\ x \in Entries(lists, h) => g = h
        /\ Idle \in Entries(lists, runqueue) /\ current \in Entries(lists, runqueue)
        /\ \A h \in Heads : Entries(lists, h) \subseteq Slots
    BY ListFacts
  <1>3. /\ pid' = pid /\ quantum' = quantum /\ eax' = eax
        /\ pid_counter' = pid_counter /\ sems' = sems
    BY DEF Clock
  <1>4. PICK rem \in [Slots -> 0 .. MaxQuantum] :
          rem = [remaining_quantum EXCEPT ![current] = @ - 1]
    <2>1. [remaining_quantum EXCEPT ![current] = @ - 1] \in [Slots -> 0 .. MaxQuantum]
      <3>1. remaining_quantum[current] - 1 \in 0 .. MaxQuantum
        <4>1. remaining_quantum[current] \in 0 .. MaxQuantum
          BY <1>1 DEF TaskTypeOK
        <4> QED BY <1>0, <1>1, <4>1
      <3> QED BY <1>1, <3>1 DEF TaskTypeOK
    <2> QED BY <2>1
  <1>5. CASE /\ ~sched_switch_needed(roundtics - 1)
             /\ roundtics' = roundtics - 1
             /\ remaining_quantum' = rem
             /\ eoi_from_interrupt' = TRUE
             /\ in_service' = FALSE
             /\ UNCHANGED <<lists, current, state>>
    <2>1. Live' = Live
      BY <1>5 DEF Live, On
    <2>2. ListsPartition' /\ RunqueueNeverEmpty' /\ InterruptsAcknowledged'
      BY <1>5 DEF IInv, ListsPartition, RunqueueNeverEmpty, On,
                  InterruptsAcknowledged
    <2>5. TypeOK'
      <3>1. roundtics' \in 0 .. MaxQuantum
        BY <1>0, <1>1, <1>5 DEF TaskTypeOK
      <3> QED BY <1>1, <1>3, <1>4, <1>5, <3>1 DEF IInv, TypeOK
    <2>3. QuantumInSync'
      <3>1. roundtics - 1 # 0 /\ roundtics \in Int
        BY <1>1, <1>5 DEF sched_switch_needed, TaskTypeOK
      <3>2. rem[current] = remaining_quantum[current] - 1
        BY <1>1, <1>4 DEF TaskTypeOK
      <3> QED BY <1>1, <1>3, <1>5, <2>1, <3>1, <3>2 DEF IInv, QuantumInSync
    <2>4. StateMatchesList' /\ WokenWithResult' /\ UniquePids' /\ NoForgottenWaiter'
      BY <1>3, <1>5, <2>1 DEF IInv, StateMatchesList, WokenWithResult, UniquePids,
                              NoForgottenWaiter, On
    <2> QED BY <2>2, <2>3, <2>4, <2>5 DEF IInv
  <1>6. CASE /\ sched_switch_needed(roundtics - 1)
             /\ sched_continue(Requeue(lists, current, runqueue),
                               [state EXCEPT ![current] = READY], rem)
             /\ task_switch(TRUE, TRUE)
    <2>1. PICK new : new = Requeue(lists, current, runqueue)
      OBVIOUS
    <2>2. Moved(lists, new, Heads, Slots, {current}, runqueue)
      BY <1>1, <1>2, <2>1, MoveOne DEF Requeue
    <2>3. /\ WellLinked(new, Heads, Slots)
          /\ \A h \in Heads : Entries(new, h) = Entries(lists, h)
      BY <1>2, <2>2 DEF Moved
    <2>4. PICK st \in [Slots -> Modes] : st = [state EXCEPT ![current] = READY]
      BY <1>1 DEF TaskTypeOK, Modes
    <2>5. sched_continue(new, st, rem)
      BY <1>6, <2>1, <2>4
    <2>6. /\ lists' = new
          /\ current' \in Slots /\ current' \in Entries(new, runqueue)
          /\ roundtics' = quantum[current']
          /\ remaining_quantum' \in [Slots -> 0 .. MaxQuantum]
          /\ remaining_quantum'[current'] = quantum[current']
          /\ state' = [st EXCEPT ![current'] = RUNNING]
          /\ roundtics' \in 0 .. MaxQuantum
      BY <1>1, <1>2, <2>3, <2>5, Continue
    <2>7. in_service' = FALSE /\ eoi_from_interrupt' = FALSE
      BY <1>6 DEF task_switch
    <2>8. ListsPartition' /\ lists' \in [Heads -> Seq(Slots)]
      BY <1>1, <2>2, <2>6, MoveKeepsPartition
    <2>9. /\ \A h \in Heads : Entries(lists', h) = Entries(lists, h)
          /\ Live' = Live
      BY <2>3, <2>6 DEF Live, On
    <2>10. RunqueueNeverEmpty'
      BY <1>2, <2>6, <2>9 DEF RunqueueNeverEmpty, On
    <2>11. StateMatchesList'
      <3>1. ASSUME NEW t \in Slots
            PROVE  state'[t] = BLOCKED <=> \E g \in WaitQueues : t \in Entries(lists, g)
        <4>1. state[t] = BLOCKED <=> \E g \in WaitQueues : t \in Entries(lists, g)
          BY DEF IInv, StateMatchesList, On
        <4>2. CASE t = current' \/ t = current
          <5>1. ~ \E g \in WaitQueues : t \in Entries(lists, g)
            BY <1>2, <2>3, <2>6, <4>2
          <5>2. state'[t] # BLOCKED
            BY <1>1, <2>4, <2>6, <4>2 DEF TaskTypeOK, READY, RUNNING, BLOCKED
          <5> QED BY <5>1, <5>2
        <4>3. CASE t # current' /\ t # current
          <5>1. state'[t] = state[t]
            BY <2>4, <2>6, <4>3
          <5> QED BY <4>1, <5>1
        <4> QED BY <4>2, <4>3
      <3> QED BY <2>6, <2>9, <3>1 DEF StateMatchesList, On
    <2>12. QuantumInSync'
      <3>1. current' \in Live
        BY <2>6, <2>9 DEF Live, On
      <3> QED BY <1>3, <2>6, <2>9, <3>1 DEF IInv, QuantumInSync
    <2>13. UniquePids' /\ WokenWithResult'
      BY <1>3, <2>9 DEF IInv, UniquePids, WokenWithResult, On
    <2>14. NoForgottenWaiter'
      <3>1. ASSUME NEW s \in Sems PROVE list_empty(lists', s) <=> list_empty(lists, s)
        <4>1. list_empty(new, s) <=> Entries(new, s) = {}
          BY <2>3, WellLinkedElim
        <4>2. list_empty(lists, s) <=> Entries(lists, s) = {}
          BY ListFacts
        <4> QED BY <2>3, <2>6, <4>1, <4>2
      <3> QED BY <1>3, <2>9, <3>1 DEF IInv, NoForgottenWaiter
    <2>15. TypeOK'
      <3>1. state' \in [Slots -> Modes]
        BY <2>6 DEF Modes
      <3> QED BY <1>1, <1>3, <2>6, <2>7, <2>8, <3>1 DEF IInv, TypeOK, TaskTypeOK
    <2>16. InterruptsAcknowledged'
      BY <2>7 DEF InterruptsAcknowledged
    <2> QED BY <2>8, <2>10, <2>11, <2>12, <2>13, <2>14, <2>15, <2>16 DEF IInv
  <1> QED BY <1>4, <1>5, <1>6 DEF Clock

(* The slot that fork takes.                                               *)
LEMMA FreeSlot ==
  ASSUME IInv, NEW child, child = list_first(lists, freequeue),
         ~list_empty(lists, freequeue)
  PROVE  /\ child \in Slots /\ child # current /\ child # Idle
         /\ child \in Entries(lists, freequeue)
         /\ \A h \in WaitQueues \cup {runqueue} : child \notin Entries(lists, h)
  <1>1. child \in Entries(lists, freequeue) /\ child \in Slots
    BY HeadFacts, ListFacts
  <1>2. \A h \in WaitQueues \cup {runqueue} : child \notin Entries(lists, h)
    BY <1>1, HeadFacts, ListFacts
  <1> QED BY <1>1, <1>2, ListFacts

(* Fork preserves the invariant.                                           *)
LEMMA ForkStep ==
  ASSUME IInv, sys_fork
  PROVE  IInv'
  <1> USE HeadFacts
  <1>1. PICK child : child = list_first(lists, freequeue)
    OBVIOUS
  <1>2. /\ ~list_empty(lists, freequeue)
        /\ pid_counter < MaxPid /\ pid_counter' = pid_counter + 1
        /\ lists' = list_add(list_del(lists, child), child, runqueue)
        /\ pid' = [pid EXCEPT ![child] = getNewPid]
        /\ state' = [state EXCEPT ![child] = state[current]]
        /\ quantum' = [quantum EXCEPT ![child] = quantum[current]]
        /\ remaining_quantum' = [remaining_quantum EXCEPT ![child] = quantum[current]]
        /\ eax' = [eax EXCEPT ![child] = "ok"]
        /\ UNCHANGED <<current, roundtics, sems, picvars>>
    BY <1>1 DEF sys_fork
  <1>3. /\ child \in Slots /\ child # current /\ child # Idle
        /\ child \in Entries(lists, freequeue)
        /\ \A h \in WaitQueues \cup {runqueue} : child \notin Entries(lists, h)
    BY <1>1, <1>2, FreeSlot
  <1>4. /\ WellLinked(lists, Heads, Slots)
        /\ Idle \in Entries(lists, runqueue) /\ current \in Entries(lists, runqueue)
        /\ \A h \in Heads : Entries(lists, h) \subseteq Slots
        /\ \A t : t \in Live <=>
             \E h \in WaitQueues \cup {runqueue} : t \in Entries(lists, h)
    BY ListFacts
  <1>5. PICK new : new = lists'
    OBVIOUS
  <1>6. Moved(lists, new, Heads, Slots, {child}, runqueue)
    BY <1>2, <1>3, <1>4, <1>5, MoveOne
  <1>7. /\ WellLinked(new, Heads, Slots)
        /\ \A h \in Heads : Entries(new, h) =
             IF h = runqueue THEN Entries(lists, h) \cup {child}
             ELSE Entries(lists, h) \ {child}
    BY <1>6 DEF Moved
  <1>8. ASSUME NEW s \in WaitQueues
        PROVE  Entries(new, s) = Entries(lists, s)
    <2>1. s \in Heads /\ s # runqueue /\ child \notin Entries(lists, s)
      BY <1>3
    <2>2. Entries(new, s) = Entries(lists, s) \ {child}
      BY <1>7, <2>1
    <2> QED BY <2>1, <2>2
  <1>9. ListsPartition' /\ lists' \in [Heads -> Seq(Slots)]
    BY <1>3, <1>5, <1>6, MoveKeepsPartition
  <1>10. Live' = Live \cup {child} /\ child \notin Live
    <2>1. \A t : (\E h \in WaitQueues \cup {runqueue} : t \in Entries(new, h))
                 <=> t = child \/ \E h \in WaitQueues \cup {runqueue} : t \in Entries(lists, h)
      BY <1>7, <1>8
    <2>2. \A t : t \in Live' <=>
                   \E h \in WaitQueues \cup {runqueue} : t \in Entries(new, h)
      BY <1>5 DEF Live, On
    <2> QED BY <1>3, <1>4, <2>1, <2>2
  <1>11. Live \subseteq Slots /\ current \in Live /\ current \in Slots
    BY <1>4 DEF IInv, TypeOK
  <1>12. TypeOK
    BY DEF IInv
  <1>13. RunqueueNeverEmpty'
    BY <1>2, <1>4, <1>5, <1>7 DEF RunqueueNeverEmpty, On
  <1>14. StateMatchesList'
    <2>1. state[current] = RUNNING
      BY DEF IInv, StateMatchesList
    <2>2. ASSUME NEW t \in Slots
          PROVE  state'[t] = BLOCKED <=> \E g \in WaitQueues : t \in Entries(new, g)
      <3>1. state[t] = BLOCKED <=> \E g \in WaitQueues : t \in Entries(lists, g)
        BY DEF IInv, StateMatchesList, On
      <3>2. CASE t = child
        BY <1>2, <1>3, <1>8, <1>12, <2>1, <3>2 DEF TypeOK, RUNNING, BLOCKED
      <3>3. CASE t # child
        BY <1>2, <1>8, <3>1, <3>3
      <3> QED BY <3>2, <3>3
    <2>3. state'[current'] = RUNNING
      BY <1>2, <1>3, <2>1
    <2> QED BY <1>5, <2>2, <2>3 DEF StateMatchesList, On
  <1>15. QuantumInSync'
    <2>1. quantum[current] >= 1
      BY <1>11 DEF IInv, QuantumInSync
    <2>2. \A t \in Live : quantum'[t] = quantum[t] /\ quantum[t] >= 1
      BY <1>2, <1>10 DEF IInv, QuantumInSync
    <2>3. quantum'[child] = quantum[current]
      BY <1>2, <1>3, <1>12 DEF TypeOK
    <2>4. remaining_quantum'[current] = remaining_quantum[current]
      BY <1>2, <1>3
    <2> QED BY <1>2, <1>10, <2>1, <2>2, <2>3, <2>4 DEF IInv, QuantumInSync
  <1>16. UniquePids'
    <2>1. pid_counter \in Nat
      BY <1>12, SchedulerAssumption DEF TypeOK
    <2>2. /\ \A t \in Live : pid'[t] = pid[t] /\ pid[t] \in 0 .. pid_counter
          /\ \A t, u \in Live : pid[t] = pid[u] => t = u
          /\ pid'[Idle] = 0
      BY <1>2, <1>3, <1>10 DEF IInv, UniquePids
    <2>3. pid'[child] = pid_counter + 1
      BY <1>2, <1>3, <1>12 DEF TypeOK, getNewPid
    <2>4. \A t, u \in Live' : pid'[t] = pid'[u] => t = u
      BY <1>10, <2>1, <2>2, <2>3
    <2>5. \A t \in Live' : pid'[t] \in 0 .. pid_counter'
      BY <1>2, <1>10, <2>1, <2>2, <2>3
    <2> QED BY <2>2, <2>4, <2>5 DEF UniquePids
  <1>17. NoForgottenWaiter'
    <2>1. ASSUME NEW s \in Sems PROVE list_empty(new, s) <=> list_empty(lists, s)
      <3>1. list_empty(new, s) <=> Entries(new, s) = {}
        BY <1>7, WellLinkedElim
      <3>2. list_empty(lists, s) <=> Entries(lists, s) = {}
        BY ListFacts
      <3> QED BY <1>8, <3>1, <3>2
    <2>2. \A t \in Live : t \in Live' /\ pid'[t] = pid[t]
      BY <1>2, <1>10
    <2> QED BY <1>2, <1>5, <2>1, <2>2 DEF IInv, NoForgottenWaiter
  <1>18. WokenWithResult'
    <2>1. ASSUME NEW t \in Entries(new, runqueue) PROVE eax'[t] # "number"
      <3>1. t = child \/ t \in Entries(lists, runqueue)
        BY <1>7
      <3> QED BY <1>2, <1>3, <1>12, <3>1 DEF IInv, WokenWithResult, On, TypeOK
    <2> QED BY <1>5, <2>1 DEF WokenWithResult, On
  <1>19. InterruptsAcknowledged'
    BY <1>2 DEF IInv, InterruptsAcknowledged, picvars
  <1>20. TypeOK'
    <2>1. /\ pid' \in [Slots -> -1 .. MaxPid] /\ pid_counter' \in 0 .. MaxPid
      <3>1. pid_counter + 1 \in -1 .. MaxPid /\ pid_counter + 1 \in 0 .. MaxPid
        BY <1>2, <1>12, SchedulerAssumption DEF TypeOK
      <3> QED BY <1>2, <1>12, <3>1 DEF TypeOK, getNewPid
    <2>2. /\ state' \in [Slots -> Modes] /\ eax' \in [Slots -> Results]
          /\ quantum' \in [Slots -> 0 .. MaxQuantum]
          /\ remaining_quantum' \in [Slots -> 0 .. MaxQuantum]
      BY <1>2, <1>12 DEF TypeOK, Results
    <2> QED BY <1>2, <1>9, <1>12, <2>1, <2>2 DEF TypeOK, picvars
  <1> QED BY <1>9, <1>13, <1>14, <1>15, <1>16, <1>17, <1>18, <1>19, <1>20 DEF IInv

(* A fork that fails half-way takes the slot from freequeue and keeps it.  *)
LEMMA ForkFailsStep ==
  ASSUME IInv, sys_fork_ENOMEM
  PROVE  IInv'
  <1> USE HeadFacts
  <1>1. PICK child : child = list_first(lists, freequeue)
    OBVIOUS
  <1>2. /\ ~list_empty(lists, freequeue) /\ MemoryMayRunOut
        /\ lists' = list_del(lists, child)
        /\ pid' = [pid EXCEPT ![child] = pid[current]]
        /\ state' = [state EXCEPT ![child] = state[current]]
        /\ quantum' = [quantum EXCEPT ![child] = quantum[current]]
        /\ remaining_quantum' =
             [remaining_quantum EXCEPT ![child] = remaining_quantum[current]]
        /\ eax' = [eax EXCEPT ![child] = "number"]
        /\ UNCHANGED <<current, pid_counter, roundtics, sems, picvars>>
    BY <1>1 DEF sys_fork_ENOMEM
  <1>3. /\ child \in Slots /\ child # current /\ child # Idle
        /\ child \in Entries(lists, freequeue)
        /\ \A h \in WaitQueues \cup {runqueue} : child \notin Entries(lists, h)
    BY <1>1, <1>2, FreeSlot
  <1>4. /\ WellLinked(lists, Heads, Slots)
        /\ Idle \in Entries(lists, runqueue) /\ current \in Entries(lists, runqueue)
        /\ \A h \in Heads : Entries(lists, h) \subseteq Slots
        /\ \A t : t \in Live <=>
             \E h \in WaitQueues \cup {runqueue} : t \in Entries(lists, h)
    BY ListFacts
  <1>5. PICK new : new = lists'
    OBVIOUS
  <1>6. Moved(lists, new, Heads, Slots, {child}, -1)
    BY <1>2, <1>3, <1>4, <1>5, MoveAway
  <1>7. /\ WellLinked(new, Heads, Slots)
        /\ \A h \in Heads : Entries(new, h) = Entries(lists, h) \ {child}
    BY <1>6 DEF Moved
  <1>8. ASSUME NEW h \in WaitQueues \cup {runqueue}
        PROVE  Entries(new, h) = Entries(lists, h)
    <2>1. h \in Heads /\ child \notin Entries(lists, h)
      BY <1>3
    <2>2. Entries(new, h) = Entries(lists, h) \ {child}
      BY <1>7, <2>1
    <2> QED BY <2>1, <2>2
  <1>9. ListsPartition' /\ lists' \in [Heads -> Seq(Slots)]
    BY <1>2, <1>3, <1>5, <1>6, MoveKeepsPartition
  <1>10. Live' = Live /\ child \notin Live
    <2>1. \A t : t \in Live' <=>
                   \E h \in WaitQueues \cup {runqueue} : t \in Entries(new, h)
      BY <1>5 DEF Live, On
    <2> QED BY <1>3, <1>4, <1>8, <2>1
  <1>12. TypeOK
    BY DEF IInv
  <1>13. RunqueueNeverEmpty'
    BY <1>2, <1>4, <1>5, <1>8 DEF RunqueueNeverEmpty, On
  <1>14. StateMatchesList'
    <2>1. state[current] = RUNNING
      BY DEF IInv, StateMatchesList
    <2>2. ASSUME NEW t \in Slots
          PROVE  state'[t] = BLOCKED <=> \E g \in WaitQueues : t \in Entries(new, g)
      <3>1. state[t] = BLOCKED <=> \E g \in WaitQueues : t \in Entries(lists, g)
        BY DEF IInv, StateMatchesList, On
      <3>2. CASE t = child
        BY <1>2, <1>3, <1>8, <1>12, <2>1, <3>2 DEF TypeOK, RUNNING, BLOCKED
      <3>3. CASE t # child
        BY <1>2, <1>8, <3>1, <3>3
      <3> QED BY <3>2, <3>3
    <2>3. state'[current'] = RUNNING
      BY <1>2, <1>3, <2>1
    <2> QED BY <1>5, <2>2, <2>3 DEF StateMatchesList, On
  <1>15. QuantumInSync'
    <2>1. \A t \in Live : quantum'[t] = quantum[t]
      BY <1>2, <1>10
    <2>2. remaining_quantum'[current] = remaining_quantum[current]
      BY <1>2, <1>3
    <2> QED BY <1>2, <1>10, <2>1, <2>2 DEF IInv, QuantumInSync
  <1>16. UniquePids'
    <2>1. (\A t \in Live : pid'[t] = pid[t]) /\ pid'[Idle] = pid[Idle]
      BY <1>2, <1>3, <1>10
    <2> QED BY <1>2, <1>10, <2>1 DEF IInv, UniquePids
  <1>17. NoForgottenWaiter'
    <2>1. ASSUME NEW s \in Sems PROVE list_empty(new, s) <=> list_empty(lists, s)
      <3>1. list_empty(new, s) <=> Entries(new, s) = {}
        BY <1>7, WellLinkedElim
      <3>2. list_empty(lists, s) <=> Entries(lists, s) = {}
        BY ListFacts
      <3> QED BY <1>8, <3>1, <3>2
    <2>2. \A t \in Live : pid'[t] = pid[t]
      BY <1>2, <1>10
    <2> QED BY <1>2, <1>5, <1>10, <2>1, <2>2 DEF IInv, NoForgottenWaiter
  <1>18. WokenWithResult'
    <2>1. ASSUME NEW t \in Entries(new, runqueue) PROVE eax'[t] # "number"
      BY <1>2, <1>3, <1>8 DEF IInv, WokenWithResult, On
    <2> QED BY <1>5, <2>1 DEF WokenWithResult, On
  <1>19. InterruptsAcknowledged'
    BY <1>2 DEF IInv, InterruptsAcknowledged, picvars
  <1>20. TypeOK'
    <2>1. /\ pid' \in [Slots -> -1 .. MaxPid]
          /\ state' \in [Slots -> Modes] /\ eax' \in [Slots -> Results]
          /\ quantum' \in [Slots -> 0 .. MaxQuantum]
          /\ remaining_quantum' \in [Slots -> 0 .. MaxQuantum]
      BY <1>2, <1>12 DEF TypeOK, Results
    <2> QED BY <1>2, <1>9, <1>12, <2>1 DEF TypeOK, picvars
  <1> QED BY <1>9, <1>13, <1>14, <1>15, <1>16, <1>17, <1>18, <1>19, <1>20 DEF IInv

(* Exit wakes the waiters of the semaphores of the process and gives up    *)
(* its slot.                                                               *)
LEMMA ExitStep ==
  ASSUME IInv, sys_exit
  PROVE  IInv'
  <1> USE HeadFacts
  <1>1. PICK p : p = pid[current]
    OBVIOUS
  <1>2. PICK owned : owned = {s \in Sems : sems[s].owner = p}
    OBVIOUS
  <1>3. PICK W : W = UNION {On(s) : s \in owned}
    OBVIOUS
  <1>4. PICK rel : rel = Released(p)
    OBVIOUS
  <1>5. PICK new : new = list_add(list_del(rel, current), current, freequeue)
    OBVIOUS
  <1>6. PICK st : st = Unblocked(W)
    OBVIOUS
  <1>7. /\ IsProcess
        /\ sems' = [s \in Sems |-> IF s \in owned
                      THEN [sems[s] EXCEPT !.owner = FREE_SEM] ELSE sems[s]]
        /\ pid' = [pid EXCEPT ![current] = NULL_PID]
        /\ eax' = Stored(W, "error")
        /\ sched_continue(new, st, remaining_quantum)
        /\ task_switch(in_service, eoi_from_interrupt)
        /\ quantum' = quantum /\ pid_counter' = pid_counter
    BY <1>1, <1>2, <1>3, <1>4, <1>5, <1>6 DEF sys_exit
  <1>8. /\ TaskTypeOK /\ ~in_service /\ TypeOK
        /\ current \in Slots /\ current # Idle /\ pid[Idle] = 0
    BY <1>7 DEF IInv, TypeOK, TaskTypeOK, InterruptsAcknowledged, UniquePids, IsProcess
  <1>9. /\ WellLinked(lists, Heads, Slots)
        /\ \A g, h \in Heads : \A x :
             x \in Entries(lists, g) /\ x \in Entries(lists, h) => g = h
        /\ Idle \in Entries(lists, runqueue) /\ current \in Entries(lists, runqueue)
        /\ \A h \in Heads : Entries(lists, h) \subseteq Slots
        /\ \A t : t \in Live <=>
             \E h \in WaitQueues \cup {runqueue} : t \in Entries(lists, h)
    BY ListFacts
  (* The lists. *)
  <1>10. /\ W \subseteq Slots /\ current \notin W /\ Idle \notin W
         /\ \A t \in W : \E s \in owned : t \in Entries(lists, s)
         /\ \A s \in owned : Entries(lists, s) \subseteq W
         /\ owned \subseteq Sems
    <2>1. \A t : t \in W <=> \E s \in owned : t \in Entries(lists, s)
      BY <1>3 DEF On
    <2>2. owned \subseteq Sems /\ owned \subseteq Heads /\ runqueue \notin owned
      BY <1>2
    <2> QED BY <1>9, <2>1, <2>2
  <1>11. Moved(lists, rel, Heads, Slots, W, runqueue)
    <2>1. W = Waiters(NrSem, p)
      BY <1>2, <1>3 DEF Waiters, Sems
    <2> QED BY <1>4, <1>9, <2>1, ReleasedMoves
  <1>12. /\ WellLinked(rel, Heads, Slots)
         /\ \A h \in Heads : Entries(rel, h) =
              IF h = runqueue THEN Entries(lists, h) \cup W ELSE Entries(lists, h) \ W
    BY <1>11 DEF Moved
  <1>13. Moved(rel, new, Heads, Slots, {current}, freequeue)
    BY <1>5, <1>8, <1>12, MoveOne
  <1>14. /\ WellLinked(new, Heads, Slots)
         /\ \A h \in Heads : Entries(new, h) =
              IF h = freequeue THEN Entries(rel, h) \cup {current}
              ELSE Entries(rel, h) \ {current}
    BY <1>13 DEF Moved
  <1>15. /\ Entries(new, runqueue) = (Entries(lists, runqueue) \cup W) \ {current}
         /\ Entries(new, freequeue) = (Entries(lists, freequeue) \ W) \cup {current}
    BY <1>12, <1>14
  <1>16. ASSUME NEW q \in WaitQueues
         PROVE  Entries(new, q) = Entries(lists, q) \ W
    <2>1. q \in Heads /\ q # runqueue /\ q # freequeue
      OBVIOUS
    <2>2. Entries(new, q) = (Entries(lists, q) \ W) \ {current}
      BY <1>12, <1>14, <2>1
    <2>3. current \notin Entries(lists, q)
      BY <1>9, <2>1
    <2> QED BY <2>2, <2>3
  <1>17. /\ lists' = new
         /\ current' \in Slots /\ current' \in Entries(new, runqueue)
         /\ roundtics' = quantum[current']
         /\ remaining_quantum' \in [Slots -> 0 .. MaxQuantum]
         /\ remaining_quantum'[current'] = quantum[current']
         /\ state' = [st EXCEPT ![current'] = RUNNING]
         /\ roundtics' \in 0 .. MaxQuantum
    <2>1. remaining_quantum \in [Slots -> 0 .. MaxQuantum] /\ st \in [Slots -> Modes]
      BY <1>6, <1>8 DEF TaskTypeOK, Unblocked, Modes
    <2>2. Idle \in Entries(new, runqueue)
      BY <1>8, <1>9, <1>15
    <2> QED BY <1>7, <1>8, <1>14, <2>1, <2>2, Continue
  <1>18. ListsPartition' /\ lists' \in [Heads -> Seq(Slots)]
    <2>1. new \in [Heads -> Seq(Slots)] /\ OnOneList(new) /\ DOMAIN new = Heads
      BY <1>14 DEF WellLinked
    <2>2. ASSUME ~MemoryMayRunOut PROVE Slots = Linked(new)
      <3>1. Slots = Linked(lists) /\ DOMAIN lists = Heads
        BY <1>8, <2>2 DEF IInv, ListsPartition, TypeOK
      <3>2. \A t \in Slots : \E h \in Heads : t \in Entries(lists, h)
        BY <3>1 DEF Linked
      <3>3. \A t \in Slots : \E h \in Heads : t \in Entries(rel, h)
        BY <1>12, <3>2
      <3>4. \A t \in Slots : \E h \in Heads : t \in Entries(new, h)
        BY <1>14, <3>3
      <3>5. \A h \in Heads : Entries(new, h) \subseteq Slots
        BY <1>14, WellLinkedElim
      <3> QED BY <2>1, <3>4, <3>5 DEF Linked
    <2> QED BY <1>17, <2>1, <2>2 DEF ListsPartition
  <1>19. Live' = Live \ {current} /\ current' \in Live' /\ Idle \in Live'
    <2>1. \A t : t \in Live' <=>
                   \E h \in WaitQueues \cup {runqueue} : t \in Entries(new, h)
      BY <1>17 DEF Live, On
    <2>2. ASSUME NEW t
          PROVE  (\E h \in WaitQueues \cup {runqueue} : t \in Entries(new, h)) <=>
                 /\ t # current
                 /\ \E h \in WaitQueues \cup {runqueue} : t \in Entries(lists, h)
      <3>1. CASE t \in W
        <4>1. t \in Entries(new, runqueue) /\ t # current
          BY <1>10, <1>15, <3>1
        <4>2. \E h \in WaitQueues : t \in Entries(lists, h)
          BY <1>10, <3>1
        <4> QED BY <4>1, <4>2
      <3>2. CASE t \notin W
        <4>1. \A h \in WaitQueues : t \in Entries(new, h) <=> t \in Entries(lists, h)
          BY <1>16, <3>2
        <4>2. t \in Entries(new, runqueue) <=> t \in Entries(lists, runqueue) /\ t # current
          BY <1>15, <3>2
        <4>3. \A h \in WaitQueues : current \notin Entries(lists, h)
          BY <1>9
        <4> QED BY <4>1, <4>2, <4>3
      <3> QED BY <3>1, <3>2
    <2> QED BY <1>8, <1>9, <1>15, <1>17, <2>1, <2>2
  (* The tasks. *)
  <1>20. RunqueueNeverEmpty'
    BY <1>8, <1>9, <1>15, <1>17 DEF RunqueueNeverEmpty, On
  <1>21. /\ st = [t \in Slots |-> IF t \in W THEN READY ELSE state[t]]
         /\ eax' = [t \in Slots |-> IF t \in W THEN "error" ELSE eax[t]]
    BY <1>6, <1>7 DEF Unblocked, Stored
  <1>22. StateMatchesList'
    <2>1. ASSUME NEW t \in Slots
          PROVE  state'[t] = BLOCKED <=> \E g \in WaitQueues : t \in Entries(new, g)
      <3>1. state[t] = BLOCKED <=> \E g \in WaitQueues : t \in Entries(lists, g)
        BY DEF IInv, StateMatchesList, On
      <3>2. (\E g \in WaitQueues : t \in Entries(new, g)) <=>
            t \notin W /\ \E g \in WaitQueues : t \in Entries(lists, g)
        BY <1>16
      <3>3. CASE t = current'
        <4>1. ~ \E g \in WaitQueues : t \in Entries(new, g)
          BY <1>14, <1>17, <3>3, WellLinkedElim
        <4>2. state'[t] = RUNNING
          BY <1>17, <1>21, <3>3
        <4> QED BY <4>1, <4>2 DEF RUNNING, BLOCKED
      <3>4. CASE t # current'
        <4>1. state'[t] = IF t \in W THEN READY ELSE state[t]
          BY <1>17, <1>21, <3>4
        <4> QED BY <4>1, <3>1, <3>2 DEF READY, BLOCKED
      <3> QED BY <3>3, <3>4
    <2>2. state'[current'] = RUNNING
      BY <1>17, <1>21
    <2> QED BY <1>17, <2>1, <2>2 DEF StateMatchesList, On
  <1>23. QuantumInSync'
    BY <1>7, <1>17, <1>19 DEF IInv, QuantumInSync
  <1>24. UniquePids'
    <2>1. \A t \in Live' : pid'[t] = pid[t] /\ t \in Live
      BY <1>7, <1>19
    <2>2. pid'[Idle] = 0
      BY <1>7, <1>8
    <2> QED BY <1>7, <2>1, <2>2 DEF IInv, UniquePids
  <1>25. WokenWithResult'
    <2>1. ASSUME NEW t \in Entries(new, runqueue) PROVE eax'[t] # "number"
      <3>1. t \in Slots /\ (t \in W \/ t \in Entries(lists, runqueue))
        BY <1>9, <1>10, <1>15
      <3> QED BY <1>21, <3>1 DEF IInv, WokenWithResult, On
    <2> QED BY <1>17, <2>1 DEF WokenWithResult, On
  <1>26. InterruptsAcknowledged' /\ eoi_from_interrupt' = FALSE /\ in_service' = FALSE
    BY <1>7, <1>8 DEF InterruptsAcknowledged, task_switch
  (* The semaphores. *)
  <1>27. NoForgottenWaiter'
    <2> SUFFICES ASSUME NEW s \in Sems
                 PROVE  /\ ~list_empty(new, s) =>
                             sems'[s].owner # FREE_SEM /\ sems'[s].value <= 0
                        /\ sems'[s].owner # FREE_SEM =>
                             \E t \in Live' : pid'[t] = sems'[s].owner
      BY <1>17 DEF NoForgottenWaiter
    <2>1. /\ list_empty(new, s) <=> Entries(new, s) = {}
          /\ list_empty(lists, s) <=> Entries(lists, s) = {}
      BY <1>14, ListFacts, WellLinkedElim
    <2>2. /\ ~list_empty(lists, s) => sems[s].owner # FREE_SEM /\ sems[s].value <= 0
          /\ sems[s].owner # FREE_SEM => \E t \in Live : pid[t] = sems[s].owner
      BY DEF IInv, NoForgottenWaiter
    <2>3. CASE s \in owned
      <3>1. Entries(new, s) = {}
        BY <1>10, <1>16, <2>3
      <3>2. sems[s] \in [owner : -1 .. MaxPid, value : -MaxInt-1 .. MaxInt]
        BY <1>8 DEF TypeOK
      <3>3. sems'[s].owner = FREE_SEM
        BY <1>7, <2>3, <3>2
      <3> QED BY <2>1, <3>1, <3>3
    <2>4. CASE s \notin owned
      <3>1. sems'[s] = sems[s] /\ sems[s].owner # p
        BY <1>2, <1>7, <2>4
      <3>2. Entries(new, s) \subseteq Entries(lists, s)
        BY <1>16
      <3>3. ASSUME NEW t \in Live, pid[t] = sems[s].owner
            PROVE  t \in Live' /\ pid'[t] = sems[s].owner
        <4>1. t # current
          BY <1>1, <3>1, <3>3
        <4>2. t \in Live' /\ pid'[t] = pid[t]
          BY <1>7, <1>19, <4>1
        <4> QED BY <3>3, <4>2
      <3> QED BY <2>1, <2>2, <3>1, <3>2, <3>3
    <2> QED BY <2>3, <2>4
  <1>28. TypeOK'
    <2>1. /\ pid' \in [Slots -> -1 .. MaxPid]
          /\ state' \in [Slots -> Modes] /\ eax' \in [Slots -> Results]
      <3>1. -1 \in -1 .. MaxPid
        BY SchedulerAssumption
      <3> QED BY <1>7, <1>8, <1>17, <1>21, <3>1 DEF TypeOK, NULL_PID, Modes, Results
    <2>2. sems' \in [Sems -> [owner : -1 .. MaxPid, value : -MaxInt-1 .. MaxInt]]
      <3>1. \A s \in Sems : sems[s] \in [owner : -1 .. MaxPid, value : -MaxInt-1 .. MaxInt]
        BY <1>8 DEF TypeOK
      <3>2. FREE_SEM \in -1 .. MaxPid
        BY SchedulerAssumption DEF FREE_SEM
      <3> QED BY <1>7, <3>1, <3>2
    <2> QED BY <1>7, <1>8, <1>17, <1>18, <1>26, <2>1, <2>2 DEF TypeOK
  <1> QED BY <1>18, <1>20, <1>22, <1>23, <1>24, <1>25, <1>26, <1>27, <1>28 DEF IInv

(* The task part and the semaphore part make the whole.                    *)
LEMMA IInvParts ==
  ASSUME TaskInv, TaskTypeOK, NoForgottenWaiter,
         sems \in [Sems -> [owner : -1 .. MaxPid, value : -MaxInt-1 .. MaxInt]]
  PROVE  IInv
  BY DEF TaskInv, TaskTypeOK, TypeOK, IInv

(* The parts of the invariant that the steps of semaphores rest on.        *)
LEMMA IInvSplit ==
  ASSUME IInv
  PROVE  /\ TaskInv /\ TaskTypeOK
         /\ sems \in [Sems -> [owner : -1 .. MaxPid, value : -MaxInt-1 .. MaxInt]]
  BY DEF TaskInv, TaskTypeOK, TypeOK, IInv

(* NoForgottenWaiter in terms of the entries of the queues.                *)
LEMMA ForgottenIntro ==
  ASSUME WellLinked(lists, Heads, Slots),
         \A s \in Sems :
           /\ Entries(lists, s) # {} => sems[s].owner # FREE_SEM /\ sems[s].value <= 0
           /\ sems[s].owner # FREE_SEM => \E t \in Live : pid[t] = sems[s].owner
  PROVE  NoForgottenWaiter
  <1>1. \A s \in Sems : list_empty(lists, s) <=> Entries(lists, s) = {}
    BY HeadFacts, WellLinkedElim
  <1> QED BY <1>1 DEF NoForgottenWaiter

(* What NoForgottenWaiter says of one semaphore.                           *)
LEMMA ForgottenElim ==
  ASSUME IInv, NEW s \in Sems
  PROVE  /\ Entries(lists, s) # {} => sems[s].owner # FREE_SEM /\ sems[s].value <= 0
         /\ sems[s].owner # FREE_SEM => \E t \in Live : pid[t] = sems[s].owner
         /\ list_empty(lists, s) <=> Entries(lists, s) = {}
  BY HeadFacts, ListFacts DEF IInv, NoForgottenWaiter

(* A change of one semaphore that leaves lists and tasks alone.            *)
LEMMA SemStep ==
  ASSUME IInv, UNCHANGED <<lists, current, taskvars, pid_counter, roundtics, picvars>>,
         NEW s \in Sems, Entries(lists, s) = {},
         NEW rec \in [owner : -1 .. MaxPid, value : -MaxInt-1 .. MaxInt],
         rec.owner # FREE_SEM, \E t \in Live : pid[t] = rec.owner,
         sems' = [sems EXCEPT ![s] = rec]
  PROVE  IInv'
  <1>1. Live' = Live
    BY DEF Live, On
  <1>2. TaskInv' /\ TaskTypeOK'
    BY <1>1, IInvSplit
       DEF TaskInv, TaskTypeOK, taskvars, picvars, ListsPartition, RunqueueNeverEmpty,
           StateMatchesList, QuantumInSync, UniquePids, WokenWithResult,
           InterruptsAcknowledged, On
  <1>3. sems \in [Sems -> [owner : -1 .. MaxPid, value : -MaxInt-1 .. MaxInt]]
    BY IInvSplit
  <1>4. sems' \in [Sems -> [owner : -1 .. MaxPid, value : -MaxInt-1 .. MaxInt]]
    BY <1>3
  <1>5. NoForgottenWaiter'
    <2>1. WellLinked(lists, Heads, Slots)
      BY ListFacts
    <2>2. \A r \in Sems :
            /\ Entries(lists, r) # {} => sems'[r].owner # FREE_SEM /\ sems'[r].value <= 0
            /\ sems'[r].owner # FREE_SEM => \E t \in Live : pid[t] = sems'[r].owner
      BY <1>3, ForgottenElim
    <2>3. \A r \in Sems : list_empty(lists, r) <=> Entries(lists, r) = {}
      BY HeadFacts, ListFacts
    <2> QED BY <1>1, <2>2, <2>3 DEF NoForgottenWaiter, taskvars
  <1> QED BY <1>2, <1>4, <1>5 DEF TaskInv, TaskTypeOK, TypeOK, IInv

(* The values an int can take.                                             *)
LEMMA IntValues ==
  /\ \A u \in 0 .. 2*MaxInt+1 : ToInt(u) \in -MaxInt-1 .. MaxInt
  /\ \A n \in -MaxInt-1 .. MaxInt : Increment(n) \in -MaxInt-1 .. MaxInt
  /\ \A n \in -MaxInt-1 .. MaxInt : n > 0 => n - 1 \in -MaxInt-1 .. MaxInt
  BY SchedulerAssumption DEF ToInt, Increment

(* sem_init preserves the invariant.                                       *)
LEMMA SemInitStep ==
  ASSUME IInv, NEW s \in Sems, NEW value \in 0 .. 2*MaxInt+1, sys_sem_init(s, value)
  PROVE  IInv'
  <1>1. Entries(lists, s) = {} /\ sems[s].owner = FREE_SEM
    BY ForgottenElim DEF sys_sem_init
  <1>2. lists' = lists
    <2>1. lists[s] = <<>>
      BY <1>1, ForgottenElim DEF list_empty
    <2>2. lists \in [Heads -> Seq(Slots)]
      BY DEF IInv, TypeOK
    <2> QED BY <2>1, <2>2 DEF sys_sem_init, INIT_LIST_HEAD
  <1>3. current \in Live /\ pid[current] \in 0 .. pid_counter /\ pid_counter \in 0 .. MaxPid
    BY ListFacts DEF IInv, TypeOK, UniquePids
  <1>4. PICK rec : rec = [owner |-> pid[current], value |-> ToInt(value)]
    OBVIOUS
  <1>5. /\ rec \in [owner : -1 .. MaxPid, value : -MaxInt-1 .. MaxInt]
        /\ rec.owner # FREE_SEM /\ rec.owner = pid[current]
    <2>1. pid[current] \in -1 .. MaxPid /\ pid[current] # -1
      BY <1>3, SchedulerAssumption
    <2>2. ToInt(value) \in -MaxInt-1 .. MaxInt
      BY IntValues
    <2> QED BY <1>4, <2>1, <2>2 DEF FREE_SEM
  <1>6. sems' = [sems EXCEPT ![s] = rec]
    BY <1>4 DEF sys_sem_init
  <1>7. UNCHANGED <<lists, current, taskvars, pid_counter, roundtics, picvars>>
    BY <1>2 DEF sys_sem_init
  <1> QED BY <1>1, <1>3, <1>5, <1>6, <1>7, SemStep

(* sem_wait preserves the invariant.                                       *)
LEMMA SemWaitStep ==
  ASSUME IInv, NEW s \in Sems, sys_sem_wait(s)
  PROVE  IInv'
  <1>1. /\ sems \in [Sems -> [owner : -1 .. MaxPid, value : -MaxInt-1 .. MaxInt]]
        /\ sems[s] \in [owner : -1 .. MaxPid, value : -MaxInt-1 .. MaxInt]
    BY IInvSplit
  <1>2. sems[s].owner # FREE_SEM /\ IsProcess
    BY DEF sys_sem_wait
  <1>3. CASE /\ sems[s].value > 0
             /\ sems' = [sems EXCEPT ![s].value = @ - 1]
             /\ UNCHANGED <<lists, current, taskvars, pid_counter, roundtics, picvars>>
    <2>1. PICK rec : rec = [sems[s] EXCEPT !.value = @ - 1]
      OBVIOUS
    <2>2. /\ rec \in [owner : -1 .. MaxPid, value : -MaxInt-1 .. MaxInt]
          /\ rec.owner = sems[s].owner
      <3>1. sems[s].value - 1 \in -MaxInt-1 .. MaxInt
        BY <1>1, <1>3, IntValues
      <3> QED BY <1>1, <2>1, <3>1
    <2>3. sems' = [sems EXCEPT ![s] = rec]
      BY <1>3, <2>1
    <2>4. Entries(lists, s) = {}
      BY <1>1, <1>3, ForgottenElim
    <2>5. rec.owner # FREE_SEM /\ \E t \in Live : pid[t] = rec.owner
      BY <1>2, <2>2, ForgottenElim
    <2> QED BY <1>3, <2>2, <2>3, <2>4, <2>5, SemStep
  <1>4. CASE ~(sems[s].value > 0) /\ BlockOn(s) /\ UNCHANGED sems
    <2>1. /\ TaskInv' /\ TaskTypeOK'
          /\ Moved(lists, lists', Heads, Slots, {current}, s)
          /\ Live' = Live /\ pid' = pid
      BY <1>2, <1>4, HeadFacts, BlockStep
    <2>2. PICK new : new = lists'
      OBVIOUS
    <2>3. /\ WellLinked(new, Heads, Slots)
          /\ \A h \in Heads : Entries(new, h) =
               IF h = s THEN Entries(lists, h) \cup {current}
               ELSE Entries(lists, h) \ {current}
      BY <2>1, <2>2 DEF Moved
    <2>4. ASSUME NEW r \in Sems
          PROVE  /\ ~list_empty(new, r) => sems[r].owner # FREE_SEM /\ sems[r].value <= 0
                 /\ sems[r].owner # FREE_SEM => \E t \in Live : pid[t] = sems[r].owner
      <3>1. r \in Heads
        BY HeadFacts
      <3>2. list_empty(new, r) <=> Entries(new, r) = {}
        BY <2>3, <3>1, WellLinkedElim
      <3>3. sems[r].value \in Int
        BY <1>1, SchedulerAssumption
      <3>4. CASE r = s
        BY <1>2, <1>4, <3>3, <3>4, ForgottenElim
      <3>5. CASE r # s
        <4>1. Entries(new, r) \subseteq Entries(lists, r)
          BY <2>3, <3>1, <3>5
        <4> QED BY <3>2, <4>1, ForgottenElim
      <3> QED BY <3>4, <3>5
    <2>5. NoForgottenWaiter'
      BY <1>4, <2>1, <2>2, <2>4 DEF NoForgottenWaiter
    <2> QED BY <1>1, <1>4, <2>1, <2>5 DEF TaskInv, TaskTypeOK, TypeOK, IInv
  <1> QED BY <1>3, <1>4 DEF sys_sem_wait

(* Waking the first waiter of a queue.                                     *)
LEMMA WakeFirstStep ==
  ASSUME IInv, NEW q \in WaitQueues, ~list_empty(lists, q),
         NEW result \in Results \ {"number"}, WakeFirst(q, result),
         UNCHANGED <<current, pid, quantum, remaining_quantum, pid_counter,
                     roundtics, picvars, sems>>
  PROVE  IInv'
  <1> USE HeadFacts
  <1>1. PICK tsk : tsk = list_first(lists, q)
    OBVIOUS
  <1>2. /\ WellLinked(lists, Heads, Slots)
        /\ tsk \in Entries(lists, q) /\ tsk \in Slots
    BY <1>1, ListFacts
  <1>3. /\ lists' = Requeue(lists, tsk, runqueue)
        /\ state' = Unblocked({tsk}) /\ eax' = Stored({tsk}, result)
    BY <1>1 DEF WakeFirst
  <1>4. PICK new : new = lists'
    OBVIOUS
  <1>5. Moved(lists, new, Heads, Slots, {tsk}, runqueue)
    BY <1>2, <1>3, <1>4, MoveOne DEF Requeue
  <1>6. TaskInv' /\ TaskTypeOK'
    <2>1. PICK M : M = {tsk}
      OBVIOUS
    <2>2. M \subseteq Slots /\ \A t \in M : \E w \in WaitQueues : t \in Entries(lists, w)
      BY <1>2, <2>1
    <2> QED BY <1>3, <1>4, <1>5, <2>1, <2>2, WakeStep
  <1>7. /\ WellLinked(new, Heads, Slots)
        /\ \A h \in Heads : Entries(new, h) =
             IF h = runqueue THEN Entries(lists, h) \cup {tsk} ELSE Entries(lists, h) \ {tsk}
    BY <1>5 DEF Moved
  <1>8. Live' = Live
    <2>1. \A t : (\E h \in WaitQueues \cup {runqueue} : t \in Entries(new, h))
                 <=> (\E h \in WaitQueues \cup {runqueue} : t \in Entries(lists, h))
      BY <1>2, <1>7
    <2> QED BY <1>4, <2>1 DEF Live, On
  <1>9. ASSUME NEW r \in Sems
        PROVE  /\ ~list_empty(new, r) => sems[r].owner # FREE_SEM /\ sems[r].value <= 0
               /\ sems[r].owner # FREE_SEM => \E t \in Live : pid[t] = sems[r].owner
    <2>1. list_empty(new, r) <=> Entries(new, r) = {}
      BY <1>7, WellLinkedElim
    <2>2. Entries(new, r) \subseteq Entries(lists, r)
      BY <1>7
    <2> QED BY <2>1, <2>2, ForgottenElim
  <1>10. NoForgottenWaiter'
    BY <1>4, <1>8, <1>9 DEF NoForgottenWaiter
  <1> QED BY <1>6, <1>10, IInvSplit DEF TaskInv, TaskTypeOK, TypeOK, IInv

(* sem_signal preserves the invariant.                                     *)
LEMMA SemSignalStep ==
  ASSUME IInv, NEW s \in Sems, sys_sem_signal(s)
  PROVE  IInv'
  <1>1. /\ sems \in [Sems -> [owner : -1 .. MaxPid, value : -MaxInt-1 .. MaxInt]]
        /\ sems[s] \in [owner : -1 .. MaxPid, value : -MaxInt-1 .. MaxInt]
    BY IInvSplit
  <1>2. /\ sems[s].owner # FREE_SEM
        /\ UNCHANGED <<current, pid, quantum, remaining_quantum, pid_counter,
                       roundtics, picvars>>
    BY DEF sys_sem_signal
  <1>3. CASE /\ list_empty(lists, s)
             /\ sems' = [sems EXCEPT ![s].value = Increment(@)]
             /\ UNCHANGED <<lists, state, eax>>
    <2>1. PICK rec : rec = [sems[s] EXCEPT !.value = Increment(@)]
      OBVIOUS
    <2>2. /\ rec \in [owner : -1 .. MaxPid, value : -MaxInt-1 .. MaxInt]
          /\ rec.owner = sems[s].owner
      BY <1>1, <2>1, IntValues
    <2>3. sems' = [sems EXCEPT ![s] = rec]
      BY <1>3, <2>1
    <2>4. Entries(lists, s) = {}
      BY <1>3, ForgottenElim
    <2>5. rec.owner # FREE_SEM /\ \E t \in Live : pid[t] = rec.owner
      BY <1>2, <2>2, ForgottenElim
    <2>6. UNCHANGED <<lists, current, taskvars, pid_counter, roundtics, picvars>>
      BY <1>2, <1>3 DEF taskvars
    <2> QED BY <2>2, <2>3, <2>4, <2>5, <2>6, SemStep
  <1>4. CASE ~list_empty(lists, s) /\ WakeFirst(s, "ok") /\ UNCHANGED sems
    <2>1. "ok" \in Results \ {"number"} /\ s \in WaitQueues
      BY HeadFacts DEF Results
    <2> QED BY <1>2, <1>4, <2>1, WakeFirstStep
  <1> QED BY <1>3, <1>4 DEF sys_sem_signal

(* sem_destroy preserves the invariant.                                    *)
LEMMA SemDestroyStep ==
  ASSUME IInv, NEW s \in Sems, sys_sem_destroy(s)
  PROVE  IInv'
  <1> USE HeadFacts
  <1>1. PICK M : M = Entries(lists, s)
    OBVIOUS
  <1>2. /\ sems' = [sems EXCEPT ![s].owner = FREE_SEM]
        /\ lists' = list_move_all(lists, s, runqueue)
        /\ state' = Unblocked(M) /\ eax' = Stored(M, "error")
        /\ UNCHANGED <<current, pid, quantum, remaining_quantum, pid_counter,
                       roundtics, picvars>>
    BY <1>1 DEF sys_sem_destroy, On
  <1>3. PICK new : new = lists'
    OBVIOUS
  <1>4. WellLinked(lists, Heads, Slots) /\ M \subseteq Slots
    BY <1>1, ListFacts
  <1>5. Moved(lists, new, Heads, Slots, M, runqueue)
    BY <1>1, <1>2, <1>3, <1>4, MoveAll
  <1>6. TaskInv' /\ TaskTypeOK'
    <2>1. \A t \in M : \E w \in WaitQueues : t \in Entries(lists, w)
      BY <1>1
    <2>2. "error" \in Results \ {"number"}
      BY DEF Results
    <2> QED BY <1>2, <1>3, <1>4, <1>5, <2>1, <2>2, WakeStep
  <1>7. /\ WellLinked(new, Heads, Slots)
        /\ \A h \in Heads : Entries(new, h) =
             IF h = runqueue THEN Entries(lists, h) \cup M ELSE Entries(lists, h) \ M
    BY <1>5 DEF Moved
  <1>8. Live' = Live
    <2>1. \A t : (\E h \in WaitQueues \cup {runqueue} : t \in Entries(new, h))
                 <=> (\E h \in WaitQueues \cup {runqueue} : t \in Entries(lists, h))
      BY <1>1, <1>7
    <2> QED BY <1>3, <2>1 DEF Live, On
  <1>9. sems \in [Sems -> [owner : -1 .. MaxPid, value : -MaxInt-1 .. MaxInt]]
    BY IInvSplit
  <1>10. sems' \in [Sems -> [owner : -1 .. MaxPid, value : -MaxInt-1 .. MaxInt]]
    <2>1. FREE_SEM \in -1 .. MaxPid
      BY SchedulerAssumption DEF FREE_SEM
    <2> QED BY <1>2, <1>9, <2>1
  <1>11. ASSUME NEW r \in Sems
         PROVE  /\ ~list_empty(new, r) => sems'[r].owner # FREE_SEM /\ sems'[r].value <= 0
                /\ sems'[r].owner # FREE_SEM => \E t \in Live : pid[t] = sems'[r].owner
    <2>1. list_empty(new, r) <=> Entries(new, r) = {}
      BY <1>7, WellLinkedElim
    <2>2. CASE r = s
      <3>1. Entries(new, r) = {}
        BY <1>1, <1>7, <2>2
      <3>2. sems'[r].owner = FREE_SEM
        BY <1>2, <1>9, <2>2
      <3> QED BY <2>1, <3>1, <3>2
    <2>3. CASE r # s
      <3>1. Entries(new, r) \subseteq Entries(lists, r)
        BY <1>7
      <3>2. sems'[r] = sems[r]
        BY <1>2, <2>3
      <3> QED BY <2>1, <3>1, <3>2, ForgottenElim
    <2> QED BY <2>2, <2>3
  <1>12. NoForgottenWaiter'
    BY <1>2, <1>3, <1>8, <1>11 DEF NoForgottenWaiter
  <1> QED BY <1>6, <1>10, <1>12 DEF TaskInv, TaskTypeOK, TypeOK, IInv

(* nice preserves the invariant.                                           *)
LEMMA NiceStep ==
  ASSUME IInv, NEW q \in 0 .. MaxQuantum, sys_nice(q)
  PROVE  IInv'
  <1>1. /\ q > 0 /\ quantum' = [quantum EXCEPT ![current] = q]
        /\ UNCHANGED <<lists, current, pid, state, remaining_quantum, eax,
                       pid_counter, roundtics, sems, picvars>>
    BY DEF sys_nice, ValidQuantum
  <1>2. Live' = Live /\ Live \subseteq Slots
    BY <1>1, HeadFacts, ListFacts DEF Live, On
  <1>3. QuantumInSync'
    <2>1. \A t \in Live : quantum'[t] >= 1
      BY <1>1, <1>2 DEF IInv, TypeOK, QuantumInSync
    <2> QED BY <1>1, <1>2, <2>1 DEF IInv, QuantumInSync
  <1>4. TypeOK'
    BY <1>1 DEF IInv, TypeOK, picvars
  <1>5. ListsPartition' /\ RunqueueNeverEmpty' /\ StateMatchesList' /\ WokenWithResult'
    BY <1>1 DEF IInv, ListsPartition, RunqueueNeverEmpty, StateMatchesList,
                WokenWithResult, On
  <1>6. UniquePids' /\ NoForgottenWaiter' /\ InterruptsAcknowledged'
    BY <1>1, <1>2 DEF IInv, UniquePids, NoForgottenWaiter, InterruptsAcknowledged, picvars
  <1> QED BY <1>3, <1>4, <1>5, <1>6 DEF IInv

(* A blocked read of the keyboard preserves the invariant.                 *)
LEMMA ReadKeyboardStep ==
  ASSUME IInv, sys_read_keyboard
  PROVE  IInv'
  <1> USE HeadFacts
  <1>1. /\ TaskInv' /\ TaskTypeOK'
        /\ Moved(lists, lists', Heads, Slots, {current}, keyboardqueue)
        /\ Live' = Live /\ pid' = pid /\ sems' = sems
    BY BlockStep DEF sys_read_keyboard
  <1>2. PICK new : new = lists'
    OBVIOUS
  <1>3. /\ WellLinked(new, Heads, Slots)
        /\ \A h \in Heads : Entries(new, h) =
             IF h = keyboardqueue THEN Entries(lists, h) \cup {current}
             ELSE Entries(lists, h) \ {current}
    BY <1>1, <1>2 DEF Moved
  <1>4. ASSUME NEW r \in Sems
        PROVE  /\ ~list_empty(new, r) => sems[r].owner # FREE_SEM /\ sems[r].value <= 0
               /\ sems[r].owner # FREE_SEM => \E t \in Live : pid[t] = sems[r].owner
    <2>1. list_empty(new, r) <=> Entries(new, r) = {}
      BY <1>3, WellLinkedElim
    <2>2. Entries(new, r) \subseteq Entries(lists, r)
      BY <1>3
    <2> QED BY <2>1, <2>2, ForgottenElim
  <1>5. NoForgottenWaiter'
    BY <1>1, <1>2, <1>4 DEF NoForgottenWaiter
  <1> QED BY <1>1, <1>5, IInvSplit DEF TaskInv, TaskTypeOK, TypeOK, IInv

(* The keyboard interrupt preserves the invariant.                         *)
LEMMA KeyboardStep ==
  ASSUME IInv, keyboard_routine
  PROVE  IInv'
  <1>1. "count" \in Results \ {"number"} /\ keyboardqueue \in WaitQueues
    BY HeadFacts DEF Results
  <1> QED BY <1>1, WakeFirstStep DEF keyboard_routine

(* The invariant holds initially.                                          *)
LEMMA InitInv == Init => IInv
  <1> SUFFICES ASSUME Init PROVE IInv
    OBVIOUS
  <1> USE HeadFacts
  <1>1. PICK n \in Nat : n = NrTasks - 1
    BY SchedulerAssumption
  <1>2. PICK free \in Seq(Slots) : free = [i \in 1..n |-> NrTasks - i]
    <2>1. \A i \in 1..n : NrTasks - i \in Slots
      BY <1>1, SchedulerAssumption DEF Slots
    <2>2. [i \in 1..n |-> NrTasks - i] \in [1..n -> Slots]
      BY <2>1
    <2>3. PICK f \in [1..n -> Slots] : f = [i \in 1..n |-> NrTasks - i]
      BY <2>2
    <2>4. f \in Seq(Slots)
      BY SeqDef
    <2> QED BY <2>3, <2>4
  <1>3. PICK one \in Seq(Slots) : one = <<Idle>>
    BY Singleton
  <1>4. lists = [h \in Heads |-> IF h = runqueue THEN one
                                 ELSE IF h = freequeue THEN free ELSE <<>>]
    BY <1>1, <1>2, <1>3 DEF Init
  <1>5. IsInjective(one) /\ ToSet(one) = {Idle}
    BY <1>3, Singleton
  <1>6. IsInjective(free) /\ ToSet(free) = Slots \ {Idle}
    <2>1. DOMAIN free = 1..n /\ Len(free) = n /\ \A i \in 1..n : free[i] = NrTasks - i
      BY <1>2, LenProperties
    <2>2. IsInjective(free)
      BY <2>1, <1>1, SchedulerAssumption DEF IsInjective
    <2>3. ToSet(free) = {NrTasks - i : i \in 1..n}
      BY <2>1, ToSetPositions
    <2>4. \A t \in Slots \ {Idle} : NrTasks - t \in 1..n /\ NrTasks - (NrTasks - t) = t
      BY <1>1, SchedulerAssumption DEF Slots, Idle
    <2>5. \A i \in 1..n : NrTasks - i \in Slots \ {Idle}
      BY <1>1, SchedulerAssumption DEF Slots, Idle
    <2> QED BY <2>2, <2>3, <2>4, <2>5
  <1>7. <<>> \in Seq(Slots) /\ IsInjective(<<>>) /\ ToSet(<<>>) = {}
    BY DEF IsInjective, ToSet
  <1>8. /\ lists \in [Heads -> Seq(Slots)] /\ DOMAIN lists = Heads
        /\ \A h \in Heads : IsInjective(lists[h])
    BY <1>4, <1>5, <1>6, <1>7
  <1>9. \A h \in Heads : Entries(lists, h) =
          IF h = runqueue THEN {Idle} ELSE IF h = freequeue THEN Slots \ {Idle} ELSE {}
    BY <1>4, <1>5, <1>6, <1>7 DEF Entries
  <1>10. \A g, h \in Heads : \A x : x \in Entries(lists, g) /\ x \in Entries(lists, h) => g = h
    BY <1>9
  <1>11. WellLinked(lists, Heads, Slots)
    BY <1>8, <1>10, WellLinkedIntro
  <1>12. Slots = Linked(lists)
    <2>1. Slots = {Idle} \cup (Slots \ {Idle})
      OBVIOUS
    <2>2. \A t : t \in Linked(lists) <=> \E h \in Heads : t \in Entries(lists, h)
      BY <1>8 DEF Linked
    <2>3. \A t : t \in Linked(lists) <=> t \in Slots
      BY <1>9, <2>1, <2>2
    <2> QED BY <2>3
  <1>13. Live = {Idle}
    <2>1. \A t : t \in Live <=> \E h \in WaitQueues \cup {runqueue} : t \in Entries(lists, h)
      BY DEF Live, On
    <2>2. \A t : t \in Live <=> t = Idle
      BY <1>9, <2>1
    <2> QED BY <2>2
  <1>14. /\ current = Idle /\ pid = [t \in Slots |-> 0]
         /\ state = [t \in Slots |-> RUNNING]
         /\ quantum = [t \in Slots |-> IF t = Idle THEN DefaultQuantum ELSE 0]
         /\ remaining_quantum = quantum
         /\ eax = [t \in Slots |-> "ok"]
         /\ pid_counter = 0 /\ roundtics = DefaultQuantum
         /\ sems = [s \in Sems |-> [owner |-> FREE_SEM, value |-> 0]]
         /\ eoi_from_interrupt = FALSE /\ in_service = FALSE
    BY DEF Init
  <1>15. TypeOK
    <2>1. sems \in [Sems -> [owner : -1 .. MaxPid, value : -MaxInt-1 .. MaxInt]]
      <3>1. FREE_SEM \in -1 .. MaxPid /\ 0 \in -MaxInt-1 .. MaxInt
        BY SchedulerAssumption DEF FREE_SEM
      <3> QED BY <1>14, <3>1
    <2>2. quantum \in [Slots -> 0 .. MaxQuantum] /\ DefaultQuantum \in 0 .. MaxQuantum
      BY <1>14, SchedulerAssumption
    <2>3. /\ pid \in [Slots -> -1 .. MaxPid] /\ pid_counter \in 0 .. MaxPid
          /\ state \in [Slots -> Modes] /\ eax \in [Slots -> Results]
      BY <1>14, SchedulerAssumption DEF Modes, Results
    <2> QED BY <1>8, <1>14, <2>1, <2>2, <2>3 DEF TypeOK
  <1>16. ListsPartition
    BY <1>11, <1>12 DEF ListsPartition, WellLinked
  <1>17. RunqueueNeverEmpty
    BY <1>9, <1>14 DEF RunqueueNeverEmpty, On
  <1>18. StateMatchesList
    BY <1>9, <1>14 DEF StateMatchesList, On, RUNNING, BLOCKED
  <1>19. QuantumInSync
    BY <1>13, <1>14, SchedulerAssumption DEF QuantumInSync
  <1>20. UniquePids
    BY <1>13, <1>14 DEF UniquePids
  <1>21. NoForgottenWaiter
    <2>1. \A s \in Sems : Entries(lists, s) = {} /\ sems[s].owner = FREE_SEM
      BY <1>9, <1>14
    <2> QED BY <1>11, <2>1, ForgottenIntro
  <1>22. WokenWithResult
    BY <1>9, <1>14 DEF WokenWithResult, On
  <1>23. InterruptsAcknowledged
    BY <1>14 DEF InterruptsAcknowledged
  <1> QED BY <1>15, <1>16, <1>17, <1>18, <1>19, <1>20, <1>21, <1>22, <1>23 DEF IInv

(* The invariant is inductive.                                             *)
LEMMA NextInv ==
  ASSUME IInv, [Next]_vars
  PROVE  IInv'
  <1>1. CASE UNCHANGED vars
    <2>1. UNCHANGED <<lists, current, pid, state, quantum, remaining_quantum, eax,
                      pid_counter, roundtics, sems, picvars>>
      BY <1>1 DEF vars, picvars
    <2>2. Live' = Live
      BY <2>1 DEF Live, On
    <2>3. TypeOK' /\ ListsPartition' /\ QuantumInSync' /\ InterruptsAcknowledged'
      BY <2>1, <2>2 DEF IInv, TypeOK, ListsPartition, QuantumInSync,
                        InterruptsAcknowledged, picvars
    <2>4. RunqueueNeverEmpty' /\ StateMatchesList' /\ WokenWithResult'
      BY <2>1 DEF IInv, RunqueueNeverEmpty, StateMatchesList, WokenWithResult, On
    <2>5. UniquePids' /\ NoForgottenWaiter'
      BY <2>1, <2>2 DEF IInv, UniquePids, NoForgottenWaiter
    <2> QED BY <2>3, <2>4, <2>5 DEF IInv
  <1>2. CASE Clock
    BY <1>2, ClockStep
  <1>3. CASE sys_fork
    BY <1>3, ForkStep
  <1>4. CASE sys_fork_ENOMEM
    BY <1>4, ForkFailsStep
  <1>5. CASE sys_exit
    BY <1>5, ExitStep
  <1>6. CASE \E q \in 0..MaxQuantum : sys_nice(q)
    BY <1>6, NiceStep
  <1>7. CASE \E s \in Sems, value \in 0 .. 2*MaxInt+1 : sys_sem_init(s, value)
    BY <1>7, SemInitStep
  <1>8. CASE \E s \in Sems : sys_sem_wait(s)
    BY <1>8, SemWaitStep
  <1>9. CASE \E s \in Sems : sys_sem_signal(s)
    BY <1>9, SemSignalStep
  <1>10. CASE \E s \in Sems : sys_sem_destroy(s)
    BY <1>10, SemDestroyStep
  <1>11. CASE sys_read_keyboard
    BY <1>11, ReadKeyboardStep
  <1>12. CASE keyboard_routine
    BY <1>12, KeyboardStep
  <1> QED BY <1>1, <1>2, <1>3, <1>4, <1>5, <1>6, <1>7, <1>8, <1>9, <1>10, <1>11,
             <1>12 DEF Next

(* The conjunction of all the state properties is an invariant of the      *)
(* scheduler, whatever the calls, their order and the sizes of the tables. *)
THEOREM Invariance == Spec => []IInv
  <1>1. IInv /\ [Next]_vars => IInv'
    BY NextInv
  <1> QED BY <1>1, InitInv, PTL DEF Spec

(* The variables of the kernel keep their types: no order of tics,         *)
(* switches, nice and fork takes what is left of a turn below zero.        *)
THEOREM TypeCorrect == Spec => []TypeOK
  <1>1. IInv => TypeOK
    BY DEF IInv
  <1> QED BY <1>1, Invariance, PTL

(* sched_select_next always has a task to select: the run queue holds task *)
(* 0 and the current task after every handler.                             *)
THEOREM RunqueueHasTasks == Spec => []RunqueueNeverEmpty
  <1>1. IInv => RunqueueNeverEmpty
    BY DEF IInv
  <1> QED BY <1>1, Invariance, PTL

(* No task structure is linked twice and, while memory lasts, none is lost.*)
THEOREM ListsAreAPartition == Spec => []ListsPartition
  <1>1. IInv => ListsPartition
    BY DEF IInv
  <1> QED BY <1>1, Invariance, PTL

(* Waiters are only on semaphores in use, without units, with live owners. *)
THEOREM NoWaiterIsForgotten == Spec => []NoForgottenWaiter
  <1>1. IInv => NoForgottenWaiter
    BY DEF IInv
  <1> QED BY <1>1, Invariance, PTL

(* No two live tasks have the same pid.                                    *)
THEOREM PidsAreUnique == Spec => []UniquePids
  <1>1. IInv => UniquePids
    BY DEF IInv
  <1> QED BY <1>1, Invariance, PTL

(* The current task has a tic left, so the clock ends every turn.          *)
THEOREM TurnsEnd == Spec => []QuantumInSync
  <1>1. IInv => QuantumInSync
    BY DEF IInv
  <1> QED BY <1>1, Invariance, PTL

(* The state byte of every task agrees with the list that it is on.        *)
THEOREM StatesMatchLists == Spec => []StateMatchesList
  <1>1. IInv => StateMatchesList
    BY DEF IInv
  <1> QED BY <1>1, Invariance, PTL

(* No task resumes a call before somebody has stored its result.           *)
THEOREM WokenHaveResults == Spec => []WokenWithResult
  <1>1. IInv => WokenWithResult
    BY DEF IInv
  <1> QED BY <1>1, Invariance, PTL

(* No handler is left, in any way, with an end of interrupt owed.          *)
THEOREM InterruptsEnd == Spec => []InterruptsAcknowledged
  <1>1. IInv => InterruptsAcknowledged
    BY DEF IInv
  <1> QED BY <1>1, Invariance, PTL
----------------------------------------------------------------------------
(***************************************************************************)
(* The order in which the waiters of a semaphore are released.             *)
(***************************************************************************)

(* Unlinking what is not there changes nothing.                            *)
LEMMA RemoveAbsent ==
  ASSUME NEW S, NEW q \in Seq(S), NEW e, e \notin ToSet(q)
  PROVE  RemoveFirst(q, e) = q
  <1>1. \A i \in 1..Len(q) : q[i] # e
    BY ToSetPositions
  <1> QED BY <1>1 DEF RemoveFirst

(* Unlinking the first entry leaves the others in their order.             *)
LEMMA RemoveHead ==
  ASSUME NEW S, NEW q \in Seq(S), IsInjective(q), q # <<>>
  PROVE  RemoveFirst(q, Head(q)) = Tail(q)
  <1>1. /\ Len(q) \in Nat \ {0} /\ DOMAIN q = 1..Len(q)
        /\ Head(q) = q[1]
    BY ToSetPositions, LenProperties
  <1>2. 1 \in 1..Len(q) /\ \A i \in 1..Len(q) : q[i] = q[1] => i = 1
    BY <1>1 DEF IsInjective
  <1>3. PICK r : r = RemoveFirst(q, q[1])
    OBVIOUS
  <1>4. /\ r \in Seq(S) /\ Len(r) = Len(q) - 1
        /\ \A i \in 1..Len(q)-1 : r[i] = IF i < 1 THEN q[i] ELSE q[i+1]
    BY <1>2, <1>3, RemoveFirstAt
  <1>5. /\ Tail(q) \in Seq(S) /\ Len(Tail(q)) = Len(q) - 1
        /\ \A i \in 1..Len(q)-1 : Tail(q)[i] = q[i+1]
    BY <1>1, HeadTailProperties
  <1>6. \A i \in 1..Len(q)-1 : r[i] = Tail(q)[i]
    BY <1>1, <1>4, <1>5
  <1>7. r = Tail(q)
    BY <1>1, <1>4, <1>5, <1>6, SeqEqual
  <1> QED BY <1>1, <1>3, <1>7

----------------------------------------------------------------------------
(* A task moves to the tail of dest: what becomes of the other lists and   *)
(* of dest.                                                                *)
LEMMA RequeueLists ==
  ASSUME WellLinked(lists, Heads, Slots), NEW tsk, NEW dest \in Heads, NEW h \in Heads
  PROVE  /\ h # dest /\ tsk \notin On(h) => Requeue(lists, tsk, dest)[h] = lists[h]
         /\ h # dest /\ lists[h] # <<>> /\ tsk = Head(lists[h]) =>
              Requeue(lists, tsk, dest)[h] = Tail(lists[h])
         /\ h = dest /\ tsk \notin On(h) =>
              Requeue(lists, tsk, dest)[h] = Append(lists[h], tsk)
  <1>1. /\ DOMAIN lists = Heads
        /\ lists[h] \in Seq(Slots) /\ IsInjective(lists[h])
    BY WellLinkedElim
  <1>2. PICK d : d = list_del(lists, tsk)
    OBVIOUS
  <1>3. DOMAIN d = Heads /\ d[h] = RemoveFirst(lists[h], tsk)
    BY <1>1, <1>2 DEF list_del
  <1>4. Requeue(lists, tsk, dest)[h] = IF h = dest THEN Append(d[h], tsk) ELSE d[h]
    BY <1>2, <1>3 DEF Requeue, list_add_tail
  <1>5. ASSUME tsk \notin On(h) PROVE d[h] = lists[h]
    BY <1>1, <1>3, <1>5, RemoveAbsent DEF On, Entries
  <1>6. ASSUME lists[h] # <<>>, tsk = Head(lists[h]) PROVE d[h] = Tail(lists[h])
    BY <1>1, <1>3, <1>6, RemoveHead
  <1> QED BY <1>4, <1>5, <1>6

(* A task that leaves for the front of a list changes no list that it was  *)
(* not on.                                                                 *)
LEMMA StackLists ==
  ASSUME NEW ls, WellLinked(ls, Heads, Slots), NEW tsk, NEW dest \in Heads, NEW h \in Heads,
         tsk \notin Entries(ls, h)
  PROVE  /\ list_del(ls, tsk)[h] = ls[h]
         /\ h # dest => list_add(list_del(ls, tsk), tsk, dest)[h] = ls[h]
  <1>1. DOMAIN ls = Heads /\ ls[h] \in Seq(Slots)
    BY WellLinkedElim
  <1>2. PICK d : d = list_del(ls, tsk)
    OBVIOUS
  <1>3. DOMAIN d = Heads /\ d[h] = RemoveFirst(ls[h], tsk)
    BY <1>1, <1>2 DEF list_del
  <1>4. d[h] = ls[h]
    BY <1>1, <1>3, RemoveAbsent DEF Entries
  <1>5. h # dest => list_add(d, tsk, dest)[h] = d[h]
    BY <1>3 DEF list_add
  <1> QED BY <1>2, <1>4, <1>5

(* The loop of exit empties the queues of the semaphores of p and leaves   *)
(* those of the others.                                                    *)
LEMMA ReleasedQueues ==
  ASSUME lists \in [Heads -> Seq(Slots)], NEW p, NEW s \in Sems
  PROVE  Released(p)[s] = IF sems[s].owner = p THEN <<>> ELSE lists[s]
  <1>1. PICK f : /\ f = [n \in 0..NrSem |-> IF n = 0 THEN lists ELSE Release(f, n, p)]
                 /\ Released(p) = f[NrSem]
    BY ReleasedDef
  <1>2. /\ NrSem \in Nat /\ runqueue = NrSem /\ s \in Nat /\ s < NrSem
        /\ s \in Heads /\ runqueue \in Heads /\ s # runqueue
    BY SchedulerAssumption, HeadFacts DEF runqueue, Sems, Heads
  <1> DEFINE I == {n \in Nat : n <= NrSem =>
                    /\ DOMAIN f[n] = Heads
                    /\ f[n][s] = IF s < n /\ sems[s].owner = p THEN <<>> ELSE lists[s]}
  <1>3. 0 \in I
    <2>1. f[0] = lists
      BY <1>1, <1>2
    <2> QED BY <1>2, <2>1
  <1>4. ASSUME NEW n \in Nat, n \in I PROVE n+1 \in I
    <2> SUFFICES ASSUME n+1 <= NrSem
                 PROVE  /\ DOMAIN f[n+1] = Heads
                        /\ f[n+1][s] =
                             IF s < n+1 /\ sems[s].owner = p THEN <<>> ELSE lists[s]
      OBVIOUS
    <2>1. n+1 \in 0..NrSem /\ n+1 # 0 /\ (n+1)-1 = n /\ n \in Heads /\ n # runqueue
      BY <1>2 DEF Heads
    <2>2. f[n+1] = IF sems[n].owner = p THEN list_move_all(f[n], n, runqueue) ELSE f[n]
      <3>1. f[n+1] = Release(f, n+1, p)
        BY <1>1, <2>1
      <3> QED BY <2>1, <3>1 DEF Release
    <2>3. PICK a : a = f[n]
      OBVIOUS
    <2>4. /\ DOMAIN a = Heads
          /\ a[s] = IF s < n /\ sems[s].owner = p THEN <<>> ELSE lists[s]
      BY <1>2, <1>4, <2>3
    <2>5. CASE sems[n].owner # p
      BY <1>2, <2>2, <2>3, <2>4, <2>5
    <2>6. CASE sems[n].owner = p
      <3>1. /\ DOMAIN list_move_all(a, n, runqueue) = Heads
            /\ list_move_all(a, n, runqueue)[s] = IF s = n THEN <<>> ELSE a[s]
        BY <1>2, <2>1, <2>4 DEF list_move_all
      <3> QED BY <1>2, <2>2, <2>3, <2>4, <2>6, <3>1
    <2> QED BY <2>5, <2>6
  <1>5. NrSem \in I
    <2> HIDE DEF I
    <2> QED BY <1>2, <1>3, <1>4, NatSetInduction
  <1> QED BY <1>1, <1>2, <1>5

----------------------------------------------------------------------------
(* What a step may do to the waiters of s.                                 *)
Joins(s)    == lists'[s] = Append(lists[s], current)
Signalled(s) == /\ lists'[s] = Tail(lists[s])
                /\ sems'[s] = sems[s]
                /\ eax'[Head(lists[s])] = "ok"
Destroyed(s) == /\ lists'[s] = <<>>
                /\ sems'[s].owner = FREE_SEM
                /\ \A t \in On(s) : eax'[t] = "error"
Ordered(s)  == \/ lists'[s] = lists[s]
               \/ Joins(s)
               \/ Signalled(s)
               \/ Destroyed(s)

(* The queues of semaphores hold neither the current task nor tasks of     *)
(* other queues.                                                           *)
LEMMA QueueFacts ==
  ASSUME IInv
  PROVE  /\ WellLinked(lists, Heads, Slots) /\ lists \in [Heads -> Seq(Slots)]
         /\ \A s \in Sems : /\ s \in Heads /\ s # runqueue /\ s # freequeue
                            /\ s # keyboardqueue
                            /\ current \notin On(s)
                            /\ On(s) \subseteq Slots
                            /\ \A h \in Heads : \A t : t \in On(s) /\ t \in On(h) => h = s
         /\ \A h \in Heads : lists[h] # <<>> => Head(lists[h]) \in On(h)
  <1>1. /\ WellLinked(lists, Heads, Slots)
        /\ \A g, h \in Heads : \A x :
             x \in Entries(lists, g) /\ x \in Entries(lists, h) => g = h
        /\ current \in Entries(lists, runqueue)
        /\ \A h \in Heads : Entries(lists, h) \subseteq Slots
        /\ \A h \in Heads : lists[h] # <<>> => Head(lists[h]) \in Entries(lists, h)
    BY ListFacts DEF list_empty, list_first
  <1>2. \A s \in Sems : /\ s \in Heads /\ s # runqueue /\ s # freequeue
                        /\ s # keyboardqueue
    BY HeadFacts
  <1>3. runqueue \in Heads /\ lists \in [Heads -> Seq(Slots)]
    BY <1>1, HeadFacts DEF WellLinked
  <1> QED BY <1>1, <1>2, <1>3 DEF On

(* A current task that is sent to the run queue or to the keyboard's waits *)
(* on no semaphore.                                                        *)
LEMMA CurrentElsewhere ==
  ASSUME IInv, NEW dest \in {runqueue, keyboardqueue},
         lists' = Requeue(lists, current, dest), NEW s \in Sems
  PROVE  Ordered(s)
  <1>1. dest \in Heads /\ s # dest
    BY HeadFacts
  <1> QED BY <1>1, QueueFacts, RequeueLists DEF Ordered

(* wait: the caller joins the queue at its end, or there was a unit.       *)
LEMMA WaitOrder ==
  ASSUME IInv, NEW s \in Sems, NEW r \in Sems, sys_sem_wait(r)
  PROVE  Ordered(s)
  <1>1. CASE lists' = lists
    BY <1>1 DEF Ordered
  <1>2. CASE BlockOn(r)
    <2>1. lists' = Requeue(lists, current, r)
      BY <1>2 DEF BlockOn, sched_continue
    <2>2. CASE s = r
      BY <2>1, <2>2, QueueFacts, RequeueLists DEF Ordered, Joins
    <2>3. CASE s # r
      BY <2>1, <2>3, QueueFacts, RequeueLists DEF Ordered
    <2> QED BY <2>2, <2>3
  <1> QED BY <1>1, <1>2 DEF sys_sem_wait

(* The first waiter of a queue is woken: the others keep their places.     *)
LEMMA WakeOrder ==
  ASSUME IInv, NEW q \in WaitQueues, NEW result, ~list_empty(lists, q),
         WakeFirst(q, result), NEW s \in Sems
  PROVE  /\ s # q => lists'[s] = lists[s]
         /\ s = q => /\ lists'[s] = Tail(lists[s])
                     /\ eax'[Head(lists[s])] = result
  <1>1. q \in Heads /\ runqueue \in Heads /\ lists[q] # <<>>
    BY HeadFacts DEF list_empty
  <1>2. PICK tsk : tsk = Head(lists[q])
    OBVIOUS
  <1>3. lists' = Requeue(lists, tsk, runqueue) /\ eax' = Stored({tsk}, result)
    BY <1>2 DEF WakeFirst, list_first
  <1>4. tsk \in On(q)
    BY <1>1, <1>2, QueueFacts
  <1>5. CASE s # q
    <2>1. tsk \notin On(s)
      BY <1>1, <1>4, <1>5, QueueFacts
    <2> QED BY <1>1, <1>3, <1>5, <2>1, QueueFacts, RequeueLists
  <1>6. CASE s = q
    <2>1. tsk \in Slots
      BY <1>4, <1>6, QueueFacts
    <2>2. eax'[tsk] = result
      BY <1>3, <2>1 DEF Stored
    <2>3. lists'[s] = Tail(lists[s])
      BY <1>1, <1>2, <1>3, <1>6, QueueFacts, RequeueLists
    <2> QED BY <1>2, <1>6, <2>2, <2>3
  <1> QED BY <1>5, <1>6

(* signal releases the first waiter of its semaphore.                      *)
LEMMA SignalOrder ==
  ASSUME IInv, NEW s \in Sems, NEW r \in Sems, sys_sem_signal(r)
  PROVE  Ordered(s)
  <1>1. CASE lists' = lists
    BY <1>1 DEF Ordered
  <1>2. CASE ~list_empty(lists, r) /\ WakeFirst(r, "ok") /\ sems' = sems
    <2>1. r \in WaitQueues
      BY HeadFacts
    <2>2. /\ s # r => lists'[s] = lists[s]
          /\ s = r => lists'[s] = Tail(lists[s]) /\ eax'[Head(lists[s])] = "ok"
      BY <1>2, <2>1, WakeOrder
    <2> QED BY <1>2, <2>2 DEF Ordered, Signalled
  <1> QED BY <1>1, <1>2 DEF sys_sem_signal

(* A key wakes a reader and no waiter of a semaphore.                      *)
LEMMA KeyOrder ==
  ASSUME IInv, NEW s \in Sems, keyboard_routine
  PROVE  Ordered(s)
  <1>1. keyboardqueue \in WaitQueues /\ s # keyboardqueue
    BY HeadFacts
  <1>2. ~list_empty(lists, keyboardqueue) /\ WakeFirst(keyboardqueue, "count")
    BY DEF keyboard_routine
  <1>3. lists'[s] = lists[s]
    BY <1>1, <1>2, WakeOrder
  <1> QED BY <1>3 DEF Ordered

(* destroy releases all the waiters of its semaphore with an error.        *)
LEMMA DestroyOrder ==
  ASSUME IInv, NEW s \in Sems, NEW r \in Sems, sys_sem_destroy(r)
  PROVE  Ordered(s)
  <1>1. /\ sems' = [sems EXCEPT ![r].owner = FREE_SEM]
        /\ lists' = list_move_all(lists, r, runqueue)
        /\ eax' = Stored(On(r), "error")
    BY DEF sys_sem_destroy
  <1>2. lists \in [Heads -> Seq(Slots)] /\ runqueue \in Heads
        /\ s \in Heads /\ r \in Heads /\ s # runqueue /\ r # runqueue
        /\ On(s) \subseteq Slots
    BY QueueFacts, HeadFacts
  <1>3. lists'[s] = IF s = r THEN <<>> ELSE lists[s]
    BY <1>1, <1>2 DEF list_move_all
  <1>4. CASE s = r
    <2>1. \A t \in On(s) : eax'[t] = "error"
      BY <1>1, <1>2, <1>4 DEF Stored
    <2>2. sems'[s].owner = FREE_SEM
      BY <1>1, <1>4, IInvSplit
    <2> QED BY <1>3, <1>4, <2>1, <2>2 DEF Ordered, Destroyed
  <1>5. CASE s # r
    BY <1>3, <1>5 DEF Ordered
  <1> QED BY <1>4, <1>5

(* exit does so for the semaphores of the process, in one step.            *)
LEMMA ExitOrder ==
  ASSUME IInv, NEW s \in Sems, sys_exit
  PROVE  Ordered(s)
  <1>1. PICK p : p = pid[current]
    OBVIOUS
  <1>2. PICK owned : owned = {r \in Sems : sems[r].owner = p}
    OBVIOUS
  <1>3. PICK W : W = UNION {On(r) : r \in owned}
    OBVIOUS
  <1>4. PICK rel : rel = Released(p)
    OBVIOUS
  <1>5. /\ sems' = [r \in Sems |-> IF r \in owned
                      THEN [sems[r] EXCEPT !.owner = FREE_SEM] ELSE sems[r]]
        /\ eax' = Stored(W, "error")
        /\ lists' = list_add(list_del(rel, current), current, freequeue)
    BY <1>1, <1>2, <1>3, <1>4 DEF sys_exit, sched_continue
  <1>6. /\ lists \in [Heads -> Seq(Slots)] /\ WellLinked(lists, Heads, Slots)
        /\ s \in Heads /\ s # runqueue /\ s # freequeue /\ freequeue \in Heads
        /\ current \notin On(s) /\ On(s) \subseteq Slots
    BY QueueFacts, HeadFacts
  <1>7. rel[s] = IF s \in owned THEN <<>> ELSE lists[s]
    BY <1>2, <1>4, <1>6, ReleasedQueues
  <1>8. WellLinked(rel, Heads, Slots)
    BY <1>4, <1>6, ReleasedMoves DEF Moved
  <1>9. current \notin Entries(rel, s)
    <2>1. CASE s \in owned
      BY <1>7, <2>1 DEF Entries, ToSet
    <2>2. CASE s \notin owned
      BY <1>6, <1>7, <2>2 DEF Entries, On
    <2> QED BY <2>1, <2>2
  <1>10. lists'[s] = rel[s]
    BY <1>5, <1>6, <1>8, <1>9, StackLists
  <1>11. CASE s \in owned
    <2>1. \A t \in On(s) : eax'[t] = "error"
      BY <1>3, <1>5, <1>6, <1>11 DEF Stored
    <2>2. sems'[s].owner = FREE_SEM
      BY <1>5, <1>11, IInvSplit
    <2> QED BY <1>7, <1>10, <1>11, <2>1, <2>2 DEF Ordered, Destroyed
  <1>12. CASE s \notin owned
    BY <1>7, <1>10, <1>12 DEF Ordered
  <1> QED BY <1>11, <1>12

(* fork takes a free slot, which waits nowhere.                            *)
LEMMA ForkOrder ==
  ASSUME IInv, NEW s \in Sems, sys_fork \/ sys_fork_ENOMEM
  PROVE  Ordered(s)
  <1>1. PICK child : child = list_first(lists, freequeue)
    OBVIOUS
  <1>2. /\ ~list_empty(lists, freequeue)
        /\ \/ lists' = list_add(list_del(lists, child), child, runqueue)
           \/ lists' = list_del(lists, child)
    BY <1>1 DEF sys_fork, sys_fork_ENOMEM
  <1>3. freequeue \in Heads /\ runqueue \in Heads
    BY HeadFacts
  <1>4. child \in On(freequeue)
    BY <1>1, <1>2, <1>3, QueueFacts DEF list_empty, list_first
  <1>5. /\ child \notin Entries(lists, s) /\ s \in Heads /\ s # runqueue
        /\ WellLinked(lists, Heads, Slots)
    BY <1>3, <1>4, QueueFacts DEF On
  <1>6. lists'[s] = lists[s]
    BY <1>2, <1>3, <1>5, StackLists
  <1> QED BY <1>6 DEF Ordered

(* init empties a queue that is empty.                                     *)
LEMMA InitOrder ==
  ASSUME IInv, NEW s \in Sems, NEW r \in Sems, NEW value, sys_sem_init(r, value)
  PROVE  Ordered(s)
  <1>1. lists' = [lists EXCEPT ![r] = <<>>] /\ sems[r].owner = FREE_SEM
    BY DEF sys_sem_init, INIT_LIST_HEAD
  <1>2. lists[r] = <<>>
    BY <1>1 DEF IInv, NoForgottenWaiter, list_empty
  <1>3. lists'[s] = lists[s]
    BY <1>1, <1>2, QueueFacts
  <1> QED BY <1>3 DEF Ordered

(* Every step, under the invariant.                                        *)
LEMMA StepOrder ==
  ASSUME IInv, Next, NEW s \in Sems
  PROVE  Ordered(s)
  <1>1. CASE Clock
    <2>1. CASE lists' = lists
      BY <2>1 DEF Ordered
    <2>2. CASE lists' = Requeue(lists, current, runqueue)
      BY <2>2, CurrentElsewhere
    <2> QED BY <1>1, <2>1, <2>2 DEF Clock, sched_continue
  <1>2. CASE sys_fork \/ sys_fork_ENOMEM
    BY <1>2, ForkOrder
  <1>3. CASE sys_exit
    BY <1>3, ExitOrder
  <1>4. CASE \E q \in 0..MaxQuantum : sys_nice(q)
    BY <1>4 DEF sys_nice, Ordered
  <1>5. CASE \E r \in Sems, value \in 0 .. 2*MaxInt+1 : sys_sem_init(r, value)
    BY <1>5, InitOrder
  <1>6. CASE \E r \in Sems : sys_sem_wait(r)
    BY <1>6, WaitOrder
  <1>7. CASE \E r \in Sems : sys_sem_signal(r)
    BY <1>7, SignalOrder
  <1>8. CASE \E r \in Sems : sys_sem_destroy(r)
    BY <1>8, DestroyOrder
  <1>9. CASE sys_read_keyboard
    <2>1. lists' = Requeue(lists, current, keyboardqueue)
      BY <1>9 DEF sys_read_keyboard, BlockOn, sched_continue
    <2> QED BY <2>1, CurrentElsewhere
  <1>10. CASE keyboard_routine
    BY <1>10, KeyOrder
  <1> QED BY <1>1, <1>2, <1>3, <1>4, <1>5, <1>6, <1>7, <1>8, <1>9, <1>10 DEF Next

(* Waiters are released by a signal, one by one in the order in which they *)
(* came and with 0, or all together with -1 by the destroy or the exit     *)
(* that ends the semaphore; nothing else moves them.                       *)
THEOREM ReleasedInOrder == Spec => WaitersReleasedInOrder
  <1> DEFINE Allowed(s) ==
               \/ /\ Len(lists'[s]) = Len(lists[s]) + 1
                  /\ lists'[s] = Append(lists[s], current)
               \/ /\ lists'[s] = Tail(lists[s])
                  /\ sems'[s] = sems[s]
                  /\ eax'[Head(lists[s])] = "ok"
               \/ /\ lists'[s] = <<>>
                  /\ sems'[s].owner = FREE_SEM
                  /\ \A t \in On(s) : eax'[t] = "error"
             A == \A s \in Sems : lists'[s] # lists[s] => Allowed(s)
  <1>1. ASSUME IInv, Next, NEW s \in Sems, lists'[s] # lists[s]
        PROVE  Allowed(s)
    <2>1. Joins(s) \/ Signalled(s) \/ Destroyed(s)
      BY <1>1, StepOrder DEF Ordered
    <2>2. Joins(s) => Len(lists'[s]) = Len(lists[s]) + 1
      <3>1. lists[s] \in Seq(Slots) /\ current \in Slots
        BY <1>1, QueueFacts DEF IInv, TypeOK
      <3> QED BY <3>1, AppendProperties DEF Joins
    <2> QED BY <2>1, <2>2, Zenon DEF Joins, Signalled, Destroyed
  <1> HIDE DEF Allowed
  <1>2. IInv /\ Next => A
    BY <1>1, Zenon
  <1> HIDE DEF A
  <1>3. IInv /\ [Next]_vars => [A]_vars
    BY <1>2
  <1>4. Spec => [][A]_vars
    BY <1>3, Invariance, PTL DEF Spec
  <1> QED BY <1>4 DEF A, Allowed, WaitersReleasedInOrder

----------------------------------------------------------------------------
(***************************************************************************)
(* Scheduler implements Dispatch.                                          *)
(***************************************************************************)

(* What each kind of step does to the run queue.                           *)
LEMMA BlockLeaves ==
  ASSUME IInv, IInv', NEW q \in WaitQueues, IsProcess, BlockOn(q)
  PROVE  Promise!Leave
  <1> USE HeadFacts
  <1>1. current # Idle /\ current \in Slots
    BY DEF IInv, TypeOK, UniquePids, IsProcess
  <1>2. Moved(lists, lists', Heads, Slots, {current}, q)
    BY BlockStep
  <1>3. On(runqueue)' = On(runqueue) \ {current}
    BY <1>2 DEF Moved, On
  <1>4. current' \in On(runqueue)' /\ roundtics' \in 1 .. MaxQuantum
    BY SchedulerAssumption DEF IInv, TypeOK, RunqueueNeverEmpty, QuantumInSync
  <1>5. Promise!NewTurn
    BY <1>4 DEF Promise!NewTurn
  <1>6. \E woken \in SUBSET (Slots \ On(runqueue)) :
          On(runqueue)' = (On(runqueue) \ {current}) \cup woken
    <2>1. {} \in SUBSET (Slots \ On(runqueue))
      OBVIOUS
    <2> QED BY <1>3, <2>1
  <1> QED BY <1>1, <1>5, <1>6 DEF Promise!Leave

(* An exit is a Leave: the released waiters become ready.                  *)
LEMMA ExitLeaves ==
  ASSUME IInv, IInv', sys_exit
  PROVE  Promise!Leave
  <1> USE HeadFacts
  <1>1. current # Idle /\ current \in Slots
    BY DEF IInv, TypeOK, UniquePids, IsProcess, sys_exit
  <1>2. PICK rel : rel = Released(pid[current])
    OBVIOUS
  <1>3. PICK W : W = Waiters(NrSem, pid[current])
    OBVIOUS
  <1>4. lists' = list_add(list_del(rel, current), current, freequeue)
    BY <1>2 DEF sys_exit, sched_continue
  <1>5. Moved(lists, rel, Heads, Slots, W, runqueue)
    BY <1>2, <1>3, ListFacts, ReleasedMoves
  <1>6. /\ WellLinked(rel, Heads, Slots)
        /\ Entries(rel, runqueue) = Entries(lists, runqueue) \cup W
    BY <1>5 DEF Moved
  <1>7. Moved(rel, lists', Heads, Slots, {current}, freequeue)
    BY <1>1, <1>4, <1>6, MoveOne
  <1>8. On(runqueue)' = (On(runqueue) \cup W) \ {current}
    BY <1>6, <1>7 DEF Moved, On
  <1>9. W \in SUBSET (Slots \ On(runqueue))
    <2>1. \A t \in W : \E s \in Sems : t \in Entries(lists, s)
      BY <1>3 DEF Waiters, On, Sems
    <2> QED BY <2>1, ListFacts DEF On
  <1>10. On(runqueue)' = (On(runqueue) \ {current}) \cup W
    <2>1. current \in On(runqueue)
      BY ListFacts DEF On
    <2> QED BY <1>8, <1>9, <2>1
  <1>11. current' \in On(runqueue)' /\ roundtics' \in 1 .. MaxQuantum
    BY SchedulerAssumption DEF IInv, TypeOK, RunqueueNeverEmpty, QuantumInSync
  <1> QED BY <1>1, <1>9, <1>10, <1>11 DEF Promise!Leave, Promise!NewTurn

(* A tic is a Tick, or a Preempt when the turn is over.                    *)
LEMMA ClockCounts ==
  ASSUME IInv, IInv', Clock
  PROVE  Promise!Tick \/ Promise!Preempt
  <1> USE HeadFacts
  <1>1. roundtics \in Int /\ roundtics >= 1 /\ current \in Slots
    BY SchedulerAssumption DEF IInv, TypeOK, QuantumInSync
  <1>2. CASE /\ ~sched_switch_needed(roundtics - 1)
             /\ roundtics' = roundtics - 1
             /\ UNCHANGED <<lists, current>>
    <2>1. roundtics > 1
      BY <1>1, <1>2 DEF sched_switch_needed
    <2> QED BY <1>2, <2>1 DEF Promise!Tick, On
  <1>3. CASE /\ sched_switch_needed(roundtics - 1)
             /\ lists' = Requeue(lists, current, runqueue)
    <2>1. roundtics = 1
      BY <1>1, <1>3 DEF sched_switch_needed
    <2>2. Moved(lists, lists', Heads, Slots, {current}, runqueue)
      BY <1>1, <1>3, ListFacts, MoveOne DEF Requeue
    <2>3. On(runqueue)' = On(runqueue)
      <3>1. On(runqueue)' = On(runqueue) \cup {current}
        BY <2>2 DEF Moved, On
      <3>2. current \in On(runqueue)
        BY ListFacts DEF On
      <3> QED BY <3>1, <3>2
    <2>4. current' \in On(runqueue)' /\ roundtics' \in 1 .. MaxQuantum
      BY SchedulerAssumption DEF IInv, TypeOK, RunqueueNeverEmpty, QuantumInSync
    <2> QED BY <2>1, <2>3, <2>4 DEF Promise!Preempt, Promise!NewTurn
  <1> QED BY <1>2, <1>3 DEF Clock, sched_continue

(* Whatever joins the run queue while the current task goes on.            *)
LEMMA Admits ==
  ASSUME UNCHANGED <<current, roundtics>>,
         NEW M, M \subseteq Slots \ On(runqueue), On(runqueue)' = On(runqueue) \cup M
  PROVE  Promise!Admit
  BY DEF Promise!Admit

(* Waking the first waiter of a queue is an Admit.                         *)
LEMMA WakeAdmits ==
  ASSUME IInv, NEW q \in WaitQueues, ~list_empty(lists, q), NEW result,
         WakeFirst(q, result), UNCHANGED <<current, roundtics>>
  PROVE  Promise!Admit
  <1> USE HeadFacts
  <1>1. PICK tsk : tsk = list_first(lists, q)
    OBVIOUS
  <1>2. tsk \in Entries(lists, q) /\ tsk \in Slots /\ WellLinked(lists, Heads, Slots)
    BY <1>1, ListFacts
  <1>3. Moved(lists, lists', Heads, Slots, {tsk}, runqueue)
    BY <1>1, <1>2, MoveOne DEF WakeFirst, Requeue
  <1>4. On(runqueue)' = On(runqueue) \cup {tsk}
    BY <1>3 DEF Moved, On
  <1>5. {tsk} \subseteq Slots \ On(runqueue)
    BY <1>2, ListFacts DEF On
  <1> QED BY <1>4, <1>5, Admits

(* The destruction of a semaphore admits its waiters.                      *)
LEMMA DestroyAdmits ==
  ASSUME IInv, NEW s \in Sems, sys_sem_destroy(s)
  PROVE  Promise!Admit
  <1> USE HeadFacts
  <1>1. Moved(lists, lists', Heads, Slots, Entries(lists, s), runqueue)
    BY ListFacts, MoveAll DEF sys_sem_destroy
  <1>2. On(runqueue)' = On(runqueue) \cup Entries(lists, s)
    BY <1>1 DEF Moved, On
  <1>3. Entries(lists, s) \subseteq Slots \ On(runqueue)
    BY ListFacts DEF On
  <1> QED BY <1>2, <1>3, Admits DEF sys_sem_destroy

(* A fork that succeeds admits the child, one that fails admits nobody.    *)
LEMMA ForkAdmits ==
  ASSUME IInv, sys_fork \/ sys_fork_ENOMEM
  PROVE  Promise!Admit
  <1> USE HeadFacts
  <1>1. PICK child : child = list_first(lists, freequeue)
    OBVIOUS
  <1>2. /\ UNCHANGED <<current, roundtics>> /\ ~list_empty(lists, freequeue)
        /\ \/ lists' = list_add(list_del(lists, child), child, runqueue)
           \/ lists' = list_del(lists, child)
    BY <1>1 DEF sys_fork, sys_fork_ENOMEM
  <1>3. /\ child \in Slots /\ child \notin On(runqueue)
        /\ WellLinked(lists, Heads, Slots)
    BY <1>1, <1>2, FreeSlot, ListFacts DEF On
  <1>4. CASE lists' = list_add(list_del(lists, child), child, runqueue)
    <2>1. Moved(lists, lists', Heads, Slots, {child}, runqueue)
      BY <1>3, <1>4, MoveOne
    <2>2. On(runqueue)' = On(runqueue) \cup {child}
      BY <2>1 DEF Moved, On
    <2>3. {child} \subseteq Slots \ On(runqueue)
      BY <1>3
    <2> QED BY <1>2, <2>2, <2>3, Admits
  <1>5. CASE lists' = list_del(lists, child)
    <2>1. Moved(lists, lists', Heads, Slots, {child}, -1)
      BY <1>3, <1>5, MoveAway
    <2>2. On(runqueue)' = On(runqueue) \cup {}
      BY <1>3, <2>1 DEF Moved, On
    <2>3. PICK M \in SUBSET (Slots \ On(runqueue)) : M = {}
      OBVIOUS
    <2>4. On(runqueue)' = On(runqueue) \cup M
      BY <2>2, <2>3
    <2> QED BY <1>2, <2>3, <2>4, Admits
  <1> QED BY <1>2, <1>4, <1>5

(* A call that moves no task.                                              *)
LEMMA Stutters ==
  ASSUME UNCHANGED <<lists, current, roundtics>>
  PROVE  UNCHANGED Promise!vars
  BY DEF Promise!vars, On

(* A wait leaves the processor or changes nothing that shows.              *)
LEMMA SemWaitSteps ==
  ASSUME IInv, IInv', NEW s \in Sems, sys_sem_wait(s)
  PROVE  [Promise!Next]_(Promise!vars)
  <1>1. IsProcess /\ s \in WaitQueues
    BY HeadFacts DEF sys_sem_wait
  <1>2. CASE BlockOn(s)
    BY <1>1, <1>2, BlockLeaves DEF Promise!Next
  <1>3. CASE UNCHANGED <<lists, current, roundtics>>
    BY <1>3, Stutters
  <1> QED BY <1>2, <1>3 DEF sys_sem_wait

(* A signal admits a task or changes nothing that shows.                   *)
LEMMA SemSignalSteps ==
  ASSUME IInv, NEW s \in Sems, sys_sem_signal(s)
  PROVE  [Promise!Next]_(Promise!vars)
  <1>1. s \in WaitQueues /\ UNCHANGED <<current, roundtics>>
    BY HeadFacts DEF sys_sem_signal
  <1>2. CASE ~list_empty(lists, s) /\ WakeFirst(s, "ok")
    BY <1>1, <1>2, WakeAdmits DEF Promise!Next
  <1>3. CASE UNCHANGED lists
    BY <1>1, <1>3, Stutters
  <1> QED BY <1>2, <1>3 DEF sys_sem_signal

(* The creation of a semaphore does not show.                              *)
LEMMA SemInitStutters ==
  ASSUME IInv, NEW s \in Sems, NEW value, sys_sem_init(s, value)
  PROVE  UNCHANGED Promise!vars
  <1>1. lists[s] = <<>> /\ lists \in [Heads -> Seq(Slots)]
    BY ForgottenElim DEF IInv, TypeOK, NoForgottenWaiter, sys_sem_init, list_empty
  <1>2. lists' = lists
    BY <1>1 DEF sys_sem_init, INIT_LIST_HEAD
  <1>3. UNCHANGED <<current, roundtics>>
    BY DEF sys_sem_init
  <1> QED BY <1>2, <1>3, Stutters

(* Every step of the scheduler is one of Dispatch, or a stutter.           *)
LEMMA StepRefinement ==
  ASSUME IInv, IInv', [Next]_vars
  PROVE  [Promise!Next]_(Promise!vars)
  <1>1. CASE UNCHANGED vars
    BY <1>1, Stutters DEF vars
  <1>2. CASE Clock
    BY <1>2, ClockCounts DEF Promise!Next
  <1>3. CASE sys_fork \/ sys_fork_ENOMEM
    BY <1>3, ForkAdmits DEF Promise!Next
  <1>4. CASE sys_exit
    BY <1>4, ExitLeaves DEF Promise!Next
  <1>5. CASE \E q \in 0..MaxQuantum : sys_nice(q)
    BY <1>5, Stutters DEF sys_nice
  <1>6. CASE \E s \in Sems, value \in 0 .. 2*MaxInt+1 : sys_sem_init(s, value)
    BY <1>6, SemInitStutters
  <1>7. CASE \E s \in Sems : sys_sem_wait(s)
    BY <1>7, SemWaitSteps
  <1>8. CASE \E s \in Sems : sys_sem_signal(s)
    BY <1>8, SemSignalSteps
  <1>9. CASE \E s \in Sems : sys_sem_destroy(s)
    BY <1>9, DestroyAdmits DEF Promise!Next
  <1>10. CASE sys_read_keyboard
    BY <1>10, HeadFacts, BlockLeaves DEF sys_read_keyboard, Promise!Next
  <1>11. CASE keyboard_routine
    BY <1>11, HeadFacts, WakeAdmits DEF keyboard_routine, Promise!Next
  <1> QED BY <1>1, <1>2, <1>3, <1>4, <1>5, <1>6, <1>7, <1>8, <1>9, <1>10, <1>11
      DEF Next

(* The initial states are those of Dispatch.                               *)
LEMMA InitRefinement ==
  ASSUME Init
  PROVE  Promise!Init
  <1>1. lists[runqueue] = <<Idle>>
    BY HeadFacts DEF Init
  <1>2. On(runqueue) = {Idle}
    BY <1>1, HeadFacts, Singleton DEF On, Entries
  <1> QED BY <1>2, SchedulerAssumption DEF Init, Promise!Init

(* The processor belongs to a ready task, which keeps it until it leaves   *)
(* or its last tic is counted, and task 0 never leaves: the scheduler      *)
(* implements Dispatch.                                                    *)
THEOREM Refinement == Spec => ImplementsDispatch
  <1>1. Init => Promise!Init
    BY InitRefinement
  <1>2. IInv /\ IInv' /\ [Next]_vars => [Promise!Next]_(Promise!vars)
    BY StepRefinement
  <1> QED BY <1>1, <1>2, Invariance, PTL DEF Spec, ImplementsDispatch, Promise!Spec

----------------------------------------------------------------------------
(***************************************************************************)
(* The pointers of the task lists denote these sequences (LinkedScheduler).*)
(***************************************************************************)

(* One ring of nodes: r[1] is the head, and r comes back to it at r[m+1].  *)
Links(N) == [next : [N -> N \cup {P!NULL}], prev : [N -> N \cup {P!NULL}]]
Loop(r, m, N) == /\ r \in [1..m+1 -> N] /\ r[m+1] = r[1]
                 /\ \A i, j \in 1..m : r[i] = r[j] => i = j
Joined(l, r, m) ==
  \A i \in 1..m : l.next[r[i]] = r[i+1] /\ l.prev[r[i+1]] = r[i]

(* No two steps of a walk around the ring end in the same node either.     *)
LEMMA LoopShifted ==
  ASSUME NEW N, NEW m \in Nat \ {0}, NEW r, Loop(r, m, N)
  PROVE  \A i, j \in 1..m : r[i+1] = r[j+1] => i = j
  <1> SUFFICES ASSUME NEW i \in 1..m, NEW j \in 1..m, r[i+1] = r[j+1] PROVE i = j
    OBVIOUS
  <1>1. \A a, b \in 1..m : r[a] = r[b] => a = b
    BY DEF Loop
  <1>2. r[m+1] = r[1] /\ 1 \in 1..m
    BY DEF Loop
  <1>3. CASE i = m /\ j # m
    <2>1. r[1] = r[j+1] /\ j+1 \in 1..m
      BY <1>2, <1>3
    <2> QED BY <1>1, <1>2, <2>1
  <1>4. CASE i # m /\ j = m
    <2>1. r[1] = r[i+1] /\ i+1 \in 1..m
      BY <1>2, <1>4
    <2> QED BY <1>1, <1>2, <2>1
  <1>5. CASE i # m /\ j # m
    <2>1. i+1 \in 1..m /\ j+1 \in 1..m
      BY <1>5
    <2> QED BY <1>1, <2>1
  <1> QED BY <1>3, <1>4, <1>5

(* A node that is not in the ring, put between two neighbours of it.       *)
LEMMA RingInsert ==
  ASSUME NEW N, NEW l \in Links(N), NEW m \in Nat \ {0}, NEW r, Loop(r, m, N),
         Joined(l, r, m),
         NEW e \in N, \A i \in 1..m : r[i] # e,
         NEW j \in 1..m, NEW k, k = P!__list_add(l, e, r[j], r[j+1]),
         NEW s, \A i \in 1..m+2 :
                  s[i] = IF i <= j THEN r[i] ELSE IF i = j+1 THEN e ELSE r[i-1]
  PROVE  /\ k \in Links(N) /\ Joined(k, s, m+1)
         /\ \A n \in N : n # e /\ (\A i \in 1..m : r[i] # n) =>
              k.next[n] = l.next[n] /\ k.prev[n] = l.prev[n]
  <1>1. /\ \A a \in 1..m+1 : r[a] \in N
        /\ r[m+1] = r[1]
        /\ \A a, b \in 1..m : r[a] = r[b] => a = b
    BY DEF Loop
  <1>2. \A a, b \in 1..m : r[a+1] = r[b+1] => a = b
    BY LoopShifted
  <1>3. j \in 1..m+1 /\ j+1 \in 1..m+1 /\ r[j] \in N /\ r[j+1] \in N
    BY <1>1
  <1>4. /\ k \in Links(N)
        /\ \A n \in N : k.next[n] =
             IF n = r[j] THEN e ELSE IF n = e THEN r[j+1] ELSE l.next[n]
        /\ \A n \in N : k.prev[n] =
             IF n = e THEN r[j] ELSE IF n = r[j+1] THEN e ELSE l.prev[n]
    <2>1. PICK p \in N, q \in N : p = r[j] /\ q = r[j+1]
      BY <1>3
    <2>2. k = P!__list_add(l, e, p, q)
      BY <2>1
    <2>3. /\ k \in Links(N)
          /\ \A n \in N : k.next[n] = IF n = p THEN e ELSE IF n = e THEN q ELSE l.next[n]
          /\ \A n \in N : k.prev[n] = IF n = e THEN p ELSE IF n = q THEN e ELSE l.prev[n]
      BY <2>2 DEF Links, P!__list_add
    <2> QED BY <2>1, <2>3, Zenon
  <1>5. \A a \in 1..m+1 : r[a] # e
    BY <1>1
  <1>6. ASSUME NEW i \in 1..m+1
        PROVE  k.next[s[i]] = s[i+1] /\ k.prev[s[i+1]] = s[i]
    <2>1. i \in 1..m+2 /\ i+1 \in 1..m+2
      OBVIOUS
    <2>2. CASE i < j
      <3>1. s[i] = r[i] /\ s[i+1] = r[i+1] /\ i \in 1..m /\ i+1 \in 1..m+1
        BY <2>1, <2>2
      <3>2. l.next[r[i]] = r[i+1] /\ l.prev[r[i+1]] = r[i]
        BY <3>1 DEF Joined
      <3>3. r[i] # r[j] /\ r[i+1] # r[j+1]
        BY <1>1, <1>2, <2>2, <3>1
      <3>4. r[i] # e /\ r[i+1] # e /\ r[i] \in N /\ r[i+1] \in N
        BY <1>1, <1>5, <3>1
      <3> QED BY <1>4, <3>1, <3>2, <3>3, <3>4
    <2>3. CASE i = j
      <3>1. s[i] = r[j] /\ s[i+1] = e
        BY <2>1, <2>3
      <3> QED BY <1>3, <1>4, <3>1
    <2>4. CASE i = j+1
      <3>1. s[i] = e /\ s[i+1] = r[j+1]
        BY <2>1, <2>4
      <3> QED BY <1>3, <1>4, <1>5, <3>1
    <2>5. CASE i > j+1
      <3>1. s[i] = r[i-1] /\ s[i+1] = r[i] /\ i-1 \in 1..m /\ (i-1)+1 = i /\ i \in 1..m+1
        BY <2>1, <2>5
      <3>2. l.next[r[i-1]] = r[i] /\ l.prev[r[i]] = r[i-1]
        BY <3>1 DEF Joined
      <3>3. r[i-1] # r[j] /\ r[i] # r[j+1]
        BY <1>1, <1>2, <2>5, <3>1
      <3>4. r[i-1] # e /\ r[i] # e /\ r[i-1] \in N /\ r[i] \in N
        BY <1>1, <1>5, <3>1
      <3> QED BY <1>4, <3>1, <3>2, <3>3, <3>4
    <2> QED BY <2>2, <2>3, <2>4, <2>5
  <1>7. ASSUME NEW n \in N, n # e, \A i \in 1..m : r[i] # n
        PROVE  k.next[n] = l.next[n] /\ k.prev[n] = l.prev[n]
    <2>1. n # r[j] /\ n # r[j+1]
      BY <1>1, <1>7
    <2> QED BY <1>4, <1>7, <2>1
  <1> QED BY <1>4, <1>6, <1>7 DEF Joined

(* A node of the ring, though not the head, unlinked.                      *)
LEMMA RingDelete ==
  ASSUME NEW N, NEW l \in Links(N), NEW m \in Nat \ {0}, NEW r, Loop(r, m, N),
         Joined(l, r, m),
         NEW j \in 2..m, NEW e, e = r[j], NEW k, k = P!list_del(l, e),
         NEW s, \A i \in 1..m : s[i] = IF i < j THEN r[i] ELSE r[i+1]
  PROVE  /\ k \in Links(N) /\ Joined(k, s, m-1)
         /\ \A n \in N : (\A i \in 1..m : r[i] # n) =>
              k.next[n] = l.next[n] /\ k.prev[n] = l.prev[n]
  <1>1. /\ \A a \in 1..m+1 : r[a] \in N
        /\ r[m+1] = r[1]
        /\ \A a, b \in 1..m : r[a] = r[b] => a = b
    BY DEF Loop
  <1>2. \A a, b \in 1..m : r[a+1] = r[b+1] => a = b
    BY LoopShifted
  <1>3. /\ j-1 \in 1..m /\ j \in 1..m /\ j+1 \in 1..m+1 /\ j \in 1..m+1 /\ (j-1)+1 = j
        /\ r[j-1] \in N /\ r[j] \in N /\ r[j+1] \in N
    BY <1>1
  <1>4. l.prev[r[j]] = r[j-1] /\ l.next[r[j]] = r[j+1]
    BY <1>3 DEF Joined
  <1>5. /\ k \in Links(N)
        /\ \A n \in N : k.next[n] =
             IF n = r[j] THEN P!NULL ELSE IF n = r[j-1] THEN r[j+1] ELSE l.next[n]
        /\ \A n \in N : k.prev[n] =
             IF n = r[j] THEN P!NULL ELSE IF n = r[j+1] THEN r[j-1] ELSE l.prev[n]
    <2>1. PICK a : a = P!__list_del(l, r[j-1], r[j+1])
      OBVIOUS
    <2>2. /\ a \in Links(N)
          /\ \A n \in N : a.next[n] = IF n = r[j-1] THEN r[j+1] ELSE l.next[n]
          /\ \A n \in N : a.prev[n] = IF n = r[j+1] THEN r[j-1] ELSE l.prev[n]
      BY <1>3, <2>1 DEF Links, P!__list_del
    <2>3. k = [next |-> [a.next EXCEPT ![r[j]] = P!NULL],
               prev |-> [a.prev EXCEPT ![r[j]] = P!NULL]]
      BY <1>4, <2>1 DEF P!list_del
    <2> QED BY <1>3, <2>2, <2>3 DEF Links
  <1>6. ASSUME NEW i \in 1..m-1
        PROVE  k.next[s[i]] = s[i+1] /\ k.prev[s[i+1]] = s[i]
    <2>1. i \in 1..m /\ i+1 \in 1..m
      OBVIOUS
    <2>2. CASE i+1 < j
      <3>1. s[i] = r[i] /\ s[i+1] = r[i+1]
        BY <2>1, <2>2
      <3>2. l.next[r[i]] = r[i+1] /\ l.prev[r[i+1]] = r[i]
        BY <2>1 DEF Joined
      <3>3. r[i] # r[j] /\ r[i] # r[j-1] /\ r[i+1] # r[j] /\ r[i+1] # r[j+1]
        BY <1>1, <1>2, <1>3, <2>1, <2>2
      <3>4. r[i] \in N /\ r[i+1] \in N
        BY <1>1, <2>1
      <3> QED BY <1>5, <3>1, <3>2, <3>3, <3>4
    <2>3. CASE i+1 = j
      <3>1. s[i] = r[j-1] /\ s[i+1] = r[j+1]
        BY <2>1, <2>3
      <3>2. r[j-1] # r[j] /\ r[j+1] # r[j]
        BY <1>1, <1>2, <1>3
      <3> QED BY <1>3, <1>5, <3>1, <3>2
    <2>4. CASE i >= j
      <3>1. s[i] = r[i+1] /\ s[i+1] = r[(i+1)+1] /\ (i+1)+1 \in 1..m+1
        BY <2>1, <2>4
      <3>2. l.next[r[i+1]] = r[(i+1)+1] /\ l.prev[r[(i+1)+1]] = r[i+1]
        BY <2>1 DEF Joined
      <3>3. r[i+1] # r[j] /\ r[i+1] # r[j-1]
        BY <1>1, <1>3, <2>1, <2>4
      <3>4. r[(i+1)+1] # r[(j-1)+1] /\ r[(i+1)+1] # r[j+1]
        BY <1>2, <1>3, <2>1, <2>4
      <3>5. r[i+1] \in N /\ r[(i+1)+1] \in N
        BY <1>1, <2>1, <3>1
      <3> QED BY <1>3, <1>5, <3>1, <3>2, <3>3, <3>4, <3>5
    <2> QED BY <2>2, <2>3, <2>4
  <1>7. ASSUME NEW n \in N, \A i \in 1..m : r[i] # n
        PROVE  k.next[n] = l.next[n] /\ k.prev[n] = l.prev[n]
    <2>1. n # r[j] /\ n # r[j+1] /\ n # r[j-1]
      BY <1>1, <1>3, <1>7
    <2> QED BY <1>5, <1>7, <2>1
  <1> QED BY <1>5, <1>6, <1>7 DEF Joined
----------------------------------------------------------------------------
(* The ring of one list of the kernel.                                     *)
Ring(h, q) == <<Node(h)>> \o q \o <<Node(h)>>

(* Heads and queues of tasks are different nodes, and none is at NULL.     *)
LEMMA NodeFacts ==
  /\ Slots \subseteq Nodes /\ P!NULL \notin Nodes
  /\ \A h \in Heads : Node(h) \in Nodes /\ Node(h) \notin Slots
  /\ \A g, h \in Heads : Node(g) = Node(h) => g = h
  BY SchedulerAssumption DEF Slots, Nodes, Node, Heads, P!NULL

(* The positions of a ring, and what it means that pointers denote it.     *)
LEMMA RingFacts ==
  ASSUME NEW h \in Heads, NEW q \in Seq(Slots), IsInjective(q),
         NEW r, r = Ring(h, q), NEW m, m = Len(q) + 1
  PROVE  /\ Len(q) \in Nat /\ m \in Nat \ {0} /\ m-1 = Len(q)
         /\ \A i \in 1..m+1 : r[i] = IF i = 1 \/ i = m+1 THEN Node(h) ELSE q[i-1]
         /\ Loop(r, m, Nodes)
         /\ \A n : (\E i \in 1..m : r[i] = n) <=> n = Node(h) \/ n \in ToSet(q)
         /\ \A l : P!Denotes(l, Node(h), q) <=> Joined(l, r, m)
  <1>1. Len(q) \in Nat /\ m \in Nat \ {0} /\ m-1 = Len(q)
    BY LenProperties
  <1>2. /\ Len(r) = m+1
        /\ \A i \in 1..m+1 : r[i] = IF i = 1 \/ i = m+1 THEN Node(h) ELSE q[i-1]
        /\ DOMAIN r = 1..m+1
    <2>1. Node(h) \in Nodes /\ q \in Seq(Nodes)
      BY NodeFacts
    <2>2. PICK a : a = <<Node(h)>> \o q
      OBVIOUS
    <2>3. /\ a \in Seq(Nodes) /\ Len(a) = m
          /\ \A i \in 1..m : a[i] = IF i = 1 THEN Node(h) ELSE q[i-1]
      BY <1>1, <2>1, <2>2
    <2>4. r = a \o <<Node(h)>>
      BY <2>2 DEF Ring
    <2> QED BY <1>1, <2>1, <2>3, <2>4
  <1>3. /\ \A i \in 1..Len(q) : q[i] \in Slots
        /\ \A i, j \in 1..Len(q) : q[i] = q[j] => i = j
        /\ ToSet(q) = {q[i] : i \in 1..Len(q)}
    BY <1>1, ElementOfSeq, ToSetPositions DEF IsInjective
  <1>4. Node(h) \in Nodes /\ Node(h) \notin Slots /\ Slots \subseteq Nodes
    BY NodeFacts
  <1>5. Loop(r, m, Nodes)
    <2>1. \A i \in 1..m+1 : r[i] \in Nodes
      BY <1>1, <1>2, <1>3, <1>4
    <2>2. r \in [1..m+1 -> Nodes]
      <3>1. r = [i \in 1..m+1 |-> r[i]]
        BY <1>1, <1>2, NodeFacts DEF Ring
      <3> QED BY <2>1, <3>1
    <2>3. r[m+1] = r[1]
      BY <1>1, <1>2
    <2>4. ASSUME NEW i \in 1..m, NEW j \in 1..m, r[i] = r[j] PROVE i = j
      <3>1. i # 1 => i-1 \in 1..Len(q) /\ r[i] = q[i-1]
        BY <1>1, <1>2
      <3>2. j # 1 => j-1 \in 1..Len(q) /\ r[j] = q[j-1]
        BY <1>1, <1>2
      <3>3. (i = 1 => r[i] = Node(h)) /\ (j = 1 => r[j] = Node(h))
        BY <1>1, <1>2
      <3> QED BY <1>3, <1>4, <2>4, <3>1, <3>2, <3>3
    <2> QED BY <2>2, <2>3, <2>4 DEF Loop
  <1>6. ASSUME NEW n
        PROVE  (\E i \in 1..m : r[i] = n) <=> n = Node(h) \/ n \in ToSet(q)
    <2>1. ASSUME NEW i \in 1..m, r[i] = n PROVE n = Node(h) \/ n \in ToSet(q)
      <3>1. i # 1 => i-1 \in 1..Len(q) /\ r[i] = q[i-1]
        BY <1>1, <1>2
      <3> QED BY <1>1, <1>2, <1>3, <2>1, <3>1
    <2>2. ASSUME n = Node(h) PROVE \E i \in 1..m : r[i] = n
      BY <1>1, <1>2, <2>2
    <2>3. ASSUME NEW i \in 1..Len(q), q[i] = n PROVE \E j \in 1..m : r[j] = n
      <3>1. i+1 \in 1..m /\ i+1 \in 1..m+1 /\ (i+1)-1 = i /\ r[i+1] = q[i]
        BY <1>1, <1>2
      <3> QED BY <2>3, <3>1
    <2> QED BY <1>3, <2>1, <2>2, <2>3
  <1>7. ASSUME NEW l PROVE P!Denotes(l, Node(h), q) <=> Joined(l, r, m)
    <2>1. r = <<Node(h)>> \o q \o <<Node(h)>> /\ m = Len(q) + 1
      BY DEF Ring
    <2> QED BY <2>1, Zenon DEF P!Denotes, Joined
  <1> QED BY <1>1, <1>2, <1>5, <1>6, <1>7

(* The ring of an empty list.                                              *)
LEMMA EmptyRing ==
  ASSUME NEW h \in Heads, NEW l, l.next[Node(h)] = Node(h), l.prev[Node(h)] = Node(h)
  PROVE  P!Denotes(l, Node(h), <<>>)
  <1>1. PICK r : r = <<Node(h)>> \o <<>> \o <<Node(h)>>
    OBVIOUS
  <1>2. r[1] = Node(h) /\ r[2] = Node(h) /\ Len(<<>>) = 0
    <2>1. PICK q : q = <<Node(h)>>
      OBVIOUS
    <2>2. q \in Seq(Nodes)
      BY <2>1, NodeFacts
    <2>3. q \o <<>> = q
      BY <2>2, ConcatEmptySeq
    <2> QED BY <1>1, <2>1, <2>3
  <1>3. \A i \in 1..Len(<<>>) + 1 : l.next[r[i]] = r[i+1] /\ l.prev[r[i+1]] = r[i]
    BY <1>2
  <1> QED BY <1>1, <1>3 DEF P!Denotes

(* The pointers of the list at h, once a head in U needs no longer be zero.*)
Held(l, ls, U, h) ==
  \/ P!Denotes(l, Node(h), ls[h])
  \/ h \notin U /\ ls[h] = <<>> /\ P!IsZero(l, Node(h))

Tied(l, ls, U) ==
  /\ l \in Links(Nodes) /\ WellLinked(ls, Heads, Slots)
  /\ \A h \in Heads : Held(l, ls, U, h)

(* An assignment outside its nodes leaves a list as it was.                *)
LEMMA Aside ==
  ASSUME NEW l, NEW k, NEW ls, NEW new, NEW U, NEW h \in Heads,
         ls[h] \in Seq(Slots), IsInjective(ls[h]), new[h] = ls[h],
         \A n \in Nodes : n = Node(h) \/ n \in Entries(ls, h) =>
           k.next[n] = l.next[n] /\ k.prev[n] = l.prev[n],
         Held(l, ls, U, h)
  PROVE  Held(k, new, U, h)
  <1>1. Node(h) \in Nodes
    BY NodeFacts
  <1>2. CASE P!Denotes(l, Node(h), ls[h])
    <2>1. PICK q \in Seq(Slots) : q = ls[h] /\ IsInjective(q)
      OBVIOUS
    <2>2. PICK r, m : r = Ring(h, q) /\ m = Len(q) + 1
      OBVIOUS
    <2>3. /\ m \in Nat \ {0} /\ Loop(r, m, Nodes)
          /\ \A n : (\E i \in 1..m : r[i] = n) <=> n = Node(h) \/ n \in ToSet(q)
          /\ \A x : P!Denotes(x, Node(h), q) <=> Joined(x, r, m)
      BY <2>1, <2>2, RingFacts
    <2>4. ASSUME NEW i \in 1..m PROVE k.next[r[i]] = r[i+1] /\ k.prev[r[i+1]] = r[i]
      <3>1. l.next[r[i]] = r[i+1] /\ l.prev[r[i+1]] = r[i]
        BY <1>2, <2>1, <2>3 DEF Joined
      <3>2. \E a \in 1..m : r[a] = r[i+1]
        <4>1. i+1 \in 1..m \/ (i+1 = m+1 /\ 1 \in 1..m)
          BY <2>3
        <4> QED BY <2>3, <4>1 DEF Loop
      <3>3. r[i] \in Nodes /\ r[i+1] \in Nodes
        BY <2>3 DEF Loop
      <3>4. /\ r[i] = Node(h) \/ r[i] \in Entries(ls, h)
            /\ r[i+1] = Node(h) \/ r[i+1] \in Entries(ls, h)
        BY <2>1, <2>3, <3>2 DEF Entries
      <3> QED BY <3>1, <3>3, <3>4
    <2> QED BY <2>1, <2>3, <2>4 DEF Held, Joined
  <1>3. CASE h \notin U /\ ls[h] = <<>> /\ P!IsZero(l, Node(h))
    BY <1>1, <1>3 DEF Held, P!IsZero
  <1> QED BY <1>2, <1>3 DEF Held

(* The ring of an initialised head.                                        *)
LEMMA TiedRing ==
  ASSUME NEW l, NEW ls, NEW U, Tied(l, ls, U), NEW h \in Heads,
         h \in U \/ ls[h] # <<>>
  PROVE  /\ ls[h] \in Seq(Slots) /\ IsInjective(ls[h]) /\ l \in Links(Nodes)
         /\ \A r, m : r = Ring(h, ls[h]) /\ m = Len(ls[h]) + 1 =>
              /\ Len(ls[h]) \in Nat /\ m \in Nat \ {0} /\ m-1 = Len(ls[h])
              /\ \A i \in 1..m+1 :
                   r[i] = IF i = 1 \/ i = m+1 THEN Node(h) ELSE ls[h][i-1]
              /\ Loop(r, m, Nodes)
              /\ \A n : (\E i \in 1..m : r[i] = n) <=>
                          n = Node(h) \/ n \in Entries(ls, h)
              /\ Joined(l, r, m)
  <1>1. WellLinked(ls, Heads, Slots) /\ l \in Links(Nodes) /\ Held(l, ls, U, h)
    BY DEF Tied
  <1>2. ls[h] \in Seq(Slots) /\ IsInjective(ls[h])
    BY <1>1, WellLinkedElim
  <1>3. P!Denotes(l, Node(h), ls[h])
    BY <1>1 DEF Held
  <1>4. PICK q \in Seq(Slots) : q = ls[h] /\ IsInjective(q)
    BY <1>2
  <1>5. ASSUME NEW r, NEW m, r = Ring(h, ls[h]), m = Len(ls[h]) + 1
        PROVE  /\ Len(ls[h]) \in Nat /\ m \in Nat \ {0} /\ m-1 = Len(ls[h])
               /\ \A i \in 1..m+1 :
                    r[i] = IF i = 1 \/ i = m+1 THEN Node(h) ELSE ls[h][i-1]
               /\ Loop(r, m, Nodes)
               /\ \A n : (\E i \in 1..m : r[i] = n) <=>
                           n = Node(h) \/ n \in Entries(ls, h)
               /\ Joined(l, r, m)
    <2>1. r = Ring(h, q) /\ m = Len(q) + 1
      BY <1>4, <1>5
    <2>2. /\ Len(q) \in Nat /\ m \in Nat \ {0} /\ m-1 = Len(q)
          /\ \A i \in 1..m+1 : r[i] = IF i = 1 \/ i = m+1 THEN Node(h) ELSE q[i-1]
          /\ Loop(r, m, Nodes)
      BY <1>4, <2>1, RingFacts
    <2>3. /\ \A n : (\E i \in 1..m : r[i] = n) <=> n = Node(h) \/ n \in ToSet(q)
          /\ \A x : P!Denotes(x, Node(h), q) <=> Joined(x, r, m)
      BY <1>4, <2>1, RingFacts
    <2> QED BY <1>3, <1>4, <2>2, <2>3 DEF Entries
  <1> QED BY <1>1, <1>2, <1>5

(* The pointers of one list change, from a ring to a ring.                 *)
LEMMA TiedIntro ==
  ASSUME NEW l, NEW ls, NEW U, Tied(l, ls, U), NEW h \in Heads,
         NEW k \in Links(Nodes), NEW new, WellLinked(new, Heads, Slots),
         \A g \in Heads : g # h => new[g] = ls[g],
         Joined(k, Ring(h, new[h]), Len(new[h]) + 1),
         \A n \in Nodes : n # Node(h) /\ n \notin Entries(ls, h) /\ n \notin Entries(new, h) =>
           k.next[n] = l.next[n] /\ k.prev[n] = l.prev[n]
  PROVE  Tied(k, new, U)
  <1> SUFFICES ASSUME NEW g \in Heads PROVE Held(k, new, U, g)
    BY DEF Tied
  <1>1. WellLinked(ls, Heads, Slots) /\ Held(l, ls, U, g)
    BY DEF Tied
  <1>2. ls[g] \in Seq(Slots) /\ IsInjective(ls[g])
    BY <1>1, WellLinkedElim
  <1>3. CASE g = h
    <2>1. PICK q \in Seq(Slots) : q = new[h] /\ IsInjective(q)
      BY WellLinkedElim
    <2>2. PICK r, m : r = Ring(h, q) /\ m = Len(q) + 1
      OBVIOUS
    <2>3. \A x : P!Denotes(x, Node(h), q) <=> Joined(x, r, m)
      BY <2>1, <2>2, RingFacts
    <2> QED BY <1>3, <2>1, <2>2, <2>3 DEF Held
  <1>4. CASE g # h
    <2>1. new[g] = ls[g] /\ Entries(new, g) = Entries(ls, g)
      BY <1>4 DEF Entries
    <2>2. \A x : x \in Entries(ls, g) => x \notin Entries(ls, h)
      BY <1>1, <1>4, WellLinkedElim
    <2>3. \A x : x \in Entries(new, g) => x \notin Entries(new, h)
      BY <1>4, WellLinkedElim
    <2>4. \A x : x \in Entries(ls, g) => x \in Slots
      BY <1>1, WellLinkedElim
    <2>5. Entries(ls, h) \subseteq Slots /\ Entries(new, h) \subseteq Slots
      BY <1>1, WellLinkedElim
    <2>6. ASSUME NEW n \in Nodes, n = Node(g) \/ n \in Entries(ls, g)
          PROVE  k.next[n] = l.next[n] /\ k.prev[n] = l.prev[n]
      <3>1. n # Node(h)
        BY <1>4, <2>4, <2>6, NodeFacts
      <3>2. n \notin Entries(ls, h) /\ n \notin Entries(new, h)
        BY <2>1, <2>2, <2>3, <2>5, <2>6, NodeFacts
      <3> QED BY <3>1, <3>2
    <2> QED BY <1>1, <1>2, <2>1, <2>6, Aside
  <1> QED BY <1>3, <1>4

----------------------------------------------------------------------------
(* The operations of list.h on pointers do what those of Lists do.         *)

(* An entry of no list is added at either end of one.                      *)
LEMMA LinkExtend ==
  ASSUME NEW l, NEW ls, NEW U, Tied(l, ls, U), NEW h \in Heads, h \in U,
         NEW e \in Slots, \A g \in Heads : e \notin Entries(ls, g),
         NEW k, NEW new,
         \/ k = P!list_add(l, e, Node(h)) /\ new = list_add(ls, e, h)
         \/ k = P!list_add_tail(l, e, Node(h)) /\ new = list_add_tail(ls, e, h)
  PROVE  Tied(k, new, U)
  <1>1. WellLinked(ls, Heads, Slots)
    BY DEF Tied
  <1>2. DOMAIN ls = Heads
    BY <1>1, WellLinkedElim
  <1>3. /\ WellLinked(new, Heads, Slots)
        /\ \A g \in Heads : Entries(new, g) =
             IF g = h THEN Entries(ls, g) \cup {e} ELSE Entries(ls, g)
    <2>1. new = list_add(ls, e, h) \/ new = list_add_tail(ls, e, h)
      OBVIOUS
    <2> QED BY <1>1, <2>1, ListExtend
  <1>4. PICK r, m : r = Ring(h, ls[h]) /\ m = Len(ls[h]) + 1
    OBVIOUS
  <1>5. /\ ls[h] \in Seq(Slots) /\ l \in Links(Nodes)
        /\ Len(ls[h]) \in Nat /\ m \in Nat \ {0} /\ m-1 = Len(ls[h])
        /\ \A i \in 1..m+1 : r[i] = IF i = 1 \/ i = m+1 THEN Node(h) ELSE ls[h][i-1]
        /\ Loop(r, m, Nodes)
        /\ \A n : (\E i \in 1..m : r[i] = n) <=> n = Node(h) \/ n \in Entries(ls, h)
        /\ Joined(l, r, m)
    BY <1>4, TiedRing
  <1>6. e \in Nodes /\ \A i \in 1..m : r[i] # e
    BY <1>5, NodeFacts
  <1>7. PICK s : s = Ring(h, new[h])
    OBVIOUS
  <1>8. /\ new[h] \in Seq(Slots) /\ IsInjective(new[h])
    BY <1>3, WellLinkedElim
  <1>9. \A n : n = Len(new[h]) + 1 =>
          \A i \in 1..n+1 : s[i] = IF i = 1 \/ i = n+1 THEN Node(h) ELSE new[h][i-1]
    <2>1. PICK q \in Seq(Slots) : q = new[h] /\ IsInjective(q)
      BY <1>8
    <2>2. PICK n : n = Len(q) + 1
      OBVIOUS
    <2>3. \A i \in 1..n+1 : s[i] = IF i = 1 \/ i = n+1 THEN Node(h) ELSE q[i-1]
      BY <1>7, <2>1, <2>2, RingFacts
    <2> QED BY <2>1, <2>2, <2>3
  <1>10. \E j \in 1..m : /\ k = P!__list_add(l, e, r[j], r[j+1])
                         /\ Len(new[h]) + 1 = m+1
                         /\ \A i \in 1..m+2 :
                              s[i] = IF i <= j THEN r[i]
                                     ELSE IF i = j+1 THEN e ELSE r[i-1]
    <2>1. CASE k = P!list_add(l, e, Node(h)) /\ new = list_add(ls, e, h)
      <3>1. 1 \in 1..m /\ 1 \in 1..m+1 /\ r[1] = Node(h) /\ r[1+1] = l.next[Node(h)]
        BY <1>5 DEF Joined
      <3>2. k = P!__list_add(l, e, r[1], r[1+1])
        BY <2>1, <3>1 DEF P!list_add
      <3>3. new[h] = <<e>> \o ls[h]
        BY <1>2, <2>1 DEF list_add
      <3>4. /\ Len(new[h]) = m
            /\ \A i \in 1..m : new[h][i] = IF i = 1 THEN e ELSE ls[h][i-1]
        BY <1>5, <3>3
      <3>5. \A i \in 1..m+2 : s[i] = IF i = 1 \/ i = m+2 THEN Node(h) ELSE new[h][i-1]
        <4>1. m+1 = Len(new[h]) + 1 /\ (m+1)+1 = m+2
          BY <1>5, <3>4
        <4> QED BY <1>9, <4>1
      <3>6. ASSUME NEW i \in 1..m+2
            PROVE  s[i] = IF i <= 1 THEN r[i] ELSE IF i = 1+1 THEN e ELSE r[i-1]
        <4>1. CASE i = 1
          BY <1>5, <3>1, <3>5, <4>1
        <4>2. CASE i = 2
          <5>1. 1 \in 1..m /\ i # m+2 /\ i-1 = 1
            BY <1>5, <4>2
          <5> QED BY <3>4, <3>5, <4>2, <5>1
        <4>3. CASE i > 2
          <5>1. i-1 \in 1..m+1 /\ i-1 # 1
            BY <1>5, <4>3
          <5>2. r[i-1] = IF i-1 = m+1 THEN Node(h) ELSE ls[h][(i-1)-1]
            BY <1>5, <5>1
          <5>3. i # m+2 => i-1 \in 1..m /\ new[h][i-1] = ls[h][(i-1)-1]
            BY <1>5, <3>4, <4>3, <5>1
          <5> QED BY <1>5, <3>5, <4>3, <5>1, <5>2, <5>3
        <4> QED BY <4>1, <4>2, <4>3
      <3> QED BY <3>1, <3>2, <3>4, <3>6
    <2>2. CASE k = P!list_add_tail(l, e, Node(h)) /\ new = list_add_tail(ls, e, h)
      <3>1. m \in 1..m /\ m+1 \in 1..m+1 /\ r[m+1] = Node(h) /\ r[m] = l.prev[Node(h)]
        BY <1>5 DEF Joined
      <3>2. k = P!__list_add(l, e, r[m], r[m+1])
        BY <2>2, <3>1 DEF P!list_add_tail
      <3>3. new[h] = Append(ls[h], e)
        BY <1>2, <2>2 DEF list_add_tail
      <3>4. /\ Len(new[h]) = m
            /\ \A i \in 1..m : new[h][i] = IF i = m THEN e ELSE ls[h][i]
        BY <1>5, <3>3
      <3>5. \A i \in 1..m+2 : s[i] = IF i = 1 \/ i = m+2 THEN Node(h) ELSE new[h][i-1]
        <4>1. m+1 = Len(new[h]) + 1 /\ (m+1)+1 = m+2
          BY <1>5, <3>4
        <4> QED BY <1>9, <4>1
      <3>6. ASSUME NEW i \in 1..m+2
            PROVE  s[i] = IF i <= m THEN r[i] ELSE IF i = m+1 THEN e ELSE r[i-1]
        <4>1. CASE i <= m
          <5>1. i \in 1..m+1 /\ i # m+1 /\ i # m+2
            BY <1>5, <4>1
          <5>2. r[i] = IF i = 1 THEN Node(h) ELSE ls[h][i-1]
            BY <1>5, <5>1
          <5>3. i # 1 => i-1 \in 1..m /\ i-1 # m
            BY <1>5, <4>1
          <5> QED BY <3>4, <3>5, <4>1, <5>1, <5>2, <5>3
        <4>2. CASE i = m+1
          <5>1. i-1 \in 1..m /\ i-1 = m /\ i # 1 /\ i # m+2
            BY <1>5, <4>2
          <5> QED BY <1>5, <3>4, <3>5, <4>2, <5>1
        <4>3. CASE i = m+2
          <5>1. i-1 = m+1 /\ ~(i <= m) /\ i # m+1
            BY <1>5, <4>3
          <5> QED BY <3>1, <3>5, <4>3, <5>1
        <4> QED BY <1>5, <4>1, <4>2, <4>3
      <3> QED BY <3>1, <3>2, <3>4, <3>6
    <2> QED BY <2>1, <2>2
  <1>11. PICK j \in 1..m : /\ k = P!__list_add(l, e, r[j], r[j+1])
                           /\ Len(new[h]) + 1 = m+1
                           /\ \A i \in 1..m+2 :
                                s[i] = IF i <= j THEN r[i]
                                       ELSE IF i = j+1 THEN e ELSE r[i-1]
    BY <1>10
  <1>12. /\ k \in Links(Nodes) /\ Joined(k, s, m+1)
         /\ \A n \in Nodes : n # e /\ (\A i \in 1..m : r[i] # n) =>
              k.next[n] = l.next[n] /\ k.prev[n] = l.prev[n]
    <2>1. PICK N : N = Nodes
      OBVIOUS
    <2>2. /\ l \in Links(N) /\ m \in Nat \ {0} /\ Loop(r, m, N) /\ Joined(l, r, m)
          /\ e \in N /\ (\A i \in 1..m : r[i] # e) /\ j \in 1..m
          /\ k = P!__list_add(l, e, r[j], r[j+1])
          /\ \A i \in 1..m+2 :
               s[i] = IF i <= j THEN r[i] ELSE IF i = j+1 THEN e ELSE r[i-1]
      BY <1>5, <1>6, <1>11, <2>1
    <2>3. /\ k \in Links(N) /\ Joined(k, s, m+1)
          /\ \A n \in N : n # e /\ (\A i \in 1..m : r[i] # n) =>
               k.next[n] = l.next[n] /\ k.prev[n] = l.prev[n]
      BY <2>2, RingInsert
    <2> QED BY <2>1, <2>3
  <1>13. \A g \in Heads : g # h => new[g] = ls[g]
    BY <1>2 DEF list_add, list_add_tail
  <1>14. Joined(k, Ring(h, new[h]), Len(new[h]) + 1)
    BY <1>7, <1>11, <1>12
  <1>15. ASSUME NEW n \in Nodes, n # Node(h), n \notin Entries(ls, h), n \notin Entries(new, h)
         PROVE  k.next[n] = l.next[n] /\ k.prev[n] = l.prev[n]
    BY <1>3, <1>5, <1>12, <1>15
  <1> QED BY <1>3, <1>12, <1>13, <1>14, <1>15, TiedIntro

(* An entry is taken off the list that it is on.                           *)
LEMMA LinkDel ==
  ASSUME NEW l, NEW ls, NEW U, Tied(l, ls, U), NEW h \in Heads,
         NEW e \in Entries(ls, h)
  PROVE  Tied(P!list_del(l, e), list_del(ls, e), U)
  <1>1. PICK k : k = P!list_del(l, e)
    OBVIOUS
  <1>2. PICK new : new = list_del(ls, e)
    OBVIOUS
  <1>3. WellLinked(ls, Heads, Slots)
    BY DEF Tied
  <1>4. /\ DOMAIN ls = Heads
        /\ \A g \in Heads : ls[g] \in Seq(Slots) /\ IsInjective(ls[g])
        /\ \A g \in Heads : e \in Entries(ls, g) => g = h
    BY <1>3, WellLinkedElim
  <1>5. /\ WellLinked(new, Heads, Slots)
        /\ \A g \in Heads : Entries(new, g) = Entries(ls, g) \ {e}
    BY <1>2, <1>3, ListDel
  <1>6. /\ \A g \in Heads : new[g] = RemoveFirst(ls[g], e)
        /\ \A g \in Heads : g # h => new[g] = ls[g]
    BY <1>2, <1>4, RemoveAbsent DEF list_del, Entries
  <1>7. ls[h] # <<>>
    BY <1>4, ToSetPositions DEF Entries
  <1>8. PICK r, m : r = Ring(h, ls[h]) /\ m = Len(ls[h]) + 1
    OBVIOUS
  <1>9. /\ ls[h] \in Seq(Slots) /\ l \in Links(Nodes)
        /\ Len(ls[h]) \in Nat /\ m \in Nat \ {0} /\ m-1 = Len(ls[h])
        /\ \A i \in 1..m+1 : r[i] = IF i = 1 \/ i = m+1 THEN Node(h) ELSE ls[h][i-1]
        /\ Loop(r, m, Nodes)
        /\ \A n : (\E i \in 1..m : r[i] = n) <=> n = Node(h) \/ n \in Entries(ls, h)
        /\ Joined(l, r, m)
    BY <1>7, <1>8, TiedRing
  <1>10. PICK p \in 1..Len(ls[h]) : ls[h][p] = e
    BY <1>4, ToSetPositions DEF Entries
  <1>11. /\ p+1 \in 2..m /\ r[p+1] = e
         /\ \A i \in 1..Len(ls[h]) : ls[h][i] = ls[h][p] => i = p
    BY <1>4, <1>9, <1>10 DEF IsInjective
  <1>12. PICK q : q = new[h]
    OBVIOUS
  <1>13. /\ q \in Seq(Slots) /\ IsInjective(q) /\ Len(q) = m-2 /\ Len(q) + 1 = m-1
         /\ \A i \in 1..m-2 : q[i] = IF i < p THEN ls[h][i] ELSE ls[h][i+1]
    <2>1. /\ Len(q) = Len(ls[h]) - 1
          /\ \A i \in 1..Len(ls[h])-1 : q[i] = IF i < p THEN ls[h][i] ELSE ls[h][i+1]
      <3>1. PICK a \in Seq(Slots) : a = ls[h]
        BY <1>9
      <3>2. /\ p \in 1..Len(a) /\ q = RemoveFirst(a, a[p])
            /\ \A i \in 1..Len(a) : a[i] = a[p] => i = p
        BY <1>6, <1>10, <1>11, <1>12, <3>1
      <3>3. /\ Len(q) = Len(a) - 1
            /\ \A i \in 1..Len(a)-1 : q[i] = IF i < p THEN a[i] ELSE a[i+1]
        BY <3>2, RemoveFirstAt
      <3> QED BY <3>1, <3>3
    <2> QED BY <1>5, <1>9, <1>12, <2>1, WellLinkedElim
  <1>14. PICK s : s = Ring(h, q)
    OBVIOUS
  <1>15. \A i \in 1..m : s[i] = IF i = 1 \/ i = m THEN Node(h) ELSE q[i-1]
    <2>1. PICK n : n = Len(q) + 1
      OBVIOUS
    <2>2. \A i \in 1..n+1 : s[i] = IF i = 1 \/ i = n+1 THEN Node(h) ELSE q[i-1]
      BY <1>13, <1>14, <2>1, RingFacts
    <2> QED BY <1>9, <1>13, <2>1, <2>2
  <1>16. ASSUME NEW i \in 1..m
         PROVE  s[i] = IF i < p+1 THEN r[i] ELSE r[i+1]
    <2>1. i \in 1..m+1 /\ i+1 \in 1..m+1
      BY <1>9
    <2>2. CASE i < p+1
      <3>1. i # m /\ i # m+1
        BY <1>9, <2>2
      <3>2. i # 1 => i-1 \in 1..m-2 /\ i-1 < p
        BY <1>9, <2>2
      <3> QED BY <1>9, <1>13, <1>15, <2>1, <2>2, <3>1, <3>2
    <2>3. CASE i >= p+1 /\ i # m
      <3>1. i-1 \in 1..m-2 /\ ~(i-1 < p) /\ i # 1 /\ i+1 # m+1 /\ i+1 # 1 /\ (i-1)+1 = i
            /\ (i+1)-1 = i
        BY <1>9, <1>10, <2>3
      <3>2. s[i] = ls[h][i]
        BY <1>13, <1>15, <2>3, <3>1
      <3>3. r[i+1] = ls[h][i]
        BY <1>9, <2>1, <3>1
      <3> QED BY <2>3, <3>2, <3>3
    <2>4. CASE i >= p+1 /\ i = m
      BY <1>9, <1>15, <2>1, <2>4
    <2> QED BY <2>2, <2>3, <2>4
  <1>17. /\ k \in Links(Nodes) /\ Joined(k, s, m-1)
         /\ \A n \in Nodes : (\A i \in 1..m : r[i] # n) =>
              k.next[n] = l.next[n] /\ k.prev[n] = l.prev[n]
    <2>1. PICK j \in 2..m : j = p+1 /\ r[j] = e
      BY <1>11
    <2>2. e = r[j] /\ k = P!list_del(l, e)
      BY <1>1, <2>1
    <2>3. \A i \in 1..m : s[i] = IF i < j THEN r[i] ELSE r[i+1]
      BY <1>16, <2>1
    <2>4. PICK N : N = Nodes
      OBVIOUS
    <2>5. /\ l \in Links(N) /\ m \in Nat \ {0} /\ Loop(r, m, N) /\ Joined(l, r, m)
          /\ j \in 2..m /\ e = r[j] /\ k = P!list_del(l, e)
          /\ \A i \in 1..m : s[i] = IF i < j THEN r[i] ELSE r[i+1]
      BY <1>9, <2>1, <2>2, <2>3, <2>4
    <2>6. /\ k \in Links(N) /\ Joined(k, s, m-1)
          /\ \A n \in N : (\A i \in 1..m : r[i] # n) =>
               k.next[n] = l.next[n] /\ k.prev[n] = l.prev[n]
      BY <2>5, RingDelete
    <2> QED BY <2>4, <2>6
  <1>18. Joined(k, Ring(h, new[h]), Len(new[h]) + 1)
    BY <1>12, <1>13, <1>14, <1>17
  <1>19. ASSUME NEW n \in Nodes, n # Node(h), n \notin Entries(ls, h), n \notin Entries(new, h)
         PROVE  k.next[n] = l.next[n] /\ k.prev[n] = l.prev[n]
    BY <1>9, <1>17, <1>19
  <1>20. Tied(k, new, U)
    BY <1>5, <1>6, <1>17, <1>18, <1>19, TiedIntro
  <1> QED BY <1>1, <1>2, <1>20

(* The copy of a task structure over one that is on no list.               *)
LEMMA LinkCopied ==
  ASSUME NEW l, NEW ls, NEW U, Tied(l, ls, U), NEW src \in Slots,
         NEW e \in Slots, \A g \in Heads : e \notin Entries(ls, g)
  PROVE  Tied(P!Copied(l, src, e), ls, U)
  <1>1. WellLinked(ls, Heads, Slots) /\ l \in Links(Nodes)
    BY DEF Tied
  <1>2. PICK k : k = P!Copied(l, src, e)
    OBVIOUS
  <1>3. src \in Nodes /\ e \in Nodes
    BY NodeFacts
  <1>4. /\ k \in Links(Nodes)
        /\ \A n \in Nodes : n # e => k.next[n] = l.next[n] /\ k.prev[n] = l.prev[n]
    BY <1>1, <1>2, <1>3 DEF Links, P!Copied
  <1>5. ASSUME NEW h \in Heads PROVE Held(k, ls, U, h)
    <2>1. ls[h] \in Seq(Slots) /\ IsInjective(ls[h])
      BY <1>1, WellLinkedElim
    <2>2. Held(l, ls, U, h)
      BY DEF Tied
    <2>3. \A n \in Nodes : n = Node(h) \/ n \in Entries(ls, h) =>
            k.next[n] = l.next[n] /\ k.prev[n] = l.prev[n]
      BY <1>4, NodeFacts
    <2> QED BY <2>1, <2>2, <2>3, Aside
  <1> QED BY <1>1, <1>2, <1>4, <1>5 DEF Tied

(* INIT_LIST_HEAD on an empty list, also on one still zero.                *)
LEMMA LinkInit ==
  ASSUME NEW l, NEW ls, NEW U, Tied(l, ls, U), NEW h \in Heads, ls[h] = <<>>
  PROVE  Tied(P!INIT_LIST_HEAD(l, Node(h)), ls, U \cup {h})
  <1>1. WellLinked(ls, Heads, Slots) /\ l \in Links(Nodes)
    BY DEF Tied
  <1>2. PICK k : k = P!INIT_LIST_HEAD(l, Node(h))
    OBVIOUS
  <1>3. Node(h) \in Nodes
    BY NodeFacts
  <1>4. /\ k \in Links(Nodes)
        /\ \A n \in Nodes : n # Node(h) => k.next[n] = l.next[n] /\ k.prev[n] = l.prev[n]
        /\ k.next[Node(h)] = Node(h) /\ k.prev[Node(h)] = Node(h)
    BY <1>1, <1>2, <1>3 DEF Links, P!INIT_LIST_HEAD
  <1>5. ASSUME NEW g \in Heads PROVE Held(k, ls, U \cup {h}, g)
    <2>1. ls[g] \in Seq(Slots) /\ IsInjective(ls[g])
      BY <1>1, WellLinkedElim
    <2>2. CASE g # h
      <3>1. Held(l, ls, U, g)
        BY DEF Tied
      <3>2. \A n : n \in Entries(ls, g) => n \in Slots
        BY <1>1, WellLinkedElim
      <3>3. \A n \in Nodes : n = Node(g) \/ n \in Entries(ls, g) =>
              k.next[n] = l.next[n] /\ k.prev[n] = l.prev[n]
        BY <1>4, <2>2, <3>2, NodeFacts
      <3>4. Held(k, ls, U, g)
        BY <2>1, <3>1, <3>3, Aside
      <3> QED BY <2>2, <3>4 DEF Held
    <2>3. CASE g = h
      BY <1>4, <2>3, EmptyRing DEF Held
    <2> QED BY <2>2, <2>3
  <1> QED BY <1>1, <1>2, <1>4, <1>5 DEF Tied

(* list_empty and list_first read the same from the pointers.              *)
LEMMA LinkFirst ==
  ASSUME NEW l, NEW ls, NEW U, Tied(l, ls, U), NEW h \in Heads, h \in U
  PROVE  /\ P!list_empty(l, Node(h)) <=> ls[h] = <<>>
         /\ ls[h] # <<>> => P!list_first(l, Node(h)) = Head(ls[h])
  <1>1. PICK r, m : r = Ring(h, ls[h]) /\ m = Len(ls[h]) + 1
    OBVIOUS
  <1>2. /\ ls[h] \in Seq(Slots)
        /\ Len(ls[h]) \in Nat /\ m \in Nat \ {0} /\ m-1 = Len(ls[h])
        /\ \A i \in 1..m+1 : r[i] = IF i = 1 \/ i = m+1 THEN Node(h) ELSE ls[h][i-1]
        /\ Joined(l, r, m)
    BY <1>1, TiedRing, SMTT(40)
  <1>3. 1 \in 1..m /\ 1 \in 1..m+1 /\ 2 \in 1..m+1 /\ 1+1 = 2
    BY <1>2
  <1>4. r[1] = Node(h) /\ l.next[Node(h)] = r[2]
    BY <1>2, <1>3 DEF Joined
  <1>5. CASE ls[h] = <<>>
    <2>1. m = 1
      BY <1>1, <1>5
    <2>2. r[2] = Node(h)
      BY <1>2, <1>3, <2>1
    <2> QED BY <1>4, <1>5, <2>2 DEF P!list_empty
  <1>6. CASE ls[h] # <<>>
    <2>1. Len(ls[h]) \in Nat \ {0} /\ Head(ls[h]) = ls[h][1] /\ ls[h][1] \in Slots
      BY <1>2, <1>6, ToSetPositions, HeadTailProperties
    <2>2. r[2] = ls[h][1]
      BY <1>1, <1>2, <1>3, <2>1
    <2>3. r[2] # Node(h)
      BY <2>1, <2>2, NodeFacts
    <2> QED BY <1>4, <1>6, <2>1, <2>2, <2>3 DEF P!list_empty, P!list_first
  <1> QED BY <1>5, <1>6

(* Fewer heads need be initialised.                                        *)
LEMMA TiedWeaken ==
  ASSUME NEW l, NEW ls, NEW U, Tied(l, ls, U), NEW V, V \subseteq U
  PROVE  Tied(l, ls, V)
  BY DEF Tied, Held

(* A task moves from the list it is on to another.                         *)
LEMMA LinkMove ==
  ASSUME NEW l, NEW ls, NEW U, Tied(l, ls, U), NEW g \in Heads, NEW e \in Entries(ls, g),
         NEW h \in Heads, h \in U
  PROVE  /\ Tied(Relink(l, e, h), Requeue(ls, e, h), U)
         /\ Tied(P!list_add(P!list_del(l, e), e, Node(h)), list_add(list_del(ls, e), e, h), U)
         /\ \A src \in Slots :
              Tied(P!list_add(P!Copied(P!list_del(l, e), src, e), e, Node(h)),
                   list_add(list_del(ls, e), e, h), U)
  <1>1. WellLinked(ls, Heads, Slots)
    BY DEF Tied
  <1>2. PICK k, new : k = P!list_del(l, e) /\ new = list_del(ls, e)
    OBVIOUS
  <1>3. Tied(k, new, U)
    BY <1>2, LinkDel
  <1>4. e \in Slots /\ \A f \in Heads : e \notin Entries(new, f)
    BY <1>1, <1>2, ListDel, WellLinkedElim
  <1>5. Tied(P!list_add_tail(k, e, Node(h)), list_add_tail(new, e, h), U)
    BY <1>3, <1>4, LinkExtend
  <1>6. Tied(P!list_add(k, e, Node(h)), list_add(new, e, h), U)
    BY <1>3, <1>4, LinkExtend
  <1>7. ASSUME NEW src \in Slots
        PROVE  Tied(P!list_add(P!Copied(k, src, e), e, Node(h)), list_add(new, e, h), U)
    <2>1. PICK c : c = P!Copied(k, src, e)
      OBVIOUS
    <2>2. Tied(c, new, U)
      BY <1>3, <1>4, <2>1, LinkCopied
    <2>3. Tied(P!list_add(c, e, Node(h)), list_add(new, e, h), U)
      BY <1>4, <2>2, LinkExtend
    <2> QED BY <2>1, <2>3
  <1> QED BY <1>2, <1>5, <1>6, <1>7 DEF Relink, Requeue
----------------------------------------------------------------------------
(* The loop that empties the queue of a semaphore.                         *)

(* One round: nothing once the queue is empty.                             *)
Round(l, s) ==
  IF P!list_empty(l, Node(s)) THEN l
  ELSE Relink(l, P!list_first(l, Node(s)), runqueue)

(* The recursive definition of Emptied has a solution.                     *)
LEMMA EmptiedDef ==
  ASSUME NEW l, NEW s
  PROVE  \E f : /\ f[0] = l
                /\ \A n \in 1..NrTasks : f[n] = Round(f[n-1], s)
                /\ Emptied(l, s) = f[NrTasks]
  <1> DEFINE Sol(f, m) == f = [n \in 0..m |-> IF n = 0 THEN l ELSE Round(f[n-1], s)]
             I == {m \in Nat : \E f : Sol(f, m)}
  <1>1. 0 \in I
    <2>1. PICK f : f = [n \in 0..0 |-> l]
      OBVIOUS
    <2>2. Sol(f, 0)
      BY <2>1
    <2> QED BY <2>2
  <1>2. ASSUME NEW m \in Nat, m \in I PROVE m+1 \in I
    <2>1. PICK f : Sol(f, m)
      BY <1>2
    <2>2. PICK g : g = [n \in 0..m+1 |-> IF n = m+1 THEN Round(f[m], s) ELSE f[n]]
      OBVIOUS
    <2>3. \A n \in 0..m : g[n] = f[n]
      BY <2>2
    <2>4. ASSUME NEW n \in 0..m+1
          PROVE g[n] = IF n = 0 THEN l ELSE Round(g[n-1], s)
      <3>1. CASE n = 0
        <4>1. 0 \in 0..m /\ g[0] = f[0]
          BY <2>3
        <4>2. f[0] = l
          BY <2>1, <4>1
        <4> QED BY <3>1, <4>1, <4>2
      <3>2. CASE n # 0
        <4>1. n-1 \in 0..m /\ g[n-1] = f[n-1]
          BY <3>2, <2>3
        <4>2. CASE n = m+1
          <5>1. n-1 = m /\ g[n] = Round(f[m], s)
            BY <2>2, <4>2
          <5> QED BY <3>2, <4>1, <5>1
        <4>3. CASE n # m+1
          <5>1. n \in 0..m
            BY <4>3
          <5>2. f[n] = Round(f[n-1], s)
            BY <5>1, <2>1, <3>2
          <5> QED BY <2>3, <3>2, <4>1, <5>1, <5>2
        <4> QED BY <4>2, <4>3
      <3> QED BY <3>1, <3>2
    <2>5. Sol(g, m+1)
      BY <2>2, <2>4
    <2> QED BY <2>5
  <1>3. NrTasks \in Nat
    BY SchedulerAssumption
  <1>4. NrTasks \in I
    <2> HIDE DEF I
    <2> QED BY <1>1, <1>2, <1>3, NatSetInduction
  <1>5. PICK f : f = CHOOSE g : Sol(g, NrTasks)
    OBVIOUS
  <1>6. Sol(f, NrTasks)
    <2>1. \E g : Sol(g, NrTasks)
      BY <1>4
    <2> HIDE DEF Sol
    <2> QED BY <1>5, <2>1, Zenon
  <1>7. Emptied(l, s) = f[NrTasks]
    BY <1>5 DEF Emptied, Round
  <1>8. f[0] = l /\ \A n \in 1..NrTasks : f[n] = Round(f[n-1], s)
    BY <1>3, <1>6
  <1> QED BY <1>7, <1>8

(* A list has no more entries than there are tasks.                        *)
LEMMA ListBounded ==
  ASSUME NEW q \in Seq(Slots), IsInjective(q)
  PROVE  Len(q) \in 0..NrTasks
  <1>1. NrTasks \in Nat /\ Slots = 0..NrTasks-1 /\ Len(q) \in Nat
    BY SchedulerAssumption, LenProperties DEF Slots
  <1>2. /\ IsFiniteSet(Slots) /\ Cardinality(Slots) = NrTasks
        /\ IsFiniteSet(1..Len(q)) /\ Cardinality(1..Len(q)) = Len(q)
    <2>1. /\ IsFiniteSet(0..NrTasks-1)
          /\ Cardinality(0..NrTasks-1) = IF 0 > NrTasks-1 THEN 0 ELSE (NrTasks-1) - 0 + 1
      BY <1>1, FS_Interval
    <2>2. /\ IsFiniteSet(1..Len(q))
          /\ Cardinality(1..Len(q)) = IF 1 > Len(q) THEN 0 ELSE Len(q) - 1 + 1
      BY <1>1, FS_Interval
    <2> QED BY <1>1, <2>1, <2>2
  <1>3. q \in [1..Len(q) -> Slots]
    BY LenProperties
  <1>4. q \in Injection(1..Len(q), Slots)
    BY <1>3 DEF Injection, IsInjective
  <1>5. Cardinality(1..Len(q)) <= Cardinality(Slots)
    BY <1>2, <1>4, FS_Injection
  <1> QED BY <1>1, <1>2, <1>5

(* What one round moves, the whole loop need no longer move.               *)
LEMMA MoveAllStep ==
  ASSUME NEW ls, WellLinked(ls, Heads, Slots), NEW s \in Sems, ls[s] # <<>>,
         NEW new, new = Requeue(ls, Head(ls[s]), runqueue)
  PROVE  /\ list_move_all(new, s, runqueue) = list_move_all(ls, s, runqueue)
         /\ new[s] = Tail(ls[s])
  <1> USE HeadFacts
  <1>1. /\ DOMAIN ls = Heads /\ \A h \in Heads : ls[h] \in Seq(Slots) /\ IsInjective(ls[h])
        /\ \A g, h \in Heads : \A x : x \in Entries(ls, g) /\ x \in Entries(ls, h) => g = h
    BY WellLinkedElim
  <1>2. s \in Heads /\ s # runqueue /\ runqueue \in Heads
    BY HeadFacts
  <1>3. PICK e : e = Head(ls[s])
    OBVIOUS
  <1>4. e \in Entries(ls, s)
    BY <1>1, <1>2, <1>3, ToSetPositions DEF Entries
  <1>5. \A h \in Heads : h # s => RemoveFirst(ls[h], e) = ls[h]
    BY <1>1, <1>2, <1>4, RemoveAbsent DEF Entries
  <1>6. RemoveFirst(ls[s], e) = Tail(ls[s])
    BY <1>1, <1>2, <1>3, RemoveHead
  <1>7. PICK d : d = list_del(ls, e)
    OBVIOUS
  <1>8. DOMAIN d = Heads /\ \A h \in Heads : d[h] = IF h = s THEN Tail(ls[s]) ELSE ls[h]
    BY <1>1, <1>5, <1>6, <1>7 DEF list_del
  <1>9. /\ new = [d EXCEPT ![runqueue] = Append(@, e)]
    BY <1>3, <1>7 DEF Requeue, list_add_tail
  <1>10. /\ DOMAIN new = Heads /\ new = [h \in Heads |-> new[h]]
         /\ \A h \in Heads : new[h] = IF h = s THEN Tail(ls[s])
                                      ELSE IF h = runqueue THEN Append(ls[h], e) ELSE ls[h]
    BY <1>2, <1>8, <1>9
  <1>11. Append(ls[runqueue], e) \o Tail(ls[s]) = ls[runqueue] \o ls[s]
    <2>1. PICK a \in Seq(Slots), b \in Seq(Slots) : a = ls[runqueue] /\ b = ls[s]
      BY <1>1, <1>2
    <2>2. /\ e \in Slots /\ b # <<>> /\ Len(b) \in Nat \ {0} /\ b[1] = e
          /\ Tail(b) \in Seq(Slots) /\ Len(Tail(b)) = Len(b) - 1
          /\ \A i \in 1..Len(b)-1 : Tail(b)[i] = b[i+1]
      BY <1>3, <2>1, ToSetPositions, HeadTailProperties
    <2>3. PICK x : x = Append(a, e) \o Tail(b)
      OBVIOUS
    <2>4. PICK y : y = a \o b
      OBVIOUS
    <2>5. x \in Seq(Slots) /\ y \in Seq(Slots) /\ Len(x) = Len(a) + Len(b) /\ Len(y) = Len(a) + Len(b)
      BY <2>2, <2>3, <2>4
    <2>6. ASSUME NEW i \in 1..Len(a)+Len(b) PROVE x[i] = y[i]
      <3>1. CASE i <= Len(a)
        BY <2>2, <2>3, <2>4, <3>1
      <3>2. CASE i = Len(a)+1
        BY <2>2, <2>3, <2>4, <3>2
      <3>3. CASE i > Len(a)+1
        <4>1. x[i] = Tail(b)[i - (Len(a)+1)] /\ y[i] = b[i - Len(a)]
          BY <2>2, <2>3, <2>4, <3>3
        <4>2. i - (Len(a)+1) \in 1..Len(b)-1 /\ (i - (Len(a)+1)) + 1 = i - Len(a)
          BY <2>2, <3>3
        <4> QED BY <2>2, <4>1, <4>2
      <3> QED BY <3>1, <3>2, <3>3
    <2>7. x = y
      BY <2>5, <2>6, SeqEqual
    <2> QED BY <2>1, <2>3, <2>4, <2>7
  <1>12. PICK x, y : x = list_move_all(new, s, runqueue) /\ y = list_move_all(ls, s, runqueue)
    OBVIOUS
  <1>13. /\ x = [new EXCEPT ![runqueue] = new[runqueue] \o new[s], ![s] = <<>>]
         /\ y = [ls EXCEPT ![runqueue] = ls[runqueue] \o ls[s], ![s] = <<>>]
    BY <1>12 DEF list_move_all
  <1>14. /\ DOMAIN x = Heads /\ DOMAIN y = Heads
         /\ x = [h \in Heads |-> x[h]] /\ y = [h \in Heads |-> y[h]]
    BY <1>1, <1>10, <1>13
  <1>15. ASSUME NEW h \in Heads PROVE x[h] = y[h]
    BY <1>1, <1>2, <1>10, <1>11, <1>13
  <1> QED BY <1>2, <1>10, <1>12, <1>14, <1>15

(* The loop does on the pointers what list_move_all does on the sequences. *)
LEMMA EmptiedTied ==
  ASSUME NEW l, NEW ls, NEW U, Tied(l, ls, U), NEW s \in Sems, s \in U, runqueue \in U
  PROVE  Tied(Emptied(l, s), list_move_all(ls, s, runqueue), U)
  <1> USE HeadFacts
  <1>1. NrTasks \in Nat /\ s \in Heads /\ s # runqueue /\ runqueue \in Heads
    BY SchedulerAssumption
  <1>2. PICK f : /\ f[0] = l
                 /\ \A n \in 1..NrTasks : f[n] = Round(f[n-1], s)
                 /\ Emptied(l, s) = f[NrTasks]
    BY EmptiedDef
  <1>3. PICK goal : goal = list_move_all(ls, s, runqueue)
    OBVIOUS
  <1> DEFINE J(n, x) == /\ Tied(f[n], x, U) /\ list_move_all(x, s, runqueue) = goal
                        /\ Len(x[s]) <= NrTasks - n
             I == {n \in Nat : n <= NrTasks => \E x : J(n, x)}
  <1>4. 0 \in I
    <2>1. ls[s] \in Seq(Slots) /\ IsInjective(ls[s])
      BY <1>1, WellLinkedElim DEF Tied
    <2>2. Len(ls[s]) \in 0..NrTasks
      BY <2>1, ListBounded
    <2>3. J(0, ls)
      BY <1>1, <1>2, <1>3, <2>2
    <2> QED BY <2>3
  <1>5. ASSUME NEW n \in Nat, n \in I PROVE n+1 \in I
    <2> SUFFICES ASSUME n+1 <= NrTasks PROVE \E x : J(n+1, x)
      OBVIOUS
    <2>1. PICK x : J(n, x)
      BY <1>1, <1>5
    <2>2. f[n+1] = Round(f[n], s)
      <3>1. n+1 \in 1..NrTasks /\ (n+1)-1 = n
        BY <1>1
      <3> QED BY <1>2, <3>1
    <2>3. PICK a : a = f[n]
      OBVIOUS
    <2>4. Tied(a, x, U)
      BY <2>1, <2>3
    <2>5. /\ P!list_empty(a, Node(s)) <=> x[s] = <<>>
          /\ x[s] # <<>> => P!list_first(a, Node(s)) = Head(x[s])
      BY <1>1, <2>4, LinkFirst
    <2>6. WellLinked(x, Heads, Slots) /\ x[s] \in Seq(Slots)
      BY <1>1, <2>4, WellLinkedElim DEF Tied
    <2>7. CASE x[s] = <<>>
      <3>1. f[n+1] = a
        BY <2>2, <2>3, <2>5, <2>7 DEF Round
      <3>2. Len(x[s]) <= NrTasks - (n+1)
        BY <1>1, <2>7
      <3>3. J(n+1, x)
        BY <2>1, <2>4, <3>1, <3>2
      <3> QED BY <3>3
    <2>8. CASE x[s] # <<>>
      <3>1. PICK e : e = Head(x[s])
        OBVIOUS
      <3>2. e \in Entries(x, s)
        BY <2>6, <2>8, <3>1, ToSetPositions DEF Entries
      <3>3. f[n+1] = Relink(a, e, runqueue)
        BY <2>2, <2>3, <2>5, <2>8, <3>1 DEF Round
      <3>4. PICK y : y = Requeue(x, e, runqueue)
        OBVIOUS
      <3>5. Tied(f[n+1], y, U)
        BY <1>1, <2>4, <3>2, <3>3, <3>4, LinkMove
      <3>6. list_move_all(y, s, runqueue) = list_move_all(x, s, runqueue) /\ y[s] = Tail(x[s])
        BY <2>6, <2>8, <3>1, <3>4, MoveAllStep
      <3>7. Len(Tail(x[s])) = Len(x[s]) - 1 /\ Len(x[s]) \in Nat
        BY <2>6, <2>8, HeadTailProperties, LenProperties
      <3>8. J(n+1, y)
        BY <1>1, <2>1, <3>5, <3>6, <3>7
      <3> QED BY <3>8
    <2> QED BY <2>7, <2>8
  <1>6. NrTasks \in I
    <2> HIDE DEF I
    <2> QED BY <1>1, <1>4, <1>5, NatSetInduction
  <1>7. PICK x : J(NrTasks, x)
    BY <1>1, <1>6
  <1>8. WellLinked(x, Heads, Slots) /\ x \in [Heads -> Seq(Slots)]
    BY <1>7, WellLinkedElim DEF Tied
  <1>9. x[s] = <<>> /\ x[runqueue] \in Seq(Slots)
    <2>1. x[s] \in Seq(Slots) /\ Len(x[s]) <= 0
      BY <1>1, <1>7, <1>8
    <2> QED BY <1>1, <1>8, <2>1, LenProperties, EmptySeq
  <1>10. goal = x
    <2>1. goal = [x EXCEPT ![runqueue] = x[runqueue] \o x[s], ![s] = <<>>]
      BY <1>7 DEF list_move_all
    <2>2. x[runqueue] \o x[s] = x[runqueue]
      BY <1>9, ConcatEmptySeq
    <2>3. [x EXCEPT ![runqueue] = x[runqueue], ![s] = <<>>] = x
      BY <1>1, <1>8, <1>9
    <2> QED BY <2>1, <2>2, <2>3
  <1> QED BY <1>2, <1>3, <1>7, <1>10

(* The loop of exit over the sems array does what Released does.           *)
LEMMA ReleasedTied ==
  ASSUME NEW U, Tied(links, lists, U), runqueue \in U, NEW p,
         \A s \in Sems : sems[s].owner = p => s \in U,
         NEW f, f = [n \in 0..NrSem |->
                       IF n = 0 THEN links
                       ELSE IF sems[n-1].owner = p THEN Emptied(f[n-1], n-1)
                       ELSE f[n-1]]
  PROVE  Tied(f[NrSem], Released(p), U)
  <1>1. PICK g : /\ g = [n \in 0..NrSem |-> IF n = 0 THEN lists ELSE Release(g, n, p)]
                 /\ Released(p) = g[NrSem]
    BY ReleasedDef
  <1>2. NrSem \in Nat
    BY SchedulerAssumption
  <1> DEFINE I == {n \in Nat : n <= NrSem => Tied(f[n], g[n], U)}
  <1>3. 0 \in I
    <2>1. f[0] = links /\ g[0] = lists
      BY <1>1, <1>2
    <2> QED BY <2>1
  <1>4. ASSUME NEW n \in Nat, n \in I PROVE n+1 \in I
    <2> SUFFICES ASSUME n+1 <= NrSem PROVE Tied(f[n+1], g[n+1], U)
      OBVIOUS
    <2>1. n+1 \in 0..NrSem /\ n+1 # 0 /\ (n+1)-1 = n /\ n \in Sems
      BY <1>2 DEF Sems
    <2>2. Tied(f[n], g[n], U)
      BY <1>2, <1>4
    <2>3. f[n+1] = IF sems[n].owner = p THEN Emptied(f[n], n) ELSE f[n]
      BY <2>1
    <2>4. g[n+1] = IF sems[n].owner = p THEN list_move_all(g[n], n, runqueue) ELSE g[n]
      <3>1. g[n+1] = Release(g, n+1, p)
        BY <1>1, <2>1
      <3> QED BY <2>1, <3>1 DEF Release
    <2>5. CASE sems[n].owner = p
      <3>1. n \in U
        BY <2>1, <2>5
      <3>2. PICK a, x : a = f[n] /\ x = g[n]
        OBVIOUS
      <3>3. Tied(Emptied(a, n), list_move_all(x, n, runqueue), U)
        BY <2>1, <2>2, <3>1, <3>2, EmptiedTied
      <3> QED BY <2>3, <2>4, <2>5, <3>2, <3>3
    <2>6. CASE sems[n].owner # p
      BY <2>2, <2>3, <2>4, <2>6
    <2> QED BY <2>5, <2>6
  <1>5. NrSem \in I
    <2> HIDE DEF I
    <2> QED BY <1>2, <1>3, <1>4, NatSetInduction
  <1> QED BY <1>1, <1>2, <1>5
----------------------------------------------------------------------------
(* The inductive invariant: that of Scheduler, and the pointers of every   *)
(* head but those of free semaphores denote its list.                      *)
Used == Heads \ {s \in Sems : sems[s].owner = FREE_SEM}
LInv == IInv /\ Tied(links, lists, Used)

(* The heads in use, and what their pointers say of the first entry.       *)
LEMMA UsedHeads ==
  ASSUME LInv
  PROVE  /\ Used \subseteq Heads
         /\ runqueue \in Used /\ freequeue \in Used /\ keyboardqueue \in Used
         /\ \A s \in Sems : sems[s].owner # FREE_SEM => s \in Used
         /\ \A h \in Used : P!list_empty(links, Node(h)) <=> list_empty(lists, h)
         /\ \A h \in Used : ~list_empty(lists, h) =>
              /\ P!list_first(links, Node(h)) = list_first(lists, h)
              /\ list_first(lists, h) \in Entries(lists, h)
         /\ current \in Entries(lists, runqueue) /\ current \in Slots
  <1>1. Used \subseteq Heads
    BY DEF Used
  <1>2. ASSUME NEW h \in Used
        PROVE  /\ P!list_empty(links, Node(h)) <=> list_empty(lists, h)
               /\ ~list_empty(lists, h) =>
                    /\ P!list_first(links, Node(h)) = list_first(lists, h)
                    /\ list_first(lists, h) \in Entries(lists, h)
    <2>1. h \in Heads /\ Tied(links, lists, Used)
      BY <1>1 DEF LInv
    <2>2. /\ P!list_empty(links, Node(h)) <=> lists[h] = <<>>
          /\ lists[h] # <<>> => P!list_first(links, Node(h)) = Head(lists[h])
      BY <2>1, LinkFirst
    <2>3. ~list_empty(lists, h) => list_first(lists, h) \in Entries(lists, h)
      BY <2>1, ListFacts DEF LInv
    <2> QED BY <2>2, <2>3 DEF list_empty, list_first
  <1>3. runqueue \in Used /\ freequeue \in Used /\ keyboardqueue \in Used
    BY SchedulerAssumption DEF Used, Heads, Sems, runqueue, freequeue, keyboardqueue
  <1>4. \A s \in Sems : sems[s].owner # FREE_SEM => s \in Used
    BY HeadFacts DEF Used
  <1>5. current \in Entries(lists, runqueue) /\ current \in Slots
    BY HeadFacts, ListFacts DEF LInv
  <1> QED BY <1>1, <1>2, <1>3, <1>4, <1>5

(* A step that initialises no semaphore need only tie what it leaves.      *)
LEMMA KeepTied ==
  ASSUME NEW k, NEW new, Tied(k, new, Used), links' = k, lists' = new,
         \A s \in Sems : sems'[s].owner # FREE_SEM => sems[s].owner # FREE_SEM
  PROVE  Tied(links', lists', Used')
  <1>1. Used' \subseteq Used
    BY DEF Used
  <1> QED BY <1>1, TiedWeaken

----------------------------------------------------------------------------
(* Each service, on the pointers.                                          *)

(* The clock, and a task that blocks: the running task moves.              *)
LEMMA RelinkTied ==
  ASSUME LInv, NEW g \in Heads, NEW tsk \in Entries(lists, g), NEW h \in Used,
         lists' = Requeue(lists, tsk, h), links' = Relink(links, tsk, h),
         \A s \in Sems : sems'[s].owner # FREE_SEM => sems[s].owner # FREE_SEM
  PROVE  Tied(links', lists', Used')
  <1>1. h \in Heads /\ Tied(links, lists, Used)
    BY UsedHeads DEF LInv
  <1>2. Tied(Relink(links, tsk, h), Requeue(lists, tsk, h), Used)
    BY <1>1, LinkMove
  <1> QED BY <1>2, KeepTied

(* Clock: the running task goes to the tail of the run queue, or stays.    *)
LEMMA LinkedClockStep ==
  ASSUME LInv, LinkedClock
  PROVE  Tied(links', lists', Used')
  <1>1. \A s \in Sems : sems'[s].owner # FREE_SEM => sems[s].owner # FREE_SEM
    BY DEF LinkedClock, Clock
  <1>2. CASE sched_switch_needed(roundtics - 1)
    <2>1. /\ lists' = Requeue(lists, current, runqueue)
          /\ links' = Relink(links, current, runqueue)
      BY <1>2 DEF LinkedClock, Clock, sched_continue
    <2> QED BY <1>1, <2>1, HeadFacts, UsedHeads, RelinkTied
  <1>3. CASE ~sched_switch_needed(roundtics - 1)
    <2>1. lists' = lists /\ links' = links
      BY <1>3 DEF LinkedClock, Clock
    <2> QED BY <1>1, <2>1, KeepTied DEF LInv
  <1> QED BY <1>2, <1>3

(* fork: unlinked, overwritten with the parent's pointers, linked again.   *)
LEMMA LinkedForkStep ==
  ASSUME LInv, LinkedFork
  PROVE  Tied(links', lists', Used')
  <1>1. PICK child : child = list_first(lists, freequeue)
    OBVIOUS
  <1>2. /\ ~list_empty(lists, freequeue) /\ sems' = sems
        /\ lists' = list_add(list_del(lists, child), child, runqueue)
    BY <1>1 DEF LinkedFork, sys_fork
  <1>3. P!list_first(links, Node(freequeue)) = child /\ child \in Entries(lists, freequeue)
    BY <1>1, <1>2, UsedHeads
  <1>4. links' = P!list_add(P!Copied(P!list_del(links, child), current, child), child,
                            Node(runqueue))
    BY <1>3 DEF LinkedFork, ForkLinks
  <1>5. /\ Tied(links, lists, Used) /\ runqueue \in Used /\ current \in Slots
        /\ freequeue \in Heads /\ runqueue \in Heads
    BY HeadFacts, UsedHeads DEF LInv
  <1>6. Tied(links', lists', Used)
    BY <1>2, <1>3, <1>4, <1>5, LinkMove
  <1> QED BY <1>2, <1>6, KeepTied

(* fork without a frame: the child is on no list, whatever it points to.   *)
LEMMA LinkedForkFailsStep ==
  ASSUME LInv, LinkedFork_ENOMEM
  PROVE  Tied(links', lists', Used')
  <1>1. PICK child : child = list_first(lists, freequeue)
    OBVIOUS
  <1>2. /\ ~list_empty(lists, freequeue) /\ sems' = sems
        /\ lists' = list_del(lists, child)
    BY <1>1 DEF LinkedFork_ENOMEM, sys_fork_ENOMEM
  <1>3. P!list_first(links, Node(freequeue)) = child /\ child \in Entries(lists, freequeue)
    BY <1>1, <1>2, UsedHeads
  <1>4. PICK k : k = P!list_del(links, child)
    OBVIOUS
  <1>5. links' = P!Copied(k, current, child)
    BY <1>3, <1>4 DEF LinkedFork_ENOMEM
  <1>6. /\ Tied(links, lists, Used) /\ current \in Slots /\ freequeue \in Heads
        /\ WellLinked(lists, Heads, Slots)
    BY HeadFacts, UsedHeads DEF LInv, Tied
  <1>7. Tied(k, lists', Used)
    BY <1>2, <1>3, <1>4, <1>6, LinkDel
  <1>8. child \in Slots /\ \A g \in Heads : child \notin Entries(lists', g)
    BY <1>2, <1>3, <1>6, ListDel, WellLinkedElim
  <1>9. Tied(links', lists', Used)
    BY <1>5, <1>6, <1>7, <1>8, LinkCopied
  <1> QED BY <1>2, <1>9, KeepTied

(* The recursive definition in LinkedExit has a solution.                  *)
LEMMA ExitLoopDef ==
  \E f : f = [n \in 0..NrSem |->
                IF n = 0 THEN links
                ELSE IF sems[n-1].owner = pid[current] THEN Emptied(f[n-1], n-1)
                ELSE f[n-1]]
  <1> DEFINE Step(x, n) == IF sems[n-1].owner = pid[current] THEN Emptied(x, n-1) ELSE x
             Sol(f, m) == f = [n \in 0..m |-> IF n = 0 THEN links ELSE Step(f[n-1], n)]
             I == {m \in Nat : \E f : Sol(f, m)}
  <1>1. 0 \in I
    <2>1. PICK f : f = [n \in 0..0 |-> links]
      OBVIOUS
    <2>2. Sol(f, 0)
      BY <2>1
    <2> QED BY <2>2
  <1>2. ASSUME NEW m \in Nat, m \in I PROVE m+1 \in I
    <2> HIDE DEF Step
    <2>1. PICK f : Sol(f, m)
      BY <1>2
    <2>2. PICK g : g = [n \in 0..m+1 |-> IF n = m+1 THEN Step(f[m], m+1) ELSE f[n]]
      OBVIOUS
    <2>3. \A n \in 0..m : g[n] = f[n]
      BY <2>2
    <2>4. ASSUME NEW n \in 0..m+1
          PROVE g[n] = IF n = 0 THEN links ELSE Step(g[n-1], n)
      <3>1. CASE n = 0
        <4>1. 0 \in 0..m /\ g[0] = f[0]
          BY <2>3
        <4>2. f[0] = links
          BY <2>1, <4>1
        <4> QED BY <3>1, <4>1, <4>2
      <3>2. CASE n # 0
        <4>1. n-1 \in 0..m /\ g[n-1] = f[n-1]
          BY <3>2, <2>3
        <4>2. CASE n = m+1
          <5>1. n-1 = m /\ g[n] = Step(f[m], m+1)
            BY <2>2, <4>2
          <5> QED BY <3>2, <4>1, <4>2, <5>1
        <4>3. CASE n # m+1
          <5>1. n \in 0..m
            BY <4>3
          <5>2. f[n] = Step(f[n-1], n)
            BY <5>1, <2>1, <3>2
          <5> QED BY <2>3, <3>2, <4>1, <5>1, <5>2
        <4> QED BY <4>2, <4>3
      <3> QED BY <3>1, <3>2
    <2>5. Sol(g, m+1)
      BY <2>2, <2>4
    <2> QED BY <2>5
  <1>3. NrSem \in I
    <2> HIDE DEF I
    <2> QED BY <1>1, <1>2, NatSetInduction, SchedulerAssumption
  <1> QED BY <1>3

(* exit: the queues of the semaphores of the task, then the task itself.   *)
LEMMA LinkedExitStep ==
  ASSUME LInv, LinkedExit
  PROVE  Tied(links', lists', Used')
  <1> USE HeadFacts
  <1>1. PICK p : p = pid[current]
    OBVIOUS
  <1>2. PICK rel : rel = Released(p)
    OBVIOUS
  <1>3. lists' = list_add(list_del(rel, current), current, freequeue)
    BY <1>1, <1>2 DEF LinkedExit, sys_exit, sched_continue
  <1>4. \A s \in Sems : sems'[s].owner # FREE_SEM => sems[s].owner # FREE_SEM
    BY DEF LinkedExit, sys_exit
  <1>5. /\ runqueue \in Used /\ freequeue \in Used /\ Tied(links, lists, Used)
        /\ current \in Slots /\ current \in Entries(lists, runqueue)
        /\ WellLinked(lists, Heads, Slots)
    BY UsedHeads DEF LInv, Tied
  <1>6. \A s \in Sems : sems[s].owner = p => s \in Used
    <2>1. p # FREE_SEM
      <3>1. current \in Live
        BY <1>5, ListFacts DEF LInv
      <3>2. pid[current] \in 0 .. pid_counter
        BY <3>1 DEF LInv, IInv, UniquePids
      <3> QED BY <1>1, <3>2 DEF FREE_SEM
    <2> QED BY <2>1, UsedHeads
  <1> DEFINE Sol(f) == f = [n \in 0..NrSem |->
                              IF n = 0 THEN links
                              ELSE IF sems[n-1].owner = pid[current]
                                   THEN Emptied(f[n-1], n-1)
                              ELSE f[n-1]]
  <1>7. PICK f : f = CHOOSE g : Sol(g)
    OBVIOUS
  <1>8. Sol(f)
    <2>1. \E g : Sol(g)
      BY ExitLoopDef
    <2> HIDE DEF Sol
    <2> QED BY <1>7, <2>1, Zenon
  <1>9. PICK l : l = f[NrSem]
    OBVIOUS
  <1>10. links' = P!list_add(P!list_del(l, current), current, Node(freequeue))
    BY <1>7, <1>9 DEF LinkedExit
  <1>11. Tied(l, rel, Used)
    BY <1>1, <1>2, <1>5, <1>6, <1>8, <1>9, ReleasedTied
  <1>12. current \in Entries(rel, runqueue)
    BY <1>2, <1>5, ReleasedMoves DEF Moved
  <1>13. Tied(links', lists', Used)
    BY <1>3, <1>5, <1>10, <1>11, <1>12, LinkMove
  <1> QED BY <1>4, <1>13, KeepTied

(* sem_init writes a head whose list is empty.                             *)
LEMMA LinkedInitSemStep ==
  ASSUME LInv, NEW s \in Sems, NEW value \in 0 .. 2*MaxInt+1, LinkedInitSem(s, value)
  PROVE  Tied(links', lists', Used')
  <1> USE HeadFacts
  <1>1. /\ sems[s].owner = FREE_SEM /\ lists' = INIT_LIST_HEAD(lists, s)
        /\ links' = P!INIT_LIST_HEAD(links, Node(s))
        /\ \A t \in Sems \ {s} : sems'[t] = sems[t]
    BY DEF LinkedInitSem, sys_sem_init, LInv, IInv, TypeOK
  <1>2. /\ s \in Heads /\ Tied(links, lists, Used) /\ lists \in [Heads -> Seq(Slots)]
    BY DEF LInv, IInv, TypeOK
  <1>3. lists[s] = <<>>
    BY <1>1 DEF LInv, IInv, NoForgottenWaiter, list_empty
  <1>4. lists' = lists
    BY <1>1, <1>2, <1>3 DEF INIT_LIST_HEAD
  <1>5. Tied(links', lists', Used \cup {s})
    BY <1>1, <1>2, <1>3, <1>4, LinkInit
  <1>6. Used' \subseteq Used \cup {s}
    BY <1>1 DEF Used
  <1> QED BY <1>5, <1>6, TiedWeaken

(* sem_wait: the caller moves to the queue of a semaphore in use.          *)
LEMMA LinkedWaitStep ==
  ASSUME LInv, NEW s \in Sems, LinkedWait(s)
  PROVE  Tied(links', lists', Used')
  <1> USE HeadFacts
  <1>1. s \in Used /\ runqueue \in Heads
    BY UsedHeads DEF LinkedWait, sys_sem_wait
  <1>2. CASE sems[s].value > 0
    <2>1. /\ lists' = lists /\ links' = links
          /\ sems' = [sems EXCEPT ![s].value = @ - 1]
      BY <1>2 DEF LinkedWait, sys_sem_wait
    <2>2. DOMAIN sems = Sems /\ \A t \in Sems : DOMAIN sems[t] = {"owner", "value"}
      BY DEF LInv, IInv, TypeOK
    <2>3. \A t \in Sems : sems'[t].owner = sems[t].owner
      BY <2>1, <2>2
    <2> QED BY <2>1, <2>3, KeepTied DEF LInv
  <1>3. CASE ~(sems[s].value > 0)
    <2>1. /\ lists' = Requeue(lists, current, s) /\ sems' = sems
          /\ links' = Relink(links, current, s)
      BY <1>3 DEF LinkedWait, sys_sem_wait, BlockOn, sched_continue
    <2> QED BY <1>1, <2>1, UsedHeads, RelinkTied
  <1> QED BY <1>2, <1>3

(* A wake-up takes the first waiter that the pointers show.                *)
LEMMA LinkedWakeStep ==
  ASSUME LInv, NEW h \in Used, ~list_empty(lists, h), NEW result, WakeFirst(h, result),
         links' = Relink(links, P!list_first(links, Node(h)), runqueue), sems' = sems
  PROVE  Tied(links', lists', Used')
  <1>1. PICK tsk : tsk = list_first(lists, h)
    OBVIOUS
  <1>2. /\ lists' = Requeue(lists, tsk, runqueue)
        /\ P!list_first(links, Node(h)) = tsk /\ tsk \in Entries(lists, h)
        /\ runqueue \in Used /\ h \in Heads
    BY <1>1, UsedHeads DEF WakeFirst
  <1> QED BY <1>2, RelinkTied

(* sem_signal.                                                             *)
LEMMA LinkedSignalStep ==
  ASSUME LInv, NEW s \in Sems, LinkedSignal(s)
  PROVE  Tied(links', lists', Used')
  <1>1. s \in Used
    BY UsedHeads DEF LinkedSignal, sys_sem_signal
  <1>2. P!list_empty(links, Node(s)) <=> list_empty(lists, s)
    BY <1>1, UsedHeads
  <1>3. CASE list_empty(lists, s)
    <2>1. /\ lists' = lists /\ links' = links
          /\ \A t \in Sems : sems'[t].owner = sems[t].owner
      BY <1>2, <1>3 DEF LinkedSignal, sys_sem_signal, LInv, IInv, TypeOK
    <2> QED BY <2>1, KeepTied DEF LInv
  <1>4. CASE ~list_empty(lists, s)
    <2>1. /\ WakeFirst(s, "ok") /\ sems' = sems
          /\ links' = Relink(links, P!list_first(links, Node(s)), runqueue)
      BY <1>2, <1>4 DEF LinkedSignal, sys_sem_signal
    <2> QED BY <1>1, <1>4, <2>1, LinkedWakeStep
  <1> QED BY <1>3, <1>4

(* sem_destroy.                                                            *)
LEMMA LinkedDestroyStep ==
  ASSUME LInv, NEW s \in Sems, LinkedDestroy(s)
  PROVE  Tied(links', lists', Used')
  <1>1. /\ lists' = list_move_all(lists, s, runqueue) /\ links' = Emptied(links, s)
        /\ sems[s].owner # FREE_SEM
        /\ \A t \in Sems : sems'[t].owner # FREE_SEM => sems[t].owner # FREE_SEM
    BY DEF LinkedDestroy, sys_sem_destroy, LInv, IInv, TypeOK, FREE_SEM
  <1>2. s \in Used /\ runqueue \in Used /\ Tied(links, lists, Used)
    BY <1>1, UsedHeads DEF LInv
  <1>3. Tied(links', lists', Used)
    BY <1>1, <1>2, EmptiedTied
  <1> QED BY <1>1, <1>3, KeepTied

(* Every step of LinkedScheduler is one of Scheduler, and keeps the        *)
(* pointers tied to the lists.                                             *)
LEMMA LinkedNextInv ==
  ASSUME LInv, [LinkedNext]_linkedvars
  PROVE  LInv'
  <1>1. [Next]_vars
    BY DEF LinkedNext, linkedvars, LinkedClock, LinkedFork, LinkedFork_ENOMEM, LinkedExit,
           LinkedInitSem, LinkedWait, LinkedSignal, LinkedDestroy, LinkedRead, LinkedKey, Next
  <1>2. IInv'
    BY <1>1, NextInv DEF LInv
  <1>3. Tied(links, lists, Used)
    BY DEF LInv
  <1> SUFFICES Tied(links', lists', Used')
    BY <1>2 DEF LInv
  <1>4. CASE LinkedClock
    BY <1>4, LinkedClockStep
  <1>5. CASE LinkedFork
    BY <1>5, LinkedForkStep
  <1>6. CASE LinkedFork_ENOMEM
    BY <1>6, LinkedForkFailsStep
  <1>7. CASE LinkedExit
    BY <1>7, LinkedExitStep
  <1>8. ASSUME NEW q \in 0..MaxQuantum, sys_nice(q), UNCHANGED links
        PROVE  Tied(links', lists', Used')
    <2>1. lists' = lists /\ links' = links /\ sems' = sems
      BY <1>8 DEF sys_nice
    <2> QED BY <1>3, <2>1, KeepTied
  <1>9. ASSUME NEW s \in Sems, NEW value \in 0 .. 2*MaxInt+1, LinkedInitSem(s, value)
        PROVE  Tied(links', lists', Used')
    BY <1>9, LinkedInitSemStep
  <1>10. ASSUME NEW s \in Sems, LinkedWait(s) PROVE Tied(links', lists', Used')
    BY <1>10, LinkedWaitStep
  <1>11. ASSUME NEW s \in Sems, LinkedSignal(s) PROVE Tied(links', lists', Used')
    BY <1>11, LinkedSignalStep
  <1>12. ASSUME NEW s \in Sems, LinkedDestroy(s) PROVE Tied(links', lists', Used')
    BY <1>12, LinkedDestroyStep
  <1>13. CASE LinkedRead
    <2>1. /\ lists' = Requeue(lists, current, keyboardqueue) /\ sems' = sems
          /\ links' = Relink(links, current, keyboardqueue)
      BY <1>13 DEF LinkedRead, sys_read_keyboard, BlockOn, sched_continue
    <2> QED BY <2>1, HeadFacts, UsedHeads, RelinkTied
  <1>14. CASE LinkedKey
    <2>1. /\ ~list_empty(lists, keyboardqueue) /\ WakeFirst(keyboardqueue, "count")
          /\ links' = Relink(links, P!list_first(links, Node(keyboardqueue)), runqueue)
          /\ sems' = sems
      BY <1>14 DEF LinkedKey, keyboard_routine
    <2> QED BY <2>1, UsedHeads, LinkedWakeStep
  <1>15. CASE UNCHANGED linkedvars
    <2>1. lists' = lists /\ links' = links /\ sems' = sems
      BY <1>15 DEF linkedvars, vars
    <2> QED BY <1>3, <2>1, KeepTied
  <1> QED BY <1>4, <1>5, <1>6, <1>7, <1>8, <1>9, <1>10, <1>11, <1>12, <1>13, <1>14, <1>15
          DEF LinkedNext

----------------------------------------------------------------------------
(* Start-up: the slots are stacked on freequeue one by one.                *)

(* The lists when slots 1 .. n are on freequeue.                           *)
Stacked(n) ==
  [h \in Heads |-> IF h = freequeue THEN [i \in 1..n |-> n+1-i] ELSE <<>>]

(* Each slot that is stacked was on no list.                               *)
LEMMA StackedFacts ==
  ASSUME NEW n \in 0 .. NrTasks-1
  PROVE  /\ WellLinked(Stacked(n), Heads, Slots)
         /\ \A h \in Heads : h # freequeue => Stacked(n)[h] = <<>>
         /\ \A h \in Heads : \A x : x \in Entries(Stacked(n), h) => x \in 1..n
         /\ n+1 \in Slots => list_add(Stacked(n), n+1, freequeue) = Stacked(n+1)
  <1> USE HeadFacts
  <1>1. NrTasks \in Nat \ {0} /\ n \in Nat /\ 1..n \subseteq Slots
    BY SchedulerAssumption DEF Slots
  <1>2. PICK q : q = [i \in 1..n |-> n+1-i]
    OBVIOUS
  <1>3. /\ q \in Seq(Slots) /\ Len(q) = n /\ DOMAIN q = 1..n
        /\ \A i \in 1..n : q[i] = n+1-i /\ q[i] \in 1..n
    <2>1. \A i \in 1..n : n+1-i \in 1..n
      BY <1>1
    <2>2. q \in [1..n -> Slots]
      BY <1>1, <1>2, <2>1
    <2> QED BY <1>1, <1>2, <2>1, <2>2
  <1>4. IsInjective(q)
    <2>1. \A i, j \in 1..n : n+1-i = n+1-j => i = j
      BY <1>1
    <2> QED BY <1>3, <2>1 DEF IsInjective
  <1>5. PICK ls : ls = Stacked(n)
    OBVIOUS
  <1>6. /\ DOMAIN ls = Heads /\ ls \in [Heads -> Seq(Slots)]
        /\ \A h \in Heads : ls[h] = IF h = freequeue THEN q ELSE <<>>
    BY <1>2, <1>3, <1>5 DEF Stacked
  <1>7. IsInjective(<<>>) /\ ToSet(<<>>) = {}
    BY DEF IsInjective, ToSet
  <1>8. \A h \in Heads : \A x : x \in Entries(ls, h) => h = freequeue /\ x \in 1..n
    <2>1. ToSet(q) = {q[i] : i \in 1..n}
      BY <1>3, ToSetPositions
    <2>2. \A x : x \in ToSet(q) => x \in 1..n
      BY <1>3, <2>1
    <2> QED BY <1>6, <1>7, <2>2 DEF Entries
  <1>9. WellLinked(ls, Heads, Slots)
    <2>1. \A h \in Heads : IsInjective(ls[h])
      BY <1>4, <1>6, <1>7
    <2> QED BY <1>6, <1>8, <2>1, WellLinkedIntro
  <1>10. ASSUME n+1 \in Slots
         PROVE  list_add(ls, n+1, freequeue) = Stacked(n+1)
    <2>1. PICK r : r = [i \in 1..n+1 |-> (n+1)+1-i]
      OBVIOUS
    <2>2. <<n+1>> \o q = r
      <3>1. PICK x : x = <<n+1>> \o q
        OBVIOUS
      <3>2. x \in Seq(Slots) /\ Len(x) = n+1
        BY <1>3, <1>10, <3>1
      <3>3. \A i \in 1..n+1 : x[i] = IF i = 1 THEN n+1 ELSE q[i-1]
        BY <1>3, <1>10, <3>1
      <3>4. ASSUME NEW i \in 1..n+1 PROVE x[i] = r[i]
        <4>1. i # 1 => i-1 \in 1..n /\ q[i-1] = n+1-(i-1)
          BY <1>1, <1>3
        <4> QED BY <1>1, <2>1, <3>3, <4>1
      <3>5. r \in Seq(Slots) /\ Len(r) = n+1
        <4>1. \A i \in 1..n+1 : (n+1)+1-i \in 1..n+1
          BY <1>1
        <4>2. 1..n+1 \subseteq Slots
          BY <1>1, <1>10 DEF Slots
        <4>3. r \in [1..n+1 -> Slots]
          BY <2>1, <4>1, <4>2
        <4> QED BY <1>1, <2>1, <4>3
      <3>6. x = r
        BY <3>2, <3>4, <3>5, SeqEqual
      <3> QED BY <3>1, <3>6
    <2>3. list_add(ls, n+1, freequeue) = [ls EXCEPT ![freequeue] = r]
      BY <1>6, <2>2 DEF list_add
    <2>4. Stacked(n+1) = [h \in Heads |-> IF h = freequeue THEN r ELSE <<>>]
      BY <2>1 DEF Stacked
    <2> QED BY <1>6, <2>3, <2>4
  <1> QED BY <1>5, <1>6, <1>8, <1>9, <1>10

(* The recursive definition in LinkedInit has a solution.                  *)
LEMMA StackLoopDef ==
  ASSUME NEW c
  PROVE  \E f : f = [t \in Slots |->
                       IF t = 0 THEN c ELSE P!list_add(f[t-1], t, Node(freequeue))]
  <1> DEFINE Step(x, n) == P!list_add(x, n, Node(freequeue))
             Sol(f, m) == f = [n \in 0..m |-> IF n = 0 THEN c ELSE Step(f[n-1], n)]
             I == {m \in Nat : \E f : Sol(f, m)}
  <1>1. 0 \in I
    <2>1. PICK f : f = [n \in 0..0 |-> c]
      OBVIOUS
    <2>2. Sol(f, 0)
      BY <2>1
    <2> QED BY <2>2
  <1>2. ASSUME NEW m \in Nat, m \in I PROVE m+1 \in I
    <2> HIDE DEF Step
    <2>1. PICK f : Sol(f, m)
      BY <1>2
    <2>2. PICK g : g = [n \in 0..m+1 |-> IF n = m+1 THEN Step(f[m], m+1) ELSE f[n]]
      OBVIOUS
    <2>3. \A n \in 0..m : g[n] = f[n]
      BY <2>2
    <2>4. ASSUME NEW n \in 0..m+1
          PROVE g[n] = IF n = 0 THEN c ELSE Step(g[n-1], n)
      <3>1. CASE n = 0
        <4>1. 0 \in 0..m /\ g[0] = f[0]
          BY <2>3
        <4>2. f[0] = c
          BY <2>1, <4>1
        <4> QED BY <3>1, <4>1, <4>2
      <3>2. CASE n # 0
        <4>1. n-1 \in 0..m /\ g[n-1] = f[n-1]
          BY <3>2, <2>3
        <4>2. CASE n = m+1
          <5>1. n-1 = m /\ g[n] = Step(f[m], m+1)
            BY <2>2, <4>2
          <5> QED BY <3>2, <4>1, <4>2, <5>1
        <4>3. CASE n # m+1
          <5>1. n \in 0..m
            BY <4>3
          <5>2. f[n] = Step(f[n-1], n)
            BY <5>1, <2>1, <3>2
          <5> QED BY <2>3, <3>2, <4>1, <5>1, <5>2
        <4> QED BY <4>2, <4>3
      <3> QED BY <3>1, <3>2
    <2>5. Sol(g, m+1)
      BY <2>2, <2>4
    <2> QED BY <2>5
  <1>3. NrTasks-1 \in Nat /\ Slots = 0 .. NrTasks-1
    BY SchedulerAssumption DEF Slots
  <1>4. NrTasks-1 \in I
    <2> HIDE DEF I
    <2> QED BY <1>1, <1>2, <1>3, NatSetInduction
  <1> QED BY <1>3, <1>4

(* The pointers that main leaves denote the lists that it leaves.          *)
LEMMA LinkedInitTied ==
  ASSUME LinkedInit
  PROVE  Tied(links, lists, Used)
  <1> USE HeadFacts
  <1>1. /\ NrTasks \in Nat \ {0} /\ 0 \in 0 .. NrTasks-1 /\ NrTasks-1 \in 0 .. NrTasks-1
        /\ NrTasks-1 \in Nat /\ Slots = 0 .. NrTasks-1 /\ Idle = 0
    BY SchedulerAssumption DEF Slots, Idle
  <1>2. PICK z : z = P!Zero(Nodes)
    OBVIOUS
  <1>3. Tied(z, Stacked(0), {})
    <2>1. z \in Links(Nodes)
      BY <1>2 DEF Links, P!Zero
    <2>2. ASSUME NEW h \in Heads PROVE Held(z, Stacked(0), {}, h)
      <3>1. Stacked(0)[h] = <<>>
        BY DEF Stacked
      <3>2. P!IsZero(z, Node(h))
        BY <1>2, NodeFacts DEF P!IsZero, P!Zero
      <3> QED BY <3>1, <3>2 DEF Held
    <2>3. WellLinked(Stacked(0), Heads, Slots)
      BY <1>1, StackedFacts
    <2> QED BY <2>1, <2>2, <2>3 DEF Tied
  <1>4. PICK a, b, c : /\ a = P!INIT_LIST_HEAD(z, Node(runqueue))
                       /\ b = P!INIT_LIST_HEAD(a, Node(freequeue))
                       /\ c = P!INIT_LIST_HEAD(b, Node(keyboardqueue))
    OBVIOUS
  <1> DEFINE U == {} \cup {runqueue} \cup {freequeue} \cup {keyboardqueue}
  <1>5. Tied(c, Stacked(0), U)
    <2>1. Stacked(0)[runqueue] = <<>> /\ Stacked(0)[freequeue] = <<>>
          /\ Stacked(0)[keyboardqueue] = <<>>
      BY DEF Stacked
    <2>2. Tied(a, Stacked(0), {} \cup {runqueue})
      BY <1>3, <1>4, <2>1, LinkInit
    <2>3. Tied(b, Stacked(0), {} \cup {runqueue} \cup {freequeue})
      BY <1>4, <2>1, <2>2, LinkInit
    <2> QED BY <1>4, <2>1, <2>3, LinkInit
  <1> DEFINE Step(l, t) == P!list_add(l, t, Node(freequeue))
             Sol(f) == f = [t \in Slots |-> IF t = 0 THEN c ELSE Step(f[t-1], t)]
  <1>6. PICK f : f = CHOOSE g : Sol(g)
    OBVIOUS
  <1>7. Sol(f)
    <2>1. \E g : Sol(g)
      BY StackLoopDef
    <2> HIDE DEF Sol
    <2> QED BY <1>6, <2>1, Zenon
  <1>8. links = P!list_add(f[NrTasks-1], Idle, Node(runqueue))
    BY <1>2, <1>4, <1>6 DEF LinkedInit
  <1> DEFINE I == {n \in Nat : n <= NrTasks-1 => Tied(f[n], Stacked(n), U)}
  <1>9. 0 \in I
    BY <1>1, <1>5, <1>7
  <1>10. ASSUME NEW n \in Nat, n \in I PROVE n+1 \in I
    <2> SUFFICES ASSUME n+1 <= NrTasks-1 PROVE Tied(f[n+1], Stacked(n+1), U)
      <3> HIDE DEF U
      <3> QED OBVIOUS
    <2>1. n+1 \in Slots /\ n+1 # 0 /\ (n+1)-1 = n /\ n \in 0 .. NrTasks-1
      BY <1>1
    <2>2. PICK l, ls : l = f[n] /\ ls = Stacked(n)
      OBVIOUS
    <2>3. f[n+1] = P!list_add(l, n+1, Node(freequeue))
      BY <1>7, <2>1, <2>2
    <2>4. Tied(l, ls, U) /\ freequeue \in U /\ freequeue \in Heads
      <3>1. freequeue \in U /\ freequeue \in Heads /\ n <= NrTasks-1
        BY <1>1, <2>1
      <3> HIDE DEF U
      <3>2. Tied(f[n], Stacked(n), U)
        BY <1>10, <3>1
      <3> QED BY <2>2, <3>1, <3>2
    <2>5. \A h \in Heads : n+1 \notin Entries(ls, h)
      BY <2>1, <2>2, StackedFacts
    <2>6. Tied(f[n+1], list_add(ls, n+1, freequeue), U)
      BY <2>1, <2>3, <2>4, <2>5, LinkExtend
    <2> QED BY <2>1, <2>2, <2>6, StackedFacts
  <1>11. NrTasks-1 \in I
    <2> HIDE DEF I
    <2> QED BY <1>1, <1>9, <1>10, NatSetInduction
  <1>12. PICK l, ls : l = f[NrTasks-1] /\ ls = Stacked(NrTasks-1)
    OBVIOUS
  <1>13. Tied(l, ls, U)
    <2> HIDE DEF U
    <2> QED BY <1>1, <1>11, <1>12
  <1>14. \A h \in Heads : Idle \notin Entries(ls, h)
    BY <1>1, <1>12, StackedFacts
  <1>15. Tied(links, list_add(ls, Idle, runqueue), U)
    <2>1. runqueue \in U /\ runqueue \in Heads /\ Idle \in Slots
      BY <1>1
    <2> QED BY <1>8, <1>12, <1>13, <1>14, <2>1, LinkExtend
  <1>16. list_add(ls, Idle, runqueue) = lists
    <2>1. lists = [head \in Heads |->
                     CASE head = runqueue  -> <<Idle>>
                       [] head = freequeue -> [i \in 1..NrTasks-1 |-> NrTasks - i]
                       [] OTHER            -> <<>>]
      BY DEF LinkedInit, Init
    <2>2. ls = [h \in Heads |->
                  IF h = freequeue THEN [i \in 1..NrTasks-1 |-> (NrTasks-1)+1-i] ELSE <<>>]
      BY <1>12 DEF Stacked
    <2>3. [i \in 1..NrTasks-1 |-> (NrTasks-1)+1-i] = [i \in 1..NrTasks-1 |-> NrTasks - i]
      BY <1>1
    <2>4. <<Idle>> \o <<>> = <<Idle>>
      <3>1. PICK q : q = <<Idle>>
        OBVIOUS
      <3>2. q \in Seq(Slots)
        BY <1>1, <3>1
      <3> QED BY <3>1, <3>2, ConcatEmptySeq
    <2>5. list_add(ls, Idle, runqueue) = [ls EXCEPT ![runqueue] = <<Idle>>]
      BY <2>2, <2>4 DEF list_add
    <2>6. PICK x : x = [ls EXCEPT ![runqueue] = <<Idle>>]
      OBVIOUS
    <2>7. /\ DOMAIN x = Heads /\ DOMAIN lists = Heads
          /\ x = [h \in Heads |-> x[h]] /\ lists = [h \in Heads |-> lists[h]]
      BY <2>1, <2>2, <2>6
    <2>8. ASSUME NEW h \in Heads PROVE x[h] = lists[h]
      BY <2>1, <2>2, <2>3, <2>6
    <2> QED BY <2>5, <2>6, <2>7, <2>8
  <1>17. Used \subseteq U
    <2>1. \A s \in Sems : sems[s].owner = FREE_SEM
      BY DEF LinkedInit, Init
    <2>2. Heads = Sems \cup U
      BY SchedulerAssumption DEF Heads, Sems, runqueue, freequeue, keyboardqueue
    <2> QED BY <2>1, <2>2 DEF Used
  <1> HIDE DEF U
  <1> QED BY <1>15, <1>16, <1>17, TiedWeaken

----------------------------------------------------------------------------
(* The invariant holds in every state.                                     *)
THEOREM LinkedInvariance == LinkedSpec => []LInv
  <1>1. LinkedInit => LInv
    BY InitInv, LinkedInitTied DEF LInv, LinkedInit
  <1>2. LInv /\ [LinkedNext]_linkedvars => LInv'
    BY LinkedNextInv
  <1> QED BY <1>1, <1>2, PTL DEF LinkedSpec

(* Whatever the order of calls and interrupts, the next and prev pointers  *)
(* in memory denote the task lists, both ways around.                      *)
THEOREM PointersAreLists == LinkedSpec => []LinksDenoteLists
  <1>1. LInv => LinksDenoteLists
    BY HeadFacts DEF LInv, LinksDenoteLists, Tied, Held, Used
  <1> QED BY <1>1, LinkedInvariance, PTL
=============================================================================
