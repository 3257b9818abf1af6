------------------------------ MODULE Terminal ------------------------------
(***************************************************************************)
(* What the keyboard promises to the tasks that read it: no key is lost,   *)
(* repeated or overtaken, readers are served in the order in which they    *)
(* asked, and each gets exactly the number of keys it asked for, with the  *)
(* key that completes that number.                                         *)
(*                                                                         *)
(* The promise holds until Limit keys are waiting to be read.  From then   *)
(* on the terminal is jammed and promises nothing, not even to recover.    *)
(***************************************************************************)
EXTENDS Naturals, Sequences

CONSTANTS Reader, Key, Limit    \* Limit > 0

VARIABLES pending,  \* keys that nobody has read yet, oldest first
          waiting,  \* readers that wait, with the number of keys they want
          got,      \* what the last read of each reader returned
          jammed

vars == <<pending, waiting, got, jammed>>

Init ==
  pending = <<>> /\ waiting = <<>> /\ got = [r \in Reader |-> <<>>] /\ ~jammed

IsWaiting(r) == \E i \in 1..Len(waiting) : waiting[i].task = r

Completes(n) == waiting # <<>> /\ Head(waiting).size = n

Type(k) ==
  /\ ~jammed /\ ~jammed'
  /\ \/ /\ ~Completes(Len(pending) + 1)
        /\ pending' = Append(pending, k)
        /\ UNCHANGED <<waiting, got>>
     \/ /\ Completes(Len(pending) + 1)
        /\ pending' = <<>>
        /\ waiting' = Tail(waiting)
        /\ got' = [got EXCEPT ![Head(waiting).task] = Append(pending, k)]

Take(r, n) ==
  /\ ~jammed /\ ~jammed'
  /\ waiting = <<>> /\ n <= Len(pending)
  /\ got' = [got EXCEPT ![r] = SubSeq(pending, 1, n)]
  /\ pending' = SubSeq(pending, n+1, Len(pending))
  /\ UNCHANGED waiting

Wait(r, n) ==
  /\ ~jammed /\ ~jammed'
  /\ ~IsWaiting(r)
  /\ waiting # <<>> \/ n > Len(pending)
  /\ waiting' = Append(waiting, [task |-> r, size |-> n])
  /\ got' = [got EXCEPT ![r] = <<>>]
  /\ UNCHANGED pending

Jam == ~jammed /\ Len(pending) = Limit - 1 /\ jammed'

StayJammed == jammed /\ jammed'

Next ==
  \/ \E k \in Key : Type(k)
  \/ \E r \in Reader, n \in 0 .. Len(pending) : Take(r, n)
  \/ \E r \in Reader :
       /\ waiting' # <<>>
       /\ Wait(r, waiting'[Len(waiting')].size)
  \/ Jam
  \/ StayJammed

Spec == Init /\ [][Next]_vars
=============================================================================
