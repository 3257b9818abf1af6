---------------------------- MODULE ListPointers ----------------------------
(***************************************************************************)
(* include/list.h as it is in memory: the next and prev pointers of every  *)
(* struct list_head, in heads and in entries, assignment by assignment.    *)
(* l is the record of the two fields of all nodes; an operation maps it to *)
(* a new one.  Lists sees the same lists as sequences.                     *)
(***************************************************************************)
EXTENDS Integers, Sequences

NULL == -1

(* Memory that was never written: the image has zeros there.               *)
Zero(nodes) == [next |-> [n \in nodes |-> NULL], prev |-> [n \in nodes |-> NULL]]

INIT_LIST_HEAD(l, list) ==
  [next |-> [l.next EXCEPT ![list] = list],
   prev |-> [l.prev EXCEPT ![list] = list]]

__list_add(l, new, prev, next) ==
  [next |-> [l.next EXCEPT ![new] = next, ![prev] = new],
   prev |-> [l.prev EXCEPT ![next] = new, ![new] = prev]]

list_add(l, new, head)      == __list_add(l, new, head, l.next[head])
list_add_tail(l, new, head) == __list_add(l, new, l.prev[head], head)

__list_del(l, prev, next) ==
  [next |-> [l.next EXCEPT ![prev] = next],
   prev |-> [l.prev EXCEPT ![next] = prev]]

list_del(l, entry) ==
  LET r == __list_del(l, l.prev[entry], l.next[entry])
  IN  [next |-> [r.next EXCEPT ![entry] = NULL],
       prev |-> [r.prev EXCEPT ![entry] = NULL]]

list_empty(l, head) == l.next[head] = head
list_first(l, head) == l.next[head]

(* An assignment of a whole structure copies its pointers too.             *)
Copied(l, src, dst) ==
  [next |-> [l.next EXCEPT ![dst] = l.next[src]],
   prev |-> [l.prev EXCEPT ![dst] = l.prev[src]]]
----------------------------------------------------------------------------
(* The list at head has the entries of seq: following next from the head   *)
(* meets them and comes back, and prev undoes next all around.             *)
Denotes(l, head, seq) ==
  LET ring == <<head>> \o seq \o <<head>>
  IN  \A i \in 1 .. Len(seq) + 1 : /\ l.next[ring[i]] = ring[i+1]
                                  /\ l.prev[ring[i+1]] = ring[i]

(* The head was never initialised.                                         *)
IsZero(l, head) == l.next[head] = NULL /\ l.prev[head] = NULL
=============================================================================
