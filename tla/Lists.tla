------------------------------- MODULE Lists -------------------------------
(***************************************************************************)
(* The intrusive doubly linked lists of include/list.h, seen as what they  *)
(* denote: every list head owns a sequence of entries, and an operation    *)
(* maps the function ls \in [heads -> sequences] to a new one.             *)
(*                                                                         *)
(* list_del takes no head, as in the code: the entry is unlinked from      *)
(* whichever list it is on.                                                *)
(***************************************************************************)
EXTENDS Naturals, Sequences, SequencesExt

INIT_LIST_HEAD(ls, head) == [ls EXCEPT ![head] = <<>>]

list_empty(ls, head) == ls[head] = <<>>

list_first(ls, head) == Head(ls[head])

(* New entry right after the head: the list used as a stack.               *)
list_add(ls, new, head) == [ls EXCEPT ![head] = <<new>> \o @]

(* New entry right before the head: the list used as a queue.              *)
list_add_tail(ls, new, head) == [ls EXCEPT ![head] = Append(@, new)]

list_del(ls, entry) == [head \in DOMAIN ls |-> RemoveFirst(ls[head], entry)]

(* The loop "while the list at head is not empty: unlink its first entry   *)
(* and add it at the tail of dest".                                        *)
list_move_all(ls, head, dest) ==
  [ls EXCEPT ![dest] = @ \o ls[head], ![head] = <<>>]

(* Every entry is on at most one list, and there once.                     *)
OnOneList(ls) ==
  \A g, h \in DOMAIN ls : \A i \in 1..Len(ls[g]), j \in 1..Len(ls[h]) :
    ls[g][i] = ls[h][j] => g = h /\ i = j

(* The entries of one list, and of all the lists.                          *)
Entries(ls, head) == ToSet(ls[head])
Linked(ls) == UNION {Entries(ls, head) : head \in DOMAIN ls}
=============================================================================
