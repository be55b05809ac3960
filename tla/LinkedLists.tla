------------------------------ MODULE LinkedLists ------------------------------
(***************************************************************************)
(* The circular, intrusive lists of main/src/list.h, as the sequence of    *)
(* the elements a list links.  An element has one node per list it can be  *)
(* in, so it is in a list at most once; its node points to itself while it *)
(* is in none.                                                             *)
(***************************************************************************)
EXTENDS Integers, Sequences, SequencesExt

\* The node is linked: LIST_IS_EMPTY(node) is false.
In(e, list) == e \in ToSet(list)

\* LIST_APPEND links right behind the list's head: at the front.
LIST_APPEND(e, list) == Cons(e, list)

\* LIST_APPEND_TAIL links right in front of the list's head: at the end.
LIST_APPEND_TAIL(e, list) == Append(list, e)

\* LIST_DELETE takes the node out of the list it is in, and does nothing to a
\* node that is in none.
LIST_DELETE(e, list) ==
  IF In(e, list) THEN RemoveAt(list, CHOOSE i \in DOMAIN list : list[i] = e) ELSE list

Distinct(list) == \A i, j \in DOMAIN list : list[i] = list[j] => i = j

\* Ascending by a key of the elements; equal keys may stand in any order.
Sorted(list, key) == \A i, j \in DOMAIN list : i <= j => key[list[i]] <= key[list[j]]
===============================================================================
