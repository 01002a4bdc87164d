-------------------------------- MODULE ListX --------------------------------
(***************************************************************************)
(* The list macros of src/header/listx.h.  l is one struct list_head field *)
(* of all the structs of a table, as the functions next and prev from a    *)
(* struct to the struct its pointer leads to.                              *)
(***************************************************************************)

INIT_LIST_HEAD(l, x) ==
  [next |-> [l.next EXCEPT ![x] = x], prev |-> [l.prev EXCEPT ![x] = x]]

list_add_between(l, new, prev, next) ==
  [next |-> [l.next EXCEPT ![new] = next, ![prev] = new],
   prev |-> [l.prev EXCEPT ![next] = new, ![new] = prev]]

list_add(l, new, head) == list_add_between(l, new, head, l.next[head])

list_add_tail(l, new, head) == list_add_between(l, new, l.prev[head], head)

list_del(l, x) ==
  [next |-> [l.next EXCEPT ![l.prev[x]] = l.next[x]],
   prev |-> [l.prev EXCEPT ![l.next[x]] = l.prev[x]]]

list_empty(l, x) == l.next[x] = x
=============================================================================
