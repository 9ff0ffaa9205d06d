----------------------------- MODULE LinkedLists ------------------------------
(***************************************************************************)
(* kernel/dlist.c and kernel/list.h at the level of their pointers. m      *)
(* holds the nodes, [prev, next]; a dlist l is [first, last, size]; a list *)
(* of list.h is a node itself. An operation on a dlist takes and returns   *)
(* [m, l].                                                                 *)
(***************************************************************************)
EXTENDS Integers, Sequences, SequencesExt

CONSTANT NULL

\* dlist_init, dlist_node_init and list_node_init
dlist_init == [first |-> NULL, last |-> NULL, size |-> 0]
node_init == [prev |-> NULL, next |-> NULL]

\* The assertions at the head of every insertion.
Insertable(s, n) == s.m[n] = node_init /\ n # s.l.first

dlist_insert_first(s, n) ==
  IF s.l.first # NULL
    THEN [m |-> [s.m EXCEPT ![n].next = s.l.first, ![s.l.first].prev = n],
          l |-> [s.l EXCEPT !.first = n, !.size = @ + 1]]
    ELSE [m |-> s.m, l |-> [first |-> n, last |-> n, size |-> s.l.size + 1]]

dlist_insert_last(s, n) ==
  IF s.l.last # NULL
    THEN [m |-> [s.m EXCEPT ![n].prev = s.l.last, ![s.l.last].next = n],
          l |-> [s.l EXCEPT !.last = n, !.size = @ + 1]]
    ELSE [m |-> s.m, l |-> [first |-> n, last |-> n, size |-> s.l.size + 1]]

dlist_insert_after(s, n, a) ==
  IF a = s.l.last THEN dlist_insert_last(s, n)
  ELSE [m |-> [s.m EXCEPT ![n] = [prev |-> a, next |-> s.m[a].next],
                          ![s.m[a].next].prev = n, ![a].next = n],
        l |-> [s.l EXCEPT !.size = @ + 1]]

\* Mutant: the node before keeps its link.
MutInsertBefore(s, n, b) ==
  IF b = s.l.first THEN dlist_insert_first(s, n)
  ELSE [m |-> [s.m EXCEPT ![n] = [prev |-> s.m[b].prev, next |-> b], ![b].prev = n],
        l |-> [s.l EXCEPT !.size = @ + 1]]

dlist_insert_before(s, n, b) ==
  IF b = s.l.first THEN dlist_insert_first(s, n)
  ELSE [m |-> [s.m EXCEPT ![n] = [prev |-> s.m[b].prev, next |-> b],
                          ![s.m[b].prev].next = n, ![b].prev = n],
        l |-> [s.l EXCEPT !.size = @ + 1]]

\* Mutant: `last` is kept when the only node goes.
MutRemoveFirst(s) ==
  LET n == s.l.first
      second == s.m[n].next
  IN [m |-> IF second # NULL THEN [s.m EXCEPT ![second].prev = NULL, ![n] = node_init]
            ELSE [s.m EXCEPT ![n] = node_init],
      l |-> [first |-> second, last |-> s.l.last, size |-> s.l.size - 1]]

dlist_remove_first(s) ==
  LET n == s.l.first
      second == s.m[n].next
  IN [m |-> IF second # NULL THEN [s.m EXCEPT ![second].prev = NULL, ![n] = node_init]
            ELSE [s.m EXCEPT ![n] = node_init],
      l |-> [first |-> second, last |-> IF second # NULL THEN s.l.last ELSE NULL,
             size |-> s.l.size - 1]]

dlist_remove_last(s) ==
  LET n == s.l.last
      before == s.m[n].prev
  IN [m |-> IF before # NULL THEN [s.m EXCEPT ![before].next = NULL, ![n] = node_init]
            ELSE [s.m EXCEPT ![n] = node_init],
      l |-> [first |-> IF before # NULL THEN s.l.first ELSE NULL, last |-> before,
             size |-> s.l.size - 1]]

dlist_remove(s, n) ==
  IF n = s.l.first THEN dlist_remove_first(s)
  ELSE IF n = s.l.last THEN dlist_remove_last(s)
  ELSE [m |-> [s.m EXCEPT ![s.m[n].prev].next = s.m[n].next,
                          ![s.m[n].next].prev = s.m[n].prev, ![n] = node_init],
        l |-> [s.l EXCEPT !.size = @ - 1]]

-----------------------------------------------------------------------------
list_init(head) == [prev |-> head, next |-> head]

_list_add(m, new, prev, next) ==
  LET linked == [[m EXCEPT ![prev].next = new] EXCEPT ![next].prev = new]
  IN [linked EXCEPT ![new] = [prev |-> prev, next |-> next]]

_list_delete(m, prev, next) == [[m EXCEPT ![prev].next = next] EXCEPT ![next].prev = prev]

list_add_first(m, new, head) == _list_add(m, new, head, m[head].next)
list_add_last(m, new, head) == _list_add(m, new, m[head].prev, head)
list_delete_node(m, n) == [_list_delete(m, m[n].prev, m[n].next) EXCEPT ![n] = node_init]
list_is_empty(m, head) == m[head].next = head
list_delete_first(m, head) == IF list_is_empty(m, head) THEN m ELSE list_delete_node(m, m[head].next)
list_delete_last(m, head) == IF list_is_empty(m, head) THEN m ELSE list_delete_node(m, m[head].prev)

\* The walk of dlist_search and list_iterate: the nodes from `start` along
\* `link` up to `stop`, given up after `bound` of them.
Walk(m, start, stop, link, bound) ==
  LET at[i \in 0 .. bound] == IF i = 0 THEN start
                              ELSE IF at[i - 1] = stop THEN stop ELSE m[at[i - 1]][link]
      n == Min({bound} \cup {i \in 0 .. bound : at[i] = stop})
  IN [i \in 1 .. n |-> at[i - 1]]
=============================================================================
