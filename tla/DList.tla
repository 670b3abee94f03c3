------------------------------- MODULE DList --------------------------------
(***************************************************************************)
(* The doubly linked list (utils/mrvl_sai_dlist.c): elements embedded in   *)
(* the records they chain, closed in a ring through a header.  A memory    *)
(* maps each header and element to its two pointers; data is a function of *)
(* elements, the number a sorted list is ordered by.                       *)
(***************************************************************************)
EXTENDS Naturals, Sequences, FiniteSets

CONSTANTS
  Header,  \* headers of lists
  Node,    \* elements
  Null     \* the NULL pointer

ASSUME DListConstants ==
  /\ Header \cap Node = {}
  /\ Null \notin Header \cup Node

Elem == Header \cup Node
Pointer == Elem \cup {Null}
Memory == [Elem -> [next : Pointer, prev : Pointer]]
Unlinked == [next |-> Null, prev |-> Null]

\* mrvl_sai_utl_dlist_init
ListInit(mem, h) == [mem EXCEPT ![h] = [next |-> h, prev |-> h]]

IsEmpty(mem, h) == mem[h].next = h
IsLast(mem, h, e) == mem[e].next = h
GetNext(mem, e) == mem[e].next
GetPrev(mem, e) == mem[e].prev
GetFirst(mem, h) == GetNext(mem, h)
GetLast(mem, h) == GetPrev(mem, h)

-----------------------------------------------------------------------------
(* Insertion and removal: assignments in the order of the code, for the    *)
(* two neighbours may be one.                                              *)

\* mrvl_sai_utl_dlist_prv_insert
PrvInsert(mem, prev, next, new) ==
  [mem EXCEPT ![next].prev = new, ![prev].next = new,
              ![new] = [next |-> next, prev |-> prev]]

InsertBefore(mem, next, new) == PrvInsert(mem, mem[next].prev, next, new)
InsertAfter(mem, prev, new)  == PrvInsert(mem, prev, mem[prev].next, new)
InsertToHead(mem, h, new)    == PrvInsert(mem, h, mem[h].next, new)
InsertToTail(mem, h, new)    == PrvInsert(mem, mem[h].prev, h, new)

\* mrvl_sai_utl_dlist_prv_remove
PrvRemove(mem, prev, next) ==
  [mem EXCEPT ![prev].next = next, ![next].prev = prev]

\* mrvl_sai_utl_dlist_remove: an element on no list may be given; only its pointers are cleared.
Unlink(mem, e) ==
  LET prev == mem[e].prev
      next == mem[e].next
      cut  == IF prev # Null /\ next # Null THEN PrvRemove(mem, prev, next)
              ELSE mem
  IN  [cut EXCEPT ![e] = Unlinked]

\* The caller has the removed element from GetFirst or GetLast; its pointers stay.
RemoveFromHead(mem, h) == PrvRemove(mem, h, mem[mem[h].next].next)
RemoveFromTail(mem, h) == PrvRemove(mem, mem[mem[h].prev].prev, h)

\* Moves: the neighbours of the header are read after the removal.
MoveToHead(mem, h, e) ==
  InsertToHead(PrvRemove(mem, mem[e].prev, mem[e].next), h, e)
MoveToTail(mem, h, e) ==
  InsertToTail(PrvRemove(mem, mem[e].prev, mem[e].next), h, e)

-----------------------------------------------------------------------------
(* Walks.                                                                  *)

\* The elements from e on, up to the header; fuel bounds a broken list.
From(mem, h, e) ==
  LET walk[at \in (0 .. Cardinality(Node)) \X Pointer] ==
        IF at[1] = 0 \/ at[2] \notin Node THEN <<>>
        ELSE <<at[2]>> \o walk[<<at[1] - 1, mem[at[2]].next>>]
  IN  walk[<<Cardinality(Node), e>>]

\* The list of a header, in order.
ListOf(mem, h) == From(mem, h, mem[h].next)

\* The first element of the list of which Stop holds, or the header.
FirstWhere(mem, h, Stop(_)) ==
  LET list == ListOf(mem, h)
      Hits == {i \in 1 .. Len(list) : Stop(list[i])}
  IN  IF Hits = {} THEN h
      ELSE list[CHOOSE i \in Hits : \A j \in Hits : i <= j]

\* mrvl_sai_utl_dlist_find_sorted_element: the element with the data, or
\* the one to insert it before, which may be the header.
FindSorted(mem, data, h, d) ==
  FirstWhere(mem, h, LAMBDA e : data[e] >= d)

Found(mem, data, h, d) ==
  LET e == FindSorted(mem, data, h, d) IN e \in Node /\ data[e] = d

\* mrvl_sai_utl_dlist_insert_sorted_element: behind its equals.
InsertSorted(mem, data, h, new, d) ==
  InsertBefore(mem, FirstWhere(mem, h, LAMBDA e : d < data[e]), new)

-----------------------------------------------------------------------------
(* What the list promises.                                                 *)

\* The pointers of the elements in L agree with each other, and lead only
\* to elements of L: L is closed under walking either way.
Linked(mem, L) ==
  \A e \in L :
    /\ mem[e].next \in L /\ mem[mem[e].next].prev = e
    /\ mem[e].prev \in L /\ mem[mem[e].prev].next = e

=============================================================================
