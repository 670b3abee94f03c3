----------------------------- MODULE UtilProofs ------------------------------
(***************************************************************************)
(* What TLAPS proves of the services of src/src/utils that every part of   *)
(* the adapter calls: the checks of attribute lists, the doubly linked     *)
(* list, and the hash table that keeps the routes.                         *)
(***************************************************************************)
EXTENDS Attributes, DList, HashTable, SequenceTheorems, FiniteSetTheorems,
        WellFoundedInduction, TLAPS

-----------------------------------------------------------------------------
(* Attribute lists: what a handler may rely on once its list has been      *)
(* accepted: the assertions on attributes in the create functions and in   *)
(* the dispatch functions hold for every table and every list.             *)

\* A set of positions has a least one.
LEMMA LeastExists ==
  ASSUME NEW S, S \subseteq Nat, S # {}
  PROVE  Least(S) \in S /\ \A j \in S : Least(S) <= j
<1>1. \E i \in S : \A j \in S : ~(<<j, i>> \in OpToRel(<, Nat))
  BY WFMin, NatLessThanWellFounded
<1>2. \A i, j \in S : ~(<<j, i>> \in OpToRel(<, Nat)) => i <= j
  BY DEF OpToRel
<1>3. \E i \in S : \A j \in S : i <= j
  BY <1>1, <1>2
<1> QED BY <1>3 DEF Least

\* The assertion of the dispatch functions: the index of an attribute that
\* the table knows is found, and is its own.
LEMMA IndexFound ==
  ASSUME NEW E, NEW meta \in Seq(E), NEW id, Places(meta, id) # {}
  PROVE  /\ IndexOf(meta, id) \in DOMAIN meta
         /\ meta[IndexOf(meta, id)].id = id
<1>1. Places(meta, id) \subseteq Nat
  BY DEF Places
<1>2. IndexOf(meta, id) \in Places(meta, id)
  BY <1>1, LeastExists DEF IndexOf
<1> QED BY <1>2 DEF Places

\* An accepted list has no problem, and a table that is consistent.
LEMMA AcceptedMeans ==
  ASSUME NEW meta, NEW attrs, NEW oper, Accepted(meta, attrs, oper),
         \A i \in Problems(meta, attrs, oper) :
           Problem(meta, attrs, oper, i) # "success",
         Problems(meta, attrs, oper) \subseteq Nat
  PROVE  /\ Problems(meta, attrs, oper) = {}
         /\ \A k \in DOMAIN meta : meta[k].id = meta[k].vendorId
         /\ oper = "create" => Missing(meta, attrs) = {}
         /\ oper = "set" => Len(attrs) = 1
<1> DEFINE bad == Problems(meta, attrs, oper)
<1>1. CheckAttribs(meta, attrs, oper).status = "success"
  BY DEF Accepted
<1>2. bad = {}
  <2> SUFFICES ASSUME bad # {} PROVE FALSE
    OBVIOUS
  <2>1. Least(bad) \in bad
    BY LeastExists
  <2>2. Problem(meta, attrs, oper, Least(bad)) # "success"
    BY <2>1
  <2> QED BY <1>1, <2>2 DEF CheckAttribs, Status, Blame
<1>3. \A k \in DOMAIN meta : meta[k].id = meta[k].vendorId
  BY <1>1 DEF CheckAttribs, Status
<1>4. oper = "set" => Len(attrs) = 1
  BY <1>1 DEF CheckAttribs, Status
<1>5. oper = "create" => Missing(meta, attrs) = {}
  BY <1>1, <1>2 DEF CheckAttribs, Status
<1> QED BY <1>2, <1>3, <1>4, <1>5

\* No attribute is blamed with success.
LEMMA ProblemIsNotSuccess ==
  ASSUME NEW meta, NEW attrs, NEW oper, NEW i
  PROVE  Problem(meta, attrs, oper, i) # "success"
BY DEF Problem

\* Every attribute of an accepted list is known, valid for the operation,
\* supported, implemented, has its buffer, and is not repeated; its setter or
\* getter is the one of the vendor table for the same attribute.
THEOREM AcceptedIsSound ==
  ASSUME NEW E, NEW A, NEW meta \in Seq(E), NEW attrs \in Seq(A), NEW oper,
         Accepted(meta, attrs, oper), NEW i \in DOMAIN attrs
  PROVE  LET entry == meta[IndexOf(meta, attrs[i].id)]
         IN  /\ IndexOf(meta, attrs[i].id) \in DOMAIN meta
             /\ entry.id = attrs[i].id /\ entry.vendorId = attrs[i].id
             /\ oper \in entry.valid \cap entry.supported \cap entry.implemented
             /\ ~(entry.list /\ attrs[i].null)
             /\ \A j \in DOMAIN attrs : attrs[j].id = attrs[i].id => j = i
<1> DEFINE ix(j) == IndexOf(meta, attrs[j].id)
           entry == meta[ix(i)]
<1>1. Problems(meta, attrs, oper) \subseteq Nat
  BY DEF Problems
<1>2. /\ Problems(meta, attrs, oper) = {}
      /\ \A k \in DOMAIN meta : meta[k].id = meta[k].vendorId
  BY <1>1, AcceptedMeans, ProblemIsNotSuccess
<1>3. \A j \in DOMAIN attrs : Problem(meta, attrs, oper, j) = "none"
  BY <1>2 DEF Problems
<1>4. Places(meta, attrs[i].id) # {}
  BY <1>3 DEF Problem
<1>5. ix(i) \in DOMAIN meta /\ entry.id = attrs[i].id
  BY <1>4, IndexFound
<1>6. entry.vendorId = attrs[i].id
  BY <1>2, <1>5
<1>7. /\ oper \in entry.valid
      /\ oper \in entry.supported
      /\ oper \in entry.implemented
      /\ ~(entry.list /\ attrs[i].null)
  BY <1>3 DEF Problem
<1>8. \A j \in DOMAIN attrs : ~Repeated(attrs, j)
  BY <1>3 DEF Problem
<1>9. ASSUME NEW j \in DOMAIN attrs, attrs[j].id = attrs[i].id
      PROVE  j = i
  <2>1. i \in Nat \ {0} /\ j \in Nat \ {0}
    OBVIOUS
  <2>2. ~(j < i) /\ ~(i < j)
    BY <1>8, <1>9, <2>1 DEF Repeated
  <2> QED BY <2>1, <2>2
<1> QED BY <1>5, <1>6, <1>7, <1>9

\* The assertions of the create functions: in a list accepted for creation,
\* every mandatory attribute is found, and it is given exactly once.
THEOREM MandatoryFound ==
  ASSUME NEW E, NEW A, NEW meta \in Seq(E), NEW attrs \in Seq(A),
         Accepted(meta, attrs, "create"),
         NEW k \in DOMAIN meta, meta[k].mandatory
  PROVE  /\ FindInList(attrs, meta[k].id) \in DOMAIN attrs
         /\ attrs[FindInList(attrs, meta[k].id)].id = meta[k].id
         /\ \A j \in DOMAIN attrs :
              attrs[j].id = meta[k].id => j = FindInList(attrs, meta[k].id)
<1> DEFINE hits == {i \in DOMAIN attrs : attrs[i].id = meta[k].id}
<1>1. Missing(meta, attrs) = {}
  <2>1. Problems(meta, attrs, "create") \subseteq Nat
    BY DEF Problems
  <2> QED BY <2>1, AcceptedMeans, ProblemIsNotSuccess
<1>2. PICK i \in DOMAIN attrs : IndexOf(meta, attrs[i].id) = k
  BY <1>1 DEF Missing
<1>3. attrs[i].id = meta[k].id
  BY <1>2, AcceptedIsSound
<1>4. \A j \in DOMAIN attrs : attrs[j].id = attrs[i].id => j = i
  BY AcceptedIsSound
<1>5. hits = {i}
  BY <1>2, <1>3, <1>4
<1>6. Least(hits) = i
  BY <1>5 DEF Least
<1>7. FindInList(attrs, meta[k].id) = i
  BY <1>5, <1>6 DEF FindInList
<1> QED BY <1>2, <1>3, <1>4, <1>7

\* A set call asks no setter but that of the attribute given.
THEOREM SetterIsOwn ==
  ASSUME NEW E, NEW A, NEW meta \in Seq(E), NEW attr \in A,
         SetAttribute(meta, attr) # "noSetter"
  PROVE  /\ SetAttribute(meta, attr) = attr.id
         /\ meta[IndexOf(meta, attr.id)].setter
         /\ "set" \in meta[IndexOf(meta, attr.id)].valid
<1> DEFINE attrs == <<attr>>
<1>1. Accepted(meta, attrs, "set") /\ SetAttribute(meta, attr) = SetterOf(meta, attr)
  BY DEF SetAttribute
<1>2. attrs \in Seq(A) /\ 1 \in DOMAIN attrs /\ attrs[1] = attr
  OBVIOUS
<1> HIDE DEF attrs
<1>3. /\ meta[IndexOf(meta, attr.id)].vendorId = attr.id
      /\ "set" \in meta[IndexOf(meta, attr.id)].valid
  BY <1>1, <1>2, AcceptedIsSound
<1> QED BY <1>1, <1>3 DEF SetterOf

\* What a get call that fails half-way has written is a prefix of the list,
\* every attribute of which has a getter that did not fail.
THEOREM ReadIsPrefix ==
  ASSUME NEW A, NEW meta, NEW attrs \in Seq(A), NEW fails,
         NEW i \in GetAttributes(meta, attrs, fails), NEW j \in 1 .. i
  PROVE  /\ j \in GetAttributes(meta, attrs, fails)
         /\ meta[IndexOf(meta, attrs[j].id)].getter
         /\ attrs[j].id \notin fails
<1> DEFINE stops == GetStops(meta, attrs, fails)
<1>1. Accepted(meta, attrs, "get") /\ i \in DOMAIN attrs
  BY DEF GetAttributes
<1>2. j \in DOMAIN attrs /\ j <= i /\ i \in Nat /\ j \in Nat
  <2>1. i \in 1 .. Len(attrs)
    BY <1>1
  <2> QED BY <2>1
<1>3. CASE stops = {}
  BY <1>1, <1>2, <1>3 DEF GetAttributes, GetStops
<1>4. CASE stops # {}
  <2>1. stops \subseteq Nat /\ stops \subseteq DOMAIN attrs
    BY DEF GetStops
  <2>2. Least(stops) \in stops /\ \A k \in stops : Least(stops) <= k
    BY <1>4, <2>1, LeastExists
  <2>3. i < Least(stops)
    BY <1>1, <1>4 DEF GetAttributes
  <2>4. j < Least(stops) /\ j \notin stops
    BY <1>2, <2>1, <2>2, <2>3
  <2> QED BY <1>1, <1>2, <1>4, <2>4 DEF GetAttributes, GetStops
<1> QED BY <1>3, <1>4

\* A refusal that blames an attribute blames the first with a problem.
THEOREM FirstIsBlamed ==
  ASSUME NEW A, NEW meta, NEW attrs \in Seq(A), NEW oper,
         CheckAttribs(meta, attrs, oper).at # 0
  PROVE  LET i == CheckAttribs(meta, attrs, oper).at
         IN  /\ i \in DOMAIN attrs
             /\ CheckAttribs(meta, attrs, oper).status
                  = Problem(meta, attrs, oper, i)
             /\ \A j \in 1 .. i - 1 : Problem(meta, attrs, oper, j) = "none"
<1> DEFINE bad == Problems(meta, attrs, oper)
<1>1. /\ bad # {}
      /\ CheckAttribs(meta, attrs, oper)
           = Blame(Problem(meta, attrs, oper, Least(bad)), Least(bad))
  BY DEF CheckAttribs, Status
<1>2. bad \subseteq Nat /\ bad \subseteq DOMAIN attrs
  BY DEF Problems
<1>3. Least(bad) \in bad /\ \A j \in bad : Least(bad) <= j
  BY <1>1, <1>2, LeastExists
<1>4. \A j \in DOMAIN attrs : j < Least(bad) =>
        Problem(meta, attrs, oper, j) = "none"
  <2>1. \A j \in DOMAIN attrs : j < Least(bad) => j \notin bad
    BY <1>2, <1>3
  <2> QED BY <2>1 DEF Problems
<1>5. \A j \in 1 .. Least(bad) - 1 : j \in DOMAIN attrs /\ j < Least(bad)
  <2>1. Least(bad) \in 1 .. Len(attrs)
    BY <1>2, <1>3
  <2> QED BY <2>1
<1> QED BY <1>1, <1>2, <1>3, <1>4, <1>5 DEF Blame

\* A list that was too short says how long it must be: the same call with a
\* buffer of the count returned gets all the values.
THEOREM RetryFits ==
  ASSUME NEW V, NEW values \in Seq(V), NEW list,
         FillList(list, values).status = "bufferOverflow", NEW data
  PROVE  LET again == [count |-> FillList(list, values).count, data |-> data]
         IN  FillList(again, values)
               = [status |-> "success", count |-> Len(values), data |-> values]
<1>1. Len(values) \in Nat /\ FillList(list, values).count = Len(values)
  BY DEF FillList
<1> QED BY <1>1 DEF FillList

-----------------------------------------------------------------------------
(* The doubly linked list: a ring stays a ring, with the element added or  *)
(* taken out, and the rings an operation is not given are not touched, for *)
(* every memory and list.                                                  *)

\* A ring: a header and elements, linked, none of whose pointers is NULL.
Ring(mem, L) == L \subseteq Elem /\ Linked(mem, L)

\* Memories stay memories.
LEMMA InsertType ==
  ASSUME NEW mem \in Memory, NEW prev \in Elem, NEW next \in Elem,
         NEW new \in Elem
  PROVE  PrvInsert(mem, prev, next, new) \in Memory
BY DEF PrvInsert, Memory, Pointer

LEMMA RemoveType ==
  ASSUME NEW mem \in Memory, NEW prev \in Elem, NEW next \in Elem
  PROVE  PrvRemove(mem, prev, next) \in Memory
BY DEF PrvRemove, Memory, Pointer

\* mrvl_sai_utl_dlist_init makes a ring of the header alone.
THEOREM InitMakesRing ==
  ASSUME NEW mem \in Memory, NEW h \in Elem
  PROVE  Ring(ListInit(mem, h), {h})
BY DEF ListInit, Memory, Ring, Linked

\* Linking a new element between an element of a ring and the next one, the
\* header with itself included, gives the ring with the element in it.
THEOREM InsertKeepsRing ==
  ASSUME NEW mem \in Memory, NEW L, Ring(mem, L),
         NEW prev \in L, NEW new \in Elem \ L
  PROVE  Ring(PrvInsert(mem, prev, mem[prev].next, new), L \cup {new})
<1> DEFINE next == mem[prev].next
           m == PrvInsert(mem, prev, next, new)
<1>1. /\ L \subseteq Elem
      /\ next \in L /\ mem[next].prev = prev
      /\ \A e \in Elem : mem[e] = [next |-> mem[e].next, prev |-> mem[e].prev]
  BY DEF Ring, Linked, Memory
<1>2. /\ m[new] = [next |-> next, prev |-> prev]
      /\ m[prev].next = new
      /\ m[next].prev = new
      /\ \A e \in L : e # prev => m[e].next = mem[e].next
      /\ \A e \in L : e # next => m[e].prev = mem[e].prev
  BY <1>1 DEF PrvInsert, Memory
<1> HIDE DEF m
<1>3. ASSUME NEW e \in L
      PROVE  /\ m[e].next \in L \cup {new} /\ m[m[e].next].prev = e
             /\ m[e].prev \in L \cup {new} /\ m[m[e].prev].next = e
  <2>1. m[e].next \in L \cup {new} /\ m[m[e].next].prev = e
    <3>1. CASE e = prev
      BY <3>1, <1>2
    <3>2. CASE e # prev
      <4>1. m[e].next = mem[e].next /\ mem[e].next \in L
            /\ mem[mem[e].next].prev = e
        BY <3>2, <1>2 DEF Ring, Linked
      <4>2. mem[e].next # next
        BY <4>1, <3>2, <1>1
      <4> QED BY <4>1, <4>2, <1>2
    <3> QED BY <3>1, <3>2
  <2>2. m[e].prev \in L \cup {new} /\ m[m[e].prev].next = e
    <3>1. CASE e = next
      BY <3>1, <1>2
    <3>2. CASE e # next
      <4>1. m[e].prev = mem[e].prev /\ mem[e].prev \in L
            /\ mem[mem[e].prev].next = e
        BY <3>2, <1>2 DEF Ring, Linked
      <4>2. mem[e].prev # prev
        BY <4>1, <3>2
      <4> QED BY <4>1, <4>2, <1>2
    <3> QED BY <3>1, <3>2
  <2> QED BY <2>1, <2>2
<1>4. /\ m[new].next \in L /\ m[m[new].next].prev = new
      /\ m[new].prev \in L /\ m[m[new].prev].next = new
  BY <1>1, <1>2
<1>5. L \cup {new} \subseteq Elem
  BY <1>1
<1>6. Ring(m, L \cup {new})
  BY <1>3, <1>4, <1>5 DEF Ring, Linked
<1> QED BY <1>6 DEF m

\* Insertion before an element, as sorted insertion and the update of the
\* list of a trap do, and at the head of a list, are such insertions.
COROLLARY InsertBeforeKeepsRing ==
  ASSUME NEW mem \in Memory, NEW L, Ring(mem, L),
         NEW next \in L, NEW new \in Elem \ L
  PROVE  Ring(InsertBefore(mem, next, new), L \cup {new})
<1>1. mem[next].prev \in L /\ mem[mem[next].prev].next = next
  BY DEF Ring, Linked
<1> QED BY <1>1, InsertKeepsRing DEF InsertBefore

COROLLARY InsertToHeadKeepsRing ==
  ASSUME NEW mem \in Memory, NEW L, Ring(mem, L),
         NEW h \in L, NEW new \in Elem \ L
  PROVE  /\ Ring(InsertToHead(mem, h, new), L \cup {new})
         /\ GetFirst(InsertToHead(mem, h, new), h) = new
<1>1. mem[h].next \in L /\ h \in Elem
  BY DEF Ring, Linked
<1>2. InsertToHead(mem, h, new)[h].next = new
  BY <1>1 DEF InsertToHead, PrvInsert, Memory
<1> QED BY <1>2, InsertKeepsRing DEF InsertToHead, GetFirst, GetNext

\* So are insertion after an element and at the tail, which is how next hops
\* join a group and interfaces a router.
COROLLARY InsertAfterKeepsRing ==
  ASSUME NEW mem \in Memory, NEW L, Ring(mem, L),
         NEW prev \in L, NEW new \in Elem \ L
  PROVE  Ring(InsertAfter(mem, prev, new), L \cup {new})
BY InsertKeepsRing DEF InsertAfter

COROLLARY InsertToTailKeepsRing ==
  ASSUME NEW mem \in Memory, NEW L, Ring(mem, L),
         NEW h \in L, NEW new \in Elem \ L
  PROVE  /\ Ring(InsertToTail(mem, h, new), L \cup {new})
         /\ GetLast(InsertToTail(mem, h, new), h) = new
<1>1. mem[h].prev \in L /\ mem[mem[h].prev].next = h /\ h \in Elem
  BY DEF Ring, Linked
<1>2. Ring(InsertToTail(mem, h, new), L \cup {new})
  BY <1>1, InsertKeepsRing DEF InsertToTail
<1>3. InsertToTail(mem, h, new)[h].prev = new
  BY <1>1 DEF InsertToTail, PrvInsert, Memory
<1> QED BY <1>2, <1>3 DEF GetLast, GetPrev

\* Taking an element out from between its neighbours leaves the ring of the
\* others, be they one and the same.
LEMMA PrvRemoveKeepsRing ==
  ASSUME NEW mem \in Memory, NEW L, Ring(mem, L),
         NEW e \in L, mem[e].next # e
  PROVE  Ring(PrvRemove(mem, mem[e].prev, mem[e].next), L \ {e})
<1> DEFINE prev == mem[e].prev
           next == mem[e].next
           m == PrvRemove(mem, prev, next)
<1>1. /\ L \subseteq Elem
      /\ next \in L /\ mem[next].prev = e
      /\ prev \in L /\ mem[prev].next = e
      /\ prev # e /\ next # e
  BY DEF Ring, Linked
<1>2. /\ m[prev].next = next
      /\ m[next].prev = prev
      /\ \A x \in L : x # prev => m[x].next = mem[x].next
      /\ \A x \in L : x # next => m[x].prev = mem[x].prev
  BY <1>1 DEF PrvRemove, Memory
<1> HIDE DEF m
<1>3. ASSUME NEW x \in L \ {e}
      PROVE  /\ m[x].next \in L \ {e} /\ m[m[x].next].prev = x
             /\ m[x].prev \in L \ {e} /\ m[m[x].prev].next = x
  <2>1. m[x].next \in L \ {e} /\ m[m[x].next].prev = x
    <3>1. CASE x = prev
      BY <3>1, <1>1, <1>2
    <3>2. CASE x # prev
      <4>1. m[x].next = mem[x].next /\ mem[x].next \in L
            /\ mem[mem[x].next].prev = x
        BY <3>2, <1>2 DEF Ring, Linked
      <4>2. mem[x].next # e /\ mem[x].next # next
        BY <4>1, <3>2, <1>1
      <4> QED BY <4>1, <4>2, <1>2
    <3> QED BY <3>1, <3>2
  <2>2. m[x].prev \in L \ {e} /\ m[m[x].prev].next = x
    <3>1. CASE x = next
      BY <3>1, <1>1, <1>2
    <3>2. CASE x # next
      <4>1. m[x].prev = mem[x].prev /\ mem[x].prev \in L
            /\ mem[mem[x].prev].next = x
        BY <3>2, <1>2 DEF Ring, Linked
      <4>2. mem[x].prev # e /\ mem[x].prev # prev
        BY <4>1, <3>2, <1>1
      <4> QED BY <4>1, <4>2, <1>2
    <3> QED BY <3>1, <3>2
  <2> QED BY <2>1, <2>2
<1>4. Ring(m, L \ {e})
  BY <1>1, <1>3 DEF Ring, Linked
<1> QED BY <1>4 DEF m

\* The pointers of the element taken out do not matter to the ring.
LEMMA ClearOutside ==
  ASSUME NEW mem \in Memory, NEW L, Ring(mem, L), NEW e \in Elem \ L, NEW v
  PROVE  Ring([mem EXCEPT ![e] = v], L)
BY DEF Ring, Linked, Memory

\* mrvl_sai_utl_dlist_remove
THEOREM UnlinkKeepsRing ==
  ASSUME NEW mem \in Memory, NEW L, Ring(mem, L),
         NEW e \in L, mem[e].next # e
  PROVE  Ring(Unlink(mem, e), L \ {e}) /\ Unlink(mem, e)[e] = Unlinked
<1> DEFINE cut == PrvRemove(mem, mem[e].prev, mem[e].next)
<1>1. mem[e].next \in Elem /\ mem[e].prev \in Elem /\ e \in Elem
  BY DEF Ring, Linked
<1>2. mem[e].next # Null /\ mem[e].prev # Null
  BY <1>1, DListConstants DEF Elem
<1>3. cut \in Memory
  BY <1>1, RemoveType
<1>4. Ring(cut, L \ {e})
  BY PrvRemoveKeepsRing
<1>5. Unlink(mem, e) = [cut EXCEPT ![e] = Unlinked]
  BY <1>2 DEF Unlink
<1> HIDE DEF cut
<1>6. e \in Elem \ (L \ {e})
  BY <1>1
<1>7. Ring([cut EXCEPT ![e] = Unlinked], L \ {e})
  BY <1>3, <1>4, <1>6, ClearOutside
<1>8. [cut EXCEPT ![e] = Unlinked][e] = Unlinked
  BY <1>1, <1>3 DEF Memory
<1> QED BY <1>5, <1>7, <1>8

\* mrvl_sai_utl_dlist_remove_from_head: the first element of a list that is
\* not empty goes.
THEOREM RemoveFromHeadKeepsRing ==
  ASSUME NEW mem \in Memory, NEW L, Ring(mem, L),
         NEW h \in L, ~IsEmpty(mem, h)
  PROVE  Ring(RemoveFromHead(mem, h), L \ {GetFirst(mem, h)})
<1> DEFINE e == mem[h].next
<1>1. e \in L /\ mem[e].prev = h /\ mem[e].next \in L
      /\ mem[mem[e].next].prev = e /\ mem[h].next = e
  BY DEF Ring, Linked
<1>2. mem[e].next # e
  BY <1>1 DEF IsEmpty
<1> HIDE DEF e
<1>3. Ring(PrvRemove(mem, mem[e].prev, mem[e].next), L \ {e})
  BY <1>1, <1>2, PrvRemoveKeepsRing
<1> QED BY <1>1, <1>3 DEF RemoveFromHead, GetFirst, GetNext, e

\* mrvl_sai_utl_dlist_remove_from_tail: the last one goes.
THEOREM RemoveFromTailKeepsRing ==
  ASSUME NEW mem \in Memory, NEW L, Ring(mem, L),
         NEW h \in L, ~IsEmpty(mem, h)
  PROVE  Ring(RemoveFromTail(mem, h), L \ {GetLast(mem, h)})
<1> DEFINE e == mem[h].prev
<1>1. e \in L /\ mem[e].next = h /\ mem[h].prev = e
  BY DEF Ring, Linked
<1>2. mem[e].next # e
  BY <1>1 DEF IsEmpty
<1> HIDE DEF e
<1>3. Ring(PrvRemove(mem, mem[e].prev, mem[e].next), L \ {e})
  BY <1>1, <1>2, PrvRemoveKeepsRing
<1> QED BY <1>1, <1>3 DEF RemoveFromTail, GetLast, GetPrev

\* Moving an element to either end of its list keeps the elements of the
\* list, also when it is the only one or at that end already: the pointers
\* of the header are read after the element has been taken out.
THEOREM MoveKeepsRing ==
  ASSUME NEW mem \in Memory, NEW L, Ring(mem, L),
         NEW h \in L, NEW e \in L \ {h}, mem[e].next # e
  PROVE  /\ Ring(MoveToHead(mem, h, e), L)
         /\ Ring(MoveToTail(mem, h, e), L)
<1> DEFINE cut == PrvRemove(mem, mem[e].prev, mem[e].next)
<1>1. mem[e].next \in Elem /\ mem[e].prev \in Elem /\ e \in Elem
  BY DEF Ring, Linked
<1>2. (L \ {e}) \cup {e} = L /\ h \in L \ {e} /\ e \in Elem \ (L \ {e})
  BY <1>1
<1>3. cut \in Memory /\ Ring(cut, L \ {e})
  BY <1>1, RemoveType, PrvRemoveKeepsRing
<1> HIDE DEF cut
<1>4. Ring(InsertToHead(cut, h, e), (L \ {e}) \cup {e})
  BY <1>2, <1>3, InsertToHeadKeepsRing
<1>5. Ring(InsertToTail(cut, h, e), (L \ {e}) \cup {e})
  BY <1>2, <1>3, InsertToTailKeepsRing
<1> QED BY <1>2, <1>4, <1>5 DEF MoveToHead, MoveToTail, cut

\* Rings an operation is not given are not touched: all that is written are
\* the elements of the ring given and the new element.
THEOREM OtherRingsKept ==
  ASSUME NEW mem \in Memory, NEW M, Ring(mem, M),
         NEW prev \in Elem \ M, NEW next \in Elem \ M, NEW new \in Elem \ M
  PROVE  /\ Ring(PrvInsert(mem, prev, next, new), M)
         /\ Ring(PrvRemove(mem, prev, next), M)
<1>1. M \subseteq Elem /\ Linked(mem, M)
  BY DEF Ring
<1>2. ASSUME NEW after, \A e \in M : after[e] = mem[e]
      PROVE  Ring(after, M)
  <2>1. Linked(after, M)
    BY <1>1, <1>2 DEF Linked
  <2> QED BY <2>1 DEF Ring
<1>3. ASSUME NEW e \in M
      PROVE  /\ PrvInsert(mem, prev, next, new)[e] = mem[e]
             /\ PrvRemove(mem, prev, next)[e] = mem[e]
  <2>1. e \in Elem /\ e # prev /\ e # next /\ e # new
    BY <1>1
  <2> QED BY <2>1 DEF PrvInsert, PrvRemove, Memory
<1> QED BY <1>2, <1>3

-----------------------------------------------------------------------------
(* The hash table: lists read through pointers. A list is a path from a    *)
(* pointer to Nil; what an operation writes is told to preserve, extend or *)
(* shorten the paths, and following the pointers reads a path back.        *)

\* The sequence s is the list that starts at c: each cell leads to the next,
\* the last to none, and none occurs twice.
Path(succ, c, s) ==
  /\ s \in Seq(Cell)
  /\ c = IF Len(s) = 0 THEN Nil ELSE s[1]
  /\ \A i \in 1..Len(s) : succ[s[i]] = IF i = Len(s) THEN Nil ELSE s[i + 1]
  /\ Distinct(s)

\* A walk of at most N cells, where f does the rest of it.
Walks(N) == (0..N) \X CellOrNil
Walk(succ, N, f) ==
  [at \in Walks(N) |->
     IF at[1] = 0 \/ at[2] = Nil THEN <<>>
     ELSE <<at[2]>> \o f[<<at[1] - 1, succ[at[2]]>>]]

\* There are finitely many cells, and Nil is none of them.
LEMMA Cells ==
  /\ Cell \subseteq Nat \ {0} /\ Nil \notin Cell /\ Cell \subseteq CellOrNil
  /\ Nil \in CellOrNil /\ CellOrNil \subseteq Nat
  /\ IsFiniteSet(Cell) /\ Cardinality(Cell) = MaxEntries + Margin
<1>1. 1 \in Int /\ MaxEntries + Margin \in Int /\ ~(1 > MaxEntries + Margin)
      /\ (MaxEntries + Margin) - 1 + 1 = MaxEntries + Margin
  BY TableAssumption
<1>2. IsFiniteSet(Cell) /\ Cardinality(Cell) = MaxEntries + Margin
  BY <1>1, FS_Interval DEF Cell
<1> QED BY <1>2 DEF Cell, Nil, CellOrNil

\* The recursion that Follow is defined by has a solution.
LEMMA WalkExists ==
  ASSUME NEW succ \in [Cell -> CellOrNil], NEW N \in Nat
  PROVE  \E f : f = Walk(succ, N, f)
<1> DEFINE Bad == {n \in Nat : ~ \E f : f = Walk(succ, n, f)}
<1> SUFFICES ASSUME Bad # {} PROVE FALSE
  OBVIOUS
<1>1. PICK n \in Bad : \A m \in Bad : n <= m
  BY LeastExists
<1>2. n \in Nat /\ ~ \E f : f = Walk(succ, n, f)
  OBVIOUS
<1>3. CASE n = 0
  <2> DEFINE f == [at \in Walks(0) |-> <<>>]
  <2>1. \A at \in Walks(0) : at[1] = 0
    BY DEF Walks
  <2>2. f = Walk(succ, 0, f)
    BY <2>1 DEF Walk
  <2> QED BY <2>2, <1>2, <1>3
<1>4. CASE n # 0
  <2>1. n - 1 \in Nat /\ n - 1 \notin Bad
    BY <1>1, <1>2, <1>4
  <2>2. PICK f : f = Walk(succ, n - 1, f)
    BY <2>1
  <2> DEFINE g == Walk(succ, n, f)
  <2>3. \A at \in Walks(n - 1) :
          f[at] = IF at[1] = 0 \/ at[2] = Nil THEN <<>>
                  ELSE <<at[2]>> \o f[<<at[1] - 1, succ[at[2]]>>]
    BY <2>2 DEF Walk
  <2>4. \A at \in Walks(n) :
          g[at] = IF at[1] = 0 \/ at[2] = Nil THEN <<>>
                  ELSE <<at[2]>> \o f[<<at[1] - 1, succ[at[2]]>>]
    BY DEF Walk
  <2> HIDE DEF g
  <2>5. Walks(n - 1) \subseteq Walks(n)
    BY <1>2, <2>1 DEF Walks
  <2>6. \A at \in Walks(n - 1) : g[at] = f[at]
    BY <2>3, <2>4, <2>5
  <2>7. ASSUME NEW at \in Walks(n), at[1] # 0, at[2] # Nil
        PROVE  f[<<at[1] - 1, succ[at[2]]>>] = g[<<at[1] - 1, succ[at[2]]>>]
    <3>1. <<at[1] - 1, succ[at[2]]>> \in Walks(n - 1)
      BY <1>2, <2>1, <2>7 DEF Walks, CellOrNil
    <3> QED BY <3>1, <2>6
  <2>8. Walk(succ, n, f) = Walk(succ, n, g)
    BY <2>7 DEF Walk
  <2>9. g = Walk(succ, n, g)
    BY <2>8 DEF g
  <2> QED BY <2>9, <1>2
<1> QED BY <1>3, <1>4

\* Following the pointers is such a walk.
LEMMA FollowIsWalk ==
  ASSUME NEW succ \in [Cell -> CellOrNil], NEW c
  PROVE  \E f : /\ f = Walk(succ, Cardinality(Cell) + 1, f)
                /\ Follow(succ, c) = f[<<Cardinality(Cell) + 1, c>>]
<1> DEFINE N == Cardinality(Cell) + 1
           g == CHOOSE f : f = Walk(succ, N, f)
<1>1. N \in Nat
  BY Cells, TableAssumption
<1>2. \E f : f = Walk(succ, N, f)
  BY <1>1, WalkExists
<1>3. g = Walk(succ, N, g)
  BY <1>2
<1>4. Follow(succ, c) = g[<<Cardinality(Cell) + 1, c>>]
  BY Zenon DEF Follow, Walk, Walks, CellOrNil
<1> QED BY <1>3, <1>4

\* A sequence of different elements has as many as it is long.
LEMMA DistinctLength ==
  ASSUME NEW S, NEW s \in Seq(S), Distinct(s)
  PROVE  IsFiniteSet(Elements(s)) /\ Cardinality(Elements(s)) = Len(s)
<1>1. Len(s) \in Nat /\ DOMAIN s = 1..Len(s)
  BY LenProperties
<1>2. s \in [1..Len(s) -> Elements(s)]
  BY <1>1 DEF Elements
<1>3. s \in Bijection(1..Len(s), Elements(s))
  BY <1>1, <1>2 DEF Distinct, Elements, Bijection, Injection, Surjection, IsInjective
<1>4. ExistsBijection(1..Len(s), Elements(s))
  BY <1>3 DEF ExistsBijection
<1>5. 1 \in Int /\ Len(s) \in Int /\ IsFiniteSet(1..Len(s))
  BY <1>1, FS_Interval
<1> QED BY <1>1, <1>4, <1>5, FS_CountingElements, FS_Bijection

\* A list is no longer than the memory.
LEMMA PathLength ==
  ASSUME NEW succ, NEW c, NEW s, Path(succ, c, s)
  PROVE  Len(s) \in Nat /\ Len(s) <= Cardinality(Cell)
<1>1. s \in Seq(Cell) /\ Distinct(s)
  BY DEF Path
<1>2. Len(s) \in Nat /\ Elements(s) \subseteq Cell
  BY <1>1 DEF Elements
<1> QED BY <1>1, <1>2, DistinctLength, Cells, FS_Subset

\* What Follow meets is the list.
LEMMA FollowPath ==
  ASSUME NEW succ \in [Cell -> CellOrNil], NEW c, NEW s, Path(succ, c, s)
  PROVE  Follow(succ, c) = s
<1> DEFINE N == Cardinality(Cell) + 1
           at(d) == IF d = 0 THEN Nil ELSE s[Len(s) + 1 - d]
           rest(d) == SubSeq(s, Len(s) + 1 - d, Len(s))
<1>1. PICK f : f = Walk(succ, N, f) /\ Follow(succ, c) = f[<<N, c>>]
  BY FollowIsWalk
<1>2. /\ s \in Seq(Cell) /\ Len(s) \in Nat /\ N \in Nat /\ Len(s) < N
      /\ \A i \in 1..Len(s) : s[i] \in Cell /\ s[i] # Nil
  <2>1. s \in Seq(Cell) /\ Len(s) \in Nat /\ Len(s) <= Cardinality(Cell)
    BY PathLength DEF Path
  <2>2. Cardinality(Cell) \in Nat
    BY Cells, TableAssumption
  <2>3. \A i \in 1..Len(s) : s[i] \in Cell /\ s[i] # Nil
    BY <2>1, Cells
  <2> QED BY <2>1, <2>2, <2>3
<1> DEFINE Bad == {d \in 0..Len(s) : \E n \in d..N : f[<<n, at(d)>>] # rest(d)}
<1> HIDE DEF N
<1>3. ASSUME Bad # {} PROVE FALSE
  <2>1. PICK d \in Bad : \A e \in Bad : d <= e
    <3>1. Bad \subseteq Nat
      BY <1>2
    <3> QED BY <1>3, <3>1, LeastExists
  <2>2. PICK n \in d..N : f[<<n, at(d)>>] # rest(d)
    OBVIOUS
  <2>3. d \in 0..Len(s) /\ n \in 0..N /\ n \in Nat /\ d \in Nat
    BY <1>2
  <2>4. CASE d = 0
    <3>1. <<n, Nil>> \in Walks(N)
      BY <2>3, Cells DEF Walks
    <3>2. f[<<n, Nil>>] = <<>>
      BY <3>1, <1>1 DEF Walk
    <3>3. rest(d) = <<>>
      BY <1>2, <2>4, SubSeqEmpty
    <3> QED BY <2>2, <2>4, <3>2, <3>3
  <2>5. CASE d # 0
    <3> DEFINE i == Len(s) + 1 - d
    <3>1. i \in 1..Len(s) /\ at(d) = s[i] /\ s[i] \in Cell /\ s[i] # Nil /\ n # 0
      BY <1>2, <2>3, <2>5
    <3>2. <<n, s[i]>> \in Walks(N)
      BY <2>3, <3>1, Cells DEF Walks
    <3>3. f[<<n, s[i]>>] = <<s[i]>> \o f[<<n - 1, succ[s[i]]>>]
      BY <1>1, <3>1, <3>2 DEF Walk
    <3>4. succ[s[i]] = at(d - 1)
      <4>1. succ[s[i]] = IF i = Len(s) THEN Nil ELSE s[i + 1]
        BY <3>1 DEF Path
      <4>2. (i = Len(s) <=> d - 1 = 0) /\ i + 1 = Len(s) + 1 - (d - 1)
        BY <1>2, <2>3, <2>5
      <4>3. CASE i = Len(s)
        BY <4>1, <4>2, <4>3
      <4>4. CASE i # Len(s)
        <5>1. at(d - 1) = s[Len(s) + 1 - (d - 1)]
          BY <4>2, <4>4
        <5>2. s[Len(s) + 1 - (d - 1)] = s[i + 1]
          BY <4>2
        <5> QED BY <4>1, <4>4, <5>1, <5>2
      <4> QED BY <4>3, <4>4
    <3>5. ASSUME d - 1 \in Bad PROVE FALSE
      <4>1. d <= d - 1
        BY <2>1, <3>5
      <4> QED BY <2>3, <4>1
    <3>6. f[<<n - 1, at(d - 1)>>] = rest(d - 1)
      <4>1. d - 1 \in 0..Len(s) /\ n - 1 \in (d - 1)..N
        BY <1>2, <2>3, <2>5
      <4> QED BY <3>5, <4>1
    <3>7. rest(d) = <<s[i]>> \o rest(d - 1)
      <4>1. Len(s) \in i..Len(s) /\ i + 1 = Len(s) + 1 - (d - 1)
        BY <1>2, <2>3, <3>1
      <4> QED BY <1>2, <3>1, <4>1, SubSeqRecursiveFirst
    <3> QED BY <2>2, <3>1, <3>3, <3>4, <3>6, <3>7
  <2> QED BY <2>4, <2>5
<1>4. Len(s) \notin Bad
  BY <1>3
<1>5. f[<<N, at(Len(s))>>] = rest(Len(s))
  BY <1>2, <1>4
<1>6. at(Len(s)) = c
  BY <1>2 DEF Path
<1>7. rest(Len(s)) = s
  BY <1>2, SubSeqFull
<1> QED BY <1>1, <1>5, <1>6, <1>7

-----------------------------------------------------------------------------
(* The binary search.                                                      *)

\* The parts of a range are shorter than the range.
LEMMA Parts ==
  ASSUME NEW len \in Nat, len >= 3
  PROVE  /\ len \div 2 \in 1..(len - 2)
         /\ Left(len) \in 2..(len - 1) /\ Left(len) + len \div 2 = len
BY DEF Left

\* A binary search of ranges of at most n keys, where f does the rest of it.
Halving(header, k, n, f) ==
  [range \in Int \X (3..n) |->
     IF k <= header[range[1]]
     THEN IF Left(range[2]) = 2 THEN range[1] - 1
          ELSE f[<<range[1] - Left(range[2]) \div 2, Left(range[2])>>]
     ELSE IF range[2] \div 2 = 1 THEN range[1]
          ELSE f[<<range[1] + Left(range[2] \div 2 + 1) - 1, range[2] \div 2 + 1>>]]

\* The recursion that the search is defined by has a solution.
LEMMA HalvingExists ==
  ASSUME NEW header, NEW k, NEW N \in Nat
  PROVE  \E f : f = Halving(header, k, N, f)
<1> DEFINE Bad == {n \in Nat : ~ \E f : f = Halving(header, k, n, f)}
<1> SUFFICES ASSUME Bad # {} PROVE FALSE
  OBVIOUS
<1>1. PICK n \in Bad : \A m \in Bad : n <= m
  BY LeastExists
<1>2. n \in Nat /\ ~ \E f : f = Halving(header, k, n, f)
  OBVIOUS
<1>3. CASE n = 0
  <2> DEFINE f == [range \in Int \X (3..0) |-> 0]
  <2>1. Int \X (3..0) = {}
    OBVIOUS
  <2>2. f = Halving(header, k, 0, f)
    BY <2>1 DEF Halving
  <2> QED BY <2>2, <1>2, <1>3
<1>4. CASE n # 0
  <2>1. n - 1 \in Nat /\ n - 1 \notin Bad
    BY <1>1, <1>2, <1>4
  <2>2. PICK f : f = Halving(header, k, n - 1, f)
    BY <2>1
  <2> DEFINE g == Halving(header, k, n, f)
             left(range) == <<range[1] - Left(range[2]) \div 2, Left(range[2])>>
             right(range) == <<range[1] + Left(range[2] \div 2 + 1) - 1, range[2] \div 2 + 1>>
  <2>3. ASSUME NEW range \in Int \X (3..n)
        PROVE  /\ Left(range[2]) # 2 => left(range) \in Int \X (3..(n - 1))
               /\ range[2] \div 2 # 1 => right(range) \in Int \X (3..(n - 1))
    <3>1. range[1] \in Int /\ range[2] \in Nat /\ range[2] >= 3 /\ range[2] <= n
      OBVIOUS
    <3>2. Left(range[2]) # 2 => left(range) \in Int \X (3..(n - 1))
      BY <3>1, Parts
    <3>3. range[2] \div 2 \in 1..(range[2] - 2)
      BY <3>1, Parts
    <3>4. ASSUME range[2] \div 2 # 1
          PROVE  range[2] \div 2 + 1 \in 3..(n - 1) /\ range[2] \div 2 + 1 \in Nat
      BY <3>1, <3>3, <3>4
    <3>5. range[2] \div 2 # 1 => Left(range[2] \div 2 + 1) \in Int
      BY <3>4, Parts
    <3> QED BY <3>1, <3>2, <3>4, <3>5
  <2>4. \A range \in Int \X (3..(n - 1)) :
          f[range] = IF k <= header[range[1]]
                     THEN IF Left(range[2]) = 2 THEN range[1] - 1 ELSE f[left(range)]
                     ELSE IF range[2] \div 2 = 1 THEN range[1] ELSE f[right(range)]
    BY <2>2 DEF Halving
  <2>5. \A range \in Int \X (3..n) :
          g[range] = IF k <= header[range[1]]
                     THEN IF Left(range[2]) = 2 THEN range[1] - 1 ELSE f[left(range)]
                     ELSE IF range[2] \div 2 = 1 THEN range[1] ELSE f[right(range)]
    BY DEF Halving
  <2> HIDE DEF g, left, right
  <2>6. Int \X (3..(n - 1)) \subseteq Int \X (3..n)
    BY <1>2, <2>1
  <2>7. \A range \in Int \X (3..(n - 1)) : g[range] = f[range]
    BY <2>4, <2>5, <2>6
  <2>8. ASSUME NEW range \in Int \X (3..n)
        PROVE  /\ Left(range[2]) # 2 => f[left(range)] = g[left(range)]
               /\ range[2] \div 2 # 1 => f[right(range)] = g[right(range)]
    BY <2>3, <2>7
  <2>9. Halving(header, k, n, f) = Halving(header, k, n, g)
    BY <2>8 DEF Halving, left, right
  <2>10. g = Halving(header, k, n, g)
    BY <2>9 DEF g
  <2> QED BY <2>10, <1>2
<1> QED BY <1>3, <1>4

\* What SearchStart computes.
LEMMA StartIsHalving ==
  ASSUME NEW t, NEW k
  PROVE  \E f : /\ f = Halving(t.sortedHeader, k, SortedHeaderSize, f)
                /\ SearchStart(t, k) = f[<<Left(SortedHeaderSize), SortedHeaderSize>>]
<1> DEFINE g == CHOOSE f : f = Halving(t.sortedHeader, k, SortedHeaderSize, f)
<1>1. SortedHeaderSize \in Nat
  BY TableAssumption
<1>2. \E f : f = Halving(t.sortedHeader, k, SortedHeaderSize, f)
  BY <1>1, HalvingExists
<1>3. g = Halving(t.sortedHeader, k, SortedHeaderSize, g)
  BY <1>2
<1>4. SearchStart(t, k) = g[<<Left(SortedHeaderSize), SortedHeaderSize>>]
  BY Zenon DEF SearchStart, Halving, Ranges
<1> QED BY <1>3, <1>4

\* The search starts from the first header key, or from one smaller than k.
LEMMA StartIsBefore ==
  ASSUME SortedHeaderSize # 0, NEW t, NEW k \in Nat,
         t.sortedHeader \in [1..SortedHeaderSize -> Nat]
  PROVE  /\ SearchStart(t, k) \in 1..SortedHeaderSize
         /\ SearchStart(t, k) = 1 \/ t.sortedHeader[SearchStart(t, k)] < k
<1> DEFINE S == SortedHeaderSize
           h == t.sortedHeader
           low(mid, len) == mid - Left(len) + 1
           Before(r) == r \in 1..S /\ (r = 1 \/ h[r] < k)
<1>1. PICK f : /\ f = Halving(h, k, S, f)
               /\ SearchStart(t, k) = f[<<Left(S), S>>]
  BY StartIsHalving
<1> DEFINE Bad == {len \in 3..S : \E mid \in Int :
                     /\ Before(low(mid, len)) /\ low(mid, len) + len - 1 <= S
                     /\ ~ Before(f[<<mid, len>>])}
<1> HIDE DEF low, Before
<1>2. S \in Nat /\ S >= 5
  BY TableAssumption
<1>3. ASSUME Bad # {} PROVE FALSE
  <2>1. PICK len \in Bad : \A l \in Bad : len <= l
    <3>1. Bad \subseteq Nat
      BY <1>2
    <3> HIDE DEF Bad
    <3> QED BY <1>3, <3>1, LeastExists
  <2>2. PICK mid \in Int : /\ Before(low(mid, len)) /\ low(mid, len) + len - 1 <= S
                           /\ ~ Before(f[<<mid, len>>])
    OBVIOUS
  <2>3. len \in 3..S /\ len \in Nat /\ len >= 3
    BY <1>2
  <2>4. ASSUME NEW m \in Int, NEW l \in 3..S, l < len, Before(low(m, l)),
               low(m, l) + l - 1 <= S
        PROVE  Before(f[<<m, l>>])
    <3>1. l \notin Bad
      <4>1. l \in Nat /\ len \in Nat
        BY <1>2, <2>3
      <4> HIDE DEF Bad
      <4> QED BY <2>1, <2>4, <4>1
    <3> QED BY <2>4, <3>1
  <2> DEFINE left == Left(len)
             right == len \div 2
  <2>5. left \in 2..(len - 1) /\ right \in 1..(len - 2) /\ left + right = len
    BY <2>3, Parts
  <2>6. f[<<mid, len>>] = IF k <= h[mid]
                          THEN IF left = 2 THEN mid - 1
                               ELSE f[<<mid - left \div 2, left>>]
                          ELSE IF right = 1 THEN mid
                               ELSE f[<<mid + Left(right + 1) - 1, right + 1>>]
    <3>1. <<mid, len>> \in Int \X (3..S)
      BY <2>3
    <3> QED BY <1>1, <3>1 DEF Halving
  <2>7. mid \in 1..S
    <3>1. low(mid, len) = mid - left + 1
      BY DEF low
    <3>2. low(mid, len) \in 1..S /\ low(mid, len) + len - 1 <= S
      BY <2>2 DEF Before
    <3>3. len \in Nat /\ left \in 2..(len - 1) /\ S \in Nat
      BY <1>2, <2>3, <2>5
    <3> HIDE DEF low, left, S
    <3> QED BY <3>1, <3>2, <3>3
  <2> HIDE DEF Bad, left, right, S
  <2>8. CASE k <= h[mid]
    <3>1. CASE left = 2
      <4>1. f[<<mid, len>>] = low(mid, len)
        BY <2>6, <2>7, <2>8, <3>1 DEF low, left
      <4> QED BY <2>2, <4>1
    <3>2. CASE left # 2
      <4>1. left \in Nat /\ left >= 3 /\ left \in 3..S /\ left < len
        BY <1>2, <2>3, <2>5, <3>2
      <4>2. /\ left \div 2 \in Nat /\ Left(left) \in Nat
            /\ Left(left) + left \div 2 = left
        BY <4>1, Parts
      <4> DEFINE m == mid - left \div 2
      <4> HIDE DEF low
      <4>3. m \in Int /\ low(m, left) = low(mid, len)
        <5>1. left \div 2 \in Int /\ Left(left) \in Int
          BY <4>2
        <5>2. m \in Int /\ low(m, left) = mid - left + 1
          BY <5>1, <4>1, <4>2, <2>7 DEF low
        <5> QED BY <5>2 DEF low, left
      <4>4. low(m, left) + left - 1 <= S
        <5>1. low(m, left) = mid - left + 1
          BY <4>3 DEF low, left
        <5> QED BY <5>1, <2>7, <4>1, <1>2
      <4>5. Before(low(m, left))
        BY <4>3, <2>2
      <4>6. f[<<mid, len>>] = f[<<m, left>>]
        BY <2>6, <2>8, <3>2
      <4> HIDE DEF m, left, low, Before
      <4>7. Before(f[<<m, left>>])
        BY <4>1, <4>3, <4>4, <4>5, <2>4
      <4> QED BY <4>6, <4>7, <2>2
    <3> QED BY <3>1, <3>2
  <2>9. CASE ~ (k <= h[mid])
    <3>1. Before(mid)
      <4>1. h[mid] \in Nat
        BY <2>7 DEF S
      <4> QED BY <2>7, <2>9, <4>1 DEF Before
    <3>2. CASE right = 1
      BY <2>2, <2>6, <2>9, <3>1, <3>2
    <3>3. CASE right # 1
      <4> DEFINE l == right + 1
                 m == mid + Left(l) - 1
      <4>1. l \in Nat /\ l >= 3 /\ l \in 3..S /\ l < len
        BY <1>2, <2>3, <2>5, <3>3
      <4>2. Left(l) \in Nat
        BY <4>1, Parts
      <4>3. m \in Int /\ low(m, l) = mid
        BY <4>2, <2>7 DEF low
      <4>4. mid + l - 1 <= S
        <5>1. mid - left + 1 + len - 1 <= S
          BY <2>2 DEF low, left
        <5> QED BY <5>1, <2>3, <2>5, <2>7, <1>2
      <4>5. f[<<mid, len>>] = f[<<m, l>>]
        BY <2>6, <2>9, <3>3
      <4>7. low(m, l) + l - 1 <= S /\ Before(low(m, l))
        BY <4>3, <4>4, <3>1
      <4> HIDE DEF m, l, low, Before, right
      <4>6. Before(f[<<m, l>>])
        BY <4>1, <4>3, <4>7, <2>4
      <4> QED BY <4>5, <4>6, <2>2
    <3> QED BY <3>2, <3>3
  <2> QED BY <2>8, <2>9
<1>4. S \notin Bad
  BY <1>3
<1>5. Left(S) \in Int /\ low(Left(S), S) = 1
  <2>1. Left(S) \in Nat
    BY <1>2, Parts
  <2> QED BY <2>1 DEF low
<1>6. Before(low(Left(S), S)) /\ low(Left(S), S) + S - 1 <= S
  BY <1>2, <1>5 DEF Before
<1>7. Before(f[<<Left(S), S>>])
  <2>1. S \in 3..S /\ Left(S) \in Int
    BY <1>2, <1>5
  <2>2. \A mid \in Int : Before(low(mid, S)) /\ low(mid, S) + S - 1 <= S
                           => Before(f[<<mid, S>>])
    <3> HIDE DEF S
    <3> QED BY <2>1, <1>4
  <2> QED BY <2>1, <2>2, <1>6
<1> QED BY <1>1, <1>7 DEF Before

-----------------------------------------------------------------------------
(* Lists of cells.                                                         *)

\* The elements of a list are cells.
LEMMA PathElements ==
  ASSUME NEW succ, NEW c, NEW s, Path(succ, c, s)
  PROVE  /\ s \in Seq(Cell) /\ Len(s) \in Nat /\ DOMAIN s = 1..Len(s)
         /\ \A i \in 1..Len(s) : s[i] \in Cell
         /\ Elements(s) = {s[i] : i \in 1..Len(s)}
         /\ Elements(s) \subseteq Cell
BY DEF Path, Elements

\* A list is the same where its pointers are.
LEMMA PathFrame ==
  ASSUME NEW succ, NEW c, NEW s, Path(succ, c, s),
         NEW succ2, \A x \in Elements(s) : succ2[x] = succ[x]
  PROVE  Path(succ2, c, s)
BY DEF Path, Elements

\* An element put behind m others.
Inserted(s, m, x) ==
  [i \in 1..(Len(s) + 1) |->
     IF i <= m THEN s[i] ELSE IF i = m + 1 THEN x ELSE s[i - 1]]

\* It is among them, in that place, and the others keep their order.
LEMMA InsertedIs ==
  ASSUME NEW s \in Seq(Cell), Distinct(s), NEW m \in 0..Len(s),
         NEW x \in Cell, x \notin Elements(s)
  PROVE  /\ Inserted(s, m, x) \in Seq(Cell)
         /\ Len(Inserted(s, m, x)) = Len(s) + 1
         /\ \A i \in 1..m : Inserted(s, m, x)[i] = s[i]
         /\ Inserted(s, m, x)[m + 1] = x
         /\ \A i \in (m + 1)..Len(s) : Inserted(s, m, x)[i + 1] = s[i]
         /\ Distinct(Inserted(s, m, x))
         /\ Elements(Inserted(s, m, x)) = Elements(s) \cup {x}
<1> DEFINE r == Inserted(s, m, x)
<1>1. Len(s) \in Nat /\ DOMAIN s = 1..Len(s) /\ m \in Nat
  OBVIOUS
<1>2. \A i \in 1..Len(s) : s[i] \in Cell /\ s[i] # x
  BY <1>1 DEF Elements
<1>3. r \in Seq(Cell) /\ Len(r) = Len(s) + 1 /\ DOMAIN r = 1..(Len(s) + 1)
  BY <1>1, <1>2 DEF Inserted
<1>4. \A i \in 1..(Len(s) + 1) :
        r[i] = IF i <= m THEN s[i] ELSE IF i = m + 1 THEN x ELSE s[i - 1]
  BY <1>1 DEF Inserted
<1> HIDE DEF r
<1>5. /\ \A i \in 1..m : r[i] = s[i]
      /\ r[m + 1] = x
      /\ \A i \in (m + 1)..Len(s) : r[i + 1] = s[i]
  <2>1. \A i \in 1..m : r[i] = s[i]
    BY <1>1, <1>4
  <2>2. r[m + 1] = x
    BY <1>1, <1>4
  <2>3. ASSUME NEW i \in (m + 1)..Len(s) PROVE r[i + 1] = s[i]
    <3>1. i + 1 \in 1..(Len(s) + 1) /\ ~(i + 1 <= m) /\ i + 1 # m + 1 /\ (i + 1) - 1 = i
      BY <1>1
    <3> QED BY <1>4, <3>1
  <2> QED BY <2>1, <2>2, <2>3
<1>6. \A i \in 1..(Len(s) + 1) :
        \/ i <= m /\ i \in 1..Len(s) /\ r[i] = s[i]
        \/ i = m + 1 /\ r[i] = x
        \/ i > m + 1 /\ i - 1 \in 1..Len(s) /\ r[i] = s[i - 1]
  BY <1>1, <1>4
<1>7. Distinct(r)
  <2> SUFFICES ASSUME NEW i \in 1..(Len(s) + 1), NEW j \in 1..(Len(s) + 1), r[i] = r[j]
               PROVE  i = j
    BY <1>3 DEF Distinct
  <2>1. \A k, l \in 1..Len(s) : s[k] = s[l] => k = l
    BY <1>1 DEF Distinct
  <2> QED BY <1>1, <1>2, <1>6, <2>1
<1>8. Elements(r) = Elements(s) \cup {x}
  <2>1. ASSUME NEW y \in Elements(r) PROVE y \in Elements(s) \cup {x}
    BY <1>1, <1>3, <1>6 DEF Elements
  <2>2. ASSUME NEW y \in Elements(s) PROVE y \in Elements(r)
    <3>1. PICK i \in 1..Len(s) : y = s[i]
      BY <1>1 DEF Elements
    <3>2. CASE i <= m
      <4>1. i \in 1..m /\ i \in 1..(Len(s) + 1)
        BY <1>1, <3>2
      <4> QED BY <1>3, <1>5, <3>1, <4>1 DEF Elements
    <3>3. CASE ~(i <= m)
      <4>1. i \in (m + 1)..Len(s) /\ i + 1 \in 1..(Len(s) + 1)
        BY <1>1, <3>3
      <4> QED BY <1>3, <1>5, <3>1, <4>1 DEF Elements
    <3> QED BY <3>2, <3>3
  <2>3. x \in Elements(r)
    <3>1. m + 1 \in 1..(Len(s) + 1)
      BY <1>1
    <3> QED BY <1>3, <1>5, <3>1 DEF Elements
  <2> QED BY <2>1, <2>2, <2>3
<1> QED BY <1>3, <1>5, <1>7, <1>8 DEF r

\* Putting a cell in a list: at its beginning,
LEMMA PathInsertFirst ==
  ASSUME NEW succ, NEW c, NEW s, Path(succ, c, s),
         NEW x \in Cell, x \notin Elements(s),
         NEW succ2, succ2[x] = c, \A y \in Elements(s) : succ2[y] = succ[y]
  PROVE  Path(succ2, x, Inserted(s, 0, x))
<1> DEFINE r == Inserted(s, 0, x)
<1>1. s \in Seq(Cell) /\ Distinct(s) /\ Len(s) \in Nat /\ 0 \in 0..Len(s)
  BY DEF Path
<1>2. /\ r \in Seq(Cell) /\ Len(r) = Len(s) + 1 /\ r[1] = x
      /\ \A i \in 1..Len(s) : r[i + 1] = s[i]
      /\ Distinct(r)
  BY <1>1, InsertedIs
<1> HIDE DEF r
<1>3. ASSUME NEW i \in 1..Len(r)
      PROVE  succ2[r[i]] = IF i = Len(r) THEN Nil ELSE r[i + 1]
  <2>1. CASE i = 1
    <3>1. succ2[r[i]] = IF Len(s) = 0 THEN Nil ELSE s[1]
      BY <1>2, <2>1 DEF Path
    <3> QED BY <1>1, <1>2, <2>1, <3>1
  <2>2. CASE i # 1
    <3>1. i - 1 \in 1..Len(s) /\ (i - 1) + 1 = i
      BY <1>1, <1>2, <2>2
    <3>2. r[i] = s[i - 1] /\ s[i - 1] \in Elements(s)
      BY <1>1, <1>2, <3>1 DEF Elements
    <3>3. succ2[r[i]] = IF i - 1 = Len(s) THEN Nil ELSE s[i]
      BY <3>1, <3>2 DEF Path
    <3>4. i - 1 # Len(s) => r[i + 1] = s[i]
      BY <1>1, <1>2, <3>1
    <3> QED BY <1>1, <1>2, <3>1, <3>3, <3>4
  <2> QED BY <2>1, <2>2
<1> QED BY <1>1, <1>2, <1>3 DEF Path, r

\* and behind one of its cells.
LEMMA PathInsert ==
  ASSUME NEW succ, NEW c, NEW s, Path(succ, c, s), NEW m \in 1..Len(s),
         NEW x \in Cell, x \notin Elements(s),
         NEW succ2, succ2[x] = succ[s[m]], succ2[s[m]] = x,
         \A y \in Elements(s) \ {s[m]} : succ2[y] = succ[y]
  PROVE  Path(succ2, c, Inserted(s, m, x))
<1> DEFINE r == Inserted(s, m, x)
<1>1. s \in Seq(Cell) /\ Distinct(s) /\ Len(s) \in Nat /\ m \in 0..Len(s)
      /\ DOMAIN s = 1..Len(s)
  BY DEF Path
<1>2. /\ r \in Seq(Cell) /\ Len(r) = Len(s) + 1
      /\ \A i \in 1..m : r[i] = s[i]
      /\ r[m + 1] = x
      /\ \A i \in (m + 1)..Len(s) : r[i + 1] = s[i]
      /\ Distinct(r)
  BY <1>1, InsertedIs
<1> HIDE DEF r
<1>5. /\ m \in Nat /\ m >= 1 /\ m <= Len(s)
      /\ Len(s) \in Nat /\ Len(r) = Len(s) + 1
  BY <1>1, <1>2
<1>3. ASSUME NEW i \in 1..Len(r)
      PROVE  succ2[r[i]] = IF i = Len(r) THEN Nil ELSE r[i + 1]
  <2>1. CASE i < m
    <3>1. i \in 1..m /\ i + 1 \in 1..m /\ i \in 1..Len(s) /\ i # Len(s) /\ i # Len(r)
      BY <1>5, <2>1
    <3>2. s[i] \in Elements(s) \ {s[m]}
      <4>1. s[i] # s[m]
        <5>1. i # m
          BY <1>5, <2>1, <3>1
        <5>2. m \in DOMAIN s /\ i \in DOMAIN s
          BY <1>1, <3>1
        <5> QED BY <1>1, <5>1, <5>2 DEF Distinct
      <4> QED BY <1>1, <3>1, <4>1 DEF Elements
    <3>3. succ[s[i]] = s[i + 1]
      BY <3>1 DEF Path
    <3> QED BY <1>2, <3>1, <3>2, <3>3
  <2>2. CASE i = m
    <3>1. i \in 1..m /\ i # Len(r)
      BY <1>1, <1>2, <2>2
    <3> QED BY <1>2, <2>2, <3>1
  <2>3. CASE i = m + 1
    <3>1. succ2[r[i]] = IF m = Len(s) THEN Nil ELSE s[m + 1]
      <4>1. succ[s[m]] = IF m = Len(s) THEN Nil ELSE s[m + 1]
        BY DEF Path
      <4> QED BY <1>2, <2>3, <4>1
    <3>2. m # Len(s) => m + 1 \in (m + 1)..Len(s)
      BY <1>5
    <3>3. m # Len(s) => r[i + 1] = s[m + 1]
      BY <1>2, <2>3, <3>2
    <3>4. m = Len(s) <=> i = Len(r)
      BY <1>5, <2>3
    <3> QED BY <3>1, <3>3, <3>4
  <2>4. CASE i > m + 1
    <3>1. /\ i - 1 \in (m + 1)..Len(s) /\ (i - 1) + 1 = i /\ i - 1 \in 1..Len(s)
          /\ i - 1 # m
      BY <1>1, <1>2, <2>4
    <3>2. r[i] = s[i - 1] /\ s[i - 1] \in Elements(s) \ {s[m]}
      BY <1>1, <1>2, <3>1 DEF Elements, Distinct
    <3>3. succ2[r[i]] = IF i - 1 = Len(s) THEN Nil ELSE s[i]
      BY <3>1, <3>2 DEF Path
    <3>4. i - 1 # Len(s) => i \in (m + 1)..Len(s)
      BY <1>1, <3>1
    <3>5. i - 1 # Len(s) => r[i + 1] = s[i]
      BY <1>2, <3>4
    <3> QED BY <1>1, <1>2, <3>1, <3>3, <3>5
  <2> QED BY <1>1, <1>2, <2>1, <2>2, <2>3, <2>4
<1>4. c = r[1]
  <2>1. c = s[1] /\ 1 \in 1..m
    BY <1>5 DEF Path
  <2> QED BY <1>2, <2>1
<1>6. c = IF Len(r) = 0 THEN Nil ELSE r[1]
  BY <1>4, <1>5
<1>7. Path(succ2, c, r)
  BY <1>2, <1>3, <1>6 DEF Path
<1> QED BY <1>7 DEF r

\* An element taken off.
Removed(s, m) == [i \in 1..(Len(s) - 1) |-> IF i < m THEN s[i] ELSE s[i + 1]]

\* The others stay, in their order.
LEMMA RemovedIs ==
  ASSUME NEW s \in Seq(Cell), Distinct(s), NEW m \in 1..Len(s)
  PROVE  /\ Removed(s, m) \in Seq(Cell)
         /\ Len(Removed(s, m)) = Len(s) - 1
         /\ \A i \in 1..(m - 1) : Removed(s, m)[i] = s[i]
         /\ \A i \in m..(Len(s) - 1) : Removed(s, m)[i] = s[i + 1]
         /\ Distinct(Removed(s, m))
         /\ Elements(Removed(s, m)) = Elements(s) \ {s[m]}
<1> DEFINE r == Removed(s, m)
<1>1. /\ Len(s) \in Nat /\ DOMAIN s = 1..Len(s)
      /\ m \in Nat /\ m >= 1 /\ m <= Len(s)
  OBVIOUS
<1>2. \A i \in 1..Len(s) : s[i] \in Cell
  OBVIOUS
<1>3. r \in Seq(Cell) /\ Len(r) = Len(s) - 1 /\ DOMAIN r = 1..(Len(s) - 1)
  <2>1. Len(s) - 1 \in Nat
    BY <1>1
  <2>2. \A i \in 1..(Len(s) - 1) : (IF i < m THEN s[i] ELSE s[i + 1]) \in Cell
    BY <1>1, <1>2
  <2> QED BY <2>1, <2>2 DEF Removed
<1>4. \A i \in 1..(Len(s) - 1) : r[i] = IF i < m THEN s[i] ELSE s[i + 1]
  BY DEF Removed
<1> HIDE DEF r
<1>5. /\ \A i \in 1..(m - 1) : r[i] = s[i]
      /\ \A i \in m..(Len(s) - 1) : r[i] = s[i + 1]
  BY <1>1, <1>4
<1>6. \A k, l \in 1..Len(s) : s[k] = s[l] => k = l
  BY <1>1 DEF Distinct
<1>7. Distinct(r)
  <2> SUFFICES ASSUME NEW i \in 1..(Len(s) - 1), NEW j \in 1..(Len(s) - 1), r[i] = r[j]
               PROVE  i = j
    BY <1>3 DEF Distinct
  <2>1. /\ i \in 1..Len(s) /\ i + 1 \in 1..Len(s)
        /\ j \in 1..Len(s) /\ j + 1 \in 1..Len(s)
    BY <1>1
  <2> QED BY <1>1, <1>4, <1>6, <2>1
<1>8. Elements(r) = Elements(s) \ {s[m]}
  <2>1. ASSUME NEW y \in Elements(r) PROVE y \in Elements(s) \ {s[m]}
    <3>1. PICK i \in 1..(Len(s) - 1) : y = r[i]
      BY <1>3 DEF Elements
    <3>2. i \in 1..Len(s) /\ i + 1 \in 1..Len(s) /\ i + 1 # i /\ m \in 1..Len(s)
      BY <1>1
    <3>3. PICK l \in 1..Len(s) : y = s[l] /\ l # m
      <4>1. CASE i < m
        BY <1>4, <3>1, <3>2, <4>1
      <4>2. CASE ~(i < m)
        <5>1. i + 1 # m
          BY <1>1, <4>2
        <5> QED BY <1>4, <3>1, <3>2, <4>2, <5>1
      <4> QED BY <4>1, <4>2
    <3> QED BY <1>1, <1>6, <3>2, <3>3 DEF Elements
  <2>2. ASSUME NEW y \in Elements(s) \ {s[m]} PROVE y \in Elements(r)
    <3>1. PICK i \in 1..Len(s) : y = s[i] /\ i # m
      BY <1>1 DEF Elements
    <3>2. CASE i < m
      <4>1. i \in 1..(m - 1) /\ i \in 1..(Len(s) - 1)
        BY <1>1, <3>2
      <4> QED BY <1>3, <1>5, <3>1, <4>1 DEF Elements
    <3>3. CASE ~(i < m)
      <4>1. i - 1 \in m..(Len(s) - 1) /\ i - 1 \in 1..(Len(s) - 1) /\ (i - 1) + 1 = i
        BY <1>1, <3>1, <3>3
      <4>2. r[i - 1] = s[i]
        BY <1>5, <4>1
      <4> QED BY <1>3, <3>1, <4>1, <4>2 DEF Elements
    <3> QED BY <3>2, <3>3
  <2> QED BY <2>1, <2>2
<1> QED BY <1>3, <1>5, <1>7, <1>8 DEF r

\* Taking a cell off a list: the first one,
LEMMA PathRemoveFirst ==
  ASSUME NEW succ, NEW c, NEW s, Path(succ, c, s), Len(s) # 0,
         NEW succ2, \A y \in Elements(s) \ {s[1]} : succ2[y] = succ[y]
  PROVE  Path(succ2, succ[c], Removed(s, 1))
<1> DEFINE r == Removed(s, 1)
<1>1. s \in Seq(Cell) /\ Distinct(s) /\ Len(s) \in Nat /\ 1 \in 1..Len(s)
  BY DEF Path
<1>2. /\ r \in Seq(Cell) /\ Len(r) = Len(s) - 1 /\ Distinct(r)
      /\ \A i \in 1..(Len(s) - 1) : r[i] = s[i + 1]
      /\ Elements(r) = Elements(s) \ {s[1]}
  BY <1>1, RemovedIs
<1>3. succ[c] = IF Len(s) = 1 THEN Nil ELSE s[2]
  BY <1>1 DEF Path
<1> HIDE DEF r
<1>4. succ[c] = IF Len(r) = 0 THEN Nil ELSE r[1]
  <2>4. \A n \in Nat : n # 0 /\ n # 1 => 1 \in 1..(n - 1)
    OBVIOUS
  <2>1. Len(s) # 1 => 1 \in 1..(Len(s) - 1)
    BY <1>1, <2>4
  <2>2. 1 \in 1..(Len(s) - 1) => r[1] = s[1 + 1]
    BY <1>2
  <2>3. Len(r) = 0 <=> Len(s) = 1
    BY <1>1, <1>2
  <2> QED BY <1>3, <2>1, <2>2, <2>3
<1>5. ASSUME NEW i \in 1..Len(r)
      PROVE  succ2[r[i]] = IF i = Len(r) THEN Nil ELSE r[i + 1]
  <2>1. r[i] \in Elements(r) /\ r[i] = s[i + 1] /\ i + 1 \in 1..Len(s)
    BY <1>1, <1>2 DEF Elements
  <2>2. succ2[r[i]] = IF i + 1 = Len(s) THEN Nil ELSE s[i + 2]
    <3>1. succ[s[i + 1]] = IF i + 1 = Len(s) THEN Nil ELSE s[(i + 1) + 1]
      BY <2>1 DEF Path
    <3>2. (i + 1) + 1 = i + 2
      BY <1>1, <2>1
    <3> QED BY <1>2, <2>1, <3>1, <3>2
  <2>3. i # Len(r) => r[i + 1] = s[i + 2]
    <3>1. ASSUME i # Len(r) PROVE i + 1 \in 1..(Len(s) - 1) /\ (i + 1) + 1 = i + 2
      BY <1>1, <1>2, <3>1
    <3> QED BY <1>2, <3>1
  <2>4. i = Len(r) <=> i + 1 = Len(s)
    BY <1>1, <1>2
  <2> QED BY <2>2, <2>3, <2>4
<1>6. Path(succ2, succ[c], r)
  BY <1>2, <1>4, <1>5 DEF Path
<1> QED BY <1>6 DEF r

\* and one behind another.
LEMMA PathRemove ==
  ASSUME NEW succ, NEW c, NEW s, Path(succ, c, s), NEW m \in 2..Len(s),
         NEW succ2, succ2[s[m - 1]] = succ[s[m]],
         \A y \in Elements(s) \ {s[m - 1], s[m]} : succ2[y] = succ[y]
  PROVE  Path(succ2, c, Removed(s, m))
<1> DEFINE r == Removed(s, m)
<1>1. s \in Seq(Cell) /\ Distinct(s) /\ Len(s) \in Nat /\ m \in 1..Len(s)
      /\ DOMAIN s = 1..Len(s) /\ m - 1 \in 1..Len(s)
  BY DEF Path
<1>2. /\ r \in Seq(Cell) /\ Len(r) = Len(s) - 1 /\ Distinct(r)
      /\ \A i \in 1..(m - 1) : r[i] = s[i]
      /\ \A i \in m..(Len(s) - 1) : r[i] = s[i + 1]
      /\ Elements(r) = Elements(s) \ {s[m]}
  BY <1>1, RemovedIs
<1> HIDE DEF r
<1>3. /\ m \in Nat /\ m >= 2 /\ m <= Len(s)
      /\ Len(s) \in Nat /\ Len(r) = Len(s) - 1
  BY <1>1, <1>2
<1>4. \A k, l \in 1..Len(s) : s[k] = s[l] => k = l
  BY <1>1 DEF Distinct
<1>5. \A i \in 1..Len(s) : succ[s[i]] = IF i = Len(s) THEN Nil ELSE s[i + 1]
  BY DEF Path
<1>6. ASSUME NEW i \in 1..Len(s), i # m, i # m - 1 PROVE succ2[s[i]] = succ[s[i]]
  <2>1. s[i] # s[m] /\ s[i] # s[m - 1]
    BY <1>1, <1>4, <1>6
  <2> QED BY <1>1, <2>1 DEF Elements
<1>7. ASSUME NEW i \in 1..Len(r)
      PROVE  succ2[r[i]] = IF i = Len(r) THEN Nil ELSE r[i + 1]
  <2>1. CASE i < m - 1
    <3>1. i \in 1..(m - 1) /\ i + 1 \in 1..(m - 1) /\ i \in 1..Len(s) /\ i # m /\ i # m - 1
          /\ i # Len(s) /\ i # Len(r)
      BY <1>3, <2>1
    <3> QED BY <1>2, <1>5, <1>6, <3>1
  <2>2. CASE i = m - 1
    <3>0. i \in 1..(m - 1) /\ m \in 1..Len(s)
      BY <1>3, <2>2
    <3>1. r[i] = s[m - 1] /\ succ2[r[i]] = IF m = Len(s) THEN Nil ELSE s[m + 1]
      <4>1. r[i] = s[i]
        BY <1>2, <3>0
      <4>2. succ[s[m]] = IF m = Len(s) THEN Nil ELSE s[m + 1]
        BY <1>5, <3>0
      <4> QED BY <4>1, <4>2, <2>2
    <3>2. m # Len(s) => m \in m..(Len(s) - 1)
      BY <1>3
    <3>3. m # Len(s) => r[m] = s[m + 1]
      BY <1>2, <3>2
    <3>4. (m = Len(s) <=> i = Len(r)) /\ i + 1 = m
      BY <1>3, <2>2
    <3> QED BY <3>1, <3>3, <3>4
  <2>3. CASE i > m - 1
    <3>1. i \in m..(Len(s) - 1) /\ i + 1 \in 1..Len(s) /\ i + 1 # m /\ i + 1 # m - 1
      BY <1>3, <2>3
    <3>2. r[i] = s[i + 1] /\ succ2[r[i]] = IF i + 1 = Len(s) THEN Nil ELSE s[(i + 1) + 1]
      BY <1>2, <1>5, <1>6, <3>1
    <3>3. i # Len(r) => i + 1 \in m..(Len(s) - 1)
      BY <1>3, <3>1
    <3>4. i # Len(r) => r[i + 1] = s[(i + 1) + 1]
      BY <1>2, <3>3
    <3>5. i = Len(r) <=> i + 1 = Len(s)
      BY <1>3, <3>1
    <3> QED BY <3>2, <3>4, <3>5
  <2> QED BY <1>3, <2>1, <2>2, <2>3
<1>8. c = IF Len(r) = 0 THEN Nil ELSE r[1]
  <2>1. c = s[1] /\ 1 \in 1..(m - 1) /\ Len(r) # 0
    BY <1>3 DEF Path
  <2> QED BY <1>2, <2>1
<1>9. Path(succ2, c, r)
  BY <1>2, <1>7, <1>8 DEF Path
<1> QED BY <1>9 DEF r

\* Two lists one behind the other.
LEMMA JoinedIs ==
  ASSUME NEW s \in Seq(Cell), Distinct(s), NEW q \in Seq(Cell), Distinct(q),
         Elements(s) \cap Elements(q) = {}
  PROVE  /\ s \o q \in Seq(Cell) /\ Distinct(s \o q)
         /\ Elements(s \o q) = Elements(s) \cup Elements(q)
         /\ Len(s \o q) = Len(s) + Len(q)
         /\ \A i \in 1..Len(s) : (s \o q)[i] = s[i] /\ i \in 1..Len(s \o q)
         /\ \A i \in 1..Len(q) :
              (s \o q)[Len(s) + i] = q[i] /\ Len(s) + i \in 1..Len(s \o q)
<1> DEFINE r == s \o q
<1>1. Len(s) \in Nat /\ DOMAIN s = 1..Len(s) /\ Len(q) \in Nat /\ DOMAIN q = 1..Len(q)
  OBVIOUS
<1>2. /\ r \in Seq(Cell) /\ Len(r) = Len(s) + Len(q)
      /\ \A i \in 1..(Len(s) + Len(q)) :
           r[i] = IF i <= Len(s) THEN s[i] ELSE q[i - Len(s)]
  BY <1>1, ConcatProperties
<1> HIDE DEF r
<1>3. /\ \A i \in 1..Len(s) : r[i] = s[i] /\ i \in 1..Len(r)
      /\ \A i \in 1..Len(q) : r[Len(s) + i] = q[i] /\ Len(s) + i \in 1..Len(r)
  <2>0. Len(s) \in Nat /\ Len(q) \in Nat /\ Len(r) = Len(s) + Len(q)
    BY <1>1, <1>2
  <2>1. ASSUME NEW i \in 1..Len(q) PROVE r[Len(s) + i] = q[i] /\ Len(s) + i \in 1..Len(r)
    <3>1. /\ Len(s) + i \in 1..(Len(s) + Len(q)) /\ ~(Len(s) + i <= Len(s))
          /\ (Len(s) + i) - Len(s) = i
      BY <2>0
    <3> QED BY <1>2, <3>1
  <2>2. ASSUME NEW i \in 1..Len(s) PROVE r[i] = s[i] /\ i \in 1..Len(r)
    <3>1. i \in 1..(Len(s) + Len(q)) /\ i <= Len(s)
      BY <2>0
    <3> QED BY <1>2, <3>1
  <2> QED BY <2>1, <2>2
<1>13. Len(s) \in Nat /\ Len(q) \in Nat /\ Len(r) = Len(s) + Len(q)
  BY <1>1, <1>2
<1>4. \A i \in 1..Len(r) : \/ i \in 1..Len(s)
                           \/ i - Len(s) \in 1..Len(q) /\ Len(s) + (i - Len(s)) = i
  BY <1>13
<1>5. \A k, l \in 1..Len(s) : s[k] = s[l] => k = l
  BY <1>1 DEF Distinct
<1>6. \A k, l \in 1..Len(q) : q[k] = q[l] => k = l
  BY <1>1 DEF Distinct
<1>7. \A k \in 1..Len(s), l \in 1..Len(q) : s[k] # q[l]
  BY <1>1 DEF Elements
<1>8. Elements(r) = Elements(s) \cup Elements(q)
  <2>1. DOMAIN r = 1..Len(r)
    BY <1>2
  <2>5. /\ Elements(r) = {r[i] : i \in 1..Len(r)}
        /\ Elements(s) = {s[i] : i \in 1..Len(s)}
        /\ Elements(q) = {q[i] : i \in 1..Len(q)}
    BY <1>1, <2>1 DEF Elements
  <2>2. ASSUME NEW y \in Elements(r) PROVE y \in Elements(s) \cup Elements(q)
    <3>1. PICK i \in 1..Len(r) : y = r[i]
      BY <2>5
    <3>2. CASE i \in 1..Len(s)
      BY <1>3, <2>5, <3>1, <3>2
    <3>3. CASE i - Len(s) \in 1..Len(q) /\ Len(s) + (i - Len(s)) = i
      <4>1. r[i] = q[i - Len(s)]
        BY <1>3, <3>3
      <4> QED BY <2>5, <3>1, <3>3, <4>1
    <3> QED BY <1>4, <3>2, <3>3
  <2>3. ASSUME NEW y \in Elements(s) PROVE y \in Elements(r)
    <3>1. PICK i \in 1..Len(s) : y = s[i]
      BY <2>3, <2>5
    <3> QED BY <1>3, <2>5, <3>1
  <2>4. ASSUME NEW y \in Elements(q) PROVE y \in Elements(r)
    <3>1. PICK i \in 1..Len(q) : y = q[i]
      BY <2>4, <2>5
    <3> QED BY <1>3, <2>5, <3>1
  <2> QED BY <2>2, <2>3, <2>4
<1>9. Distinct(r)
  <2> SUFFICES ASSUME NEW i \in 1..Len(r), NEW j \in 1..Len(r), r[i] = r[j]
               PROVE  i = j
    BY <1>2 DEF Distinct
  <2>1. CASE i \in 1..Len(s) /\ j \in 1..Len(s)
    BY <1>3, <1>5, <2>1
  <2>2. CASE i - Len(s) \in 1..Len(q) /\ j - Len(s) \in 1..Len(q)
    <3>1. Len(s) + (i - Len(s)) = i /\ Len(s) + (j - Len(s)) = j
      BY <1>13
    <3>2. q[i - Len(s)] = q[j - Len(s)]
      BY <1>3, <2>2, <3>1
    <3>3. i - Len(s) = j - Len(s)
      BY <1>6, <2>2, <3>2
    <3> QED BY <3>1, <3>3
  <2>3. CASE i \in 1..Len(s) /\ j - Len(s) \in 1..Len(q)
    <3>1. Len(s) + (j - Len(s)) = j
      BY <1>13
    <3>2. r[j] = q[j - Len(s)] /\ r[i] = s[i]
      BY <1>3, <2>3, <3>1
    <3> QED BY <1>7, <2>3, <3>2
  <2>4. CASE j \in 1..Len(s) /\ i - Len(s) \in 1..Len(q)
    <3>1. Len(s) + (i - Len(s)) = i
      BY <1>13
    <3>2. r[i] = q[i - Len(s)] /\ r[j] = s[j]
      BY <1>3, <2>4, <3>1
    <3> QED BY <1>7, <2>4, <3>2
  <2> QED BY <1>4, <2>1, <2>2, <2>3, <2>4
<1> QED BY <1>2, <1>3, <1>8, <1>9 DEF r

\* Cells put behind a list that has some.
LEMMA PathJoined ==
  ASSUME NEW succ, NEW c, NEW s, Path(succ, c, s), Len(s) # 0,
         NEW q \in Seq(Cell), Distinct(q), Elements(s) \cap Elements(q) = {},
         NEW succ2, \A y \in Elements(s) \ {s[Len(s)]} : succ2[y] = succ[y],
         succ2[s[Len(s)]] = IF Len(q) = 0 THEN Nil ELSE q[1],
         \A i \in 1..Len(q) : succ2[q[i]] = IF i = Len(q) THEN Nil ELSE q[i + 1]
  PROVE  /\ Path(succ2, c, s \o q)
         /\ Elements(s \o q) = Elements(s) \cup Elements(q)
<1> DEFINE r == s \o q
<1>1. s \in Seq(Cell) /\ Distinct(s) /\ Len(s) \in Nat /\ DOMAIN s = 1..Len(s)
      /\ Len(q) \in Nat /\ DOMAIN q = 1..Len(q) /\ Len(s) \in 1..Len(s)
  BY DEF Path
<1>2. /\ r \in Seq(Cell) /\ Distinct(r) /\ Len(r) = Len(s) + Len(q)
      /\ Elements(r) = Elements(s) \cup Elements(q)
  BY <1>1, JoinedIs
<1>3. /\ \A i \in 1..Len(s) : r[i] = s[i] /\ i \in 1..Len(r)
      /\ \A i \in 1..Len(q) : r[Len(s) + i] = q[i] /\ Len(s) + i \in 1..Len(r)
  BY <1>1, JoinedIs
<1> HIDE DEF r
<1>13. Len(s) \in Nat /\ Len(q) \in Nat /\ Len(r) = Len(s) + Len(q) /\ Len(s) # 0
  BY <1>1, <1>2
<1>4. \A i \in 1..Len(r) : \/ i \in 1..Len(s)
                           \/ i - Len(s) \in 1..Len(q) /\ Len(s) + (i - Len(s)) = i
  BY <1>13
<1>5. \A k, l \in 1..Len(s) : s[k] = s[l] => k = l
  BY <1>1 DEF Distinct
<1>10. ASSUME NEW i \in 1..Len(r)
       PROVE  succ2[r[i]] = IF i = Len(r) THEN Nil ELSE r[i + 1]
  <2>1. CASE i \in 1..Len(s) /\ i # Len(s)
    <3>0. i + 1 \in 1..Len(s) /\ i # Len(r) /\ Len(s) \in 1..Len(s)
      BY <1>13, <2>1
    <3>1. s[i] # s[Len(s)] /\ i + 1 \in 1..Len(s) /\ i # Len(r)
      BY <1>5, <2>1, <3>0
    <3>2. succ2[s[i]] = succ[s[i]]
      BY <1>1, <2>1, <3>1 DEF Elements
    <3>3. succ[s[i]] = s[i + 1]
      BY <2>1 DEF Path
    <3> QED BY <1>3, <2>1, <3>1, <3>2, <3>3
  <2>2. CASE i = Len(s)
    <3>1. succ2[r[i]] = IF Len(q) = 0 THEN Nil ELSE q[1]
      BY <1>1, <1>3, <2>2
    <3>2. (i = Len(r) <=> Len(q) = 0) /\ (Len(q) # 0 => 1 \in 1..Len(q))
      BY <1>13, <2>2
    <3>3. Len(q) # 0 => r[i + 1] = q[1]
      BY <1>3, <2>2, <3>2
    <3> QED BY <3>1, <3>2, <3>3
  <2>3. CASE i - Len(s) \in 1..Len(q) /\ Len(s) + (i - Len(s)) = i
    <3> DEFINE j == i - Len(s)
    <3>1. r[i] = q[j] /\ j \in 1..Len(q)
      BY <1>3, <2>3
    <3>2. succ2[r[i]] = IF j = Len(q) THEN Nil ELSE q[j + 1]
      BY <3>1
    <3>3. j = Len(q) <=> i = Len(r)
      BY <1>13
    <3>6. \A n \in Nat : \A k \in 1..n : k # n => k + 1 \in 1..n
      OBVIOUS
    <3>7. Len(s) + (j + 1) = i + 1
      BY <1>13, <2>3
    <3> HIDE DEF j
    <3>4. j # Len(q) => j + 1 \in 1..Len(q) /\ Len(s) + (j + 1) = i + 1
      BY <1>13, <3>1, <3>6, <3>7
    <3>5. j # Len(q) => r[i + 1] = q[j + 1]
      BY <1>3, <3>4
    <3> QED BY <3>2, <3>3, <3>5
  <2> QED BY <1>4, <2>1, <2>2, <2>3
<1>11. c = IF Len(r) = 0 THEN Nil ELSE r[1]
  <2>1. c = s[1] /\ 1 \in 1..Len(s) /\ Len(r) # 0
    BY <1>13 DEF Path
  <2> QED BY <1>3, <2>1
<1>12. Path(succ2, c, r)
  BY <1>2, <1>10, <1>11 DEF Path
<1> QED BY <1>2, <1>12 DEF r

\* The rest of a list, behind its cell m.
Rest(s, m) == [i \in 1..(Len(s) - m) |-> s[m + i]]

\* What follows a cell of a list is a list.
LEMMA PathRest ==
  ASSUME NEW succ, NEW c, NEW s, Path(succ, c, s), NEW m \in 1..Len(s)
  PROVE  /\ Path(succ, succ[s[m]], Rest(s, m))
         /\ Len(Rest(s, m)) = Len(s) - m
         /\ \A i \in 1..(Len(s) - m) : Rest(s, m)[i] = s[m + i]
<1> DEFINE r == Rest(s, m)
<1>1. /\ s \in Seq(Cell) /\ Distinct(s) /\ Len(s) \in Nat /\ DOMAIN s = 1..Len(s)
      /\ m \in Nat /\ m >= 1 /\ m <= Len(s) /\ Len(s) - m \in Nat
  BY DEF Path
<1>2. \A i \in 1..(Len(s) - m) : m + i \in 1..Len(s) /\ s[m + i] \in Cell
  BY <1>1
<1>3. /\ r \in Seq(Cell) /\ Len(r) = Len(s) - m /\ DOMAIN r = 1..(Len(s) - m)
      /\ \A i \in 1..(Len(s) - m) : r[i] = s[m + i]
  BY <1>1, <1>2 DEF Rest
<1> HIDE DEF r
<1>4. Distinct(r)
  <2> SUFFICES ASSUME NEW i \in 1..(Len(s) - m), NEW j \in 1..(Len(s) - m), r[i] = r[j]
               PROVE  i = j
    BY <1>3 DEF Distinct
  <2>1. m + i = m + j
    BY <1>1, <1>2, <1>3 DEF Distinct
  <2> QED BY <1>1, <2>1
<1>5. \A i \in 1..Len(s) : succ[s[i]] = IF i = Len(s) THEN Nil ELSE s[i + 1]
  BY DEF Path
<1>9. Len(s) \in Nat /\ m \in Nat /\ m >= 1 /\ m <= Len(s) /\ Len(r) = Len(s) - m
  BY <1>1, <1>3
<1>6. ASSUME NEW i \in 1..Len(r)
      PROVE  succ[r[i]] = IF i = Len(r) THEN Nil ELSE r[i + 1]
  <2>1. r[i] = s[m + i] /\ m + i \in 1..Len(s)
    BY <1>2, <1>3
  <2>2. succ[r[i]] = IF m + i = Len(s) THEN Nil ELSE s[m + i + 1]
    BY <1>5, <2>1
  <2>3. m + i = Len(s) <=> i = Len(r)
    BY <1>9
  <2>4. i # Len(r) => i + 1 \in 1..(Len(s) - m) /\ m + (i + 1) = m + i + 1
    BY <1>9
  <2>5. i # Len(r) => r[i + 1] = s[m + i + 1]
    BY <1>3, <2>4
  <2> QED BY <2>2, <2>3, <2>5
<1>7. succ[s[m]] = IF Len(r) = 0 THEN Nil ELSE r[1]
  <2>1. succ[s[m]] = IF m = Len(s) THEN Nil ELSE s[m + 1]
    BY <1>1, <1>5
  <2>2. m # Len(s) => 1 \in 1..(Len(s) - m)
    BY <1>9
  <2>3. m = Len(s) <=> Len(r) = 0
    BY <1>9
  <2>4. m # Len(s) => r[1] = s[m + 1]
    BY <1>3, <2>2
  <2> QED BY <2>1, <2>3, <2>4
<1>8. Path(succ, succ[s[m]], r)
  BY <1>3, <1>4, <1>6, <1>7 DEF Path
<1> QED BY <1>3, <1>8 DEF r

-----------------------------------------------------------------------------
(* What the pointers of a table agree on.                                  *)

\* The cells of the chains.
Used(chain) == UNION {Elements(chain[b]) : b \in Bucket}

\* Every chain holds entries of its bucket, and no key is stored twice.
Hashed(t, chain) ==
  /\ \A b \in Bucket : Path(t.next, t.header[b], chain[b])
  /\ \A b \in Bucket : \A c \in Elements(chain[b]) :
       t.key[c] \in Key /\ HashOf[t.key[c]] = b /\ ~t.free[c]
  /\ \A c, d \in Used(chain) : t.key[c] = t.key[d] => c = d

\* The free list holds the free entries and the margin.
Queued(t, idle) ==
  /\ Path(t.next, t.firstFree, idle)
  /\ Len(idle) = t.numFree + Margin /\ idle[Len(idle)] = t.lastFree
  /\ \A c \in Elements(idle) : t.free[c]

\* The sorted list is sorted.
Ordered(t, sorted) ==
  /\ Path(t.byKey, t.firstSorted, sorted)
  /\ \A i, j \in DOMAIN sorted : i < j => t.key[sorted[i]] < t.key[sorted[j]]

\* Every allocated cell is idle or used, but for those just taken out.
Shared(t, chain, idle, loose) ==
  /\ 1..t.allocated = Elements(idle) \cup Used(chain) \cup loose
  /\ Elements(idle) \cap Used(chain) = {}
  /\ loose \cap (Elements(idle) \cup Used(chain)) = {}
  /\ Cardinality(Used(chain)) = t.numUsed
  /\ AllocPortion = 0 => t.allocated = MaxEntries + Margin

\* The header keys ascend between the two that bound all keys.
Heading(t) ==
  SortedHeaderSize # 0 =>
    /\ t.sortedHeader[1] = FirstKey /\ t.sortedHeader[SortedHeaderSize] = LastKey
    /\ \A i, j \in 1..SortedHeaderSize :
         i <= j => t.sortedHeader[i] <= t.sortedHeader[j]

\* A table in the middle of an operation.
Parted(t, chain, idle, sorted, loose) ==
  /\ t \in Table
  /\ Hashed(t, chain) /\ Queued(t, idle) /\ Ordered(t, sorted)
  /\ Shared(t, chain, idle, loose) /\ Heading(t)

\* A table whose sorted list holds the entries of the chains.
Whole(t, chain, idle, sorted, loose) ==
  Parted(t, chain, idle, sorted, loose) /\ Elements(sorted) = Used(chain)

ChainsOf(t) == [b \in Bucket |-> Chain(t, b)]

\* The sizes are numbers, and the keys are ordered between the first and the
\* last.
LEMMA Numbers ==
  /\ Key \subseteq Nat /\ FirstKey \in Nat /\ LastKey \in Nat
  /\ FirstKey <= LastKey /\ \A k \in Key : FirstKey <= k /\ k <= LastKey
  /\ NumBuckets \in Nat /\ MinEntries \in Nat /\ MaxEntries \in Nat
  /\ AllocPortion \in Nat /\ Margin \in Nat /\ Margin >= 1
  /\ SortedHeaderSize \in Nat /\ MinRefresh \in Nat /\ MaxRefresh \in Nat
  /\ HashOf \in [Key \union {FirstKey, LastKey} -> Bucket]
  /\ SortedHeaderSize = 0 \/ SortedHeaderSize >= 5
BY TableAssumption DEF Bucket

\* The fields of a table.
LEMMA Fields ==
  ASSUME NEW t \in Table
  PROVE  /\ t.header \in [Bucket -> CellOrNil] /\ t.next \in [Cell -> CellOrNil]
         /\ t.free \in [Cell -> BOOLEAN] /\ t.byKey \in [Cell -> CellOrNil]
         /\ t.key \in [Cell -> Key \union {FirstKey}]
         /\ t.firstFree \in Cell /\ t.lastFree \in Cell /\ t.firstSorted \in CellOrNil
         /\ t.numFree \in 0..MaxEntries /\ t.numUsed \in 0..MaxEntries
         /\ t.allocated \in Cell
         /\ t.sortedHeader \in [1..SortedHeaderSize -> Key \union {FirstKey, LastKey}]
BY DEF Table

\* The cells of a used entry's bucket.
LEMMA UsedCells ==
  ASSUME NEW t, NEW chain, Hashed(t, chain)
  PROVE  /\ Used(chain) \subseteq Cell
         /\ \A c \in Used(chain) :
              /\ t.key[c] \in Key /\ ~t.free[c] /\ HashOf[t.key[c]] \in Bucket
              /\ c \in Elements(chain[HashOf[t.key[c]]])
         /\ \A b \in Bucket : Elements(chain[b]) \subseteq Used(chain)
<1>1. \A b \in Bucket : Elements(chain[b]) \subseteq Cell
  BY PathElements DEF Hashed
<1>2. \A c \in Used(chain) : \E b \in Bucket : c \in Elements(chain[b])
  BY DEF Used
<1>3. \A b \in Bucket : Elements(chain[b]) \subseteq Used(chain)
  BY DEF Used
<1> QED BY <1>1, <1>2, <1>3 DEF Hashed

\* The lists are what following the pointers reads.
LEMMA ListsRead ==
  ASSUME NEW t \in Table
  PROVE  /\ \A chain : Hashed(t, chain) => \A b \in Bucket : Chain(t, b) = chain[b]
         /\ \A idle : Queued(t, idle) => FreeList(t) = idle
         /\ \A sorted : Ordered(t, sorted) => SortedList(t) = sorted
BY Fields, FollowPath DEF Hashed, Queued, Ordered, Chain, FreeList, SortedList

\* The cell of a key among some.
CellOf(cells, key, k) ==
  IF \E c \in cells : key[c] = k THEN CHOOSE c \in cells : key[c] = k ELSE Nil

\* The search finds the cell of the key.
LEMMA SearchIs ==
  ASSUME NEW t \in Table, NEW chain, Hashed(t, chain),
         NEW k \in Key \union {FirstKey, LastKey}
  PROVE  Search(t, k) = CellOf(Used(chain), t.key, k)
<1> DEFINE s == chain[HashOf[k]]
           hits == {i \in DOMAIN s : t.key[s[i]] = k}
<1>1. HashOf[k] \in Bucket
  BY Numbers
<1>2. Chain(t, HashOf[k]) = s /\ Path(t.next, t.header[HashOf[k]], s)
  BY <1>1, ListsRead DEF Hashed
<1>3. s \in Seq(Cell) /\ DOMAIN s = 1..Len(s) /\ Len(s) \in Nat /\ Distinct(s)
  BY <1>2, PathElements DEF Path
<1>4. Search(t, k) = IF hits = {} THEN Nil ELSE s[Min(hits)]
  BY <1>2 DEF Search
<1>5. CASE hits = {}
  <2>1. ASSUME NEW c \in Used(chain), t.key[c] = k PROVE FALSE
    <3>1. c \in Elements(s)
      BY <2>1, UsedCells
    <3> QED BY <1>5, <2>1, <3>1 DEF Elements
  <2> QED BY <1>4, <1>5, <2>1 DEF CellOf
<1>6. CASE hits # {}
  <2>1. PICK i \in DOMAIN s : t.key[s[i]] = k
    BY <1>6
  <2>2. s[i] \in Used(chain)
    BY <1>1, <2>1, UsedCells DEF Elements
  <2>3. \A c \in Used(chain) : t.key[c] = k => c = s[i]
    BY <2>1, <2>2 DEF Hashed
  <2>4. \A j \in hits : j = i
    <3>1. \A j \in hits : s[j] \in Used(chain) /\ t.key[s[j]] = k
      BY <1>1, UsedCells DEF Elements
    <3> QED BY <1>3, <2>1, <2>3, <3>1 DEF Distinct
  <2>5. hits = {i} /\ i \in Int
    BY <1>3, <2>1, <2>4
  <2>6. Min(hits) = i
    <3> HIDE DEF hits
    <3> QED BY <2>5 DEF Min
  <2>7. CellOf(Used(chain), t.key, k) = s[i]
    BY <2>1, <2>2, <2>3 DEF CellOf
  <2> QED BY <1>4, <1>6, <2>6, <2>7
<1> QED BY <1>5, <1>6

\* At most one of the entries has a key.
LEMMA CellOfIs ==
  ASSUME NEW t \in Table, NEW chain, Hashed(t, chain), NEW k
  PROVE  /\ CellOf(Used(chain), t.key, k) \in CellOrNil
         /\ CellOf(Used(chain), t.key, k) # Nil =>
              /\ CellOf(Used(chain), t.key, k) \in Used(chain)
              /\ t.key[CellOf(Used(chain), t.key, k)] = k
         /\ \A c \in Used(chain) : t.key[c] = k => CellOf(Used(chain), t.key, k) = c
<1>1. Used(chain) \subseteq Cell
  BY UsedCells
<1>2. \A c, d \in Used(chain) : t.key[c] = t.key[d] => c = d
  BY DEF Hashed
<1> QED BY <1>1, <1>2, Cells DEF CellOf

-----------------------------------------------------------------------------
(* Finding a place in the sorted list.                                     *)

\* The least of some positions.
LEMMA MinIs ==
  ASSUME NEW S, S \subseteq Nat, S # {}
  PROVE  Min(S) \in S /\ \A j \in S : Min(S) <= j
<1>1. \E i \in S : \A j \in S : i <= j
  BY LeastExists
<1> QED BY <1>1 DEF Min

\* The greatest of some positions that are bounded.
LEMMA MaxIs ==
  ASSUME NEW n \in Nat, NEW S, S \subseteq 0..n, S # {}
  PROVE  Max(S) \in S /\ \A j \in S : j <= Max(S)
<1> DEFINE T == {n - j : j \in S}
<1>1. T \subseteq Nat /\ T # {}
  <2>1. \A j \in S : j \in 0..n /\ n - j \in Nat
    OBVIOUS
  <2> QED BY <2>1
<1>2. PICK l \in T : \A j \in T : l <= j
  <2> HIDE DEF T
  <2> QED BY <1>1, LeastExists
<1>3. PICK i \in S : l = n - i
  BY <1>2
<1>4. ASSUME NEW j \in S PROVE i >= j
  <2>1. n - i <= n - j
    BY <1>2, <1>3
  <2>2. i \in Nat /\ j \in Nat
    OBVIOUS
  <2> QED BY <2>1, <2>2
<1>5. \E x \in S : \A y \in S : x >= y
  BY <1>4
<1>6. Max(S) \in S /\ \A j \in S : Max(S) >= j
  BY <1>5 DEF Max
<1>7. \A j \in S : j \in Nat
  OBVIOUS
<1> QED BY <1>6, <1>7

\* The cell the header leads to is an entry smaller than the key.
LEMMA LowIs ==
  ASSUME NEW t \in Table, NEW chain, Hashed(t, chain), Heading(t), NEW k \in Key
  PROVE  \/ LowCell(t, k) = Nil
         \/ LowCell(t, k) \in Used(chain) /\ t.key[LowCell(t, k)] < k
<1> DEFINE S == SortedHeaderSize
           h == t.sortedHeader
           start == SearchStart(t, k)
           present == {i \in 2..start : Search(t, h[i]) # Nil}
<1>1. CASE S = 0
  BY <1>1 DEF LowCell
<1>2. CASE S # 0 /\ present = {}
  BY <1>2 DEF LowCell
<1>3. CASE S # 0 /\ present # {}
  <2>1. S \in Nat /\ k \in Nat /\ h \in [1..S -> Key \union {FirstKey, LastKey}]
    BY Numbers, Fields
  <2>2. h \in [1..S -> Nat]
    BY <2>1, Numbers
  <2>3. start \in 1..S /\ (start = 1 \/ h[start] < k)
    BY <1>3, <2>1, <2>2, StartIsBefore
  <2>4. Max(present) \in present
    <3>1. present \subseteq 0..S
      BY <2>1, <2>3
    <3> HIDE DEF present
    <3> QED BY <1>3, <2>1, <3>1, MaxIs
  <2> DEFINE i == Max(present)
  <2>5. i \in 2..start /\ Search(t, h[i]) # Nil
    BY <2>4
  <2>6. LowCell(t, k) = Search(t, h[i])
    BY <1>3 DEF LowCell
  <2> HIDE DEF i, present
  <2>7. i \in 1..S /\ i <= start /\ start # 1
    BY <2>1, <2>3, <2>5
  <2>8. h[i] <= h[start] /\ h[start] < k
    BY <1>3, <2>3, <2>7 DEF Heading
  <2>9. h[i] < k
    <3>1. h[i] \in Nat /\ h[start] \in Nat
      BY <2>2, <2>3, <2>7
    <3> QED BY <2>1, <2>8, <3>1
  <2>10. Search(t, h[i]) = CellOf(Used(chain), t.key, h[i])
    BY <2>1, <2>7, SearchIs
  <2>11. LowCell(t, k) \in Used(chain) /\ t.key[LowCell(t, k)] = h[i]
    BY <2>5, <2>6, <2>10, CellOfIs
  <2> QED BY <2>9, <2>11
<1> QED BY <1>1, <1>2, <1>3

\* A sorted list has a part of smaller keys and a part of others.
LEMMA SplitExists ==
  ASSUME NEW t \in Table, NEW sorted, Ordered(t, sorted), NEW k \in Key
  PROVE  \E m \in 0..Len(sorted) :
           /\ \A i \in 1..m : t.key[sorted[i]] < k
           /\ \A i \in (m + 1)..Len(sorted) : t.key[sorted[i]] >= k
<1> DEFINE n == Len(sorted)
           stop == {i \in 1..n : t.key[sorted[i]] >= k}
<1>1. /\ n \in Nat /\ DOMAIN sorted = 1..n
      /\ \A i \in 1..n : t.key[sorted[i]] \in Nat
      /\ k \in Nat
  <2>1. Path(t.byKey, t.firstSorted, sorted)
    BY DEF Ordered
  <2> QED BY <2>1, PathElements, Fields, Numbers
<1>2. CASE stop = {}
  <2>1. \A i \in 1..n : t.key[sorted[i]] < k
    BY <1>1, <1>2
  <2> QED BY <1>1, <2>1
<1>3. CASE stop # {}
  <2>1. Min(stop) \in stop /\ \A j \in stop : Min(stop) <= j
    <3>1. stop \subseteq Nat
      BY <1>1
    <3> HIDE DEF stop
    <3> QED BY <1>3, <3>1, MinIs
  <2> DEFINE s == Min(stop)
  <2>2. s \in 1..n /\ t.key[sorted[s]] >= k
    BY <2>1
  <2>3. \A i \in 1..n : t.key[sorted[i]] >= k => s <= i
    BY <2>1
  <2> HIDE DEF s, stop
  <2>4. \A i \in 1..(s - 1) : t.key[sorted[i]] < k
    <3>1. ASSUME NEW i \in 1..(s - 1) PROVE i \in 1..n /\ ~(s <= i)
      BY <1>1, <2>2
    <3> QED BY <1>1, <2>3, <3>1
  <2>5. ASSUME NEW i \in s..n PROVE t.key[sorted[i]] >= k
    <3>1. i \in 1..n /\ (i = s \/ s < i)
      BY <1>1, <2>2
    <3>2. i = s \/ t.key[sorted[s]] < t.key[sorted[i]]
      BY <1>1, <2>2, <3>1 DEF Ordered
    <3>3. t.key[sorted[i]] \in Nat /\ t.key[sorted[s]] \in Nat
      BY <1>1, <2>2, <3>1
    <3> QED BY <1>1, <2>2, <3>2, <3>3
  <2>6. s - 1 \in 0..n /\ (s - 1) + 1 = s
    BY <1>1, <2>2
  <2> QED BY <2>4, <2>5, <2>6
<1> QED BY <1>2, <1>3

\* Where a walk over such a list stops.
Passed(path, key, k) ==
  LET stop == {i \in DOMAIN path : key[path[i]] >= k}
  IN  IF stop = {} THEN Len(path) ELSE Min(stop) - 1

\* It stops behind the entries that are smaller.
LEMMA PassedIs ==
  ASSUME NEW path \in Seq(Cell), NEW key, NEW k, NEW m \in 0..Len(path),
         \A i \in 1..m : ~(key[path[i]] >= k),
         \A i \in (m + 1)..Len(path) : key[path[i]] >= k
  PROVE  Passed(path, key, k) = m
<1> DEFINE stop == {i \in DOMAIN path : key[path[i]] >= k}
<1>1. Len(path) \in Nat /\ DOMAIN path = 1..Len(path) /\ m \in Nat
  OBVIOUS
<1>2. stop = (m + 1)..Len(path)
  BY <1>1
<1>5. Passed(path, key, k) = IF stop = {} THEN Len(path) ELSE Min(stop) - 1
  BY DEF Passed
<1> HIDE DEF stop
<1>3. CASE m = Len(path)
  BY <1>1, <1>2, <1>3, <1>5
<1>4. CASE m # Len(path)
  <2>0. \A n \in Nat : \A i \in 0..n :
          i # n => i + 1 \in (i + 1)..n /\ \A j \in (i + 1)..n : i + 1 <= j
    OBVIOUS
  <2>1. m + 1 \in stop /\ \A j \in stop : m + 1 <= j
    BY <1>1, <1>2, <1>4, <2>0
  <2>2. stop \subseteq Nat /\ stop # {}
    BY <1>1, <1>2, <2>1
  <2>3. Min(stop) \in stop /\ Min(stop) <= m + 1
    BY <2>1, <2>2, MinIs
  <2>5. m + 1 <= Min(stop)
    BY <2>1, <2>3
  <2>4. Min(stop) = m + 1
    <3>0. Min(stop) \in Nat /\ m \in Nat
      BY <1>1, <2>2, <2>3
    <3>1. Min(stop) \in Int /\ m + 1 \in Int
      BY <3>0
    <3>2. \A a, b \in Int : a <= b /\ b <= a => a = b
      OBVIOUS
    <3> QED BY <2>3, <2>5, <3>1, <3>2
  <2>6. Passed(path, key, k) = Min(stop) - 1
    BY <1>5, <2>2
  <2> QED BY <1>1, <2>4, <2>6
<1> QED BY <1>3, <1>4

\* The last entry smaller than a key is found, wherever the header leads.
LEMMA PreSortedIs ==
  ASSUME NEW t \in Table, NEW chain, Hashed(t, chain), Heading(t),
         NEW sorted, Ordered(t, sorted), NEW k \in Key,
         \A c \in Used(chain) : t.key[c] < k => c \in Elements(sorted),
         NEW m \in 0..Len(sorted),
         \A i \in 1..m : t.key[sorted[i]] < k,
         \A i \in (m + 1)..Len(sorted) : t.key[sorted[i]] >= k
  PROVE  PreSorted(t, k) = IF m = 0 THEN Nil ELSE sorted[m]
<1> DEFINE low == LowCell(t, k)
           path == IF low = Nil THEN SortedList(t) ELSE Follow(t.byKey, t.byKey[low])
           n == Passed(path, t.key, k)
<1>1. PreSorted(t, k) = IF n = 0 THEN low ELSE path[n]
  BY Zenon DEF PreSorted, Passed
<1>2. /\ Len(sorted) \in Nat /\ DOMAIN sorted = 1..Len(sorted)
      /\ sorted \in Seq(Cell)
      /\ \A i \in 1..Len(sorted) : t.key[sorted[i]] \in Nat
      /\ k \in Nat /\ m \in Nat
  <2>1. Path(t.byKey, t.firstSorted, sorted)
    BY DEF Ordered
  <2>2. /\ Len(sorted) \in Nat /\ DOMAIN sorted = 1..Len(sorted)
        /\ sorted \in Seq(Cell) /\ \A i \in 1..Len(sorted) : sorted[i] \in Cell
    BY <2>1, PathElements
  <2>3. \A c \in Cell : t.key[c] \in Nat
    BY Fields, Numbers
  <2> QED BY <2>2, <2>3, Numbers
<1>3. low = Nil \/ (low \in Used(chain) /\ t.key[low] < k)
  BY LowIs
<1> HIDE DEF low
<1>6. \A i \in 1..m : ~(t.key[sorted[i]] >= k)
  <2>1. \A i \in 1..m : i \in 1..Len(sorted)
    BY <1>2
  <2> QED BY <1>2, <2>1
<1>4. CASE low = Nil
  <2>1. path = sorted
    BY <1>4, ListsRead
  <2> HIDE DEF path
  <2>2. n = m
    <3>1. Passed(sorted, t.key, k) = m
      BY <1>2, <1>6, PassedIs
    <3> QED BY <2>1, <3>1
  <2> QED BY <1>1, <1>4, <2>1, <2>2
<1>5. CASE low # Nil
  <2>1. low \in Elements(sorted) /\ t.key[low] < k
    BY <1>3, <1>5
  <2>2. PICK p \in 1..Len(sorted) : low = sorted[p]
    BY <1>2, <2>1 DEF Elements
  <2>3. p <= m
    <3>1. ~(t.key[sorted[p]] >= k)
      BY <1>2, <2>1, <2>2
    <3> QED BY <1>2, <3>1
  <2> DEFINE rest == Rest(sorted, p)
             q == m - p
  <2>4. /\ Path(t.byKey, t.byKey[low], rest) /\ Len(rest) = Len(sorted) - p
        /\ \A i \in 1..(Len(sorted) - p) : rest[i] = sorted[p + i]
    BY <2>2, PathRest DEF Ordered
  <2> HIDE DEF rest
  <2>5. path = rest
    BY <1>5, <2>4, Fields, FollowPath
  <2>6. rest \in Seq(Cell) /\ q \in 0..Len(rest)
    <3>1. rest \in Seq(Cell)
      BY <2>4 DEF Path
    <3>2. Len(rest) = Len(sorted) - p /\ p \in Nat /\ m <= Len(sorted)
      BY <2>4
    <3> QED BY <1>2, <2>3, <3>1, <3>2
  <2>7. \A i \in 1..q : ~(t.key[rest[i]] >= k)
    <3>1. ASSUME NEW i \in 1..q PROVE p + i \in 1..m /\ i \in 1..(Len(sorted) - p)
      BY <1>2, <2>3
    <3> QED BY <1>6, <2>4, <3>1
  <2>8. \A i \in (q + 1)..Len(rest) : t.key[rest[i]] >= k
    <3>1. ASSUME NEW i \in (q + 1)..Len(rest)
          PROVE p + i \in (m + 1)..Len(sorted) /\ i \in 1..(Len(sorted) - p)
      BY <1>2, <2>3, <2>4
    <3> QED BY <2>4, <3>1
  <2> HIDE DEF path, q
  <2>9. n = q
    <3>1. Passed(rest, t.key, k) = q
      BY <2>6, <2>7, <2>8, PassedIs
    <3> QED BY <2>5, <3>1
  <2>10. CASE q = 0
    <3>1. m = p /\ m # 0
      BY <1>2, <2>3, <2>10 DEF q
    <3> QED BY <1>1, <2>2, <2>9, <2>10, <3>1
  <2>11. CASE q # 0
    <3>1. q \in 1..(Len(sorted) - p) /\ p + q = m /\ m # 0
      BY <1>2, <2>3, <2>6, <2>4, <2>11 DEF q
    <3> QED BY <1>1, <2>4, <2>5, <2>9, <2>11, <3>1
  <2> QED BY <2>10, <2>11
<1> QED BY <1>4, <1>5

-----------------------------------------------------------------------------
(* What the operations are made of.                                        *)

\* Two tables that differ in their sorted header at most.
SameLists(t, u) ==
  /\ u.header = t.header /\ u.next = t.next /\ u.free = t.free
  /\ u.byKey = t.byKey /\ u.key = t.key
  /\ u.firstFree = t.firstFree /\ u.lastFree = t.lastFree
  /\ u.firstSorted = t.firstSorted
  /\ u.numFree = t.numFree /\ u.numUsed = t.numUsed /\ u.allocated = t.allocated

\* What the lists agree on depends on nothing else of the table.
LEMMA PartedSame ==
  ASSUME NEW t, NEW chain, NEW idle, NEW sorted, NEW loose,
         Parted(t, chain, idle, sorted, loose),
         NEW u \in Table, SameLists(t, u), Heading(u)
  PROVE  Parted(u, chain, idle, sorted, loose)
<1>1. Hashed(u, chain) <=> Hashed(t, chain)
  BY DEF Hashed, SameLists
<1>2. Queued(u, idle) <=> Queued(t, idle)
  BY DEF Queued, SameLists
<1>3. Ordered(u, sorted) <=> Ordered(t, sorted)
  BY DEF Ordered, SameLists
<1>4. Shared(u, chain, idle, loose) <=> Shared(t, chain, idle, loose)
  BY DEF Shared, SameLists
<1> QED BY <1>1, <1>2, <1>3, <1>4 DEF Parted

\* The larger and the smaller of two numbers.
LEMMA OfTwo ==
  ASSUME NEW a \in Nat, NEW b \in Nat
  PROVE  /\ Max({a, b}) \in {a, b} /\ Max({a, b}) >= a /\ Max({a, b}) >= b
         /\ Min({a, b}) \in {a, b} /\ Min({a, b}) <= a /\ Min({a, b}) <= b
<1>1. \E x \in {a, b} : \A y \in {a, b} : x >= y
  OBVIOUS
<1>2. \E x \in {a, b} : \A y \in {a, b} : x <= y
  OBVIOUS
<1> QED BY <1>1, <1>2 DEF Max, Min

\* What a table counts towards the next refresh of its header.
Limit == Max({MaxRefresh, 2 * MinRefresh})

\* The counters of the refresh stay in their range.
LEMMA Limits ==
  Limit \in Nat /\ MaxRefresh \in 0..Limit /\ 2 * MinRefresh \in 0..Limit
BY Numbers, OfTwo DEF Limit

\* A search through the header changes a counter at most.
LEMMA ProbedIs ==
  ASSUME NEW t \in Table, NEW k
  PROVE  /\ Probed(t, k) \in Table /\ SameLists(t, Probed(t, k))
         /\ Probed(t, k).sortedHeader = t.sortedHeader
<1>1. CASE Probed(t, k) = t
  BY <1>1 DEF SameLists
<1>2. CASE Probed(t, k) = [t EXCEPT !.refreshCtr = MaxRefresh]
  BY <1>2, Limits DEF SameLists, Table, Limit
<1> QED BY <1>1, <1>2 DEF Probed

\* The binary search changes nothing the lists are read from.
LEMMA ProbedKeeps ==
  ASSUME NEW t, NEW chain, NEW idle, NEW sorted, NEW loose, NEW k,
         Parted(t, chain, idle, sorted, loose)
  PROVE  Parted(Probed(t, k), chain, idle, sorted, loose)
<1>1. t \in Table /\ Heading(t)
  BY DEF Parted
<1>2. /\ Probed(t, k) \in Table /\ SameLists(t, Probed(t, k))
      /\ Probed(t, k).sortedHeader = t.sortedHeader
  BY <1>1, ProbedIs
<1>3. Heading(Probed(t, k))
  BY <1>1, <1>2 DEF Heading
<1> QED BY <1>2, <1>3, PartedSame

\* Multiples of a step.
LEMMA Multiples ==
  ASSUME NEW s \in Nat, s >= 1, NEW a \in Nat, a >= 1, NEW b \in Nat, a <= b
  PROVE  /\ a * s \in Nat /\ b * s \in Nat /\ a * s >= 1
         /\ a * s <= b * s /\ (a # b => a * s < b * s)
<1>1. a * s \in Nat /\ b * s \in Nat /\ (b - a) * s \in Nat
  OBVIOUS
<1>2. b * s = a * s + (b - a) * s
  OBVIOUS
<1>3. a * s >= a
  OBVIOUS
<1>4. a # b => (b - a) * s >= 1
  OBVIOUS
<1> QED BY <1>1, <1>2, <1>3, <1>4

\* A quotient is a number.
LEMMA Quotient ==
  ASSUME NEW n \in Nat, NEW d \in Nat, d >= 1
  PROVE  n \div d \in Nat
OBVIOUS

\* A refreshed header ascends again.
LEMMA RefreshedIs ==
  ASSUME NEW t \in Table, NEW sorted, Ordered(t, sorted), Heading(t),
         \A c \in Elements(sorted) : t.key[c] \in Key,
         SortedHeaderSize # 0
  PROVE  /\ Refreshed(t) \in Table /\ SameLists(t, Refreshed(t))
         /\ Heading(Refreshed(t))
<1> DEFINE S == SortedHeaderSize
           sub == t.numUsed \div (S - 1) + 1
           h == t.sortedHeader
           g == [i \in DOMAIN h |->
                  IF i \in {1, S} THEN h[i]
                  ELSE IF (i - 1) * sub <= Len(sorted) THEN t.key[sorted[(i - 1) * sub]]
                  ELSE LastKey]
           treshold == Min({MaxRefresh, Max({MinRefresh, sub})})
<1>1. /\ S \in Nat /\ S >= 5 /\ t.numUsed \in Nat
      /\ h \in [1..S -> Key \union {FirstKey, LastKey}]
  BY Numbers, Fields
<1>2. sub \in Nat /\ sub >= 1
  <2>1. S - 1 \in Nat /\ S - 1 >= 1
    BY <1>1
  <2>2. t.numUsed \div (S - 1) \in Nat
    BY <1>1, <2>1, Quotient
  <2> QED BY <2>2
<1> HIDE DEF sub
<1>3. /\ sorted \in Seq(Cell) /\ Len(sorted) \in Nat /\ DOMAIN sorted = 1..Len(sorted)
      /\ \A i \in 1..Len(sorted) : t.key[sorted[i]] \in Key
  <2>1. Path(t.byKey, t.firstSorted, sorted)
    BY DEF Ordered
  <2>2. /\ sorted \in Seq(Cell) /\ Len(sorted) \in Nat /\ DOMAIN sorted = 1..Len(sorted)
        /\ Elements(sorted) = {sorted[i] : i \in 1..Len(sorted)}
    BY <2>1, PathElements
  <2> QED BY <2>2
<1>4. Refreshed(t) = [t EXCEPT !.sortedHeader = g, !.refreshTreshold = treshold,
                               !.refreshCtr = 0]
  <2>1. SortedList(t) = sorted
    BY ListsRead
  <2> QED BY <2>1 DEF Refreshed, sub
<1>5. ASSUME NEW i \in 1..S
      PROVE  \/ i \in {1, S} /\ g[i] = h[i]
             \/ /\ i \notin {1, S} /\ (i - 1) * sub \in 1..Len(sorted)
                /\ g[i] = t.key[sorted[(i - 1) * sub]]
             \/ i \notin {1, S} /\ ~((i - 1) * sub <= Len(sorted)) /\ g[i] = LastKey
  <2>1. DOMAIN h = 1..S
    BY <1>1
  <2>2. g[i] = IF i \in {1, S} THEN h[i]
               ELSE IF (i - 1) * sub <= Len(sorted) THEN t.key[sorted[(i - 1) * sub]]
               ELSE LastKey
    BY <2>1
  <2> HIDE DEF g
  <2>3. CASE i \in {1, S}
    BY <2>2, <2>3
  <2>4. CASE i \notin {1, S} /\ (i - 1) * sub <= Len(sorted)
    <3>1. i - 1 \in Nat /\ i - 1 >= 1
      BY <1>1, <2>4
    <3>2. (i - 1) * sub \in Nat /\ (i - 1) * sub >= 1
      BY <1>2, <3>1, Multiples
    <3>3. (i - 1) * sub \in 1..Len(sorted)
      BY <1>3, <2>4, <3>2
    <3> QED BY <2>2, <2>4, <3>3
  <2>5. CASE i \notin {1, S} /\ ~((i - 1) * sub <= Len(sorted))
    BY <2>2, <2>5
  <2> QED BY <2>3, <2>4, <2>5
<1>6. /\ g \in [1..S -> Key \union {FirstKey, LastKey}]
      /\ \A i \in 1..S : g[i] \in Nat /\ FirstKey <= g[i] /\ g[i] <= LastKey
  <2>1. DOMAIN h = 1..S /\ g = [i \in 1..S |-> g[i]]
    BY <1>1
  <2> HIDE DEF g
  <2>2. ASSUME NEW i \in 1..S PROVE g[i] \in Key \union {FirstKey, LastKey}
    BY <1>1, <1>3, <1>5
  <2>3. \A x \in Key \union {FirstKey, LastKey} :
          x \in Nat /\ FirstKey <= x /\ x <= LastKey
    BY Numbers
  <2> QED BY <2>1, <2>2, <2>3
<1>7. g[1] = FirstKey /\ g[S] = LastKey
  <2>1. 1 \in 1..S /\ S \in 1..S
    BY <1>1
  <2>2. g[1] = h[1] /\ g[S] = h[S]
    <3> HIDE DEF g
    <3> QED BY <1>5, <2>1
  <2> QED BY <2>2 DEF Heading
<1> HIDE DEF g
<1>8. ASSUME NEW i \in 1..S, NEW j \in 1..S, i <= j PROVE g[i] <= g[j]
  <2>1. CASE i = 1 \/ g[j] = LastKey
    BY <1>6, <1>7, <2>1, Numbers
  <2>2. CASE i = j
    BY <1>6, <2>2
  <2>3. CASE i # 1 /\ g[j] # LastKey /\ i # j
    <3> DEFINE a == (i - 1) * sub
               b == (j - 1) * sub
    <3>1. j \notin {1, S} /\ i \notin {1, S}
      BY <1>1, <1>7, <1>8, <2>3
    <3>2. b \in 1..Len(sorted) /\ g[j] = t.key[sorted[b]]
      BY <1>5, <2>3, <3>1
    <3>3. /\ i - 1 \in Nat /\ i - 1 >= 1 /\ j - 1 \in Nat /\ i - 1 <= j - 1 /\ i - 1 # j - 1
      BY <1>1, <1>8, <2>3
    <3>4. a \in Nat /\ a < b
      BY <1>2, <3>3, Multiples
    <3> HIDE DEF a, b
    <3>5. a <= Len(sorted)
      BY <1>3, <3>2, <3>4
    <3>6. a \in 1..Len(sorted) /\ g[i] = t.key[sorted[a]]
      BY <1>5, <3>1, <3>5 DEF a
    <3>7. g[i] < g[j]
      BY <1>3, <3>2, <3>4, <3>6 DEF Ordered
    <3> QED BY <1>6, <3>7
  <2> QED BY <2>1, <2>2, <2>3
<1>9. treshold \in 0..Limit
  <2>1. Max({MinRefresh, sub}) \in Nat
    BY <1>2, Numbers, OfTwo
  <2>2. treshold \in Nat /\ treshold <= MaxRefresh
    BY <2>1, Numbers, OfTwo
  <2> HIDE DEF treshold
  <2> QED BY <2>2, Limits
<1> HIDE DEF treshold
<1>10. /\ Refreshed(t) \in Table /\ SameLists(t, Refreshed(t))
       /\ Refreshed(t).sortedHeader = g
  <2>1. 0 \in 0..Limit
    BY Limits
  <2> QED BY <1>4, <1>6, <1>9, <2>1 DEF SameLists, Table, Limit
<1> QED BY <1>7, <1>8, <1>10 DEF Heading

\* Counting towards the next refresh keeps a table whole.
LEMMA CountedKeeps ==
  ASSUME NEW t, NEW chain, NEW idle, NEW sorted, NEW loose,
         Whole(t, chain, idle, sorted, loose)
  PROVE  Whole(Counted(t), chain, idle, sorted, loose) /\ SameLists(t, Counted(t))
<1>1. /\ t \in Table /\ Hashed(t, chain) /\ Ordered(t, sorted) /\ Heading(t)
      /\ Elements(sorted) = Used(chain) /\ Parted(t, chain, idle, sorted, loose)
  BY DEF Whole, Parted
<1>2. \A c \in Elements(sorted) : t.key[c] \in Key
  BY <1>1, UsedCells
<1>3. /\ Counted(t) \in Table /\ SameLists(t, Counted(t)) /\ Heading(Counted(t))
  <2>1. CASE SortedHeaderSize = 0
    BY <1>1, <2>1 DEF Counted, SameLists
  <2>2. CASE SortedHeaderSize # 0 /\ t.refreshCtr + 1 >= t.refreshTreshold
    BY <1>1, <1>2, <2>2, RefreshedIs DEF Counted
  <2>3. CASE SortedHeaderSize # 0 /\ ~(t.refreshCtr + 1 >= t.refreshTreshold)
    <3> DEFINE u == [t EXCEPT !.refreshCtr = @ + 1]
    <3>1. Counted(t) = u
      BY <2>3 DEF Counted
    <3>2. t.refreshCtr + 1 \in 0..Limit
      <4>1. t.refreshCtr \in 0..Limit /\ t.refreshTreshold \in 0..Limit
        BY <1>1 DEF Table, Limit
      <4> QED BY <2>3, <4>1, Limits
    <3>3. u \in Table /\ SameLists(t, u) /\ u.sortedHeader = t.sortedHeader
      BY <1>1, <3>2 DEF Table, SameLists, Limit
    <3> HIDE DEF u
    <3> QED BY <1>1, <3>1, <3>3 DEF Heading
  <2> QED BY <2>1, <2>2, <2>3
<1> QED BY <1>1, <1>3, PartedSame DEF Whole

\* The cells of a table add up.
LEMMA Total ==
  ASSUME NEW t, NEW chain, NEW idle, NEW sorted, NEW loose,
         Parted(t, chain, idle, sorted, loose)
  PROVE  /\ IsFiniteSet(Used(chain)) /\ IsFiniteSet(loose)
         /\ Cardinality(loose) \in Nat /\ t.numUsed \in Nat /\ t.numFree \in Nat
         /\ t.allocated \in Nat /\ t.allocated <= MaxEntries + Margin
         /\ t.numFree + Margin + t.numUsed + Cardinality(loose) = t.allocated
         /\ Cardinality(Used(chain)) = t.numUsed
<1>1. t \in Table /\ Hashed(t, chain) /\ Queued(t, idle) /\ Shared(t, chain, idle, loose)
  BY DEF Parted
<1>2. t.allocated \in Cell /\ t.numUsed \in Nat /\ t.numFree \in Nat
  BY <1>1, Fields, Numbers
<1>3. t.allocated \in Nat /\ t.allocated >= 1 /\ t.allocated <= MaxEntries + Margin
  BY <1>2, Numbers DEF Cell
<1>4. IsFiniteSet(1..t.allocated) /\ Cardinality(1..t.allocated) = t.allocated
  <2>1. 1 \in Int /\ t.allocated \in Int /\ ~(1 > t.allocated)
        /\ t.allocated - 1 + 1 = t.allocated
    BY <1>3
  <2> QED BY <2>1, FS_Interval
<1>5. /\ Elements(idle) \subseteq 1..t.allocated /\ Used(chain) \subseteq 1..t.allocated
      /\ loose \subseteq 1..t.allocated
      /\ 1..t.allocated = (Elements(idle) \cup Used(chain)) \cup loose
      /\ Elements(idle) \cap Used(chain) = {}
      /\ (Elements(idle) \cup Used(chain)) \cap loose = {}
  BY <1>1 DEF Shared
<1>6. IsFiniteSet(Elements(idle)) /\ IsFiniteSet(Used(chain)) /\ IsFiniteSet(loose)
  BY <1>4, <1>5, FS_Subset
<1>7. Cardinality(Elements(idle)) = t.numFree + Margin
  <2>1. Path(t.next, t.firstFree, idle) /\ Len(idle) = t.numFree + Margin
    BY <1>1 DEF Queued
  <2> QED BY <2>1, DistinctLength DEF Path
<1>8. Cardinality({}) = 0
  BY FS_EmptySet
<1>9. /\ IsFiniteSet(Elements(idle) \cup Used(chain))
      /\ Cardinality(Elements(idle) \cup Used(chain)) =
           Cardinality(Elements(idle)) + Cardinality(Used(chain)) - 0
  BY <1>5, <1>6, <1>8, FS_Union
<1>10. t.allocated = Cardinality(Elements(idle) \cup Used(chain)) + Cardinality(loose) - 0
  <2> DEFINE A == Elements(idle) \cup Used(chain)
  <2>1. /\ IsFiniteSet(A) /\ 1..t.allocated = A \cup loose /\ A \cap loose = {}
        /\ t.allocated = Cardinality(A \cup loose)
    BY <1>4, <1>5, <1>9
  <2> HIDE DEF A
  <2>2. t.allocated = Cardinality(A) + Cardinality(loose) - 0
    BY <1>6, <1>8, <2>1, FS_Union
  <2> QED BY <2>2 DEF A
<1>11. Cardinality(Used(chain)) = t.numUsed
  BY <1>1 DEF Shared
<1>12. Cardinality(loose) \in Nat
  BY <1>6, FS_CardinalityType
<1>13. t.numFree + Margin + t.numUsed + Cardinality(loose) = t.allocated
  BY <1>2, <1>3, <1>7, <1>9, <1>10, <1>11, <1>12, Numbers
<1> QED BY <1>2, <1>3, <1>6, <1>11, <1>12, <1>13

\* Chains are the same where their pointers are.
LEMMA HashedFrame ==
  ASSUME NEW t, NEW chain, Hashed(t, chain), NEW u, u.header = t.header,
         \A c \in Used(chain) :
           u.next[c] = t.next[c] /\ u.key[c] = t.key[c] /\ u.free[c] = t.free[c]
  PROVE  Hashed(u, chain)
<1>1. \A b \in Bucket : Elements(chain[b]) \subseteq Used(chain)
  BY UsedCells
<1>2. ASSUME NEW b \in Bucket PROVE Path(u.next, u.header[b], chain[b])
  <2>1. Path(t.next, t.header[b], chain[b])
    BY DEF Hashed
  <2>2. \A c \in Elements(chain[b]) : u.next[c] = t.next[c]
    BY <1>1
  <2> QED BY <2>1, <2>2, PathFrame
<1>3. \A b \in Bucket : \A c \in Elements(chain[b]) :
        u.key[c] \in Key /\ HashOf[u.key[c]] = b /\ ~u.free[c]
  BY <1>1 DEF Hashed
<1>4. \A c, d \in Used(chain) : u.key[c] = u.key[d] => c = d
  BY DEF Hashed
<1> QED BY <1>2, <1>3, <1>4 DEF Hashed

\* The sorted list is the same where its pointers and keys are.
LEMMA OrderedFrame ==
  ASSUME NEW t, NEW sorted, Ordered(t, sorted), NEW u, u.firstSorted = t.firstSorted,
         \A c \in Elements(sorted) : u.byKey[c] = t.byKey[c] /\ u.key[c] = t.key[c]
  PROVE  Ordered(u, sorted)
<1>1. Path(t.byKey, t.firstSorted, sorted)
  BY DEF Ordered
<1>2. Path(u.byKey, u.firstSorted, sorted)
  BY <1>1, PathFrame
<1>3. \A i \in DOMAIN sorted : u.key[sorted[i]] = t.key[sorted[i]]
  BY DEF Elements
<1> QED BY <1>2, <1>3 DEF Ordered

\* New cells go behind the free list.
NewCells(t, n) == [i \in 1..n |-> t.allocated + i]

\* A portion, cut to what is left to the maximum, makes the free list longer.
LEMMA GrownIs ==
  ASSUME NEW t, NEW chain, NEW idle, NEW sorted,
         Whole(t, chain, idle, sorted, {}), t.numFree = 0, t.numUsed < MaxEntries
  PROVE  \E n \in 1..MaxEntries :
           /\ Whole(Grown(t), chain, idle \o NewCells(t, n), sorted, {})
           /\ Grown(t).allocated = t.allocated + n /\ Grown(t).numFree = n
           /\ Grown(t).key = t.key
<1> DEFINE n == Min({AllocPortion, MaxEntries - t.numUsed})
           q == NewCells(t, n)
           last == t.allocated + n
           u == Grown(t)
<1>1. /\ t \in Table /\ Hashed(t, chain) /\ Queued(t, idle) /\ Ordered(t, sorted)
      /\ Shared(t, chain, idle, {}) /\ Heading(t)
      /\ Parted(t, chain, idle, sorted, {}) /\ Elements(sorted) = Used(chain)
  BY DEF Whole, Parted
<1>2. t.allocated = Margin + t.numUsed /\ t.numUsed \in Nat /\ t.allocated \in Nat
      /\ t.allocated >= 1
  <2>1. Cardinality({}) = 0
    BY FS_EmptySet
  <2> QED BY <1>1, <2>1, Total, Numbers
<1>3. n \in 1..MaxEntries /\ last \in Cell /\ last > t.allocated /\ n <= MaxEntries - t.numUsed
  <2>1. MaxEntries - t.numUsed \in Nat /\ MaxEntries - t.numUsed >= 1
    BY <1>2, Numbers
  <2>2. AllocPortion # 0
    BY <1>1, <1>2, Numbers DEF Shared
  <2>3. n \in Nat /\ n >= 1 /\ n <= MaxEntries - t.numUsed
    BY <2>1, <2>2, Numbers, OfTwo
  <2> HIDE DEF n
  <2> QED BY <1>2, <2>3, Numbers DEF Cell
<1> HIDE DEF n
<1>4. /\ u.header = t.header /\ u.byKey = t.byKey /\ u.key = t.key
      /\ u.firstFree = t.firstFree /\ u.lastFree = last /\ u.firstSorted = t.firstSorted
      /\ u.numFree = n /\ u.numUsed = t.numUsed /\ u.allocated = last
      /\ u.sortedHeader = t.sortedHeader
      /\ u.next = [c \in Cell |->
           CASE c = t.lastFree                 -> t.allocated + 1
             [] c > t.allocated /\ c < last    -> c + 1
             [] c = last                       -> Nil
             [] OTHER                          -> t.next[c]]
      /\ u.free = [c \in Cell |-> t.free[c] \/ c \in (t.allocated + 1)..last]
  <2>1. 0 + n = n
    BY <1>3
  <2> QED BY <1>1, <2>1 DEF Grown, GrownBy, Table, n
<1>17. u = [t EXCEPT !.next = u.next, !.free = u.free, !.lastFree = last,
                     !.numFree = n, !.allocated = last]
  <2>1. 0 + n = n
    BY <1>3
  <2> QED BY <1>1, <2>1 DEF Grown, GrownBy, Table, n
<1>5. /\ Path(t.next, t.firstFree, idle) /\ Len(idle) \in Nat /\ Len(idle) # 0
      /\ t.lastFree = idle[Len(idle)] /\ t.lastFree \in Elements(idle)
      /\ Elements(idle) \subseteq 1..t.allocated /\ Used(chain) \subseteq 1..t.allocated
      /\ Elements(idle) \cap Used(chain) = {}
      /\ t.lastFree \notin Used(chain)
  <2>1. Path(t.next, t.firstFree, idle) /\ idle[Len(idle)] = t.lastFree
        /\ Len(idle) = 0 + Margin
    BY <1>1 DEF Queued
  <2>2. Len(idle) \in Nat /\ Elements(idle) = {idle[i] : i \in 1..Len(idle)}
    BY <2>1, PathElements
  <2>3. Len(idle) \in 1..Len(idle)
    BY <2>1, <2>2, Numbers
  <2> QED BY <1>1, <2>1, <2>2, <2>3 DEF Shared
<1> HIDE DEF u
<1>6. u.next \in [Cell -> CellOrNil] /\ u.free \in [Cell -> BOOLEAN]
  <2>1. t.next \in [Cell -> CellOrNil] /\ t.free \in [Cell -> BOOLEAN]
    BY <1>1, Fields
  <2>2. ASSUME NEW c \in Cell PROVE u.next[c] \in CellOrNil
    <3>1. t.next[c] \in CellOrNil
      BY <2>1
    <3>4. /\ last \in Nat /\ MaxEntries + Margin \in Nat /\ last <= MaxEntries + Margin
          /\ c \in Nat /\ c >= 1
      BY <1>3, Numbers, Cells DEF Cell
    <3>2. t.allocated + 1 \in CellOrNil /\ (c < last => c + 1 \in CellOrNil)
      BY <1>2, <1>3, <3>4 DEF Cell, CellOrNil
    <3>3. Nil \in CellOrNil
      BY Cells
    <3> QED BY <1>4, <3>1, <3>2, <3>3
  <2>3. ASSUME NEW c \in Cell PROVE u.free[c] \in BOOLEAN
    BY <1>4, <2>1
  <2>4. u.next = [c \in Cell |-> u.next[c]] /\ u.free = [c \in Cell |-> u.free[c]]
    BY <1>4
  <2> QED BY <2>2, <2>3, <2>4

<1>7. /\ q \in Seq(Cell) /\ Len(q) = n /\ DOMAIN q = 1..n
      /\ \A i \in 1..n : q[i] = t.allocated + i /\ q[i] \in (t.allocated + 1)..last
      /\ Distinct(q) /\ Elements(q) = (t.allocated + 1)..last
  <2>0. n \in Nat /\ last \in Nat /\ last <= MaxEntries + Margin /\ MaxEntries + Margin \in Nat
    BY <1>3, Numbers DEF Cell
  <2>1. n \in Nat /\ \A i \in 1..n : t.allocated + i \in Cell
    BY <1>2, <2>0 DEF Cell
  <2>2. q \in Seq(Cell) /\ Len(q) = n /\ DOMAIN q = 1..n
    BY <2>1 DEF NewCells
  <2>3. \A i \in 1..n : q[i] = t.allocated + i
    BY DEF NewCells
  <2> HIDE DEF q
  <2>4. \A i \in 1..n : t.allocated + i \in (t.allocated + 1)..last
    BY <1>2, <2>1
  <2>5. Distinct(q)
    <3>1. \A i, j \in 1..n : t.allocated + i = t.allocated + j => i = j
      BY <1>2, <2>1
    <3> QED BY <2>2, <2>3, <3>1 DEF Distinct
  <2>6. ASSUME NEW c \in (t.allocated + 1)..last PROVE c \in Elements(q)
    <3>1. c - t.allocated \in 1..n /\ t.allocated + (c - t.allocated) = c
      BY <1>2, <2>1
    <3> QED BY <2>2, <2>3, <3>1 DEF Elements
  <2>7. \A c \in Elements(q) : c \in (t.allocated + 1)..last
    BY <2>2, <2>3, <2>4 DEF Elements
  <2> QED BY <2>2, <2>3, <2>4, <2>5, <2>6, <2>7
<1> HIDE DEF q
<1>8. ASSUME NEW c \in Cell
      PROVE  /\ c \in 1..t.allocated /\ c # t.lastFree => u.next[c] = t.next[c]
             /\ c = t.lastFree => u.next[c] = t.allocated + 1
             /\ c > t.allocated /\ c < last => u.next[c] = c + 1
             /\ c = last => u.next[c] = Nil
             /\ c \in 1..t.allocated => u.free[c] = t.free[c]
             /\ c \in (t.allocated + 1)..last => u.free[c]
  <2>1. c \in Nat /\ last \in Nat /\ t.lastFree \in Nat /\ t.lastFree <= t.allocated
    BY <1>2, <1>3, <1>5, Cells
  <2>2. u.next[c] = CASE c = t.lastFree                 -> t.allocated + 1
                      [] c > t.allocated /\ c < last    -> c + 1
                      [] c = last                       -> Nil
                      [] OTHER                          -> t.next[c]
    BY <1>4
  <2>3. u.free[c] = (t.free[c] \/ c \in (t.allocated + 1)..last) /\ t.free[c] \in BOOLEAN
    BY <1>1, <1>4, Fields
  <2>4. CASE c \in 1..t.allocated /\ c # t.lastFree
    <3>1. ~(c > t.allocated) /\ c # last
      BY <1>2, <1>3, <2>1, <2>4
    <3>2. u.next[c] = t.next[c]
      BY <2>2, <2>4, <3>1
    <3>3. c \notin (t.allocated + 1)..last /\ ~(c < last /\ c > t.allocated)
      BY <3>1, <2>4, <1>2
    <3> QED BY <2>3, <2>4, <3>1, <3>2, <3>3
  <2>5. CASE c = t.lastFree
    <3>1. ~(c > t.allocated) /\ c # last /\ c \notin (t.allocated + 1)..last
      BY <1>2, <1>3, <2>1, <2>5
    <3> QED BY <2>2, <2>3, <2>5, <3>1
  <2>6. CASE c > t.allocated
    <3>1. c # t.lastFree /\ c \notin 1..t.allocated /\ ~(c < last /\ c = last)
      BY <1>2, <2>1, <2>6
    <3>2. c \in (t.allocated + 1)..last => u.free[c]
      BY <2>3
    <3> QED BY <2>2, <2>6, <3>1, <3>2
  <2>7. c \in 1..t.allocated \/ c > t.allocated
    BY <1>2, <2>1, Cells
  <2> QED BY <2>4, <2>5, <2>6, <2>7
<1>9. /\ Path(u.next, u.firstFree, idle \o q)
      /\ Elements(idle \o q) = Elements(idle) \cup Elements(q)
      /\ Len(idle \o q) = Len(idle) + n /\ (idle \o q)[Len(idle) + n] = last
  <2>1. Elements(idle) \cap Elements(q) = {}
    BY <1>2, <1>5, <1>7
  <2>2. \A y \in Elements(idle) \ {idle[Len(idle)]} : u.next[y] = t.next[y]
    <3>1. Elements(idle) \subseteq Cell
      BY <1>5, PathElements
    <3> QED BY <1>5, <1>8, <3>1
  <2>3. u.next[idle[Len(idle)]] = IF Len(q) = 0 THEN Nil ELSE q[1]
    <3>1. t.lastFree \in Cell
      BY <1>1, Fields
    <3>2. 1 \in 1..n /\ Len(q) # 0
      BY <1>3, <1>7
    <3> QED BY <1>5, <1>7, <1>8, <3>1, <3>2
  <2>4. ASSUME NEW i \in 1..Len(q)
        PROVE  u.next[q[i]] = IF i = Len(q) THEN Nil ELSE q[i + 1]
    <3>1. q[i] \in Cell /\ q[i] = t.allocated + i /\ i \in 1..n
      BY <1>7
    <3>2. CASE i = n
      BY <1>7, <1>8, <3>1, <3>2
    <3>3. CASE i # n
      <4>1. i + 1 \in 1..n /\ q[i] > t.allocated /\ q[i] < last
            /\ q[i] + 1 = t.allocated + (i + 1)
        BY <1>2, <1>3, <3>1, <3>3
      <4> QED BY <1>7, <1>8, <3>1, <3>3, <4>1
    <3> QED BY <3>2, <3>3
  <2>5. Path(u.next, t.firstFree, idle \o q)
        /\ Elements(idle \o q) = Elements(idle) \cup Elements(q)
    <3>1. Path(t.next, t.firstFree, idle) /\ Len(idle) # 0 /\ q \in Seq(Cell) /\ Distinct(q)
      BY <1>5, <1>7
    <3> QED BY <2>1, <2>2, <2>3, <2>4, <3>1, PathJoined
  <2>6. Len(idle \o q) = Len(idle) + n /\ (idle \o q)[Len(idle) + n] = last
    <3>1. idle \in Seq(Cell) /\ q \in Seq(Cell) /\ Len(idle) \in Nat
      BY <1>5, <1>7 DEF Path
    <3>2. Len(idle) + n \in 1..(Len(idle) + Len(q)) /\ ~(Len(idle) + n <= Len(idle))
          /\ (Len(idle) + n) - Len(idle) = n /\ n \in 1..n
      BY <1>3, <1>7, <3>1
    <3>3. Len(idle \o q) = Len(idle) + n /\ (idle \o q)[Len(idle) + n] = q[n]
      BY <1>7, <3>1, <3>2, ConcatProperties
    <3> QED BY <1>7, <3>2, <3>3
  <2> QED BY <1>4, <2>5, <2>6
<1>10. u \in Table
  <2>1. n \in 0..MaxEntries
    BY <1>3
  <2> QED BY <1>1, <1>3, <1>6, <1>17, <2>1 DEF Table
<1>11. Hashed(u, chain)
  <2>1. \A c \in Used(chain) : u.next[c] = t.next[c] /\ u.key[c] = t.key[c] /\ u.free[c] = t.free[c]
    <3>1. Used(chain) \subseteq Cell
      BY <1>1, UsedCells
    <3> QED BY <1>4, <1>5, <1>8, <3>1
  <2> QED BY <1>1, <1>4, <2>1, HashedFrame
<1>12. Queued(u, idle \o q)
  <2>1. \A c \in Elements(idle \o q) : u.free[c]
    <3>1. Elements(idle) \subseteq Cell /\ Elements(q) \subseteq Cell
      BY <1>5, <1>7, PathElements DEF Elements
    <3>2. \A c \in Elements(idle) : t.free[c]
      BY <1>1 DEF Queued
    <3> QED BY <1>5, <1>7, <1>8, <1>9, <3>1, <3>2
  <2>2. Len(idle) = 0 + Margin
    BY <1>1 DEF Queued
  <2>3. Len(idle \o q) = n + Margin
    BY <1>3, <1>5, <1>9, <2>2, Numbers
  <2> QED BY <1>4, <1>9, <2>1, <2>3 DEF Queued
<1>13. Ordered(u, sorted)
  BY <1>1, <1>4, OrderedFrame
<1>14. Shared(u, chain, idle \o q, {})
  <2>1. 1..last = 1..t.allocated \cup (t.allocated + 1)..last
    BY <1>2, <1>3
  <2>2. 1..t.allocated \cap (t.allocated + 1)..last = {}
    BY <1>2, <1>3
  <2>3. AllocPortion # 0
    BY <1>1, <1>2, <1>3, Numbers DEF Shared
  <2>4. 1..t.allocated = Elements(idle) \cup Used(chain) /\ Cardinality(Used(chain)) = t.numUsed
    BY <1>1 DEF Shared
  <2> QED BY <1>4, <1>5, <1>7, <1>9, <2>1, <2>2, <2>3, <2>4 DEF Shared
<1>15. Heading(u)
  BY <1>1, <1>4 DEF Heading
<1>16. Whole(u, chain, idle \o q, sorted, {})
  BY <1>1, <1>10, <1>11, <1>12, <1>13, <1>14, <1>15 DEF Whole, Parted
<1> QED BY <1>3, <1>4, <1>16 DEF u, q

\* The first free cell becomes the entry of a key.
With(chain, b, s) == [d \in Bucket |-> IF d = b THEN s ELSE chain[d]]

\* The cell leaves the free list and is the first of the chain of its bucket.
LEMMA PlacedIs ==
  ASSUME NEW t, NEW chain, NEW idle, NEW sorted,
         Whole(t, chain, idle, sorted, {}), t.numFree > 0,
         NEW k \in Key, \A d \in Used(chain) : t.key[d] # k,
         NEW c, c = t.firstFree, NEW chain2,
         chain2 = With(chain, HashOf[k], Inserted(chain[HashOf[k]], 0, c))
  PROVE  /\ Parted(Placed(t, k), chain2, Removed(idle, 1), sorted, {})
         /\ Used(chain2) = Used(chain) \cup {c}
         /\ c = idle[1] /\ c \in Cell /\ c \notin Used(chain)
         /\ Placed(t, k).header[HashOf[k]] = c /\ Placed(t, k).key[c] = k
         /\ \A d \in Used(chain) : Placed(t, k).key[d] = t.key[d]
         /\ Placed(t, k).allocated = t.allocated
<1> DEFINE h == HashOf[k]
           p == Placed(t, k)
           first == Inserted(chain[h], 0, c)
           rest == Removed(idle, 1)
<1>1. /\ t \in Table /\ Hashed(t, chain) /\ Queued(t, idle) /\ Ordered(t, sorted)
      /\ Shared(t, chain, idle, {}) /\ Heading(t)
      /\ Parted(t, chain, idle, sorted, {}) /\ Elements(sorted) = Used(chain)
  BY DEF Whole, Parted
<1>2. h \in Bucket /\ c \in Cell
  BY <1>1, Numbers, Fields
<1>3. /\ t.numFree \in Nat /\ t.numUsed \in Nat /\ t.numFree - 1 \in 0..MaxEntries
      /\ t.numUsed + 1 \in 0..MaxEntries
  <2>1. Cardinality({}) = 0
    BY FS_EmptySet
  <2>2. /\ t.numFree \in Nat /\ t.numUsed \in Nat /\ t.numFree <= MaxEntries
        /\ t.numFree + Margin + t.numUsed <= MaxEntries + Margin
    BY <1>1, <2>1, Total, Fields, Numbers
  <2> QED BY <2>2, Numbers
<1>4. /\ Path(t.next, t.firstFree, idle) /\ idle \in Seq(Cell) /\ Distinct(idle)
      /\ Len(idle) \in Nat /\ Len(idle) = t.numFree + Margin /\ Len(idle) >= 2
      /\ idle[Len(idle)] = t.lastFree /\ c = idle[1] /\ c \in Elements(idle)
      /\ c \notin Used(chain)
  <2>1. Path(t.next, t.firstFree, idle) /\ Len(idle) = t.numFree + Margin
        /\ idle[Len(idle)] = t.lastFree
    BY <1>1 DEF Queued
  <2>2. Len(idle) >= 2 /\ Len(idle) \in Nat
    BY <1>3, <2>1, Numbers
  <2>3. c = idle[1] /\ 1 \in 1..Len(idle)
    BY <2>1, <2>2 DEF Path
  <2>4. c \in Elements(idle)
    BY <2>1, <2>3, PathElements
  <2> QED BY <1>1, <2>1, <2>2, <2>3, <2>4 DEF Shared, Path
<1>5. /\ p.header = [t.header EXCEPT ![h] = c]
      /\ p.next = [t.next EXCEPT ![c] = t.header[h]]
      /\ p.free = [t.free EXCEPT ![c] = FALSE]
      /\ p.byKey = t.byKey /\ p.key = [t.key EXCEPT ![c] = k]
      /\ p.firstFree = t.next[c] /\ p.lastFree = t.lastFree /\ p.firstSorted = t.firstSorted
      /\ p.numFree = t.numFree - 1 /\ p.numUsed = t.numUsed + 1
      /\ p.allocated = t.allocated /\ p.sortedHeader = t.sortedHeader
  BY <1>1 DEF Placed, Table
<1>6. p = [t EXCEPT !.firstFree = t.next[c], !.numFree = @ - 1, !.numUsed = @ + 1,
                    !.key = p.key, !.free = p.free, !.next = p.next, !.header = p.header]
  BY <1>1 DEF Placed, Table
<1> HIDE DEF p, h, first, rest
<1>7. \A d \in Cell : d # c => /\ p.next[d] = t.next[d] /\ p.free[d] = t.free[d]
                               /\ p.key[d] = t.key[d]
  BY <1>1, <1>5, Fields
<1>8. p.next[c] = t.header[h] /\ ~p.free[c] /\ p.key[c] = k /\ p.header[h] = c
  BY <1>1, <1>2, <1>5, Fields
<1>9. /\ Path(p.next, p.firstFree, rest) /\ Len(rest) = Len(idle) - 1
      /\ Elements(rest) = Elements(idle) \ {c} /\ rest[Len(rest)] = t.lastFree
      /\ p.firstFree \in Cell
  <2>1. 1 \in 1..Len(idle)
    BY <1>4
  <2>2. /\ Len(rest) = Len(idle) - 1 /\ Elements(rest) = Elements(idle) \ {idle[1]}
        /\ \A i \in 1..(Len(idle) - 1) : rest[i] = idle[i + 1]
        /\ rest \in Seq(Cell)
    BY <1>4, <2>1, RemovedIs DEF rest
  <2>3. \A y \in Elements(idle) \ {idle[1]} : p.next[y] = t.next[y]
    BY <1>4, <1>7, PathElements
  <2>4. Path(p.next, t.next[c], rest)
    BY <1>4, <2>3, PathRemoveFirst DEF rest
  <2>5. Len(idle) - 1 \in 1..(Len(idle) - 1) /\ (Len(idle) - 1) + 1 = Len(idle)
        /\ 1 \in 1..(Len(idle) - 1) /\ Len(idle) - 1 # 0
    BY <1>4
  <2>6. rest[Len(rest)] = t.lastFree
    BY <1>4, <2>2, <2>5
  <2>7. rest[1] \in Cell /\ p.firstFree = rest[1]
    BY <1>5, <2>2, <2>4, <2>5 DEF Path
  <2> QED BY <1>4, <1>5, <2>2, <2>4, <2>6, <2>7
<1>10. /\ Path(p.next, c, first) /\ Elements(first) = Elements(chain[h]) \cup {c}
  <2>1. /\ Path(t.next, t.header[h], chain[h]) /\ c \notin Elements(chain[h])
        /\ Elements(chain[h]) \subseteq Cell
    BY <1>1, <1>2, <1>4, UsedCells DEF Hashed
  <2>2. \A y \in Elements(chain[h]) : p.next[y] = t.next[y]
    BY <1>7, <2>1
  <2>3. Path(p.next, c, first)
    BY <1>2, <1>8, <2>1, <2>2, PathInsertFirst DEF first
  <2>4. chain[h] \in Seq(Cell) /\ Distinct(chain[h]) /\ 0 \in 0..Len(chain[h])
    BY <2>1, PathElements DEF Path
  <2>5. Elements(first) = Elements(chain[h]) \cup {c}
    BY <1>2, <2>1, <2>4, InsertedIs DEF first
  <2> QED BY <2>3, <2>5
<1>11. \A b \in Bucket : chain2[b] = IF b = h THEN first ELSE chain[b]
  BY DEF With, h, first
<1>12. Used(chain2) = Used(chain) \cup {c}
  <2>1. \A d \in Used(chain2) : d \in Used(chain) \cup {c}
    BY <1>10, <1>11 DEF Used
  <2>2. \A d \in Used(chain) \cup {c} : d \in Used(chain2)
    BY <1>2, <1>10, <1>11 DEF Used
  <2> QED BY <2>1, <2>2
<1>13. Hashed(p, chain2)
  <2>1. ASSUME NEW b \in Bucket
        PROVE  /\ Path(p.next, p.header[b], chain2[b])
               /\ \A d \in Elements(chain2[b]) :
                    p.key[d] \in Key /\ HashOf[p.key[d]] = b /\ ~p.free[d]
    <3>1. /\ Path(t.next, t.header[b], chain[b])
          /\ \A d \in Elements(chain[b]) :
               /\ t.key[d] \in Key /\ HashOf[t.key[d]] = b /\ ~t.free[d]
               /\ d # c /\ d \in Cell
      <4>1. Elements(chain[b]) \subseteq Used(chain) /\ Used(chain) \subseteq Cell
        BY <1>1, UsedCells
      <4>2. \A d \in Elements(chain[b]) : d # c /\ d \in Cell
        BY <1>4, <4>1
      <4> QED BY <1>1, <4>2 DEF Hashed
    <3>2. \A d \in Elements(chain[b]) :
            p.key[d] \in Key /\ HashOf[p.key[d]] = b /\ ~p.free[d]
      BY <1>7, <3>1
    <3>3. CASE b = h
      BY <1>8, <1>10, <1>11, <3>2, <3>3 DEF h
    <3>4. CASE b # h
      <4>1. p.header[b] = t.header[b]
        BY <1>1, <1>5, <3>4, Fields
      <4>2. \A d \in Elements(chain[b]) : p.next[d] = t.next[d]
        BY <1>7, <3>1
      <4>3. Path(p.next, t.header[b], chain[b])
        BY <3>1, <4>2, PathFrame
      <4> QED BY <1>11, <3>2, <3>4, <4>1, <4>3
    <3> QED BY <3>3, <3>4
  <2>2. \A d, e \in Used(chain2) : p.key[d] = p.key[e] => d = e
    <3>1. \A d \in Used(chain) : p.key[d] = t.key[d] /\ p.key[d] # k
      BY <1>1, <1>4, <1>7, UsedCells
    <3>2. \A d, e \in Used(chain) : t.key[d] = t.key[e] => d = e
      BY <1>1 DEF Hashed
    <3> QED BY <1>8, <1>12, <3>1, <3>2
  <2> QED BY <2>1, <2>2 DEF Hashed
<1>14. Queued(p, rest)
  <2>1. Len(rest) = p.numFree + Margin
    BY <1>3, <1>4, <1>5, <1>9, Numbers
  <2>2. \A d \in Elements(rest) : p.free[d]
    <3>1. \A d \in Elements(idle) : t.free[d] /\ d \in Cell
      BY <1>1, <1>4, PathElements DEF Queued
    <3> QED BY <1>7, <1>9, <3>1
  <2> QED BY <1>5, <1>9, <2>1, <2>2 DEF Queued
<1>15. Ordered(p, sorted)
  <2>1. \A d \in Elements(sorted) : p.byKey[d] = t.byKey[d] /\ p.key[d] = t.key[d]
    BY <1>1, <1>4, <1>5, <1>7, UsedCells
  <2>2. Ordered(t, sorted) /\ p.firstSorted = t.firstSorted
    BY <1>1, <1>5
  <2> QED BY <2>1, <2>2, OrderedFrame
<1>16. Shared(p, chain2, rest, {})
  <2>1. IsFiniteSet(Used(chain)) /\ Cardinality(Used(chain)) = t.numUsed
    BY <1>1, Total
  <2>2. Cardinality(Used(chain2)) = t.numUsed + 1
    BY <1>4, <1>12, <2>1, FS_AddElement
  <2> QED BY <1>1, <1>4, <1>5, <1>9, <1>12, <2>2 DEF Shared
<1>17. p \in Table
  <2>1. /\ p.key \in [Cell -> Key \union {FirstKey}] /\ p.free \in [Cell -> BOOLEAN]
        /\ p.next \in [Cell -> CellOrNil] /\ p.header \in [Bucket -> CellOrNil]
    BY <1>1, <1>2, <1>5, Fields, Cells
  <2>2. t.next[c] \in Cell
    BY <1>5, <1>9
  <2> QED BY <1>1, <1>3, <1>6, <2>1, <2>2 DEF Table
<1>18. Heading(p)
  BY <1>1, <1>5 DEF Heading
<1>19. \A d \in Used(chain) : p.key[d] = t.key[d]
  BY <1>1, <1>4, <1>7, UsedCells
<1> QED BY <1>2, <1>4, <1>5, <1>8, <1>12, <1>13, <1>14, <1>15, <1>16, <1>17, <1>18, <1>19
        DEF Parted, p, h, rest

\* An element put between the smaller and the greater ones keeps the order.
LEMMA OrderInserted ==
  ASSUME NEW s \in Seq(Cell), Distinct(s), NEW m \in 0..Len(s),
         NEW x \in Cell, x \notin Elements(s), NEW key, key[x] \in Nat,
         \A i \in 1..Len(s) : key[s[i]] \in Nat,
         \A i, j \in 1..Len(s) : i < j => key[s[i]] < key[s[j]],
         \A i \in 1..m : key[s[i]] < key[x],
         \A i \in (m + 1)..Len(s) : key[x] < key[s[i]]
  PROVE  \A i, j \in 1..(Len(s) + 1) :
           i < j => key[Inserted(s, m, x)[i]] < key[Inserted(s, m, x)[j]]
<1> DEFINE r == Inserted(s, m, x)
           v(i) == key[s[i]]
<1>1. Len(s) \in Nat /\ m \in Nat /\ m <= Len(s)
  OBVIOUS
<1>2. \A i \in 1..(Len(s) + 1) :
        \/ i <= m /\ i \in 1..Len(s) /\ i \in 1..m /\ r[i] = s[i]
        \/ i = m + 1 /\ r[i] = x
        \/ /\ i > m + 1 /\ i - 1 \in 1..Len(s) /\ i - 1 \in (m + 1)..Len(s)
           /\ r[i] = s[i - 1]
  <2> SUFFICES ASSUME NEW i \in 1..(Len(s) + 1)
               PROVE  \/ i <= m /\ i \in 1..Len(s) /\ i \in 1..m /\ r[i] = s[i]
                      \/ i = m + 1 /\ r[i] = x
                      \/ /\ i > m + 1 /\ i - 1 \in 1..Len(s) /\ i - 1 \in (m + 1)..Len(s)
                         /\ r[i] = s[i - 1]
    OBVIOUS
  <2>1. r[i] = IF i <= m THEN s[i] ELSE IF i = m + 1 THEN x ELSE s[i - 1]
    BY <1>1 DEF Inserted
  <2> HIDE DEF r
  <2>2. \/ i <= m /\ i \in 1..Len(s) /\ i \in 1..m
        \/ i = m + 1 /\ ~(i <= m)
        \/ i > m + 1 /\ i - 1 \in 1..Len(s) /\ i - 1 \in (m + 1)..Len(s)
             /\ ~(i <= m) /\ i # m + 1
    BY <1>1
  <2> QED BY <2>1, <2>2
<1> HIDE DEF r
<1> SUFFICES ASSUME NEW i \in 1..(Len(s) + 1), NEW j \in 1..(Len(s) + 1), i < j
             PROVE  key[r[i]] < key[r[j]]
  BY DEF r
<1>3. CASE i <= m /\ i \in 1..Len(s) /\ i \in 1..m /\ r[i] = s[i]
  <2>1. CASE j <= m /\ j \in 1..Len(s) /\ r[j] = s[j]
    BY <1>3, <2>1
  <2>2. CASE j = m + 1 /\ r[j] = x
    BY <1>3, <2>2
  <2>3. CASE j > m + 1 /\ j - 1 \in 1..Len(s) /\ j - 1 \in (m + 1)..Len(s) /\ r[j] = s[j - 1]
    <3>1. i < j - 1
      BY <1>1, <1>3, <2>3
    <3> QED BY <1>3, <2>3, <3>1
  <2> QED BY <1>2, <2>1, <2>2, <2>3
<1>4. CASE i = m + 1 /\ r[i] = x
  <2>1. j - 1 \in (m + 1)..Len(s) /\ r[j] = s[j - 1]
    <3>1. ~(j <= m) /\ j # m + 1
      BY <1>1, <1>4
    <3> QED BY <1>2, <3>1
  <2> QED BY <1>4, <2>1
<1>5. CASE i > m + 1 /\ i - 1 \in 1..Len(s) /\ r[i] = s[i - 1]
  <2>1. j - 1 \in 1..Len(s) /\ r[j] = s[j - 1] /\ i - 1 < j - 1
    <3>1. ~(j <= m) /\ j # m + 1 /\ i - 1 < j - 1
      BY <1>1, <1>5
    <3> QED BY <1>2, <3>1
  <2> QED BY <1>5, <2>1
<1> QED BY <1>2, <1>3, <1>4, <1>5

\* A table with another sorted list.
Resorted(t, b, f) == [t EXCEPT !.byKey = b, !.firstSorted = f]

\* The chains and the free list are not affected.
LEMMA ResortedIs ==
  ASSUME NEW t, NEW chain, NEW idle, NEW loose, t \in Table, Hashed(t, chain),
         Queued(t, idle), Shared(t, chain, idle, loose), Heading(t),
         NEW b \in [Cell -> CellOrNil], NEW f \in CellOrNil,
         NEW u, u = Resorted(t, b, f)
  PROVE  /\ u \in Table /\ Hashed(u, chain) /\ Queued(u, idle)
         /\ Shared(u, chain, idle, loose) /\ Heading(u)
         /\ u.key = t.key /\ u.byKey = b /\ u.firstSorted = f
         /\ u.allocated = t.allocated
<1>1. u \in Table
  BY DEF Resorted, Table
<1>2. /\ u.header = t.header /\ u.next = t.next /\ u.free = t.free /\ u.key = t.key
      /\ u.firstFree = t.firstFree /\ u.lastFree = t.lastFree /\ u.numFree = t.numFree
      /\ u.numUsed = t.numUsed /\ u.allocated = t.allocated
      /\ u.sortedHeader = t.sortedHeader /\ u.byKey = b /\ u.firstSorted = f
  BY DEF Resorted, Table
<1>3. Hashed(u, chain) <=> Hashed(t, chain)
  BY <1>2 DEF Hashed
<1>4. Queued(u, idle) <=> Queued(t, idle)
  BY <1>2 DEF Queued
<1>5. Shared(u, chain, idle, loose) <=> Shared(t, chain, idle, loose)
  BY <1>2 DEF Shared
<1>6. Heading(u) <=> Heading(t)
  BY <1>2 DEF Heading
<1> QED BY <1>1, <1>2, <1>3, <1>4, <1>5, <1>6

\* The entry joins the sorted list behind the smaller ones.
Spliced(t, pre, c) ==
  IF pre = Nil
  THEN [t EXCEPT !.byKey[c] = t.firstSorted, !.firstSorted = c]
  ELSE [t EXCEPT !.byKey[c] = t.byKey[pre], !.byKey[pre] = c]

\* An entry put behind the last smaller one leaves the list sorted.
LEMMA SplicedIs ==
  ASSUME NEW t, NEW chain, NEW idle, NEW sorted, Parted(t, chain, idle, sorted, {}),
         NEW c \in Cell, c \in Used(chain), Elements(sorted) = Used(chain) \ {c},
         NEW m \in 0..Len(sorted),
         \A i \in 1..m : t.key[sorted[i]] < t.key[c],
         \A i \in (m + 1)..Len(sorted) : t.key[sorted[i]] >= t.key[c],
         NEW pre, pre = IF m = 0 THEN Nil ELSE sorted[m]
  PROVE  /\ Whole(Spliced(t, pre, c), chain, idle, Inserted(sorted, m, c), {})
         /\ Spliced(t, pre, c).key = t.key
         /\ Spliced(t, pre, c).allocated = t.allocated
<1> DEFINE u == Spliced(t, pre, c)
           r == Inserted(sorted, m, c)
<1>1. /\ t \in Table /\ Hashed(t, chain) /\ Queued(t, idle) /\ Ordered(t, sorted)
      /\ Shared(t, chain, idle, {}) /\ Heading(t)
  BY DEF Parted
<1>2. /\ Path(t.byKey, t.firstSorted, sorted) /\ sorted \in Seq(Cell) /\ Distinct(sorted)
      /\ Len(sorted) \in Nat /\ DOMAIN sorted = 1..Len(sorted)
      /\ Elements(sorted) = {sorted[i] : i \in 1..Len(sorted)}
      /\ \A i \in 1..Len(sorted) : sorted[i] \in Cell /\ sorted[i] # Nil
      /\ c \notin Elements(sorted) /\ c # Nil
  <2>1. Path(t.byKey, t.firstSorted, sorted)
    BY <1>1 DEF Ordered
  <2>2. \A i \in 1..Len(sorted) : sorted[i] \in Cell
    BY <2>1, PathElements
  <2>3. sorted \in Seq(Cell) /\ Distinct(sorted) /\ Len(sorted) \in Nat
        /\ DOMAIN sorted = 1..Len(sorted) /\ Elements(sorted) = {sorted[i] : i \in 1..Len(sorted)}
    BY <2>1, PathElements DEF Path
  <2> QED BY <2>1, <2>2, <2>3, Cells
<1>3. /\ r \in Seq(Cell) /\ Len(r) = Len(sorted) + 1 /\ DOMAIN r = 1..(Len(sorted) + 1)
      /\ Elements(r) = Used(chain)
  <2>1. /\ r \in Seq(Cell) /\ Len(r) = Len(sorted) + 1
        /\ Elements(r) = Elements(sorted) \cup {c}
    BY <1>2, InsertedIs
  <2> QED BY <2>1
<1>4. \A i, j \in DOMAIN r : i < j => t.key[r[i]] < t.key[r[j]]
  <2>1. \A d \in Used(chain) : t.key[d] \in Nat
    BY <1>1, UsedCells, Numbers
  <2>2. \A i \in 1..Len(sorted) : /\ sorted[i] \in Used(chain) /\ sorted[i] # c
                                  /\ t.key[sorted[i]] \in Nat
    BY <1>2, <2>1
  <2>3. \A i \in (m + 1)..Len(sorted) : t.key[c] < t.key[sorted[i]]
    <3> SUFFICES ASSUME NEW i \in (m + 1)..Len(sorted) PROVE t.key[c] < t.key[sorted[i]]
      OBVIOUS
    <3>1. i \in 1..Len(sorted)
      BY <1>2
    <3>2. t.key[sorted[i]] # t.key[c]
      BY <1>1, <2>2, <3>1 DEF Hashed
    <3> QED BY <2>1, <2>2, <3>1, <3>2
  <2>4. \A i, j \in 1..Len(sorted) : i < j => t.key[sorted[i]] < t.key[sorted[j]]
    BY <1>1, <1>2 DEF Ordered
  <2>5. \A i, j \in 1..(Len(sorted) + 1) : i < j => t.key[r[i]] < t.key[r[j]]
    <3>1. t.key[c] \in Nat /\ \A i \in 1..Len(sorted) : t.key[sorted[i]] \in Nat
      BY <2>1, <2>2
    <3>2. sorted \in Seq(Cell) /\ Distinct(sorted) /\ c \notin Elements(sorted)
      BY <1>2
    <3> QED BY <2>3, <2>4, <3>1, <3>2, OrderInserted
  <2> QED BY <1>3, <2>5
<1> HIDE DEF r
<1>5. ASSUME NEW b \in [Cell -> CellOrNil], NEW f \in CellOrNil, u = Resorted(t, b, f),
             Path(b, f, r)
      PROVE  Whole(u, chain, idle, r, {}) /\ u.key = t.key /\ u.allocated = t.allocated
  <2> HIDE DEF u
  <2>1. /\ u \in Table /\ Hashed(u, chain) /\ Queued(u, idle) /\ Shared(u, chain, idle, {})
        /\ Heading(u) /\ u.key = t.key /\ u.byKey = b /\ u.firstSorted = f
        /\ u.allocated = t.allocated
    BY <1>1, <1>5, ResortedIs
  <2>2. Ordered(u, r)
    BY <1>4, <1>5, <2>1 DEF Ordered
  <2> QED BY <1>3, <2>1, <2>2 DEF Whole, Parted
<1>6. CASE m = 0
  <2> DEFINE b == [t.byKey EXCEPT ![c] = t.firstSorted]
  <2>1. u = Resorted(t, b, c)
    BY <1>1, <1>6 DEF Spliced, Resorted, Table
  <2>2. b \in [Cell -> CellOrNil] /\ c \in CellOrNil
        /\ b[c] = t.firstSorted /\ \A y \in Elements(sorted) : b[y] = t.byKey[y]
    BY <1>1, <1>2, Fields, Cells
  <2> HIDE DEF b, u
  <2>3. Path(b, c, r)
    BY <1>2, <1>6, <2>2, PathInsertFirst DEF r
  <2> QED BY <1>5, <2>1, <2>2, <2>3 DEF u, r
<1>7. CASE m # 0
  <2> DEFINE b == [t.byKey EXCEPT ![c] = t.byKey[pre], ![pre] = c]
  <2>1. m \in 1..Len(sorted) /\ pre = sorted[m] /\ pre \in Cell /\ pre # Nil
        /\ pre # c /\ pre \in Elements(sorted)
    BY <1>2, <1>7
  <2>2. u = Resorted(t, b, t.firstSorted)
    BY <1>1, <2>1 DEF Spliced, Resorted, Table
  <2>3. b \in [Cell -> CellOrNil] /\ t.firstSorted \in CellOrNil
        /\ b[c] = t.byKey[sorted[m]] /\ b[sorted[m]] = c
        /\ \A y \in Elements(sorted) \ {sorted[m]} : b[y] = t.byKey[y]
    <3>1. t.byKey \in [Cell -> CellOrNil] /\ t.byKey[pre] \in CellOrNil /\ c \in CellOrNil
          /\ t.firstSorted \in CellOrNil
      BY <1>1, <2>1, Fields, Cells
    <3>2. b \in [Cell -> CellOrNil]
      BY <3>1
    <3>3. b[c] = t.byKey[pre] /\ b[pre] = c
      BY <2>1, <3>1
    <3>4. \A y \in Cell : y # c /\ y # pre => b[y] = t.byKey[y]
      BY <3>1
    <3> HIDE DEF b
    <3>5. \A y \in Elements(sorted) : y \in Cell /\ y # c
      BY <1>2
    <3> QED BY <2>1, <3>1, <3>2, <3>3, <3>4, <3>5
  <2> HIDE DEF b, u
  <2>4. Path(b, t.firstSorted, r)
    <3>1. c \notin Elements(sorted) /\ Path(t.byKey, t.firstSorted, sorted)
      BY <1>2
    <3> QED BY <2>1, <2>3, <3>1, PathInsert DEF r
  <2> QED BY <1>5, <2>2, <2>3, <2>4 DEF u, r
<1> QED BY <1>6, <1>7

-----------------------------------------------------------------------------
(* The operations keep a table whole.                                      *)

\* What InsertHash makes of a table.
Room(t) == IF t.numFree = 0 THEN Grown(t) ELSE t
AfterInsert(t, k) ==
  LET placed == Placed(Room(t), k)
  IN  Counted(Spliced(Probed(placed, k), PreSorted(placed, k),
                      placed.header[HashOf[k]]))

\* InsertHash does that to the table, for a key that it does not find, while
\* there is room.
LEMMA InsertMakes ==
  ASSUME NEW k \in Key, InsertHash(k)
  PROVE  /\ table' = AfterInsert(table, k) /\ Search(table, k) = Nil
         /\ table.numFree > 0 \/ table.numUsed < MaxEntries
BY Zenon DEF InsertHash, AfterInsert, Room, Spliced

\* An insertion takes the first of the idle cells, when there is none of the
\* newly allocated ones, and puts its key between the others.
LEMMA InsertIs ==
  ASSUME NEW t, NEW chain, NEW idle, NEW sorted, Whole(t, chain, idle, sorted, {}),
         NEW k \in Key, \A d \in Used(chain) : t.key[d] # k,
         t.numFree > 0 \/ t.numUsed < MaxEntries
  PROVE  \E n \in 0..MaxEntries : \E chain2, sorted2, queue, c :
           /\ queue = IF n = 0 THEN idle ELSE idle \o NewCells(t, n)
           /\ Whole(AfterInsert(t, k), chain2, Removed(queue, 1), sorted2, {})
           /\ Used(chain2) = Used(chain) \cup {c} /\ c \notin Used(chain)
           /\ c = queue[1] /\ AfterInsert(t, k).key[c] = k
           /\ \A d \in Used(chain) : AfterInsert(t, k).key[d] = t.key[d]
           /\ AfterInsert(t, k).allocated = t.allocated + n
           /\ Len(queue) > Margin /\ queue \in Seq(Cell)
<1> DEFINE room == Room(t)
           placed == Placed(room, k)
           probed == Probed(placed, k)
           c == room.firstFree
           chain2 == With(chain, HashOf[k], Inserted(chain[HashOf[k]], 0, c))
           spliced == Spliced(probed, PreSorted(placed, k), c)
<1>1. t \in Table /\ t.numFree \in Nat /\ t.allocated \in Nat /\ Elements(sorted) = Used(chain)
  <2>1. t \in Table /\ Elements(sorted) = Used(chain)
    BY DEF Whole, Parted
  <2>2. t.numFree \in 0..MaxEntries /\ t.allocated \in Cell
    BY <2>1, Fields
  <2>3. t.numFree \in Nat
    BY <2>2, Numbers
  <2> QED BY <2>1, <2>2, <2>3, Cells
<1>21. PICK n \in 0..MaxEntries : \E queue :
        /\ queue = IF n = 0 THEN idle ELSE idle \o NewCells(t, n)
        /\ Whole(room, chain, queue, sorted, {}) /\ room.numFree > 0
        /\ room.key = t.key /\ room.allocated = t.allocated + n
  <2>1. CASE t.numFree = 0
    <3>1. t.numUsed < MaxEntries /\ room = Grown(t)
      BY <2>1 DEF Room
    <3>2. PICK n \in 1..MaxEntries :
            /\ Whole(Grown(t), chain, idle \o NewCells(t, n), sorted, {})
            /\ Grown(t).allocated = t.allocated + n /\ Grown(t).numFree = n
            /\ Grown(t).key = t.key
      BY <2>1, <3>1, GrownIs
    <3>3. n \in 0..MaxEntries /\ n # 0 /\ n > 0
      BY Numbers
    <3> QED BY <3>1, <3>2, <3>3
  <2>2. CASE t.numFree # 0
    <3>1. room = t /\ t.numFree > 0 /\ t.allocated = t.allocated + 0
      BY <1>1, <2>2 DEF Room
    <3>2. 0 \in 0..MaxEntries
      BY Numbers
    <3> QED BY <3>1, <3>2
  <2> QED BY <2>1, <2>2
<1>2. PICK queue :
        /\ queue = IF n = 0 THEN idle ELSE idle \o NewCells(t, n)
        /\ Whole(room, chain, queue, sorted, {}) /\ room.numFree > 0
        /\ room.key = t.key /\ room.allocated = t.allocated + n
  BY <1>21
<1>3. \A d \in Used(chain) : room.key[d] # k
  BY <1>2
<1> HIDE DEF room
<1>4. /\ Parted(placed, chain2, Removed(queue, 1), sorted, {})
      /\ Used(chain2) = Used(chain) \cup {c}
      /\ c = queue[1] /\ c \in Cell /\ c \notin Used(chain)
      /\ placed.header[HashOf[k]] = c /\ placed.key[c] = k
      /\ \A d \in Used(chain) : placed.key[d] = room.key[d]
      /\ placed.allocated = room.allocated
  <2>1. Whole(room, chain, queue, sorted, {}) /\ room.numFree > 0
    BY <1>2
  <2>2. c = room.firstFree
        /\ chain2 = With(chain, HashOf[k], Inserted(chain[HashOf[k]], 0, c))
    OBVIOUS
  <2> HIDE DEF c, chain2
  <2> QED BY <1>3, <2>1, <2>2, PlacedIs
<1> HIDE DEF placed, c, chain2
<1>5. /\ Parted(probed, chain2, Removed(queue, 1), sorted, {})
      /\ probed.key = placed.key /\ probed.allocated = placed.allocated
  <2>1. placed \in Table
    BY <1>4 DEF Parted
  <2>2. SameLists(placed, probed)
    BY <2>1, ProbedIs
  <2> QED BY <1>4, <2>2, ProbedKeeps DEF SameLists
<1>6. /\ placed \in Table /\ Hashed(placed, chain2) /\ Ordered(placed, sorted)
      /\ Heading(placed)
  BY <1>4 DEF Parted
<1>7. PICK m \in 0..Len(sorted) :
        /\ \A i \in 1..m : placed.key[sorted[i]] < k
        /\ \A i \in (m + 1)..Len(sorted) : placed.key[sorted[i]] >= k
  BY <1>6, SplitExists
<1>8. \A d \in Used(chain2) : placed.key[d] < k => d \in Elements(sorted)
  <2>1. k \in Nat /\ ~(k < k)
    BY Numbers
  <2> QED BY <1>1, <1>4, <2>1
<1>9. PreSorted(placed, k) = IF m = 0 THEN Nil ELSE sorted[m]
  BY <1>6, <1>7, <1>8, PreSortedIs
<1> HIDE DEF probed
<1>10. /\ Whole(spliced, chain2, Removed(queue, 1), Inserted(sorted, m, c), {})
       /\ spliced.key = probed.key /\ spliced.allocated = probed.allocated
  <2>1. c \in Used(chain2) /\ Elements(sorted) = Used(chain2) \ {c}
    BY <1>1, <1>4
  <2>2. probed.key[c] = k
    BY <1>4, <1>5
  <2>3. /\ \A i \in 1..m : probed.key[sorted[i]] < probed.key[c]
        /\ \A i \in (m + 1)..Len(sorted) : probed.key[sorted[i]] >= probed.key[c]
    BY <1>5, <1>7, <2>2
  <2> QED BY <1>4, <1>5, <1>9, <2>1, <2>3, SplicedIs
<1>11. AfterInsert(t, k) = Counted(spliced)
  BY <1>4 DEF AfterInsert, placed, room, probed
<1> HIDE DEF spliced
<1>12. /\ Whole(Counted(spliced), chain2, Removed(queue, 1), Inserted(sorted, m, c), {})
       /\ Counted(spliced).key = spliced.key
       /\ Counted(spliced).allocated = spliced.allocated
  BY <1>10, CountedKeeps DEF SameLists
<1>13. Len(queue) > Margin /\ queue \in Seq(Cell)
  <2>1. Queued(room, queue) /\ room \in Table
    BY <1>2 DEF Whole, Parted
  <2>2. Len(queue) = room.numFree + Margin /\ room.numFree \in Nat
    BY <2>1, Fields DEF Queued
  <2>3. queue \in Seq(Cell)
    BY <2>1 DEF Queued, Path
  <2> QED BY <1>2, <2>2, <2>3, Numbers
<1>14. /\ AfterInsert(t, k).key[c] = k
       /\ \A d \in Used(chain) : AfterInsert(t, k).key[d] = t.key[d]
       /\ AfterInsert(t, k).allocated = t.allocated + n
  BY <1>2, <1>4, <1>5, <1>10, <1>11, <1>12
<1>15. Whole(AfterInsert(t, k), chain2, Removed(queue, 1), Inserted(sorted, m, c), {})
  BY <1>11, <1>12
<1> WITNESS n \in 0..MaxEntries, chain2, Inserted(sorted, m, c), queue, c
<1> QED BY <1>2, <1>4, <1>13, <1>14, <1>15

\* The free list is the same where its pointers are.
LEMMA QueuedFrame ==
  ASSUME NEW t, NEW idle, Queued(t, idle), NEW u,
         u.firstFree = t.firstFree, u.lastFree = t.lastFree, u.numFree = t.numFree,
         \A c \in Elements(idle) : u.next[c] = t.next[c] /\ u.free[c] = t.free[c]
  PROVE  Queued(u, idle)
<1>1. Path(t.next, t.firstFree, idle)
  BY DEF Queued
<1>2. Path(u.next, u.firstFree, idle)
  BY <1>1, PathFrame
<1> QED BY <1>2 DEF Queued

\* An entry leaves the chain of its bucket.
LEMMA UnchainedIs ==
  ASSUME NEW t, NEW chain, NEW idle, NEW sorted, Whole(t, chain, idle, sorted, {}),
         NEW b \in Bucket, NEW c \in Elements(chain[b])
  PROVE  \E chain2 :
           /\ Parted(Unchained(t, b, c), chain2, idle, sorted, {c})
           /\ Used(chain2) = Used(chain) \ {c}
           /\ Unchained(t, b, c).key = t.key
           /\ Unchained(t, b, c).allocated = t.allocated
<1> DEFINE s == chain[b]
           i == CHOOSE j \in DOMAIN s : s[j] = c
           r == Removed(s, i)
           chain2 == With(chain, b, r)
           u == Unchained(t, b, c)
<1>1. /\ t \in Table /\ Hashed(t, chain) /\ Queued(t, idle) /\ Ordered(t, sorted)
      /\ Shared(t, chain, idle, {}) /\ Heading(t)
      /\ Parted(t, chain, idle, sorted, {}) /\ Elements(sorted) = Used(chain)
  BY DEF Whole, Parted
<1>2. /\ Path(t.next, t.header[b], s) /\ s \in Seq(Cell) /\ Distinct(s)
      /\ Len(s) \in Nat /\ DOMAIN s = 1..Len(s)
      /\ Elements(s) = {s[j] : j \in 1..Len(s)}
      /\ Elements(s) \subseteq Used(chain) /\ Used(chain) \subseteq Cell
  <2>1. Path(t.next, t.header[b], s)
    BY <1>1 DEF Hashed
  <2>2. Elements(s) \subseteq Used(chain) /\ Used(chain) \subseteq Cell
    BY <1>1, UsedCells
  <2>3. s \in Seq(Cell) /\ Distinct(s)
    BY <2>1 DEF Path
  <2> HIDE DEF s
  <2>4. /\ Len(s) \in Nat /\ DOMAIN s = 1..Len(s)
        /\ Elements(s) = {s[j] : j \in 1..Len(s)}
    BY <2>1, PathElements
  <2> QED BY <2>1, <2>2, <2>3, <2>4
<1>3. i \in 1..Len(s) /\ s[i] = c
  <2>1. \E j \in DOMAIN s : s[j] = c
    BY <1>2
  <2> QED BY <1>2, <2>1
<1>4. /\ Chain(t, b) = s /\ c \in Cell /\ c \in Used(chain) /\ t.next[c] \in CellOrNil
      /\ t.header[b] \in CellOrNil
  BY <1>1, <1>2, ListsRead, Fields
<1>5. u = IF i = 1 THEN [t EXCEPT !.header[b] = t.next[c], !.numUsed = @ - 1]
          ELSE [t EXCEPT !.next[s[i - 1]] = t.next[c], !.numUsed = @ - 1]
  BY <1>4 DEF Unchained
<1> HIDE DEF u, i
<1>6. /\ u.free = t.free /\ u.byKey = t.byKey /\ u.key = t.key
      /\ u.firstFree = t.firstFree /\ u.lastFree = t.lastFree /\ u.firstSorted = t.firstSorted
      /\ u.numFree = t.numFree /\ u.numUsed = t.numUsed - 1 /\ u.allocated = t.allocated
      /\ u.sortedHeader = t.sortedHeader
      /\ u.header = IF i = 1 THEN [t.header EXCEPT ![b] = t.next[c]] ELSE t.header
      /\ u.next = IF i = 1 THEN t.next ELSE [t.next EXCEPT ![s[i - 1]] = t.next[c]]
  <2>1. CASE i = 1
    BY <1>1, <1>5, <2>1 DEF Table
  <2>2. CASE i # 1
    BY <1>1, <1>5, <2>2 DEF Table
  <2> QED BY <2>1, <2>2
<1>7. /\ r \in Seq(Cell) /\ Elements(r) = Elements(s) \ {c} /\ Distinct(r)
      /\ Elements(r) \subseteq Used(chain)
  BY <1>2, <1>3, RemovedIs
<1>8. /\ \A d \in Cell : (i = 1 \/ d # s[i - 1]) => u.next[d] = t.next[d]
      /\ \A d \in Bucket : d # b => u.header[d] = t.header[d]
      /\ u.next \in [Cell -> CellOrNil] /\ u.header \in [Bucket -> CellOrNil]
  <2>1. /\ t.next \in [Cell -> CellOrNil] /\ t.header \in [Bucket -> CellOrNil]
        /\ t.next[c] \in CellOrNil
    BY <1>1, <1>4, Fields
  <2>2. CASE i = 1
    BY <1>6, <2>1, <2>2
  <2>3. CASE i # 1
    BY <1>6, <2>1, <2>3
  <2> QED BY <2>2, <2>3
<1>9. Path(u.next, u.header[b], r)
  <2>1. CASE i = 1
    <3>1. u.header[b] = t.next[c]
      BY <1>1, <1>6, <2>1, Fields
    <3>2. t.header[b] = c /\ Len(s) # 0
      BY <1>2, <1>3, <2>1 DEF Path
    <3>3. u.next = t.next
      BY <1>6, <2>1
    <3>4. Path(u.next, t.next[t.header[b]], Removed(s, 1))
      BY <1>2, <3>2, <3>3, PathRemoveFirst
    <3> QED BY <2>1, <3>1, <3>2, <3>4
  <2>2. CASE i # 1
    <3>1. i \in 2..Len(s) /\ i - 1 \in 1..Len(s)
      BY <1>2, <1>3, <2>2
    <3>2. u.next[s[i - 1]] = t.next[s[i]] /\ u.header[b] = t.header[b]
      <4>1. s[i - 1] \in Cell
        BY <1>2, <3>1
      <4> QED BY <1>1, <1>3, <1>6, <2>2, <4>1, Fields
    <3>3. \A y \in Elements(s) \ {s[i - 1], s[i]} : u.next[y] = t.next[y]
      BY <1>2, <1>8
    <3> QED BY <1>2, <3>1, <3>2, <3>3, PathRemove
  <2> QED BY <2>1, <2>2
<1>10. i # 1 => s[i - 1] \in Elements(s)
  <2>1. i # 1 => i - 1 \in 1..Len(s)
    BY <1>2, <1>3
  <2> QED BY <1>2, <2>1
<1> HIDE DEF r
<1>11. \A d \in Bucket : chain2[d] = IF d = b THEN r ELSE chain[d]
  BY DEF With
<1> HIDE DEF chain2
<1>12. \A d \in Bucket \ {b} : Elements(chain[d]) \cap Elements(s) = {}
  BY <1>1 DEF Hashed
<1>13. Used(chain2) = Used(chain) \ {c}
  <2>1. \A d \in Used(chain2) : d \in Used(chain) \ {c}
    <3> SUFFICES ASSUME NEW d \in Used(chain2) PROVE d \in Used(chain) \ {c}
      OBVIOUS
    <3>1. PICK a \in Bucket : d \in Elements(chain2[a])
      BY DEF Used
    <3>2. CASE a = b
      BY <1>7, <1>11, <3>1, <3>2
    <3>3. CASE a # b
      <4>1. d \in Elements(chain[a]) /\ d \notin Elements(s)
        BY <1>11, <1>12, <3>1, <3>3
      <4> QED BY <4>1 DEF Used
    <3> QED BY <3>2, <3>3
  <2>2. \A d \in Used(chain) \ {c} : d \in Used(chain2)
    <3> SUFFICES ASSUME NEW d \in Used(chain), d # c PROVE d \in Used(chain2)
      OBVIOUS
    <3>1. PICK a \in Bucket : d \in Elements(chain[a])
      BY DEF Used
    <3>2. d \in Elements(chain2[a])
      BY <1>7, <1>11, <3>1
    <3> QED BY <3>2 DEF Used
  <2> QED BY <2>1, <2>2
<1>14. Hashed(u, chain2)
  <2>1. ASSUME NEW a \in Bucket
        PROVE  /\ Path(u.next, u.header[a], chain2[a])
               /\ \A d \in Elements(chain2[a]) :
                    u.key[d] \in Key /\ HashOf[u.key[d]] = a /\ ~u.free[d]
    <3>1. /\ Path(t.next, t.header[a], chain[a])
          /\ \A d \in Elements(chain[a]) :
               t.key[d] \in Key /\ HashOf[t.key[d]] = a /\ ~t.free[d]
      BY <1>1 DEF Hashed
    <3>2. Elements(chain2[a]) \subseteq Elements(chain[a])
      BY <1>7, <1>11
    <3>3. Path(u.next, u.header[a], chain2[a])
      <4>1. CASE a = b
        BY <1>9, <1>11, <4>1
      <4>2. CASE a # b
        <5>1. chain2[a] = chain[a] /\ u.header[a] = t.header[a]
          BY <1>8, <1>11, <4>2
        <5>2. \A d \in Elements(chain[a]) : u.next[d] = t.next[d]
          <6>1. \A d \in Elements(chain[a]) : d \in Cell /\ d \notin Elements(s)
            BY <1>12, <3>1, <4>2, PathElements
          <6> QED BY <1>8, <1>10, <6>1
        <5> QED BY <3>1, <5>1, <5>2, PathFrame
      <4> QED BY <4>1, <4>2
    <3> QED BY <1>6, <3>1, <3>2, <3>3
  <2>2. \A d, e \in Used(chain2) : u.key[d] = u.key[e] => d = e
    BY <1>1, <1>6, <1>13 DEF Hashed
  <2> QED BY <2>1, <2>2 DEF Hashed
<1>15. Queued(u, idle)
  <2>1. \A d \in Elements(idle) : d \in Cell /\ d \notin Used(chain)
    BY <1>1, PathElements DEF Queued, Shared
  <2>2. \A d \in Elements(idle) : u.next[d] = t.next[d] /\ u.free[d] = t.free[d]
    BY <1>2, <1>6, <1>8, <1>10, <2>1
  <2>3. u.firstFree = t.firstFree /\ u.lastFree = t.lastFree /\ u.numFree = t.numFree
    BY <1>6
  <2> QED BY <1>1, <2>2, <2>3, QueuedFrame
<1>16. Ordered(u, sorted)
  <2>1. u.firstSorted = t.firstSorted /\ u.byKey = t.byKey /\ u.key = t.key
    BY <1>6
  <2> QED BY <1>1, <2>1, OrderedFrame
<1>17. IsFiniteSet(Used(chain)) /\ Cardinality(Used(chain)) = t.numUsed
       /\ t.numUsed \in 0..MaxEntries
  BY <1>1, Total, Fields
<1>18. Cardinality(Used(chain2)) = t.numUsed - 1 /\ t.numUsed - 1 \in 0..MaxEntries
  <2>1. /\ Cardinality(Used(chain2)) = t.numUsed - 1
        /\ IsFiniteSet(Used(chain2))
    BY <1>4, <1>13, <1>17, FS_RemoveElement
  <2>2. t.numUsed - 1 \in Nat
    BY <2>1, FS_CardinalityType
  <2> QED BY <1>17, <2>1, <2>2, Numbers
<1>19. Shared(u, chain2, idle, {c})
  <2>1. /\ 1..t.allocated = Elements(idle) \cup Used(chain)
        /\ Elements(idle) \cap Used(chain) = {}
        /\ AllocPortion = 0 => t.allocated = MaxEntries + Margin
    BY <1>1 DEF Shared
  <2> QED BY <1>4, <1>6, <1>13, <1>18, <2>1 DEF Shared
<1>20. u \in Table
  <2>1. u = [t EXCEPT !.header = u.header, !.next = u.next, !.numUsed = t.numUsed - 1]
    <3>1. CASE i = 1
      BY <1>1, <1>5, <3>1 DEF Table
    <3>2. CASE i # 1
      BY <1>1, <1>5, <3>2 DEF Table
    <3> QED BY <3>1, <3>2
  <2> QED BY <1>1, <1>8, <1>18, <2>1 DEF Table
<1>21. Heading(u)
  BY <1>1, <1>6 DEF Heading
<1> QED BY <1>6, <1>13, <1>14, <1>15, <1>16, <1>19, <1>20, <1>21 DEF Parted, u

\* An element taken off keeps the order of the others.
LEMMA OrderRemoved ==
  ASSUME NEW s \in Seq(Cell), NEW m \in 1..Len(s), NEW key,
         \A i, j \in 1..Len(s) : i < j => key[s[i]] < key[s[j]]
  PROVE  \A i, j \in 1..(Len(s) - 1) :
           i < j => key[Removed(s, m)[i]] < key[Removed(s, m)[j]]
<1> DEFINE at(i) == IF i < m THEN i ELSE i + 1
<1>1. Len(s) \in Nat /\ m \in Nat
  OBVIOUS
<1>2. \A i \in 1..(Len(s) - 1) : at(i) \in 1..Len(s) /\ Removed(s, m)[i] = s[at(i)]
  BY <1>1 DEF Removed
<1>3. \A i, j \in 1..(Len(s) - 1) : i < j => at(i) < at(j)
  BY <1>1
<1> HIDE DEF at
<1> QED BY <1>2, <1>3

\* The entry leaves the sorted list.
Unsorted(t, pre, c) ==
  IF pre = Nil THEN [t EXCEPT !.firstSorted = t.byKey[c]]
  ELSE [t EXCEPT !.byKey[pre] = t.byKey[c]]

\* Taking out the entry behind its predecessor leaves the list sorted.
LEMMA UnsortedIs ==
  ASSUME NEW t, NEW chain, NEW idle, NEW sorted, NEW loose,
         Parted(t, chain, idle, sorted, loose),
         NEW m \in 1..Len(sorted), NEW c, c = sorted[m],
         Elements(sorted) = Used(chain) \cup {c}, c \notin Used(chain),
         NEW pre, pre = IF m = 1 THEN Nil ELSE sorted[m - 1]
  PROVE  /\ Whole(Unsorted(t, pre, c), chain, idle, Removed(sorted, m), loose)
         /\ Unsorted(t, pre, c).key = t.key
         /\ Unsorted(t, pre, c).allocated = t.allocated
<1> DEFINE u == Unsorted(t, pre, c)
           r == Removed(sorted, m)
<1>1. /\ t \in Table /\ Hashed(t, chain) /\ Queued(t, idle) /\ Ordered(t, sorted)
      /\ Shared(t, chain, idle, loose) /\ Heading(t)
  BY DEF Parted
<1>2. /\ Path(t.byKey, t.firstSorted, sorted) /\ sorted \in Seq(Cell) /\ Distinct(sorted)
      /\ Len(sorted) \in Nat /\ DOMAIN sorted = 1..Len(sorted)
      /\ \A i \in 1..Len(sorted) : sorted[i] \in Cell /\ sorted[i] # Nil
      /\ c \in Cell /\ Elements(sorted) \subseteq Cell
  <2>1. Path(t.byKey, t.firstSorted, sorted)
    BY <1>1 DEF Ordered
  <2>2. sorted \in Seq(Cell) /\ Distinct(sorted)
    BY <2>1 DEF Path
  <2>3. Len(sorted) \in Nat /\ DOMAIN sorted = 1..Len(sorted)
        /\ Elements(sorted) \subseteq Cell
        /\ \A i \in 1..Len(sorted) : sorted[i] \in Cell
    BY <2>1, PathElements
  <2> QED BY <2>1, <2>2, <2>3, Cells
<1>3. /\ r \in Seq(Cell) /\ Len(r) = Len(sorted) - 1 /\ DOMAIN r = 1..(Len(sorted) - 1)
      /\ Elements(r) = Used(chain)
  <2>1. /\ r \in Seq(Cell) /\ Len(r) = Len(sorted) - 1
        /\ Elements(r) = Elements(sorted) \ {sorted[m]}
    BY <1>2, RemovedIs
  <2> QED BY <2>1
<1>4. \A i, j \in DOMAIN r : i < j => t.key[r[i]] < t.key[r[j]]
  <2>1. \A i, j \in 1..Len(sorted) : i < j => t.key[sorted[i]] < t.key[sorted[j]]
    BY <1>1, <1>2 DEF Ordered
  <2>2. \A i, j \in 1..(Len(sorted) - 1) : i < j => t.key[r[i]] < t.key[r[j]]
    BY <1>2, <2>1, OrderRemoved
  <2> QED BY <1>3, <2>2
<1> HIDE DEF r
<1>5. ASSUME NEW b \in [Cell -> CellOrNil], NEW f \in CellOrNil, u = Resorted(t, b, f),
             Path(b, f, r)
      PROVE  Whole(u, chain, idle, r, loose) /\ u.key = t.key /\ u.allocated = t.allocated
  <2> HIDE DEF u
  <2>1. /\ u \in Table /\ Hashed(u, chain) /\ Queued(u, idle) /\ Shared(u, chain, idle, loose)
        /\ Heading(u) /\ u.key = t.key /\ u.byKey = b /\ u.firstSorted = f
        /\ u.allocated = t.allocated
    BY <1>1, <1>5, ResortedIs
  <2>2. Ordered(u, r)
    BY <1>4, <1>5, <2>1 DEF Ordered
  <2> QED BY <1>3, <2>1, <2>2 DEF Whole, Parted
<1>6. t.byKey \in [Cell -> CellOrNil] /\ t.byKey[c] \in CellOrNil /\ t.firstSorted \in CellOrNil
  BY <1>1, <1>2, Fields
<1>7. CASE m = 1
  <2>1. u = Resorted(t, t.byKey, t.byKey[c])
    BY <1>1, <1>7 DEF Unsorted, Resorted, Table
  <2> HIDE DEF u
  <2>5. Len(sorted) # 0 /\ c = sorted[1]
    BY <1>2, <1>7
  <2>2. t.firstSorted = c /\ Len(sorted) # 0
    BY <1>2, <2>5 DEF Path
  <2>3. Path(t.byKey, t.byKey[t.firstSorted], Removed(sorted, 1))
    BY <1>2, <2>2, PathRemoveFirst
  <2>4. Path(t.byKey, t.byKey[c], r)
    BY <1>7, <2>2, <2>3 DEF r
  <2> QED BY <1>5, <1>6, <2>1, <2>4 DEF u, r
<1>8. CASE m # 1
  <2> DEFINE b == [t.byKey EXCEPT ![pre] = t.byKey[c]]
  <2>1. m \in 2..Len(sorted) /\ m - 1 \in 1..Len(sorted) /\ pre = sorted[m - 1]
        /\ pre \in Cell /\ pre # Nil
    <3>1. m \in 2..Len(sorted) /\ m - 1 \in 1..Len(sorted)
      BY <1>2, <1>8
    <3> QED BY <1>2, <1>8, <3>1
  <2>2. u = Resorted(t, b, t.firstSorted)
    BY <1>1, <2>1 DEF Unsorted, Resorted, Table
  <2>3. b \in [Cell -> CellOrNil] /\ b[pre] = t.byKey[c]
        /\ \A y \in Cell : y # pre => b[y] = t.byKey[y]
    BY <1>6, <2>1
  <2> HIDE DEF b, u
  <2>4. Path(b, t.firstSorted, r)
    <3>1. b[sorted[m - 1]] = t.byKey[sorted[m]]
      BY <2>1, <2>3
    <3>2. \A y \in Elements(sorted) \ {sorted[m - 1], sorted[m]} : b[y] = t.byKey[y]
      BY <1>2, <2>1, <2>3
    <3> QED BY <1>2, <2>1, <3>1, <3>2, PathRemove DEF r
  <2> QED BY <1>5, <1>6, <2>2, <2>3, <2>4 DEF u, r
<1> QED BY <1>7, <1>8

\* The pointers along a path.
LEMMA RelinkedIs ==
  ASSUME NEW next \in [Cell -> CellOrNil], NEW path \in Seq(Cell), Distinct(path),
         NEW rest \in CellOrNil
  PROVE  /\ Relinked(next, path, rest) \in [Cell -> CellOrNil]
         /\ \A c \in Cell \ Elements(path) : Relinked(next, path, rest)[c] = next[c]
         /\ \A i \in 1..Len(path) :
              Relinked(next, path, rest)[path[i]] = IF i = Len(path) THEN rest ELSE path[i + 1]
<1> DEFINE n == Len(path)
           at(c) == CHOOSE i \in 1..n : path[i] = c
           v(c) == IF \A i \in 1..n : path[i] # c THEN next[c]
                   ELSE IF at(c) = n THEN rest ELSE path[at(c) + 1]
<1>1. n \in Nat /\ DOMAIN path = 1..n /\ \A i \in 1..n : path[i] \in Cell
  OBVIOUS
<1>2. Relinked(next, path, rest) = [c \in Cell |-> v(c)]
  BY Zenon DEF Relinked
<1>3. ASSUME NEW i \in 1..n PROVE at(path[i]) = i
  <2>1. \A k, l \in 1..n : path[k] = path[l] => k = l
    BY <1>1 DEF Distinct
  <2>2. \E k \in 1..n : path[k] = path[i]
    OBVIOUS
  <2>3. at(path[i]) \in 1..n /\ path[at(path[i])] = path[i]
    BY <2>2
  <2> HIDE DEF at
  <2> QED BY <2>1, <2>3
<1> HIDE DEF at
<1>4. \A i \in 1..n : v(path[i]) = IF i = n THEN rest ELSE path[i + 1]
  BY <1>3
<1>5. \A c \in Cell \ Elements(path) : v(c) = next[c]
  BY <1>1 DEF Elements
<1>6. \A i \in 1..n : i # n => i + 1 \in 1..n
  <2>1. \A k \in Nat : \A i \in 1..k : i # k => i + 1 \in 1..k
    OBVIOUS
  <2> HIDE DEF n
  <2> QED BY <1>1, <2>1
<1>7. \A c \in Cell : v(c) \in CellOrNil
  <2> SUFFICES ASSUME NEW c \in Cell PROVE v(c) \in CellOrNil
    OBVIOUS
  <2>1. CASE \A i \in 1..n : path[i] # c
    BY <2>1
  <2>2. CASE \E i \in 1..n : path[i] = c
    <3>1. PICK i \in 1..n : path[i] = c
      BY <2>2
    <3>2. v(c) = IF i = n THEN rest ELSE path[i + 1]
      BY <1>4, <3>1
    <3>3. i # n => path[i + 1] \in CellOrNil
      BY <1>1, <1>6, Cells
    <3> HIDE DEF v
    <3> QED BY <3>2, <3>3
  <2> QED BY <2>1, <2>2
<1> HIDE DEF v
<1> QED BY <1>1, <1>2, <1>4, <1>5, <1>7

\* Cells that belong nowhere join the free list at its end.
LEMMA FreedIs ==
  ASSUME NEW t, NEW chain, NEW idle, NEW sorted, NEW cells \in Seq(Cell), Distinct(cells),
         Whole(t, chain, idle, sorted, Elements(cells))
  PROVE  /\ Whole(Freed(t, cells), chain, idle \o cells, sorted, {})
         /\ \A d \in Used(chain) : Freed(t, cells).key[d] = t.key[d]
         /\ Freed(t, cells).allocated = t.allocated
<1> DEFINE u == Freed(t, cells)
           path == <<t.lastFree>> \o cells
           loose == Elements(cells)
           queue == idle \o cells
<1>1. /\ t \in Table /\ Hashed(t, chain) /\ Queued(t, idle) /\ Ordered(t, sorted)
      /\ Shared(t, chain, idle, loose) /\ Heading(t)
      /\ Parted(t, chain, idle, sorted, loose) /\ Elements(sorted) = Used(chain)
  BY DEF Whole, Parted
<1>2. /\ Path(t.next, t.firstFree, idle) /\ Len(idle) \in Nat /\ Len(idle) # 0
      /\ t.lastFree = idle[Len(idle)] /\ t.lastFree \in Cell /\ t.lastFree \in Elements(idle)
      /\ Elements(idle) \subseteq Cell /\ Len(idle) = t.numFree + Margin
      /\ idle \in Seq(Cell)
  <2>1. Path(t.next, t.firstFree, idle) /\ idle[Len(idle)] = t.lastFree
        /\ Len(idle) = t.numFree + Margin /\ t.numFree \in Nat /\ t.lastFree \in Cell
    BY <1>1, Fields, Numbers DEF Queued
  <2>2. /\ idle \in Seq(Cell) /\ Len(idle) \in Nat /\ Elements(idle) \subseteq Cell
        /\ Elements(idle) = {idle[i] : i \in 1..Len(idle)}
    BY <2>1, PathElements
  <2>3. Len(idle) # 0 /\ Len(idle) \in 1..Len(idle)
    BY <2>1, <2>2, Numbers
  <2> QED BY <2>1, <2>2, <2>3
<1>3. /\ Elements(idle) \cap loose = {} /\ Used(chain) \cap loose = {}
      /\ Elements(idle) \cap Used(chain) = {} /\ Used(chain) \subseteq Cell
      /\ loose \subseteq Cell /\ t.lastFree \notin loose
  <2>1. Used(chain) \subseteq Cell
    BY <1>1, UsedCells
  <2>2. loose \subseteq Cell
    BY DEF Elements
  <2> HIDE DEF loose
  <2> QED BY <1>1, <1>2, <2>1, <2>2 DEF Shared
<1>4. /\ path \in Seq(Cell) /\ Len(path) = Len(cells) + 1 /\ path[1] = t.lastFree
      /\ \A i \in 1..Len(cells) : path[i + 1] = cells[i]
      /\ Len(cells) \in Nat /\ DOMAIN cells = 1..Len(cells)
      /\ DOMAIN path = 1..(Len(cells) + 1)
  <2>1. /\ <<t.lastFree>> \in Seq(Cell) /\ Len(<<t.lastFree>>) = 1
        /\ <<t.lastFree>>[1] = t.lastFree
    BY <1>2
  <2>2. /\ path \in Seq(Cell) /\ Len(path) = 1 + Len(cells)
        /\ \A i \in 1..(1 + Len(cells)) :
             path[i] = IF i <= 1 THEN <<t.lastFree>>[i] ELSE cells[i - 1]
    BY <2>1, ConcatProperties
  <2>3. Len(cells) \in Nat /\ DOMAIN cells = 1..Len(cells)
    OBVIOUS
  <2> HIDE DEF path
  <2>4. \A i \in 1..Len(cells) : path[i + 1] = cells[i]
    <3> SUFFICES ASSUME NEW i \in 1..Len(cells) PROVE path[i + 1] = cells[i]
      OBVIOUS
    <3>1. i + 1 \in 1..(1 + Len(cells)) /\ ~(i + 1 <= 1) /\ (i + 1) - 1 = i
      BY <2>3
    <3> QED BY <2>2, <3>1
  <2>5. 1 \in 1..(1 + Len(cells)) /\ 1 + Len(cells) = Len(cells) + 1
    BY <2>3
  <2>6. path[1] = t.lastFree
    BY <2>1, <2>2, <2>5
  <2> QED BY <2>2, <2>3, <2>4, <2>5, <2>6
<1> HIDE DEF path
<1>5. \A i \in 1..(Len(cells) + 1) :
        \/ i = 1 /\ path[i] = t.lastFree
        \/ i # 1 /\ i - 1 \in 1..Len(cells) /\ path[i] = cells[i - 1]
  <2> SUFFICES ASSUME NEW i \in 1..(Len(cells) + 1), i # 1
               PROVE  i - 1 \in 1..Len(cells) /\ path[i] = cells[i - 1]
    BY <1>4
  <2>1. i - 1 \in 1..Len(cells) /\ (i - 1) + 1 = i
    BY <1>4
  <2> QED BY <1>4, <2>1
<1>6. Distinct(path) /\ Elements(path) = {t.lastFree} \cup loose
  <2>1. \A i \in 1..Len(cells) : cells[i] \in loose
    BY <1>4 DEF Elements
  <2>2. \A k, l \in 1..Len(cells) : cells[k] = cells[l] => k = l
    BY <1>4 DEF Distinct
  <2>3. Distinct(path)
    <3> SUFFICES ASSUME NEW i \in 1..(Len(cells) + 1), NEW j \in 1..(Len(cells) + 1),
                        path[i] = path[j]
                 PROVE  i = j
      BY <1>4 DEF Distinct
    <3>1. i = 1 <=> j = 1
      BY <1>3, <1>5, <2>1
    <3>2. CASE i # 1
      <4>1. i - 1 = j - 1
        BY <1>5, <2>2, <3>1, <3>2
      <4> QED BY <4>1
    <3> QED BY <3>1, <3>2
  <2>4. \A d \in Elements(path) : d \in {t.lastFree} \cup loose
    <3> SUFFICES ASSUME NEW d \in Elements(path) PROVE d \in {t.lastFree} \cup loose
      OBVIOUS
    <3>1. PICK i \in 1..(Len(cells) + 1) : d = path[i]
      BY <1>4 DEF Elements
    <3> HIDE DEF loose
    <3> QED BY <1>5, <2>1, <3>1
  <2>5. \A d \in {t.lastFree} \cup loose : d \in Elements(path)
    <3>1. 1 \in 1..(Len(cells) + 1) /\ \A i \in 1..Len(cells) : i + 1 \in 1..(Len(cells) + 1)
      BY <1>4
    <3> QED BY <1>4, <3>1 DEF Elements
  <2> QED BY <2>3, <2>4, <2>5
<1>7. u = [t EXCEPT
            !.free = [d \in Cell |-> t.free[d] \/ d \in loose],
            !.key = [d \in Cell |-> IF d \in loose THEN FirstKey ELSE t.key[d]],
            !.byKey = [d \in Cell |-> IF d \in loose THEN Nil ELSE t.byKey[d]],
            !.next = Relinked(t.next, path, Nil),
            !.lastFree = path[Len(path)], !.numFree = t.numFree + Len(cells)]
  BY <1>1 DEF Freed, Blank, Table, path
<1> HIDE DEF u, loose
<1>8. /\ u.header = t.header /\ u.firstFree = t.firstFree /\ u.firstSorted = t.firstSorted
      /\ u.numUsed = t.numUsed /\ u.allocated = t.allocated
      /\ u.sortedHeader = t.sortedHeader
      /\ u.free = [d \in Cell |-> t.free[d] \/ d \in loose]
      /\ u.key = [d \in Cell |-> IF d \in loose THEN FirstKey ELSE t.key[d]]
      /\ u.byKey = [d \in Cell |-> IF d \in loose THEN Nil ELSE t.byKey[d]]
      /\ u.next = Relinked(t.next, path, Nil)
      /\ u.lastFree = path[Len(path)] /\ u.numFree = t.numFree + Len(cells)
  BY <1>1, <1>7 DEF Table
<1>9. /\ u.next \in [Cell -> CellOrNil]
      /\ \A d \in Cell : d # t.lastFree /\ d \notin loose => u.next[d] = t.next[d]
      /\ \A i \in 1..Len(path) : u.next[path[i]] = IF i = Len(path) THEN Nil ELSE path[i + 1]
  <2>1. t.next \in [Cell -> CellOrNil] /\ Nil \in CellOrNil
    BY <1>1, Fields, Cells
  <2>2. path \in Seq(Cell) /\ Distinct(path)
    BY <1>4, <1>6
  <2>3. /\ u.next \in [Cell -> CellOrNil]
        /\ \A d \in Cell \ Elements(path) : u.next[d] = t.next[d]
        /\ \A i \in 1..Len(path) :
             u.next[path[i]] = IF i = Len(path) THEN Nil ELSE path[i + 1]
    <3>1. u.next = Relinked(t.next, path, Nil)
      BY <1>8
    <3> DEFINE next == t.next
    <3>2. next \in [Cell -> CellOrNil]
      BY <2>1
    <3>3. u.next = Relinked(next, path, Nil) /\ \A d : u.next[d] = t.next[d] <=> u.next[d] = next[d]
      BY <3>1
    <3> HIDE DEF next
    <3>4. /\ Relinked(next, path, Nil) \in [Cell -> CellOrNil]
          /\ \A d \in Cell \ Elements(path) : Relinked(next, path, Nil)[d] = next[d]
          /\ \A i \in 1..Len(path) :
               Relinked(next, path, Nil)[path[i]] = IF i = Len(path) THEN Nil ELSE path[i + 1]
      BY <2>1, <2>2, <3>2, RelinkedIs
    <3> QED BY <3>3, <3>4
  <2> QED BY <1>6, <2>3
<1>10. \A d \in Cell : d \notin loose => /\ u.free[d] = t.free[d] /\ u.key[d] = t.key[d]
                                         /\ u.byKey[d] = t.byKey[d]
  <2>1. \A d \in Cell : t.free[d] \in BOOLEAN
    BY <1>1, Fields
  <2> QED BY <1>8, <2>1
<1>11. /\ Path(u.next, u.firstFree, queue) /\ Elements(queue) = Elements(idle) \cup loose
       /\ Len(queue) = Len(idle) + Len(cells) /\ queue[Len(queue)] = path[Len(path)]
  <2>1. \A y \in Elements(idle) \ {idle[Len(idle)]} : u.next[y] = t.next[y]
    BY <1>2, <1>3, <1>9
  <2>2. u.next[idle[Len(idle)]] = IF Len(cells) = 0 THEN Nil ELSE cells[1]
    <3>1. 1 \in 1..Len(path) /\ (1 = Len(path) <=> Len(cells) = 0)
      BY <1>4
    <3>2. Len(cells) # 0 => path[1 + 1] = cells[1]
      BY <1>4
    <3>3. u.next[path[1]] = IF 1 = Len(path) THEN Nil ELSE path[1 + 1]
      BY <1>9, <3>1
    <3> QED BY <1>2, <1>4, <3>1, <3>2, <3>3
  <2>3. ASSUME NEW i \in 1..Len(cells)
        PROVE  u.next[cells[i]] = IF i = Len(cells) THEN Nil ELSE cells[i + 1]
    <3>6. Len(cells) \in Nat /\ Len(path) = Len(cells) + 1
      BY <1>4
    <3>1. i + 1 \in 1..Len(path) /\ (i + 1 = Len(path) <=> i = Len(cells))
      BY <3>6
    <3>2. path[i + 1] = cells[i]
      BY <1>4
    <3>3. i # Len(cells) => i + 1 \in 1..Len(cells)
      <4>1. \A n \in Nat : \A k \in 1..n : k # n => k + 1 \in 1..n
        OBVIOUS
      <4> QED BY <1>4, <4>1
    <3>4. i # Len(cells) => path[(i + 1) + 1] = cells[i + 1]
      BY <1>4, <3>3
    <3>5. u.next[path[i + 1]] = IF i + 1 = Len(path) THEN Nil ELSE path[(i + 1) + 1]
      BY <1>9, <3>1
    <3> QED BY <3>1, <3>2, <3>4, <3>5
  <2>4. Elements(idle) \cap Elements(cells) = {}
    BY <1>3 DEF loose
  <2>5. Path(u.next, t.firstFree, queue) /\ Elements(queue) = Elements(idle) \cup Elements(cells)
    <3>1. Path(t.next, t.firstFree, idle) /\ Len(idle) # 0
      BY <1>2
    <3> QED BY <2>1, <2>2, <2>3, <2>4, <3>1, PathJoined
  <2>6. /\ Len(queue) = Len(idle) + Len(cells)
        /\ \A i \in 1..(Len(idle) + Len(cells)) :
             queue[i] = IF i <= Len(idle) THEN idle[i] ELSE cells[i - Len(idle)]
    BY <1>2, ConcatProperties
  <2> HIDE DEF queue
  <2>7. queue[Len(queue)] = path[Len(path)]
    <3>1. CASE Len(cells) = 0
      <4>1. Len(queue) = Len(idle) /\ Len(queue) \in 1..(Len(idle) + Len(cells))
            /\ Len(path) = 1
        BY <1>2, <1>4, <2>6, <3>1
      <4> QED BY <1>2, <1>4, <2>6, <4>1
    <3>2. CASE Len(cells) # 0
      <4>1. /\ Len(queue) \in 1..(Len(idle) + Len(cells)) /\ ~(Len(queue) <= Len(idle))
            /\ Len(queue) - Len(idle) = Len(cells) /\ Len(cells) \in 1..Len(cells)
        BY <1>2, <1>4, <2>6, <3>2
      <4>2. queue[Len(queue)] = cells[Len(cells)]
        BY <2>6, <4>1
      <4> QED BY <1>4, <4>1, <4>2
    <3> QED BY <3>1, <3>2
  <2> QED BY <1>8, <2>5, <2>6, <2>7 DEF loose
<1> HIDE DEF queue
<1>12. Hashed(u, chain)
  <2>1. \A d \in Used(chain) : u.next[d] = t.next[d] /\ u.key[d] = t.key[d] /\ u.free[d] = t.free[d]
    BY <1>2, <1>3, <1>9, <1>10
  <2>2. u.header = t.header
    BY <1>8
  <2> QED BY <1>1, <2>1, <2>2, HashedFrame
<1>13. Queued(u, queue)
  <2>1. \A d \in Elements(queue) : u.free[d]
    <3>1. \A d \in Elements(idle) : t.free[d]
      BY <1>1 DEF Queued
    <3>2. \A d \in Elements(idle) : u.free[d]
      BY <1>2, <1>3, <1>10, <3>1
    <3>3. \A d \in loose : u.free[d]
      BY <1>3, <1>8
    <3> QED BY <1>11, <3>2, <3>3
  <2>2. Len(queue) = u.numFree + Margin
    <3>1. t.numFree \in Nat
      BY <1>1, Fields, Numbers
    <3> QED BY <1>2, <1>4, <1>8, <1>11, <3>1, Numbers
  <2> QED BY <1>8, <1>11, <2>1, <2>2 DEF Queued
<1>14. Ordered(u, sorted)
  <2>1. \A d \in Elements(sorted) : u.byKey[d] = t.byKey[d] /\ u.key[d] = t.key[d]
    BY <1>1, <1>3, <1>10
  <2>2. u.firstSorted = t.firstSorted
    BY <1>8
  <2> QED BY <1>1, <2>1, <2>2, OrderedFrame
<1>15. Shared(u, chain, queue, {})
  <2>1. /\ 1..t.allocated = Elements(idle) \cup Used(chain) \cup loose
        /\ Cardinality(Used(chain)) = t.numUsed
        /\ AllocPortion = 0 => t.allocated = MaxEntries + Margin
    BY <1>1 DEF Shared
  <2> QED BY <1>3, <1>8, <1>11, <2>1 DEF Shared
<1>16. u \in Table
  <2>1. u.numFree \in 0..MaxEntries
    <3>1. Cardinality(loose) = Len(cells)
      BY DistinctLength DEF loose
    <3>2. /\ t.numFree \in Nat /\ t.numUsed \in Nat
          /\ t.numFree + Margin + t.numUsed + Len(cells) <= MaxEntries + Margin
      BY <1>1, <3>1, Total
    <3>3. Len(cells) \in Nat /\ u.numFree = t.numFree + Len(cells)
      BY <1>4, <1>8
    <3>4. \A a, b, d, m, n \in Nat : a + m + b + d <= n + m => a + d \in 0..n
      OBVIOUS
    <3> QED BY <3>2, <3>3, <3>4, Numbers
  <2>2. path[Len(path)] \in Cell
    <3>1. Len(path) \in 1..Len(path)
      BY <1>4
    <3> QED BY <1>4, <3>1
  <2>3. /\ u.free \in [Cell -> BOOLEAN] /\ u.key \in [Cell -> Key \union {FirstKey}]
        /\ u.byKey \in [Cell -> CellOrNil]
    BY <1>1, <1>8, Fields, Cells
  <2>4. u = [t EXCEPT !.free = u.free, !.key = u.key, !.byKey = u.byKey, !.next = u.next,
                      !.lastFree = path[Len(path)], !.numFree = u.numFree]
    BY <1>7, <1>8
  <2> QED BY <1>1, <1>9, <2>1, <2>2, <2>3, <2>4 DEF Table
<1>17. Heading(u)
  BY <1>1, <1>8 DEF Heading
<1>18. \A d \in Used(chain) : u.key[d] = t.key[d]
  BY <1>3, <1>10
<1>19. Whole(u, chain, queue, sorted, {})
  BY <1>1, <1>12, <1>13, <1>14, <1>15, <1>16, <1>17 DEF Whole, Parted
<1> QED BY <1>8, <1>18, <1>19 DEF u, queue

\* What DeleteHash makes of a table.
AfterDelete(t, k) ==
  LET c         == Search(t, k)
      unchained == Unchained(t, HashOf[k], c)
  IN  Freed(Counted(Unsorted(Probed(unchained, k), PreSorted(unchained, k), c)), <<c>>)

\* DeleteHash does that to the table, for a key that it finds.
LEMMA DeleteMakes ==
  ASSUME NEW k \in Key, DeleteHash(k)
  PROVE  table' = AfterDelete(table, k) /\ Search(table, k) # Nil
BY Zenon DEF DeleteHash, AfterDelete, Unsorted

\* A deletion gives the cell back at the end of the free list.
LEMMA DeleteIs ==
  ASSUME NEW t, NEW chain, NEW idle, NEW sorted, Whole(t, chain, idle, sorted, {}),
         NEW k \in Key, NEW c \in Used(chain), t.key[c] = k
  PROVE  \E chain2, sorted2 :
           /\ Whole(AfterDelete(t, k), chain2, idle \o <<c>>, sorted2, {})
           /\ Used(chain2) = Used(chain) \ {c}
           /\ \A d \in Used(chain2) : AfterDelete(t, k).key[d] = t.key[d]
           /\ AfterDelete(t, k).allocated = t.allocated
<1> DEFINE unchained == Unchained(t, HashOf[k], c)
           probed == Probed(unchained, k)
           unlinked == Unsorted(probed, PreSorted(unchained, k), c)
           counted == Counted(unlinked)
           freed == Freed(counted, <<c>>)
<1>1. /\ t \in Table /\ Hashed(t, chain) /\ Ordered(t, sorted) /\ Elements(sorted) = Used(chain)
      /\ Shared(t, chain, idle, {})
  BY DEF Whole, Parted
<1>2. Search(t, k) = c
  BY <1>1, SearchIs, CellOfIs
<1>3. HashOf[k] \in Bucket /\ c \in Elements(chain[HashOf[k]]) /\ c \in Cell
  BY <1>1, UsedCells
<1>4. AfterDelete(t, k) = freed
  BY <1>2 DEF AfterDelete
<1>5. PICK chain2 :
        /\ Parted(unchained, chain2, idle, sorted, {c})
        /\ Used(chain2) = Used(chain) \ {c}
        /\ unchained.key = t.key /\ unchained.allocated = t.allocated
  <2> DEFINE b == HashOf[k]
  <2>1. b \in Bucket /\ c \in Elements(chain[b]) /\ unchained = Unchained(t, b, c)
    BY <1>3
  <2> HIDE DEF b, unchained
  <2>2. \E chain2 :
           /\ Parted(Unchained(t, b, c), chain2, idle, sorted, {c})
           /\ Used(chain2) = Used(chain) \ {c}
           /\ Unchained(t, b, c).key = t.key
           /\ Unchained(t, b, c).allocated = t.allocated
    BY <2>1, UnchainedIs
  <2> QED BY <2>1, <2>2
<1> HIDE DEF unchained
<1>6. /\ Parted(probed, chain2, idle, sorted, {c})
      /\ probed.key = t.key /\ probed.allocated = t.allocated
  <2>1. unchained \in Table
    BY <1>5 DEF Parted
  <2>2. SameLists(unchained, probed)
    BY <2>1, ProbedIs
  <2> QED BY <1>5, <2>2, ProbedKeeps DEF SameLists
<1> HIDE DEF probed
<1>7. /\ unchained \in Table /\ Hashed(unchained, chain2) /\ Ordered(unchained, sorted)
      /\ Heading(unchained)
  BY <1>5 DEF Parted
<1>8. PICK m \in 1..Len(sorted) : c = sorted[m]
  <2>1. c \in Elements(sorted) /\ Path(t.byKey, t.firstSorted, sorted)
    BY <1>1 DEF Ordered
  <2> QED BY <2>1, PathElements
<1>9. /\ Len(sorted) \in Nat /\ DOMAIN sorted = 1..Len(sorted) /\ m \in Nat
      /\ \A i \in 1..Len(sorted) : unchained.key[sorted[i]] \in Nat
      /\ \A i, j \in 1..Len(sorted) :
           i < j => unchained.key[sorted[i]] < unchained.key[sorted[j]]
      /\ unchained.key[sorted[m]] = k /\ k \in Nat
  <2>1. Path(unchained.byKey, unchained.firstSorted, sorted)
    BY <1>7 DEF Ordered
  <2>2. Len(sorted) \in Nat /\ DOMAIN sorted = 1..Len(sorted)
        /\ \A i \in 1..Len(sorted) : sorted[i] \in Cell
    BY <2>1, PathElements
  <2>3. \A d \in Cell : unchained.key[d] \in Nat
    BY <1>7, Fields, Numbers
  <2>4. k \in Nat
    BY Numbers
  <2>5. \A i, j \in 1..Len(sorted) :
          i < j => unchained.key[sorted[i]] < unchained.key[sorted[j]]
    BY <1>7, <2>2 DEF Ordered
  <2> QED BY <1>5, <1>8, <2>2, <2>3, <2>4, <2>5
<1>10. PreSorted(unchained, k) = IF m = 1 THEN Nil ELSE sorted[m - 1]
  <2>1. m - 1 \in 0..Len(sorted) /\ (m - 1) + 1 = m /\ (m = 1 <=> m - 1 = 0)
    BY <1>9
  <2>2. \A i \in 1..(m - 1) : unchained.key[sorted[i]] < k
    <3>1. \A i \in 1..(m - 1) : i \in 1..Len(sorted) /\ i < m
      BY <1>9
    <3> QED BY <1>9, <3>1
  <2>3. \A i \in m..Len(sorted) : unchained.key[sorted[i]] >= k
    <3> SUFFICES ASSUME NEW i \in m..Len(sorted) PROVE unchained.key[sorted[i]] >= k
      OBVIOUS
    <3>1. i \in 1..Len(sorted) /\ (i = m \/ m < i)
      BY <1>9
    <3>2. unchained.key[sorted[i]] \in Nat /\ unchained.key[sorted[m]] = k
      BY <1>9, <3>1
    <3>3. i = m \/ k < unchained.key[sorted[i]]
      BY <1>9, <3>1
    <3> QED BY <1>9, <3>2, <3>3
  <2>4. \A d \in Used(chain2) : unchained.key[d] < k => d \in Elements(sorted)
    BY <1>1, <1>5
  <2> DEFINE p == m - 1
  <2>5. p \in 0..Len(sorted) /\ p + 1 = m
    BY <2>1
  <2>6. \A i \in 1..p : unchained.key[sorted[i]] < k
    BY <2>2
  <2> HIDE DEF p
  <2>7. \A i \in (p + 1)..Len(sorted) : unchained.key[sorted[i]] >= k
    BY <2>3, <2>5
  <2>8. unchained \in Table /\ Hashed(unchained, chain2) /\ Ordered(unchained, sorted)
        /\ Heading(unchained)
    BY <1>7
  <2>9. PreSorted(unchained, k) = IF p = 0 THEN Nil ELSE sorted[p]
    BY <2>4, <2>5, <2>6, <2>7, <2>8, PreSortedIs
  <2> QED BY <2>1, <2>9 DEF p
<1>11. /\ Whole(unlinked, chain2, idle, Removed(sorted, m), {c})
       /\ unlinked.key = t.key /\ unlinked.allocated = t.allocated
  <2>1. Elements(sorted) = Used(chain2) \cup {c} /\ c \notin Used(chain2)
    BY <1>1, <1>5
  <2> QED BY <1>6, <1>8, <1>10, <2>1, UnsortedIs
<1> HIDE DEF unlinked
<1>12. /\ Whole(counted, chain2, idle, Removed(sorted, m), {c})
       /\ counted.key = t.key /\ counted.allocated = t.allocated
  BY <1>11, CountedKeeps DEF SameLists
<1> HIDE DEF counted
<1>13. /\ Whole(freed, chain2, idle \o <<c>>, Removed(sorted, m), {})
       /\ \A d \in Used(chain2) : freed.key[d] = t.key[d]
       /\ freed.allocated = t.allocated
  <2> DEFINE cells == <<c>>
  <2>1. cells \in Seq(Cell) /\ Distinct(cells) /\ Elements(cells) = {c}
    BY <1>3 DEF Distinct, Elements
  <2>3. freed = Freed(counted, cells) /\ idle \o <<c>> = idle \o cells
    OBVIOUS
  <2> HIDE DEF cells, freed
  <2>2. Whole(counted, chain2, idle, Removed(sorted, m), Elements(cells))
    BY <1>12, <2>1
  <2>4. /\ Whole(Freed(counted, cells), chain2, idle \o cells, Removed(sorted, m), {})
        /\ \A d \in Used(chain2) : Freed(counted, cells).key[d] = counted.key[d]
        /\ Freed(counted, cells).allocated = counted.allocated
    BY <2>1, <2>2, FreedIs
  <2> QED BY <1>12, <2>3, <2>4
<1> QED BY <1>4, <1>5, <1>13

-----------------------------------------------------------------------------
(* CleanHash.                                                              *)

\* The chains one after the other, as CleanHash meets them.
Chains(t, N, f) ==
  [b \in 0..N |-> IF b = 0 THEN <<>> ELSE f[b - 1] \o Chain(t, b)]

\* The recursion that collects them has a solution.
LEMMA ChainsExist ==
  ASSUME NEW t, NEW N \in Nat
  PROVE  \E f : f = Chains(t, N, f)
<1> DEFINE Bad == {n \in Nat : ~ \E f : f = Chains(t, n, f)}
<1> SUFFICES ASSUME Bad # {} PROVE FALSE
  OBVIOUS
<1>1. PICK n \in Bad : \A m \in Bad : n <= m
  BY LeastExists
<1>2. n \in Nat /\ ~ \E f : f = Chains(t, n, f)
  OBVIOUS
<1>3. CASE n = 0
  <2> DEFINE f == [b \in 0..0 |-> <<>>]
  <2>1. f = Chains(t, 0, f)
    BY DEF Chains
  <2> QED BY <1>2, <1>3, <2>1
<1>4. CASE n # 0
  <2>1. n - 1 \in Nat /\ n - 1 \notin Bad
    BY <1>1, <1>2, <1>4
  <2>2. PICK f : f = Chains(t, n - 1, f)
    BY <2>1
  <2> DEFINE g == Chains(t, n, f)
  <2>3. \A b \in 0..(n - 1) : f[b] = IF b = 0 THEN <<>> ELSE f[b - 1] \o Chain(t, b)
    BY <2>2 DEF Chains
  <2>4. \A b \in 0..n : g[b] = IF b = 0 THEN <<>> ELSE f[b - 1] \o Chain(t, b)
    BY DEF Chains
  <2> HIDE DEF g
  <2>5. \A b \in 0..(n - 1) : b \in 0..n
    BY <1>2
  <2>6. \A b \in 0..(n - 1) : g[b] = f[b]
    BY <2>3, <2>4, <2>5
  <2>7. \A b \in 0..n : b # 0 => f[b - 1] = g[b - 1]
    <3>1. \A b \in 0..n : b # 0 => b - 1 \in 0..(n - 1)
      BY <1>2
    <3> QED BY <2>6, <3>1
  <2>8. Chains(t, n, f) = Chains(t, n, g)
    BY <2>7 DEF Chains
  <2>9. g = Chains(t, n, g)
    BY <2>8 DEF g
  <2> QED BY <1>2, <2>9
<1> QED BY <1>3, <1>4

\* No chains.
Empty == [b \in Bucket |-> <<>>]

\* Empty chains hold no cell.
LEMMA EmptyIs ==
  /\ Used(Empty) = {}
  /\ \A succ : Path(succ, Nil, <<>>)
  /\ Elements(<<>>) = {} /\ Distinct(<<>>) /\ <<>> \in Seq(Cell)
<1>1. Elements(<<>>) = {} /\ Distinct(<<>>) /\ <<>> \in Seq(Cell) /\ Len(<<>>) = 0
  BY DEF Elements, Distinct
<1>2. Used(Empty) = {}
  BY <1>1 DEF Used, Empty
<1> QED BY <1>1, <1>2 DEF Path

\* The chains one after the other.
Everything(t) ==
  LET all[b \in 0..NumBuckets] ==
        IF b = 0 THEN <<>> ELSE all[b - 1] \o Chain(t, b)
  IN  all[NumBuckets]

\* They are collected bucket by bucket.
LEMMA EverythingIsChains ==
  ASSUME NEW t
  PROVE  \E f : f = Chains(t, NumBuckets, f) /\ Everything(t) = f[NumBuckets]
<1> DEFINE g == CHOOSE all : all = [b \in 0..NumBuckets |->
                  IF b = 0 THEN <<>> ELSE all[b - 1] \o Chain(t, b)]
<1>1. \E f : f = Chains(t, NumBuckets, f)
  BY Numbers, ChainsExist
<1>2. g = Chains(t, NumBuckets, g)
  BY <1>1, Zenon DEF Chains
<1>3. Everything(t) = g[NumBuckets]
  BY Zenon DEF Everything
<1> QED BY <1>2, <1>3

\* They are the used cells, each of them once.
LEMMA EverythingIsUsed ==
  ASSUME NEW t \in Table, NEW chain, Hashed(t, chain)
  PROVE  /\ Everything(t) \in Seq(Cell) /\ Distinct(Everything(t))
         /\ Elements(Everything(t)) = Used(chain)
<1> DEFINE Upto(n) == UNION {Elements(chain[b]) : b \in 1..n}
<1>1. PICK f : f = Chains(t, NumBuckets, f) /\ Everything(t) = f[NumBuckets]
  BY EverythingIsChains
<1> DEFINE Good(n) == f[n] \in Seq(Cell) /\ Distinct(f[n]) /\ Elements(f[n]) = Upto(n)
           Bad == {n \in 0..NumBuckets : ~Good(n)}
<1>2. \A b \in 0..NumBuckets :
        f[b] = IF b = 0 THEN <<>> ELSE f[b - 1] \o Chain(t, b)
  BY <1>1 DEF Chains
<1>3. Bad = {}
  <2> SUFFICES ASSUME Bad # {} PROVE FALSE
    OBVIOUS
  <2>1. PICK n \in Bad : \A m \in Bad : n <= m
    <3>1. Bad \subseteq Nat
      BY Numbers
    <3> HIDE DEF Bad
    <3> QED BY <3>1, LeastExists
  <2>2. n \in 0..NumBuckets /\ ~Good(n) /\ n \in Nat
    BY Numbers
  <2>3. CASE n = 0
    <3>1. f[n] = <<>>
      BY <1>2, <2>2, <2>3
    <3>2. Upto(n) = {}
      <4>1. 1..0 = {}
        OBVIOUS
      <4> QED BY <2>3, <4>1
    <3>3. Good(n)
      BY <3>1, <3>2, EmptyIs
    <3> QED BY <2>2, <3>3
  <2>4. CASE n # 0
    <3> DEFINE m == n - 1
    <3>1. m \in 0..NumBuckets /\ m < n /\ n \in Bucket /\ m + 1 = n
      <4>1. n \in 0..NumBuckets /\ n \in Nat /\ NumBuckets \in Nat
        BY <2>2, Numbers
      <4> QED BY <2>4, <4>1 DEF Bucket
    <3>2. \A b \in 1..n : b = n \/ b \in 1..m
      BY <2>2
    <3>3. \A b \in 1..m : b \in Bucket /\ b # n /\ b \in 1..n
      BY <2>2, Numbers DEF Bucket
    <3>9. n \in 1..n
      BY <2>2, <2>4
    <3>4. f[n] = f[m] \o chain[n]
      <4>1. Chain(t, n) = chain[n]
        BY <3>1, ListsRead
      <4> QED BY <1>2, <2>2, <2>4, <4>1
    <3> HIDE DEF m
    <3>5. Good(m)
      <4>1. m \notin Bad
        BY <2>1, <2>2, <3>1
      <4> QED BY <3>1, <4>1
    <3>6. chain[n] \in Seq(Cell) /\ Distinct(chain[n])
      BY <3>1 DEF Hashed, Path
    <3>7. Upto(m) \cap Elements(chain[n]) = {}
      <4> SUFFICES ASSUME NEW b \in 1..m, NEW c \in Elements(chain[b]), c \in Elements(chain[n])
                   PROVE  FALSE
        OBVIOUS
      <4>1. b \in Bucket /\ n \in Bucket /\ b # n
        BY <3>1, <3>3
      <4>2. HashOf[t.key[c]] = b
        BY <4>1 DEF Hashed
      <4>3. HashOf[t.key[c]] = n
        BY <4>1 DEF Hashed
      <4> QED BY <4>1, <4>2, <4>3
    <3>8. Upto(n) = Upto(m) \cup Elements(chain[n])
      BY <3>2, <3>3, <3>9
    <3> HIDE DEF Upto
    <3>10. Good(n)
      BY <3>4, <3>5, <3>6, <3>7, <3>8, JoinedIs
    <3> QED BY <2>2, <3>10
  <2> QED BY <2>3, <2>4
<1>4. Good(NumBuckets)
  <2>1. NumBuckets \in 0..NumBuckets
    BY Numbers
  <2> QED BY <1>3, <2>1
<1>5. Upto(NumBuckets) = Used(chain)
  BY DEF Used, Bucket
<1> QED BY <1>1, <1>4, <1>5

\* The table without its entries.
Emptied(t) ==
  [t EXCEPT
    !.header = [b \in Bucket |-> Nil], !.firstSorted = Nil, !.numUsed = 0,
    !.sortedHeader = [i \in DOMAIN @ |->
       IF i \in {1, SortedHeaderSize} THEN @[i] ELSE FirstKey],
    !.refreshCtr = IF SortedHeaderSize = 0 THEN @ ELSE 0,
    !.refreshTreshold = IF SortedHeaderSize = 0 THEN @ ELSE 2 * MinRefresh]

\* Its used cells are then in no list.
LEMMA EmptiedIs ==
  ASSUME NEW t, NEW chain, NEW idle, NEW sorted, Whole(t, chain, idle, sorted, {})
  PROVE  /\ Whole(Emptied(t), Empty, idle, <<>>, Used(chain))
         /\ Emptied(t).allocated = t.allocated
<1> DEFINE u == Emptied(t)
           header == [i \in 1..SortedHeaderSize |->
             IF i \in {1, SortedHeaderSize} THEN t.sortedHeader[i] ELSE FirstKey]
<1>1. /\ t \in Table /\ Queued(t, idle) /\ Shared(t, chain, idle, {}) /\ Heading(t)
  BY DEF Whole, Parted
<1>2. /\ t.sortedHeader \in [1..SortedHeaderSize -> Key \union {FirstKey, LastKey}]
      /\ DOMAIN t.sortedHeader = 1..SortedHeaderSize
  BY <1>1, Fields
<1>3. header \in [1..SortedHeaderSize -> Key \union {FirstKey, LastKey}]
  BY <1>2
<1>4. /\ u.header = [b \in Bucket |-> Nil] /\ u.next = t.next /\ u.free = t.free
      /\ u.byKey = t.byKey /\ u.key = t.key
      /\ u.firstFree = t.firstFree /\ u.lastFree = t.lastFree /\ u.firstSorted = Nil
      /\ u.numFree = t.numFree /\ u.numUsed = 0 /\ u.allocated = t.allocated
      /\ u.sortedHeader = header
  BY <1>1, <1>2 DEF Emptied, Table
<1>5. u \in Table
  <2>1. [b \in Bucket |-> Nil] \in [Bucket -> CellOrNil] /\ Nil \in CellOrNil
    BY Cells
  <2>2. 0 \in 0..MaxEntries
    BY Numbers
  <2>3. 0 \in 0..Max({MaxRefresh, 2 * MinRefresh})
        /\ 2 * MinRefresh \in 0..Max({MaxRefresh, 2 * MinRefresh})
    BY Limits DEF Limit
  <2> QED BY <1>1, <1>2, <1>3, <2>1, <2>2, <2>3 DEF Emptied, Table
<1>6. Heading(u)
  <2> SUFFICES ASSUME SortedHeaderSize # 0
               PROVE  /\ header[1] = FirstKey /\ header[SortedHeaderSize] = LastKey
                      /\ \A i, j \in 1..SortedHeaderSize : i <= j => header[i] <= header[j]
    BY <1>4 DEF Heading
  <2>1. /\ 1 \in 1..SortedHeaderSize /\ SortedHeaderSize \in 1..SortedHeaderSize
        /\ SortedHeaderSize # 1
    BY Numbers
  <2>2. t.sortedHeader[1] = FirstKey /\ t.sortedHeader[SortedHeaderSize] = LastKey
    BY <1>1 DEF Heading
  <2>3. ASSUME NEW i \in 1..SortedHeaderSize
        PROVE  header[i] = IF i = SortedHeaderSize THEN LastKey ELSE FirstKey
    BY <2>1, <2>2
  <2> HIDE DEF header
  <2>4. ASSUME NEW i \in 1..SortedHeaderSize, NEW j \in 1..SortedHeaderSize, i <= j
        PROVE  header[i] <= header[j]
    <3>1. i = SortedHeaderSize => j = SortedHeaderSize
      BY <2>4, Numbers
    <3>2. FirstKey <= LastKey /\ FirstKey <= FirstKey /\ LastKey <= LastKey
      BY Numbers
    <3> QED BY <2>3, <3>1, <3>2
  <2> QED BY <2>1, <2>3, <2>4
<1> HIDE DEF u, header
<1>7. Hashed(u, Empty)
  <2>1. \A b \in Bucket : Empty[b] = <<>> /\ u.header[b] = Nil
    BY <1>4 DEF Empty
  <2> QED BY <2>1, EmptyIs DEF Hashed
<1>8. Queued(u, idle)
  BY <1>1, <1>4 DEF Queued
<1>9. Ordered(u, <<>>)
  <2>1. DOMAIN <<>> = {}
    OBVIOUS
  <2> QED BY <1>4, <2>1, EmptyIs DEF Ordered
<1>10. Shared(u, Empty, idle, Used(chain))
  <2>1. Cardinality({}) = 0
    BY FS_EmptySet
  <2> QED BY <1>1, <1>4, <2>1, EmptyIs DEF Shared
<1>11. Elements(<<>>) = Used(Empty)
  BY EmptyIs
<1> QED BY <1>4, <1>5, <1>6, <1>7, <1>8, <1>9, <1>10, <1>11 DEF Whole, Parted, u

\* What CleanHash makes of a table.
AfterClean(t) ==
  [Freed(t, Everything(t)) EXCEPT
    !.header = [b \in Bucket |-> Nil], !.firstSorted = Nil, !.numUsed = 0,
    !.sortedHeader = [i \in DOMAIN @ |->
       IF i \in {1, SortedHeaderSize} THEN @[i] ELSE FirstKey],
    !.refreshCtr = IF SortedHeaderSize = 0 THEN @ ELSE 0,
    !.refreshTreshold = IF SortedHeaderSize = 0 THEN @ ELSE 2 * MinRefresh]

\* CleanHash does that to the table.
LEMMA CleanMakes ==
  ASSUME CleanHash
  PROVE  table' = AfterClean(table)
BY Zenon DEF CleanHash, AfterClean, Everything

\* The fields that Freed and the rest of CleanHash write.
Refilled(t, free, key, byKey, next, lastFree, numFree) ==
  [t EXCEPT !.free = free, !.key = key, !.byKey = byKey, !.next = next,
            !.lastFree = lastFree, !.numFree = numFree]
NowFree(free, cells) == [c \in Cell |-> free[c] \/ c \in cells]
NowBlank(key, cells, blank) == [c \in Cell |-> IF c \in cells THEN blank ELSE key[c]]

\* Freed writes these fields,
LEMMA FreedForm ==
  ASSUME NEW t \in Table, NEW cells
  PROVE  Freed(t, cells) =
           Refilled(t, NowFree(t.free, Elements(cells)),
                    NowBlank(t.key, Elements(cells), FirstKey),
                    NowBlank(t.byKey, Elements(cells), Nil),
                    Relinked(t.next, <<t.lastFree>> \o cells, Nil),
                    (<<t.lastFree>> \o cells)[Len(<<t.lastFree>> \o cells)],
                    t.numFree + Len(cells))
<1> DEFINE free == NowFree(t.free, Elements(cells))
           key == NowBlank(t.key, Elements(cells), FirstKey)
           byKey == NowBlank(t.byKey, Elements(cells), Nil)
           path == <<t.lastFree>> \o cells
           next == Relinked(t.next, path, Nil)
           end == path[Len(path)]
           num == t.numFree + Len(cells)
           blank == [t EXCEPT !.free = free, !.key = key, !.byKey = byKey]
<1>1. Blank(t, Elements(cells)) = blank
  BY Zenon DEF Blank, NowFree, NowBlank
<1>2. Freed(t, cells) = [blank EXCEPT !.next = Relinked(@, path, Nil),
                           !.lastFree = end, !.numFree = @ + Len(cells)]
  BY <1>1, Zenon DEF Freed
<1> HIDE DEF free, key, byKey, path, end
<1>3. blank.next = t.next /\ blank.numFree = t.numFree
  BY DEF Table
<1>4. Freed(t, cells) = [blank EXCEPT !.next = next, !.lastFree = end, !.numFree = num]
  BY <1>2, <1>3, Zenon
<1> HIDE DEF next, num
<1>5. Freed(t, cells) = Refilled(t, free, key, byKey, next, end, num)
  BY <1>4 DEF Refilled, Table
<1> QED BY <1>5 DEF free, key, byKey, path, next, end, num

Cleared(t, header, sortedHeader, ctr, treshold) ==
  [t EXCEPT !.header = header, !.firstSorted = Nil, !.numUsed = 0,
            !.sortedHeader = sortedHeader, !.refreshCtr = ctr,
            !.refreshTreshold = treshold]
NoKeys(header) ==
  [i \in DOMAIN header |-> IF i \in {1, SortedHeaderSize} THEN header[i] ELSE FirstKey]

\* the rest of CleanHash these,
LEMMA EmptiedForm ==
  ASSUME NEW t
  PROVE  [t EXCEPT
           !.header = [b \in Bucket |-> Nil], !.firstSorted = Nil, !.numUsed = 0,
           !.sortedHeader = [i \in DOMAIN @ |->
              IF i \in {1, SortedHeaderSize} THEN @[i] ELSE FirstKey],
           !.refreshCtr = IF SortedHeaderSize = 0 THEN @ ELSE 0,
           !.refreshTreshold = IF SortedHeaderSize = 0 THEN @ ELSE 2 * MinRefresh]
         = Cleared(t, [b \in Bucket |-> Nil], NoKeys(t.sortedHeader),
                   IF SortedHeaderSize = 0 THEN t.refreshCtr ELSE 0,
                   IF SortedHeaderSize = 0 THEN t.refreshTreshold ELSE 2 * MinRefresh)
BY Zenon DEF Cleared, NoKeys

\* and the two may be exchanged.
LEMMA FieldsApart ==
  ASSUME NEW t \in Table, NEW free, NEW key, NEW byKey, NEW next, NEW lastFree, NEW numFree,
         NEW header, NEW sortedHeader, NEW ctr, NEW treshold
  PROVE  Cleared(Refilled(t, free, key, byKey, next, lastFree, numFree),
                 header, sortedHeader, ctr, treshold)
         = Refilled(Cleared(t, header, sortedHeader, ctr, treshold),
                    free, key, byKey, next, lastFree, numFree)
BY DEF Cleared, Refilled, Table

\* So freeing the cells first, as the code does, or last is the same.
LEMMA CleanOrder ==
  ASSUME NEW t \in Table, NEW cells, Emptied(t) \in Table
  PROVE  [Freed(t, cells) EXCEPT
           !.header = [b \in Bucket |-> Nil], !.firstSorted = Nil, !.numUsed = 0,
           !.sortedHeader = [i \in DOMAIN @ |->
              IF i \in {1, SortedHeaderSize} THEN @[i] ELSE FirstKey],
           !.refreshCtr = IF SortedHeaderSize = 0 THEN @ ELSE 0,
           !.refreshTreshold = IF SortedHeaderSize = 0 THEN @ ELSE 2 * MinRefresh]
         = Freed(Emptied(t), cells)
<1> DEFINE free == NowFree(t.free, Elements(cells))
           key == NowBlank(t.key, Elements(cells), FirstKey)
           byKey == NowBlank(t.byKey, Elements(cells), Nil)
           next == Relinked(t.next, <<t.lastFree>> \o cells, Nil)
           end == (<<t.lastFree>> \o cells)[Len(<<t.lastFree>> \o cells)]
           num == t.numFree + Len(cells)
           f == Freed(t, cells)
           u == Emptied(t)
           empty == [b \in Bucket |-> Nil]
           header == NoKeys(t.sortedHeader)
           ctr == IF SortedHeaderSize = 0 THEN t.refreshCtr ELSE 0
           treshold == IF SortedHeaderSize = 0 THEN t.refreshTreshold ELSE 2 * MinRefresh
<1>1. f = Refilled(t, free, key, byKey, next, end, num)
  BY FreedForm
<1>2. u = Cleared(t, empty, header, ctr, treshold)
  BY EmptiedForm, Zenon DEF Emptied
<1>3. Freed(u, cells) =
           Refilled(u, NowFree(u.free, Elements(cells)),
                    NowBlank(u.key, Elements(cells), FirstKey),
                    NowBlank(u.byKey, Elements(cells), Nil),
                    Relinked(u.next, <<u.lastFree>> \o cells, Nil),
                    (<<u.lastFree>> \o cells)[Len(<<u.lastFree>> \o cells)],
                    u.numFree + Len(cells))
  BY FreedForm
<1>4. [f EXCEPT
        !.header = [b \in Bucket |-> Nil], !.firstSorted = Nil, !.numUsed = 0,
        !.sortedHeader = [i \in DOMAIN @ |->
           IF i \in {1, SortedHeaderSize} THEN @[i] ELSE FirstKey],
        !.refreshCtr = IF SortedHeaderSize = 0 THEN @ ELSE 0,
        !.refreshTreshold = IF SortedHeaderSize = 0 THEN @ ELSE 2 * MinRefresh]
      = Cleared(f, empty, NoKeys(f.sortedHeader),
                   IF SortedHeaderSize = 0 THEN f.refreshCtr ELSE 0,
                   IF SortedHeaderSize = 0 THEN f.refreshTreshold ELSE 2 * MinRefresh)
  BY EmptiedForm
<1> HIDE DEF free, key, byKey, next, end, num, f, u, empty, header, ctr, treshold
<1>5. /\ f.sortedHeader = t.sortedHeader /\ f.refreshCtr = t.refreshCtr
      /\ f.refreshTreshold = t.refreshTreshold
  BY <1>1 DEF Refilled, Table
<1>6. /\ u.free = t.free /\ u.key = t.key /\ u.byKey = t.byKey /\ u.next = t.next
      /\ u.lastFree = t.lastFree /\ u.numFree = t.numFree
  BY <1>2 DEF Cleared, Table
<1>7. Freed(u, cells) = Refilled(u, free, key, byKey, next, end, num)
  BY <1>3, <1>6, Zenon DEF free, key, byKey, next, end, num
<1>8. Cleared(f, empty, NoKeys(f.sortedHeader),
                   IF SortedHeaderSize = 0 THEN f.refreshCtr ELSE 0,
                   IF SortedHeaderSize = 0 THEN f.refreshTreshold ELSE 2 * MinRefresh)
      = Cleared(f, empty, header, ctr, treshold)
  BY <1>5, Zenon DEF header, ctr, treshold
<1>9. Cleared(f, empty, header, ctr, treshold) = Freed(u, cells)
  BY <1>1, <1>2, <1>7, FieldsApart
<1> QED BY <1>4, <1>8, <1>9 DEF f, u

\* CleanHash puts every cell of the chains behind the free list.
LEMMA CleanIs ==
  ASSUME NEW t, NEW chain, NEW idle, NEW sorted, Whole(t, chain, idle, sorted, {})
  PROVE  /\ Whole(AfterClean(t), Empty, idle \o Everything(t), <<>>, {})
         /\ Everything(t) \in Seq(Cell) /\ Distinct(Everything(t))
         /\ Elements(Everything(t)) = Used(chain)
         /\ AfterClean(t).allocated = t.allocated
<1> DEFINE all == Everything(t)
           u == Emptied(t)
<1>1. t \in Table /\ Hashed(t, chain)
  BY DEF Whole, Parted
<1>2. all \in Seq(Cell) /\ Distinct(all) /\ Elements(all) = Used(chain)
  BY <1>1, EverythingIsUsed
<1>4. Whole(u, Empty, idle, <<>>, Used(chain)) /\ u.allocated = t.allocated
  BY EmptiedIs
<1>3. AfterClean(t) = Freed(u, all)
  <2>1. u \in Table
    BY <1>4 DEF Whole, Parted
  <2> QED BY <1>1, <2>1, CleanOrder, Zenon DEF AfterClean
<1> HIDE DEF all, u
<1>5. Whole(u, Empty, idle, <<>>, Elements(all))
  BY <1>2, <1>4
<1>6. Whole(Freed(u, all), Empty, idle \o all, <<>>, {}) /\ Freed(u, all).allocated = u.allocated
  BY <1>2, <1>5, FreedIs
<1> QED BY <1>2, <1>3, <1>4, <1>6 DEF all

-----------------------------------------------------------------------------
(* The inductive invariant.                                                *)

\* Whatever lists a table is whole with are the ones read from it.
LEMMA WholeReads ==
  ASSUME NEW t, NEW chain, NEW idle, NEW sorted, Whole(t, chain, idle, sorted, {})
  PROVE  /\ Whole(t, ChainsOf(t), FreeList(t), SortedList(t), {})
         /\ FreeList(t) = idle /\ SortedList(t) = sorted
         /\ Used(ChainsOf(t)) = Used(chain)
<1>1. /\ t \in Table /\ Hashed(t, chain) /\ Queued(t, idle) /\ Ordered(t, sorted)
      /\ Shared(t, chain, idle, {}) /\ Heading(t) /\ Elements(sorted) = Used(chain)
  BY DEF Whole, Parted
<1>2. FreeList(t) = idle /\ SortedList(t) = sorted
  BY <1>1, ListsRead
<1>3. \A b \in Bucket : ChainsOf(t)[b] = chain[b]
  BY <1>1, ListsRead DEF ChainsOf
<1>4. Used(ChainsOf(t)) = Used(chain)
  BY <1>3 DEF Used
<1>5. Hashed(t, ChainsOf(t))
  BY <1>1, <1>3, <1>4 DEF Hashed
<1>6. Shared(t, ChainsOf(t), idle, {})
  BY <1>1, <1>4 DEF Shared
<1> QED BY <1>1, <1>2, <1>4, <1>5, <1>6 DEF Whole, Parted

\* A new table has all its cells in the free list.
LEMMA NewIs ==
  ASSUME NEW t, t = NewInitHash
  PROVE  Whole(t, Empty, [i \in 1..(MinEntries + Margin) |-> i], <<>>, {})
<1> DEFINE made == MinEntries + Margin
           idle == [i \in 1..made |-> i]
<1>1. /\ made \in Nat /\ made >= 1 /\ made <= MaxEntries + Margin /\ made = MinEntries + Margin
      /\ MinEntries \in 0..MaxEntries /\ 0 \in 0..MaxEntries
  BY TableAssumption
<1>2. 1 \in Cell /\ made \in Cell /\ \A i \in 1..made : i \in Cell
  BY <1>1, Numbers DEF Cell
<1>3. /\ t.header = [b \in Bucket |-> Nil]
      /\ t.next = [c \in Cell |-> IF c < made THEN c + 1 ELSE Nil]
      /\ t.free = [c \in Cell |-> c <= made] /\ t.byKey = [c \in Cell |-> Nil]
      /\ t.key = [c \in Cell |-> FirstKey]
      /\ t.firstFree = 1 /\ t.lastFree = made /\ t.firstSorted = Nil
      /\ t.numFree = MinEntries /\ t.numUsed = 0 /\ t.allocated = made
      /\ t.sortedHeader = [i \in 1..SortedHeaderSize |->
                             IF i < SortedHeaderSize THEN FirstKey ELSE LastKey]
  BY DEF NewInitHash
<1>4. t \in Table
  <2>1. [b \in Bucket |-> Nil] \in [Bucket -> CellOrNil] /\ Nil \in CellOrNil
        /\ [c \in Cell |-> Nil] \in [Cell -> CellOrNil]
    BY Cells
  <2>2. [c \in Cell |-> IF c < made THEN c + 1 ELSE Nil] \in [Cell -> CellOrNil]
    <3> SUFFICES ASSUME NEW c \in Cell, c < made PROVE c + 1 \in Cell
      BY Cells
    <3>1. c \in Nat
      BY Cells
    <3> QED BY <1>1, <3>1, Numbers DEF Cell
  <2>3. 0 \in 0..Max({MaxRefresh, 2 * MinRefresh})
        /\ 2 * MinRefresh \in 0..Max({MaxRefresh, 2 * MinRefresh})
    BY Limits DEF Limit
  <2>4. [c \in Cell |-> c <= made] \in [Cell -> BOOLEAN]
    OBVIOUS
  <2> HIDE DEF made
  <2>5. NewInitHash = [header |-> [b \in Bucket |-> Nil],
       next   |-> [c \in Cell |-> IF c < made THEN c + 1 ELSE Nil],
       free   |-> [c \in Cell |-> c <= made],
       byKey  |-> [c \in Cell |-> Nil],
       key    |-> [c \in Cell |-> FirstKey],
       firstFree |-> 1, lastFree |-> made, firstSorted |-> Nil,
       numFree |-> MinEntries, numUsed |-> 0, allocated |-> made,
       sortedHeader |-> [i \in 1..SortedHeaderSize |->
                           IF i < SortedHeaderSize THEN FirstKey ELSE LastKey],
       refreshCtr |-> 0, refreshTreshold |-> 2 * MinRefresh]
    BY Zenon DEF NewInitHash, made
  <2> QED BY <1>1, <1>2, <2>1, <2>2, <2>3, <2>4, <2>5 DEF Table
<1>5. Heading(t)
  <2> SUFFICES ASSUME SortedHeaderSize # 0
               PROVE  /\ t.sortedHeader[1] = FirstKey
                      /\ t.sortedHeader[SortedHeaderSize] = LastKey
                      /\ \A i, j \in 1..SortedHeaderSize :
                           i <= j => t.sortedHeader[i] <= t.sortedHeader[j]
    BY DEF Heading
  <2>1. /\ 1 \in 1..SortedHeaderSize /\ SortedHeaderSize \in 1..SortedHeaderSize
        /\ 1 < SortedHeaderSize /\ ~(SortedHeaderSize < SortedHeaderSize)
    BY Numbers
  <2>2. FirstKey <= LastKey /\ FirstKey <= FirstKey /\ LastKey <= LastKey
    BY Numbers
  <2>3. \A i, j \in 1..SortedHeaderSize : i <= j /\ j < SortedHeaderSize => i < SortedHeaderSize
    BY Numbers
  <2> QED BY <1>3, <2>1, <2>2, <2>3
<1>6. /\ idle \in Seq(Cell) /\ Len(idle) = made /\ DOMAIN idle = 1..made
      /\ \A i \in 1..made : idle[i] = i
      /\ Elements(idle) = 1..made /\ Distinct(idle)
  <2>1. idle \in [1..made -> Cell]
    BY <1>2
  <2>2. idle \in Seq(Cell) /\ Len(idle) = made /\ DOMAIN idle = 1..made
        /\ \A i \in 1..made : idle[i] = i
    BY <1>1, <2>1
  <2> HIDE DEF idle, made
  <2> QED BY <2>2 DEF Elements, Distinct
<1> HIDE DEF idle, made
<1>7. Queued(t, idle)
  <2>1. 1 \in 1..made /\ made \in 1..made /\ made # 0
    BY <1>1
  <2>2. ASSUME NEW i \in 1..made
        PROVE  t.next[i] = IF i = made THEN Nil ELSE idle[i + 1]
    <3>1. i \in Cell /\ i \in Nat /\ i <= made /\ (i # made => i + 1 \in 1..made /\ i < made)
          /\ ~(made < made)
      BY <1>1, <1>2
    <3> QED BY <1>3, <1>6, <3>1
  <2>3. Path(t.next, t.firstFree, idle)
    BY <1>3, <1>6, <2>1, <2>2 DEF Path
  <2>4. \A c \in 1..made : t.free[c]
    <3>1. \A c \in 1..made : c \in Cell /\ c <= made
      BY <1>1, <1>2
    <3>2. \A c \in Cell : t.free[c] <=> c <= made
      BY <1>3, Zenon
    <3> QED BY <3>1, <3>2
  <2>5. Len(idle) = t.numFree + Margin
    BY <1>1, <1>3, <1>6
  <2>6. idle[Len(idle)] = t.lastFree
    BY <1>3, <1>6, <2>1
  <2>7. \A c \in Elements(idle) : t.free[c]
    BY <1>6, <2>4
  <2> QED BY <2>3, <2>5, <2>6, <2>7 DEF Queued
<1>8. Hashed(t, Empty)
  <2>1. \A b \in Bucket : Empty[b] = <<>> /\ t.header[b] = Nil
    BY <1>3 DEF Empty
  <2> QED BY <2>1, EmptyIs DEF Hashed
<1>9. Ordered(t, <<>>)
  <2>1. DOMAIN <<>> = {}
    OBVIOUS
  <2> QED BY <1>3, <2>1, EmptyIs DEF Ordered
<1>10. Shared(t, Empty, idle, {})
  <2>1. Cardinality({}) = 0
    BY FS_EmptySet
  <2>2. AllocPortion = 0 => made = MaxEntries + Margin
    BY <1>1, TableAssumption
  <2> QED BY <1>3, <1>6, <2>1, <2>2, EmptyIs DEF Shared
<1> QED BY <1>4, <1>5, <1>7, <1>8, <1>9, <1>10, EmptyIs DEF Whole, Parted, idle, made

\* The invariant of a table, and what its search finds.
Sound(t) == Whole(t, ChainsOf(t), FreeList(t), SortedList(t), {})
Stores(t) == Used(ChainsOf(t))

\* The inductive invariant.
IInv == Sound(table)

\* The search finds the cell of every stored key, and no other.
LEMMA Finds ==
  ASSUME NEW t, Sound(t)
  PROVE  /\ \A k \in Key : Search(t, k) = CellOf(Stores(t), t.key, k)
         /\ \A k \in Key : Search(t, k) \in CellOrNil
         /\ \A k \in Key : Search(t, k) # Nil =>
              Search(t, k) \in Stores(t) /\ t.key[Search(t, k)] = k
         /\ \A k \in Key, c \in Stores(t) : t.key[c] = k => Search(t, k) = c
         /\ \A c \in Stores(t) : t.key[c] \in Key /\ c \in Cell /\ c # Nil
<1>1. t \in Table /\ Hashed(t, ChainsOf(t))
  BY DEF Sound, Whole, Parted
<1>2. \A k \in Key : Search(t, k) = CellOf(Stores(t), t.key, k)
  BY <1>1, SearchIs DEF Stores
<1>3. \A c \in Stores(t) : t.key[c] \in Key /\ c \in Cell /\ c # Nil
  BY <1>1, UsedCells, Cells DEF Stores
<1> QED BY <1>1, <1>2, <1>3, CellOfIs DEF Stores

\* A key is stored in as many cells as there are in use, at most.
LEMMA StoredFit ==
  ASSUME NEW t, Sound(t)
  PROVE  Cardinality({k \in Key : Search(t, k) # Nil}) <= t.numUsed
<1> DEFINE S == {k \in Key : Search(t, k) # Nil}
           f == [k \in S |-> Search(t, k)]
<1>1. Parted(t, ChainsOf(t), FreeList(t), SortedList(t), {})
  BY DEF Sound, Whole
<1>2. IsFiniteSet(Stores(t)) /\ Cardinality(Stores(t)) = t.numUsed
  BY <1>1, Total DEF Stores
<1>3. f \in [S -> Stores(t)]
  BY Finds
<1>4. \A k, m \in S : f[k] = f[m] => k = m
  BY Finds
<1>5. f \in Injection(S, Stores(t))
  BY <1>3, <1>4 DEF Injection, IsInjective
<1> QED BY <1>2, <1>5, FS_Injection

\* From t to u the first of the free cells, and n new ones, is taken for k.
Taken(t, u, k, n) ==
  /\ Len(FreeList(t) \o NewCells(t, n)) > Margin
  /\ \A m \in Key : Search(u, m) =
       IF m = k THEN Head(FreeList(t) \o NewCells(t, n)) ELSE Search(t, m)
  /\ FreeList(u) = Tail(FreeList(t) \o NewCells(t, n))
  /\ u.allocated = t.allocated + n

\* Every entry's cell is given back, in the order of the chains.
GivenBack(t, u, n) ==
  /\ n = Len(Everything(t)) /\ Everything(t) \in [1..n -> Stores(t)]
  /\ \A i, j \in 1..n : Everything(t)[i] = Everything(t)[j] => i = j
  /\ \A c \in Stores(t) : \E i \in 1..n : Everything(t)[i] = c
  /\ FreeList(u) = FreeList(t) \o Everything(t)

\* An insertion is one of the store's.
LEMMA InsertSound ==
  ASSUME NEW t, Sound(t), NEW k \in Key, Search(t, k) = Nil,
         t.numFree > 0 \/ t.numUsed < MaxEntries,
         NEW u, u = AfterInsert(t, k)
  PROVE  /\ Sound(u)
         /\ Cardinality({m \in Key : Search(t, m) # Nil}) < MaxEntries
         /\ \E n \in 0..MaxEntries : Taken(t, u, k, n)
<1> DEFINE idle == FreeList(t)
<1>1. Whole(t, ChainsOf(t), idle, SortedList(t), {})
  BY DEF Sound
<1>2. \A d \in Used(ChainsOf(t)) : t.key[d] # k
  <2> SUFFICES ASSUME NEW d \in Stores(t), t.key[d] = k PROVE FALSE
    BY DEF Stores
  <2> QED BY Finds
<1> HIDE DEF idle
<1>12. PICK n \in 0..MaxEntries : \E chain2, sorted2, queue, c :
           /\ queue = IF n = 0 THEN idle ELSE idle \o NewCells(t, n)
           /\ Whole(u, chain2, Removed(queue, 1), sorted2, {})
           /\ Used(chain2) = Used(ChainsOf(t)) \cup {c} /\ c \notin Used(ChainsOf(t))
           /\ c = queue[1] /\ u.key[c] = k
           /\ \A d \in Used(ChainsOf(t)) : u.key[d] = t.key[d]
           /\ u.allocated = t.allocated + n
           /\ Len(queue) > Margin /\ queue \in Seq(Cell)
  BY <1>1, <1>2, InsertIs
<1>3. PICK chain2, sorted2, queue, c :
           /\ queue = IF n = 0 THEN idle ELSE idle \o NewCells(t, n)
           /\ Whole(u, chain2, Removed(queue, 1), sorted2, {})
           /\ Used(chain2) = Used(ChainsOf(t)) \cup {c} /\ c \notin Used(ChainsOf(t))
           /\ c = queue[1] /\ u.key[c] = k
           /\ \A d \in Used(ChainsOf(t)) : u.key[d] = t.key[d]
           /\ u.allocated = t.allocated + n
           /\ Len(queue) > Margin /\ queue \in Seq(Cell)
  BY <1>12
<1>4. Sound(u) /\ FreeList(u) = Removed(queue, 1) /\ Stores(u) = Stores(t) \cup {c}
  BY <1>3, WholeReads DEF Sound, Stores
<1>5. queue = idle \o NewCells(t, n)
  <2>1. CASE n = 0
    <3>1. 1..0 = {}
      OBVIOUS
    <3>2. NewCells(t, n) = <<>>
      BY <2>1, <3>1 DEF NewCells
    <3> QED BY <1>3, <2>1, <3>2, ConcatEmptySeq
  <2> QED BY <1>3, <2>1
<1>6. queue # <<>> /\ Len(queue) \in Nat /\ Len(queue) >= 1 /\ DOMAIN queue = 1..Len(queue)
  <2>1. Len(queue) \in Nat /\ Len(queue) >= 1 /\ DOMAIN queue = 1..Len(queue)
    BY <1>3, Numbers
  <2> QED BY <2>1
<1>7. Head(queue) = c
  BY <1>3, <1>6
<1>8. Tail(queue) = Removed(queue, 1)
  <2>1. /\ Tail(queue) \in Seq(Cell) /\ Len(Tail(queue)) = Len(queue) - 1
        /\ \A i \in 1..(Len(queue) - 1) : Tail(queue)[i] = queue[i + 1]
    BY <1>3, <1>6, HeadTailProperties
  <2>2. DOMAIN Tail(queue) = 1..(Len(queue) - 1)
    BY <2>1
  <2>3. Tail(queue) = [i \in 1..(Len(queue) - 1) |-> queue[i + 1]]
    <3> DEFINE s == Tail(queue)
    <3>1. s \in Seq(Cell) /\ DOMAIN s = 1..(Len(queue) - 1)
      BY <2>1, <2>2
    <3>2. \A i \in 1..(Len(queue) - 1) : s[i] = queue[i + 1]
      BY <2>1
    <3> HIDE DEF s
    <3>3. s = [i \in 1..(Len(queue) - 1) |-> s[i]]
      BY <3>1
    <3>4. s = [i \in 1..(Len(queue) - 1) |-> queue[i + 1]]
      BY <3>2, <3>3
    <3> QED BY <3>4 DEF s
  <2>4. \A i \in 1..(Len(queue) - 1) : ~(i < 1)
    BY <1>6
  <2>5. Removed(queue, 1) = [i \in 1..(Len(queue) - 1) |-> queue[i + 1]]
    BY <2>4 DEF Removed
  <2> QED BY <2>3, <2>5
<1>9. ASSUME NEW m \in Key
      PROVE  Search(u, m) = IF m = k THEN c ELSE Search(t, m)
  <2>1. CASE m = k
    <3>1. c \in Stores(u) /\ u.key[c] = m
      BY <1>3, <1>4, <2>1
    <3> QED BY <1>4, <2>1, <3>1, Finds
  <2>2. CASE m # k /\ Search(t, m) # Nil
    <3>1. Search(t, m) \in Stores(t) /\ t.key[Search(t, m)] = m
      BY <2>2, Finds
    <3>2. Search(t, m) \in Stores(u) /\ u.key[Search(t, m)] = m
      BY <1>3, <1>4, <3>1 DEF Stores
    <3> QED BY <1>4, <2>2, <3>2, Finds
  <2>3. CASE m # k /\ Search(t, m) = Nil
    <3> SUFFICES ASSUME Search(u, m) # Nil PROVE FALSE
      BY <2>3
    <3>1. Search(u, m) \in Stores(u) /\ u.key[Search(u, m)] = m
      BY <1>4, Finds
    <3>2. Search(u, m) # c
      BY <1>3, <2>3, <3>1
    <3>3. Search(u, m) \in Stores(t)
      BY <1>4, <3>1, <3>2
    <3>4. t.key[Search(u, m)] = m
      BY <1>3, <3>1, <3>3 DEF Stores
    <3>5. Search(t, m) = Search(u, m)
      BY <3>3, <3>4, Finds
    <3> QED BY <2>3, <3>5
  <2> QED BY <2>1, <2>2, <2>3
<1>10. Cardinality({m \in Key : Search(t, m) # Nil}) < MaxEntries
  <2> DEFINE S == {m \in Key : Search(t, m) # Nil}
  <2>1. Cardinality(S) <= t.numUsed
    BY StoredFit
  <2>2. /\ t.numUsed \in Nat /\ t.numFree \in Nat /\ t.allocated \in Nat
        /\ t.allocated <= MaxEntries + Margin
        /\ t.numFree + Margin + t.numUsed + Cardinality({}) = t.allocated
    BY <1>1, Total DEF Whole
  <2>3. Cardinality({}) = 0
    BY FS_EmptySet
  <2>4. t.numUsed < MaxEntries
    BY <2>2, <2>3, Numbers
  <2>5. IsFiniteSet(S)
    <3>1. Key \subseteq Nat
      BY Numbers
    <3> DEFINE f == [m \in S |-> Search(t, m)]
    <3>2. f \in [S -> Cell] /\ \A l, m \in S : f[l] = f[m] => l = m
      BY Finds
    <3>3. f \in Injection(S, Cell)
      BY <3>2 DEF Injection, IsInjective
    <3> QED BY <3>3, Cells, FS_Injection
  <2> HIDE DEF S
  <2>6. Cardinality(S) \in Nat
    BY <2>5, FS_CardinalityType
  <2>7. Cardinality(S) < MaxEntries
    BY <2>1, <2>2, <2>4, <2>6, Numbers
  <2> QED BY <2>7 DEF S
<1>11. Taken(t, u, k, n)
  BY <1>3, <1>4, <1>5, <1>7, <1>8, <1>9 DEF idle, Taken
<1> QED BY <1>4, <1>10, <1>11

\* A deletion is one of the store's.
LEMMA DeleteSound ==
  ASSUME NEW t, Sound(t), NEW k \in Key, Search(t, k) # Nil,
         NEW u, u = AfterDelete(t, k)
  PROVE  /\ Sound(u)
         /\ \A m \in Key : Search(u, m) = IF m = k THEN Nil ELSE Search(t, m)
         /\ FreeList(u) = Append(FreeList(t), Search(t, k))
         /\ u.allocated = t.allocated
<1> DEFINE idle == FreeList(t)
           c == Search(t, k)
<1>1. Whole(t, ChainsOf(t), idle, SortedList(t), {})
  BY DEF Sound
<1>2. c \in Stores(t) /\ t.key[c] = k
  BY Finds
<1> HIDE DEF idle, c
<1>3. PICK chain2, sorted2 :
           /\ Whole(u, chain2, idle \o <<c>>, sorted2, {})
           /\ Used(chain2) = Used(ChainsOf(t)) \ {c}
           /\ \A d \in Used(chain2) : u.key[d] = t.key[d]
           /\ u.allocated = t.allocated
  BY <1>1, <1>2, DeleteIs DEF Stores
<1>4. Sound(u) /\ FreeList(u) = idle \o <<c>> /\ Stores(u) = Stores(t) \ {c}
  BY <1>3, WholeReads DEF Sound, Stores
<1>5. idle \o <<c>> = Append(idle, c)
  <2>1. idle \in Seq(Cell)
    BY <1>1 DEF Whole, Parted, Queued, Path
  <2>2. c \in Cell
    BY <1>2, Finds
  <2> QED BY <2>1, <2>2, AppendIsConcat
<1>6. ASSUME NEW m \in Key
      PROVE  Search(u, m) = IF m = k THEN Nil ELSE Search(t, m)
  <2>1. CASE Search(u, m) # Nil
    <3>1. Search(u, m) \in Stores(u) /\ u.key[Search(u, m)] = m
      BY <1>4, <2>1, Finds
    <3>2. Search(u, m) \in Stores(t) /\ Search(u, m) # c /\ t.key[Search(u, m)] = m
      BY <1>3, <1>4, <3>1 DEF Stores
    <3>3. Search(t, m) = Search(u, m)
      BY <3>2, Finds
    <3>4. m # k
      BY <3>2, <3>3 DEF c
    <3> QED BY <3>3, <3>4
  <2>2. CASE Search(u, m) = Nil /\ m # k
    <3> SUFFICES ASSUME Search(t, m) # Nil PROVE FALSE
      BY <2>2
    <3>1. Search(t, m) \in Stores(t) /\ t.key[Search(t, m)] = m
      BY Finds
    <3>2. Search(t, m) \in Stores(u)
      BY <1>2, <1>4, <2>2, <3>1
    <3>3. u.key[Search(t, m)] = m
      BY <1>3, <1>4, <3>1, <3>2 DEF Stores
    <3>4. Search(u, m) = Search(t, m)
      BY <1>4, <3>2, <3>3, Finds
    <3> QED BY <2>2, <3>4
  <2> QED BY <2>1, <2>2
<1> QED BY <1>3, <1>4, <1>5, <1>6 DEF idle, c

\* Emptying the table is emptying the store.
LEMMA CleanSound ==
  ASSUME NEW t, Sound(t), NEW u, u = AfterClean(t)
  PROVE  /\ Sound(u)
         /\ \A m \in Key : Search(u, m) = Nil
         /\ u.allocated = t.allocated
         /\ \E n \in 0..MaxEntries : GivenBack(t, u, n)
<1> DEFINE idle == FreeList(t)
           all == Everything(t)
<1>1. Whole(t, ChainsOf(t), idle, SortedList(t), {})
  BY DEF Sound
<1> HIDE DEF idle, all
<1>2. /\ Whole(u, Empty, idle \o all, <<>>, {})
      /\ all \in Seq(Cell) /\ Distinct(all) /\ Elements(all) = Stores(t)
      /\ u.allocated = t.allocated
  BY <1>1, CleanIs DEF all, Stores
<1>3. Sound(u) /\ FreeList(u) = idle \o all /\ Stores(u) = {}
  BY <1>2, WholeReads, EmptyIs DEF Sound, Stores
<1>4. \A m \in Key : Search(u, m) = Nil
  BY <1>3, Finds
<1>5. Len(all) \in 0..MaxEntries
  <2>1. Cardinality(Stores(t)) = Len(all) /\ Len(all) \in Nat
    BY <1>2, DistinctLength
  <2>2. Cardinality(Stores(t)) = t.numUsed
    BY <1>1, Total DEF Whole, Stores
  <2>3. t.numUsed \in 0..MaxEntries
    BY <1>1, Fields DEF Whole, Parted
  <2> QED BY <2>1, <2>2, <2>3
<1>6. /\ DOMAIN all = 1..Len(all) /\ all \in [1..Len(all) -> Stores(t)]
      /\ \A c \in Stores(t) : \E i \in 1..Len(all) : all[i] = c
      /\ \A i, j \in 1..Len(all) : all[i] = all[j] => i = j
  <2>1. DOMAIN all = 1..Len(all)
    BY <1>2
  <2>2. \A i \in 1..Len(all) : all[i] \in Stores(t)
    BY <1>2, <2>1 DEF Elements
  <2>3. all = [i \in 1..Len(all) |-> all[i]]
    BY <1>2, <2>1
  <2>4. all \in [1..Len(all) -> Stores(t)]
    BY <2>2, <2>3
  <2> QED BY <1>2, <2>1, <2>4 DEF Elements, Distinct
<1>7. GivenBack(t, u, Len(all))
  BY <1>3, <1>6 DEF idle, all, GivenBack
<1> QED BY <1>2, <1>3, <1>4, <1>5, <1>7

\* Looking for a successor changes no list.
LEMMA ProbeSound ==
  ASSUME NEW t, Sound(t), NEW k, NEW u, u = Probed(t, k)
  PROVE  /\ Sound(u) /\ FreeList(u) = FreeList(t) /\ u.allocated = t.allocated
         /\ \A m \in Key : Search(u, m) = Search(t, m)
<1>1. /\ Parted(t, ChainsOf(t), FreeList(t), SortedList(t), {})
      /\ Elements(SortedList(t)) = Used(ChainsOf(t)) /\ t \in Table
  BY DEF Sound, Whole, Parted
<1>2. SameLists(t, u)
  BY <1>1, ProbedIs
<1>3. Whole(u, ChainsOf(t), FreeList(t), SortedList(t), {})
  BY <1>1, ProbedKeeps DEF Whole
<1>4. Sound(u) /\ FreeList(u) = FreeList(t) /\ Stores(u) = Stores(t)
  BY <1>3, WholeReads DEF Sound, Stores
<1>5. u.key = t.key /\ u.allocated = t.allocated
  BY <1>2 DEF SameLists
<1> QED BY <1>4, <1>5, Finds

-----------------------------------------------------------------------------
(* The theorems.                                                           *)

\* A new table has the invariant.
LEMMA InitSound == Init => IInv
BY NewIs, WholeReads DEF Init, IInv, Sound

\* Every operation keeps it.
LEMMA NextSound == IInv /\ [Next]_vars => IInv'
<1> SUFFICES ASSUME IInv, [Next]_vars PROVE IInv'
  OBVIOUS
<1>0. Sound(table)
  BY DEF IInv
<1>1. ASSUME NEW k \in Key, InsertHash(k) PROVE Sound(table')
  <2>1. /\ table' = AfterInsert(table, k) /\ Search(table, k) = Nil
        /\ table.numFree > 0 \/ table.numUsed < MaxEntries
    BY <1>1, InsertMakes
  <2> QED BY <1>0, <2>1, InsertSound
<1>2. ASSUME NEW k \in Key, DeleteHash(k) PROVE Sound(table')
  <2>1. table' = AfterDelete(table, k) /\ Search(table, k) # Nil
    BY <1>2, DeleteMakes
  <2> QED BY <1>0, <2>1, DeleteSound
<1>3. ASSUME NEW k \in Key, GetNextSort(k) PROVE Sound(table')
  <2>1. table' = Probed(table, k)
    BY <1>3 DEF GetNextSort
  <2> QED BY <1>0, <2>1, ProbeSound
<1>4. ASSUME CleanHash PROVE Sound(table')
  <2>1. table' = AfterClean(table)
    BY <1>4, CleanMakes
  <2> QED BY <1>0, <2>1, CleanSound
<1>5. ASSUME UNCHANGED vars PROVE Sound(table')
  BY <1>0, <1>5 DEF vars
<1>6. Sound(table')
  BY <1>1, <1>2, <1>3, <1>4, <1>5 DEF Next
<1> QED BY <1>6 DEF IInv

\* In every reachable table the chains, the free list, the sorted list and the
\* sorted header agree, for all sizes, keys and hash functions.
THEOREM TableIsSound == Spec => []IInv
<1> QED BY InitSound, NextSound, PTL DEF Spec

\* The stored cells are the ones in the chains.
LEMMA ChainedIs == Chained = Stores(table)
BY DEF Chained, Stores, Used, ChainsOf

\* The invariant accounts for the cells.
LEMMA SoundAccounts == IInv => CellsAccounted
<1> SUFFICES ASSUME IInv PROVE CellsAccounted
  OBVIOUS
<1> DEFINE chain == ChainsOf(table)
           free == FreeList(table)
<1>1. /\ table \in Table /\ Hashed(table, chain) /\ Queued(table, free)
      /\ Shared(table, chain, free, {})
  BY DEF IInv, Sound, Whole, Parted
<1>2. \A b \in Bucket : chain[b] = Chain(table, b)
  BY DEF ChainsOf
<1>3. Chained = Used(chain)
  BY ChainedIs DEF Stores
<1> HIDE DEF chain, free
<1>4. ASSUME NEW b \in Bucket
      PROVE  /\ Distinct(Chain(table, b))
             /\ \A c \in Elements(Chain(table, b)) :
                  HashOf[table.key[c]] = b /\ ~table.free[c]
  BY <1>1, <1>2 DEF Hashed, Path
<1>5. /\ Distinct(free) /\ \A c \in Elements(free) : table.free[c]
      /\ free[Len(free)] = table.lastFree /\ Len(free) = table.numFree + Margin
  BY <1>1 DEF Queued, Path
<1>6. Elements(free) = (1..table.allocated) \ Chained /\ Cardinality(Chained) = table.numUsed
  BY <1>1, <1>3 DEF Shared
<1> QED BY <1>1, <1>4, <1>5, <1>6 DEF CellsAccounted, TypeOK, free

\* Every allocated cell is in exactly one place, the chain of its bucket or the
\* free list, with the counters and free bits to match.
THEOREM CellsAreAccounted == Spec => []CellsAccounted
<1> QED BY TableIsSound, SoundAccounts, PTL

\* The invariant sorts the entries.
LEMMA SoundSorts == IInv => SortedByKey
<1> SUFFICES ASSUME IInv PROVE SortedByKey
  OBVIOUS
<1>1. /\ Ordered(table, SortedList(table))
      /\ Elements(SortedList(table)) = Stores(table)
  BY DEF IInv, Sound, Whole, Parted, Stores
<1> QED BY <1>1, ChainedIs DEF SortedByKey, Ordered

\* The sorted list holds the stored entries in ascending order, although their
\* places are found through header keys that may be gone.
THEOREM ListIsSortedByKey == Spec => []SortedByKey
<1> QED BY TableIsSound, SoundSorts, PTL

\* The cell behind those whose keys are no greater.
LEMMA NextIs ==
  ASSUME NEW t, NEW chain, NEW idle, NEW sorted, Whole(t, chain, idle, sorted, {}),
         NEW k \in Key
  PROVE  \E m \in 0..Len(sorted) :
           /\ NextSort(t, k) = IF m = Len(sorted) THEN Nil ELSE sorted[m + 1]
           /\ \A i \in 1..m : t.key[sorted[i]] <= k
           /\ \A i \in (m + 1)..Len(sorted) : t.key[sorted[i]] > k
<1>1. /\ t \in Table /\ Hashed(t, chain) /\ Ordered(t, sorted) /\ Heading(t)
      /\ Elements(sorted) = Used(chain)
  BY DEF Whole, Parted
<1>2. /\ Path(t.byKey, t.firstSorted, sorted)
      /\ Len(sorted) \in Nat /\ DOMAIN sorted = 1..Len(sorted)
      /\ \A i \in 1..Len(sorted) : sorted[i] \in Cell /\ sorted[i] \in Used(chain)
      /\ k \in Nat
  BY <1>1, PathElements, Numbers DEF Ordered, Elements
<1>3. /\ \A i \in 1..Len(sorted) : t.key[sorted[i]] \in Nat
      /\ \A i, j \in 1..Len(sorted) : i < j => t.key[sorted[i]] < t.key[sorted[j]]
  <2>1. \A i \in 1..Len(sorted) : t.key[sorted[i]] \in Key
    BY <1>1, <1>2, UsedCells
  <2> QED BY <1>1, <1>2, <2>1, Numbers DEF Ordered
<1> DEFINE c == Search(t, k)
<1>4. c = CellOf(Used(chain), t.key, k)
  BY <1>1, SearchIs
<1> HIDE DEF c
<1>5. CASE c # Nil
  <2>1. c \in Used(chain) /\ t.key[c] = k
    BY <1>1, <1>4, <1>5, CellOfIs
  <2>2. PICK m \in 1..Len(sorted) : c = sorted[m]
    BY <1>1, <1>2, <2>1 DEF Elements
  <2>3. m \in 0..Len(sorted)
    BY <1>2
  <2>4. NextSort(t, k) = t.byKey[c]
    BY <1>5, Zenon DEF NextSort, c
  <2>5. NextSort(t, k) = IF m = Len(sorted) THEN Nil ELSE sorted[m + 1]
    BY <1>2, <2>2, <2>4 DEF Path
  <2>6. \A i \in 1..m : t.key[sorted[i]] <= k
    <3> SUFFICES ASSUME NEW i \in 1..m PROVE t.key[sorted[i]] <= k
      OBVIOUS
    <3>1. i \in 1..Len(sorted) /\ (i = m \/ i < m)
      BY <1>2
    <3>2. t.key[sorted[i]] \in Nat /\ t.key[sorted[m]] = k
      BY <1>3, <2>1, <2>2, <3>1
    <3>3. i = m \/ t.key[sorted[i]] < k
      BY <1>3, <2>1, <2>2, <3>1
    <3> QED BY <1>2, <3>2, <3>3
  <2>7. \A i \in (m + 1)..Len(sorted) : t.key[sorted[i]] > k
    <3> SUFFICES ASSUME NEW i \in (m + 1)..Len(sorted) PROVE t.key[sorted[i]] > k
      OBVIOUS
    <3>1. i \in 1..Len(sorted) /\ m < i
      BY <1>2
    <3>2. t.key[sorted[i]] \in Nat /\ k < t.key[sorted[i]]
      BY <1>3, <2>1, <2>2, <3>1
    <3> QED BY <1>2, <3>2
  <2> QED BY <2>3, <2>5, <2>6, <2>7
<1>6. CASE c = Nil
  <2>1. PICK m \in 0..Len(sorted) :
           /\ \A i \in 1..m : t.key[sorted[i]] < k
           /\ \A i \in (m + 1)..Len(sorted) : t.key[sorted[i]] >= k
    BY <1>1, SplitExists
  <2>2. PreSorted(t, k) = IF m = 0 THEN Nil ELSE sorted[m]
    BY <1>1, <2>1, PreSortedIs
  <2>3. NextSort(t, k) = IF PreSorted(t, k) # Nil THEN t.byKey[PreSorted(t, k)]
                         ELSE t.firstSorted
    BY <1>6, Zenon DEF NextSort, c
  <2>4. NextSort(t, k) = IF m = Len(sorted) THEN Nil ELSE sorted[m + 1]
    <3>1. CASE m = 0
      <4>1. NextSort(t, k) = t.firstSorted
        BY <2>2, <2>3, <3>1
      <4>2. t.firstSorted = IF Len(sorted) = 0 THEN Nil ELSE sorted[1]
        BY <1>2 DEF Path
      <4>3. (m = Len(sorted) <=> Len(sorted) = 0) /\ m + 1 = 1
        BY <1>2, <3>1
      <4> QED BY <4>1, <4>2, <4>3
    <3>2. CASE m # 0
      <4>1. m \in 1..Len(sorted)
        BY <1>2, <3>2
      <4>2. sorted[m] # Nil
        BY <1>2, <4>1, Cells
      <4>3. NextSort(t, k) = t.byKey[sorted[m]]
        BY <2>2, <2>3, <3>2, <4>2
      <4> QED BY <1>2, <4>1, <4>3 DEF Path
    <3> QED BY <3>1, <3>2
  <2>5. \A d \in Used(chain) : t.key[d] # k
    <3> SUFFICES ASSUME NEW d \in Used(chain), t.key[d] = k PROVE FALSE
      OBVIOUS
    <3>1. CellOf(Used(chain), t.key, k) = d
      BY <1>1, CellOfIs
    <3>2. d \in Cell
      BY <1>1, UsedCells
    <3> QED BY <1>4, <1>6, <3>1, <3>2, Cells
  <2>6. \A i \in 1..m : t.key[sorted[i]] <= k
    <3> SUFFICES ASSUME NEW i \in 1..m PROVE t.key[sorted[i]] <= k
      OBVIOUS
    <3>1. i \in 1..Len(sorted)
      BY <1>2
    <3>2. t.key[sorted[i]] \in Nat /\ t.key[sorted[i]] < k
      BY <1>3, <2>1, <3>1
    <3> QED BY <1>2, <3>2
  <2>7. \A i \in (m + 1)..Len(sorted) : t.key[sorted[i]] > k
    <3> SUFFICES ASSUME NEW i \in (m + 1)..Len(sorted) PROVE t.key[sorted[i]] > k
      OBVIOUS
    <3>1. i \in 1..Len(sorted)
      BY <1>2
    <3>2. t.key[sorted[i]] \in Nat /\ t.key[sorted[i]] >= k /\ t.key[sorted[i]] # k
      BY <1>2, <1>3, <2>1, <2>5, <3>1
    <3> QED BY <1>2, <3>2
  <2> QED BY <2>4, <2>6, <2>7
<1> QED BY <1>5, <1>6

\* The invariant makes the search for a successor answer right.
LEMMA SoundAnswers == IInv => NextIsNext
<1> SUFFICES ASSUME IInv, NEW k \in Key
             PROVE  LET greater == {c \in Chained : table.key[c] > k}
                        next    == NextSort(table, k)
                    IN  IF greater = {} THEN next = Nil
                        ELSE /\ next \in greater
                             /\ \A c \in greater : table.key[next] <= table.key[c]
  BY DEF NextIsNext
<1> DEFINE greater == {c \in Chained : table.key[c] > k}
           next == NextSort(table, k)
           sorted == SortedList(table)
<1>1. Whole(table, ChainsOf(table), FreeList(table), sorted, {})
  BY DEF IInv, Sound
<1> HIDE DEF next, sorted
<1>2. /\ Elements(sorted) = Chained /\ Path(table.byKey, table.firstSorted, sorted)
      /\ \A i, j \in DOMAIN sorted : i < j => table.key[sorted[i]] < table.key[sorted[j]]
      /\ table \in Table /\ Hashed(table, ChainsOf(table))
  BY <1>1, ChainedIs DEF Whole, Parted, Ordered, Stores
<1>3. /\ Len(sorted) \in Nat /\ DOMAIN sorted = 1..Len(sorted)
      /\ Elements(sorted) = {sorted[i] : i \in 1..Len(sorted)}
  BY <1>2, PathElements
<1>4. PICK m \in 0..Len(sorted) :
           /\ next = IF m = Len(sorted) THEN Nil ELSE sorted[m + 1]
           /\ \A i \in 1..m : table.key[sorted[i]] <= k
           /\ \A i \in (m + 1)..Len(sorted) : table.key[sorted[i]] > k
  BY <1>1, NextIs DEF next
<1>5. \A c \in Chained : table.key[c] \in Nat
  BY <1>2, UsedCells, Numbers, ChainedIs DEF Stores
<1>10. k \in Nat
  BY Numbers
<1>6. \A c \in greater : \E i \in (m + 1)..Len(sorted) : c = sorted[i]
  <2> SUFFICES ASSUME NEW c \in Chained, table.key[c] > k
               PROVE  \E i \in (m + 1)..Len(sorted) : c = sorted[i]
    OBVIOUS
  <2>1. PICK i \in 1..Len(sorted) : c = sorted[i]
    BY <1>2, <1>3
  <2>2. ~(table.key[sorted[i]] <= k)
    BY <1>5, <1>10, <2>1
  <2>3. i \notin 1..m
    BY <1>4, <2>2
  <2>4. i \in (m + 1)..Len(sorted)
    BY <1>3, <2>3
  <2> QED BY <2>1, <2>4
<1>7. CASE m = Len(sorted)
  <2>1. (m + 1)..Len(sorted) = {}
    BY <1>3, <1>7
  <2>2. greater = {}
    BY <1>6, <2>1
  <2> QED BY <1>4, <1>7, <2>2 DEF next
<1>8. CASE m # Len(sorted)
  <2>1. m + 1 \in (m + 1)..Len(sorted) /\ m + 1 \in 1..Len(sorted)
    BY <1>3, <1>8
  <2>2. next = sorted[m + 1] /\ next \in Chained /\ table.key[next] > k
    BY <1>2, <1>3, <1>4, <1>8, <2>1
  <2>3. ASSUME NEW c \in greater PROVE table.key[next] <= table.key[c]
    <3>1. PICK i \in (m + 1)..Len(sorted) : c = sorted[i]
      BY <1>6
    <3>2. i \in 1..Len(sorted) /\ (i = m + 1 \/ m + 1 < i)
      BY <1>3
    <3>3. i = m + 1 \/ table.key[next] < table.key[c]
      BY <1>2, <1>3, <2>1, <2>2, <3>1, <3>2
    <3>4. table.key[next] \in Nat /\ table.key[c] \in Nat
      BY <1>5, <2>2
    <3> QED BY <2>2, <3>1, <3>3, <3>4
  <2>4. next \in greater
    BY <2>2
  <2> QED BY <2>3, <2>4 DEF next
<1> QED BY <1>7, <1>8

\* GetNextSort answers the least greater key, for a key stored or not.
THEOREM AnswersAreNext == Spec => []NextIsNext
<1> QED BY TableIsSound, SoundAnswers, PTL

-----------------------------------------------------------------------------
(* The table implements the store.                                         *)

StoreProofs == INSTANCE CellStoreProofs WITH
  where     <- [k \in Key |-> Search(table, k)],
  idle      <- FreeList(table),
  allocated <- table.allocated

\* An instance counts as this module does.
LEMMA SameCard ==
  \A S : Store!Cardinality(S) = Cardinality(S) /\ StoreProofs!Cardinality(S) = Cardinality(S)
BY Zenon DEF Store!Cardinality, StoreProofs!Cardinality, Cardinality,
             Store!IsFiniteSet, StoreProofs!IsFiniteSet, IsFiniteSet

\* Where the table keeps the keys.
Kept(t) == [k \in Key |-> Search(t, k)]

\* A new table is an empty store.
LEMMA StartsAsStore == Init => Store!Init
<1> SUFFICES ASSUME Init PROVE Store!Init
  OBVIOUS
<1> DEFINE idle == [i \in 1..(MinEntries + Margin) |-> i]
<1>1. table = NewInitHash
  BY DEF Init
<1>2. Whole(table, Empty, idle, <<>>, {})
  BY <1>1, NewIs
<1>3. Sound(table) /\ FreeList(table) = idle /\ Stores(table) = {}
  BY <1>2, WholeReads, EmptyIs DEF Sound, Stores
<1>4. \A k \in Key : Search(table, k) = Nil
  BY <1>3, Finds
<1>5. table.allocated = MinEntries + Margin
  BY <1>1 DEF NewInitHash
<1> QED BY <1>3, <1>4, <1>5 DEF Store!Init, Store!Nil, Nil

\* InsertHash inserts into the store,
LEMMA InsertStores ==
  ASSUME IInv, NEW k \in Key, InsertHash(k)
  PROVE  Store!Insert(k)
<1>1. /\ table' = AfterInsert(table, k) /\ Search(table, k) = Nil
      /\ table.numFree > 0 \/ table.numUsed < MaxEntries
  BY InsertMakes
<1>2. Sound(table)
  BY DEF IInv
<1>3. Cardinality({m \in Key : Search(table, m) # Nil}) < MaxEntries
  BY <1>1, <1>2, InsertSound
<1>10. PICK n \in 0..MaxEntries : Taken(table, table', k, n)
  BY <1>1, <1>2, InsertSound
<1>4. /\ Len(FreeList(table) \o NewCells(table, n)) > Margin
      /\ \A m \in Key : Search(table', m) =
           IF m = k THEN Head(FreeList(table) \o NewCells(table, n)) ELSE Search(table, m)
      /\ FreeList(table') = Tail(FreeList(table) \o NewCells(table, n))
      /\ table'.allocated = table.allocated + n
  BY <1>10 DEF Taken
<1>5. Store!IdleAnd(n) = FreeList(table) \o NewCells(table, n)
  BY Zenon DEF Store!IdleAnd, NewCells
<1>6. Kept(table') = [Kept(table) EXCEPT ![k] = Head(Store!IdleAnd(n))]
  BY <1>4, <1>5 DEF Kept
<1>7. Store!Cardinality(Store!Stored) < MaxEntries
  <2>1. Store!Stored = {m \in Key : Search(table, m) # Nil}
    BY DEF Store!Stored, Store!Nil, Nil
  <2> QED BY <1>3, <2>1, SameCard
<1>8. Kept(table)[k] = Store!Nil
  BY <1>1 DEF Kept, Store!Nil, Nil
<1>9. Len(Store!IdleAnd(n)) > Margin /\ FreeList(table') = Tail(Store!IdleAnd(n))
  BY <1>4, <1>5
<1>11. \E more \in 0..MaxEntries :
         /\ Len(Store!IdleAnd(more)) > Margin
         /\ Kept(table') = [Kept(table) EXCEPT ![k] = Head(Store!IdleAnd(more))]
         /\ FreeList(table') = Tail(Store!IdleAnd(more))
         /\ table'.allocated = table.allocated + more
  BY <1>4, <1>6, <1>9
<1> QED BY <1>7, <1>8, <1>11, Zenon DEF Store!Insert, Kept

\* DeleteHash deletes from it,
LEMMA DeleteStores ==
  ASSUME IInv, NEW k \in Key, DeleteHash(k)
  PROVE  Store!Delete(k)
<1>1. table' = AfterDelete(table, k) /\ Search(table, k) # Nil
  BY DeleteMakes
<1>2. /\ \A m \in Key : Search(table', m) = IF m = k THEN Nil ELSE Search(table, m)
      /\ FreeList(table') = Append(FreeList(table), Search(table, k))
      /\ table'.allocated = table.allocated
  BY <1>1, DeleteSound DEF IInv
<1>3. Kept(table)[k] = Search(table, k) /\ Kept(table)[k] # Store!Nil
  BY <1>1 DEF Kept, Store!Nil, Nil
<1>4. Kept(table') = [Kept(table) EXCEPT ![k] = Store!Nil]
  BY <1>2 DEF Kept, Store!Nil, Nil
<1>5. FreeList(table') = Append(FreeList(table), Kept(table)[k])
  BY <1>2, <1>3
<1> QED BY <1>2, <1>3, <1>4, <1>5, Zenon DEF Store!Delete, Kept

\* CleanHash empties it,
LEMMA CleanStores ==
  ASSUME IInv, CleanHash
  PROVE  Store!Clean
<1> DEFINE all == Everything(table)
<1>1. table' = AfterClean(table) /\ Sound(table)
  BY CleanMakes DEF IInv
<1>2. /\ \A m \in Key : Search(table', m) = Nil
      /\ table'.allocated = table.allocated
  BY <1>1, CleanSound
<1>7. PICK n \in 0..MaxEntries : GivenBack(table, table', n)
  BY <1>1, CleanSound
<1>3. /\ all \in [1..n -> Stores(table)]
      /\ \A i, j \in 1..n : all[i] = all[j] => i = j
      /\ \A c \in Stores(table) : \E i \in 1..n : all[i] = c
      /\ FreeList(table') = FreeList(table) \o all
  BY <1>7 DEF GivenBack
<1> HIDE DEF all
<1>4. Store!Occupied = Stores(table)
  <2>1. Store!Stored = {m \in Key : Search(table, m) # Nil}
    BY DEF Store!Stored, Store!Nil, Nil
  <2>2. Store!Occupied = {Search(table, m) : m \in {l \in Key : Search(table, l) # Nil}}
    BY <2>1 DEF Store!Occupied
  <2>3. \A m \in Key : Search(table, m) # Nil => Search(table, m) \in Stores(table)
    BY <1>1, Finds
  <2>4. \A c \in Stores(table) : table.key[c] \in Key /\ c # Nil
                                 /\ Search(table, table.key[c]) = c
    BY <1>1, Finds
  <2> QED BY <2>2, <2>3, <2>4
<1>5. Kept(table') = [m \in Key |-> Store!Nil]
  BY <1>2 DEF Kept, Store!Nil, Nil
<1>6. /\ all \in [1..n -> Store!Occupied]
      /\ \A c \in Store!Occupied : \E i \in 1..n : all[i] = c
  BY <1>3, <1>4
<1> QED BY <1>2, <1>3, <1>5, <1>6, Zenon DEF Store!Clean, Kept

\* and GetNextSort, like a failing call, does nothing to it.
LEMMA StepsAsStore == IInv /\ [Next]_vars => [Store!Next]_(Store!vars)
<1> SUFFICES ASSUME IInv, [Next]_vars PROVE [Store!Next]_(Store!vars)
  OBVIOUS
<1>1. ASSUME NEW k \in Key, InsertHash(k) PROVE Store!Next
  BY <1>1, InsertStores, Zenon DEF Store!Next
<1>2. ASSUME NEW k \in Key, DeleteHash(k) PROVE Store!Next
  BY <1>2, DeleteStores, Zenon DEF Store!Next
<1>3. ASSUME NEW k \in Key, GetNextSort(k) PROVE UNCHANGED Store!vars
  <2>1. table' = Probed(table, k) /\ Sound(table)
    BY <1>3 DEF GetNextSort, IInv
  <2>2. /\ FreeList(table') = FreeList(table) /\ table'.allocated = table.allocated
        /\ \A m \in Key : Search(table', m) = Search(table, m)
    BY <2>1, ProbeSound
  <2>3. Kept(table') = Kept(table)
    BY <2>2 DEF Kept
  <2> QED BY <2>2, <2>3, Zenon DEF Store!vars, Kept
<1>4. ASSUME CleanHash PROVE Store!Next
  BY <1>4, CleanStores, Zenon DEF Store!Next
<1>5. ASSUME UNCHANGED vars PROVE UNCHANGED Store!vars
  <2>1. table' = table
    BY <1>5 DEF vars
  <2>2. Kept(table') = Kept(table) /\ FreeList(table') = FreeList(table)
        /\ table'.allocated = table.allocated
    BY <2>1
  <2> QED BY <2>2, Zenon DEF Store!vars, Kept
<1> QED BY <1>1, <1>2, <1>3, <1>4, <1>5, Zenon DEF Next

\* The hash table implements the store of cells it promises to its callers.
THEOREM TableIsAStore == Spec => StoreSpec
<1>1. Init => Store!Init
  BY StartsAsStore
<1>2. IInv /\ [Next]_vars => [Store!Next]_(Store!vars)
  BY StepsAsStore
<1> QED BY <1>1, <1>2, TableIsSound, PTL DEF Spec, StoreSpec, Store!Spec

-----------------------------------------------------------------------------
(* What is proved of the store holds of the table.                         *)

\* The sizes are those of a store.
LEMMA Sizes == StoreProofs!StoreAssumption
BY TableAssumption DEF StoreProofs!StoreAssumption

\* The instance of the store and that of its proofs start alike,
LEMMA SameInit == Store!Init <=> StoreProofs!Init
BY Zenon DEF Store!Init, StoreProofs!Init, Store!Nil, StoreProofs!Nil

\* they step alike,
LEMMA SameNext == [Store!Next]_(Store!vars) <=> [StoreProofs!Next]_(StoreProofs!vars)
BY SameCard, Zenon
   DEF Store!Next, StoreProofs!Next, Store!vars, StoreProofs!vars,
       Store!Nil, StoreProofs!Nil, Store!Insert, StoreProofs!Insert,
       Store!Delete, StoreProofs!Delete, Store!Clean, StoreProofs!Clean,
       Store!IdleAnd, StoreProofs!IdleAnd, Store!Stored, StoreProofs!Stored,
       Store!Occupied, StoreProofs!Occupied

\* and they keep the margin alike.
LEMMA SameMargin ==
  [Store!FreedBehindMargin /\ Store!FirstFreedFirstUsed]_(Store!vars)
  <=> [StoreProofs!FreedBehindMargin /\ StoreProofs!FirstFreedFirstUsed]_(StoreProofs!vars)
BY Zenon DEF Store!vars, StoreProofs!vars, Store!Nil, StoreProofs!Nil,
             Store!FreedBehindMargin, Store!FirstFreedFirstUsed,
             StoreProofs!FreedBehindMargin, StoreProofs!FirstFreedFirstUsed

\* A cell the table frees is used again only after at least Margin insertions,
\* and the cells of the free list never overtake each other.
THEOREM TableKeepsTheMargin == Spec => MarginKept
<1>1. StoreProofs!Spec => StoreProofs!MarginKept
  BY Sizes, StoreProofs!MarginIsKept
<1>2. Store!Spec => StoreProofs!Spec
  BY SameInit, SameNext, PTL DEF Store!Spec, StoreProofs!Spec
<1>3. StoreProofs!MarginKept => Store!MarginKept
  BY SameMargin, PTL DEF Store!MarginKept, StoreProofs!MarginKept
<1> QED BY <1>1, <1>2, <1>3, TableIsAStore, PTL DEF StoreSpec, MarginKept
=============================================================================
