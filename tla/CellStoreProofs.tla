--------------------------- MODULE CellStoreProofs ---------------------------
(***************************************************************************)
(* That the cells of CellStore stay distinct and that a freed cell is not   *)
(* used again before Margin insertions, for any keys, sizes and margin.     *)
(***************************************************************************)
EXTENDS CellStore, SequenceTheorems, TLAPS

\* Initially the idle cells are 1..MinEntries + Margin, in this order.
LEMMA InitEstablishesStore ==
  ASSUME StoreAssumption, Init
  PROVE  StoreInv
<1>1. TypeOK
  BY DEF StoreAssumption, Init, TypeOK, Nil
<1>2. MarginIsIdle /\ CellsExist /\ CellsDistinct
  BY DEF StoreAssumption, Init, MarginIsIdle, CellsExist, CellsDistinct,
         Stored, Nil
<1> QED BY <1>1, <1>2 DEF StoreInv

\* A queue of cells that grows by cells with the next numbers keeps its cells
\* distinct from each other and from the occupied ones.
LEMMA QueueGrown ==
  ASSUME StoreInv, NEW n \in Nat
  PROVE  /\ IdleAnd(n) \in Seq(Nat \ {0})
         /\ Len(IdleAnd(n)) = Len(idle) + n
         /\ \A i \in 1..Len(idle) : IdleAnd(n)[i] = idle[i]
         /\ \A i \in 1..Len(IdleAnd(n)) : IdleAnd(n)[i] <= allocated + n
         /\ \A i, j \in 1..Len(IdleAnd(n)) :
              IdleAnd(n)[i] = IdleAnd(n)[j] => i = j
         /\ \A i \in 1..Len(IdleAnd(n)) :
              \A k \in Stored : IdleAnd(n)[i] # where[k]
<1> DEFINE fresh == [i \in 1..n |-> allocated + i]
           cells == IdleAnd(n)
<1>1. idle \in Seq(Nat \ {0}) /\ allocated \in Nat /\ where \in [Key -> Nat]
  BY DEF StoreInv, TypeOK
<1>2. fresh \in Seq(Nat \ {0}) /\ Len(fresh) = n
  BY <1>1
<1>3. cells \in Seq(Nat \ {0}) /\ Len(cells) = Len(idle) + n
  BY <1>1, <1>2 DEF IdleAnd
<1>4. \A i \in 1..Len(idle) : cells[i] = idle[i]
  BY <1>1, <1>2 DEF IdleAnd
<1>5. \A i \in 1..Len(cells) :
        i > Len(idle) => cells[i] = allocated + (i - Len(idle))
  BY <1>1, <1>2, <1>3 DEF IdleAnd
<1>6. /\ \A i \in 1..Len(idle) : idle[i] <= allocated
      /\ \A k \in Key : where[k] <= allocated
      /\ \A i, j \in 1..Len(idle) : idle[i] = idle[j] => i = j
      /\ \A i \in 1..Len(idle) : \A k \in Stored : idle[i] # where[k]
  BY DEF StoreInv, CellsExist, CellsDistinct
<1>7. ASSUME NEW i \in 1..Len(cells)
      PROVE  \/ i \in 1..Len(idle) /\ cells[i] = idle[i]
             \/ i > Len(idle) /\ cells[i] = allocated + (i - Len(idle))
  BY <1>1, <1>3, <1>4, <1>5
<1>8. Len(idle) \in Nat /\ \A i \in 1..Len(idle) : idle[i] \in Nat
  BY <1>1
<1> HIDE DEF cells, fresh
<1>9. ASSUME NEW i \in 1..Len(cells)
      PROVE  cells[i] <= allocated + n
  <2>1. CASE i \in 1..Len(idle) /\ cells[i] = idle[i]
    <3>1. idle[i] \in Nat /\ idle[i] <= allocated
      BY <2>1, <1>6, <1>8
    <3> QED BY <3>1, <2>1, <1>1
  <2>2. CASE i > Len(idle) /\ cells[i] = allocated + (i - Len(idle))
    BY <2>2, <1>1, <1>3, <1>8
  <2> QED BY <2>1, <2>2, <1>7
<1>10. \A i, j \in 1..Len(cells) : cells[i] = cells[j] => i = j
  <2> SUFFICES ASSUME NEW i \in 1..Len(cells), NEW j \in 1..Len(cells),
                      cells[i] = cells[j]
               PROVE  i = j
    OBVIOUS
  <2>1. CASE i \in 1..Len(idle) /\ j \in 1..Len(idle)
    BY <2>1, <1>4, <1>6
  <2>2. CASE i > Len(idle) /\ j > Len(idle)
    BY <2>2, <1>1, <1>3, <1>5, <1>8
  <2>3. ASSUME NEW l \in 1..Len(idle), NEW m \in 1..Len(cells), m > Len(idle)
        PROVE  cells[l] # cells[m]
    <3>1. cells[l] = idle[l] /\ idle[l] \in Nat /\ idle[l] <= allocated
      BY <1>4, <1>6, <1>8
    <3>2. cells[m] = allocated + (m - Len(idle)) /\ m - Len(idle) > 0
      BY <2>3, <1>3, <1>5, <1>8
    <3>3. allocated + (m - Len(idle)) > allocated
      BY <3>2, <1>1, <1>3, <1>8
    <3>4. cells[l] <= allocated /\ cells[m] > allocated /\ cells[l] \in Nat
      BY <3>1, <3>2, <3>3
    <3>5. ~ allocated > allocated
      BY <1>1
    <3> QED BY <3>4, <3>5, <1>1
  <2> QED BY <2>1, <2>2, <2>3, <1>7
<1>11. ASSUME NEW i \in 1..Len(cells), NEW k \in Stored
       PROVE  cells[i] # where[k]
  <2>1. CASE i \in 1..Len(idle) /\ cells[i] = idle[i]
    BY <2>1, <1>6
  <2>2. CASE i > Len(idle) /\ cells[i] = allocated + (i - Len(idle))
    <3>1. where[k] \in Nat /\ where[k] <= allocated
      BY <1>1, <1>6 DEF Stored
    <3> QED BY <3>1, <2>2, <1>1, <1>3, <1>8
  <2> QED BY <2>1, <2>2, <1>7
<1> QED BY <1>3, <1>4, <1>9, <1>10, <1>11 DEF cells

\* An insertion takes the first cell of the queue and nothing else from it.
LEMMA InsertKeepsStore ==
  ASSUME StoreAssumption, StoreInv, NEW k \in Key, Insert(k)
  PROVE  StoreInv' /\ FreedBehindMargin /\ FirstFreedFirstUsed
<1>1. PICK n \in 0..MaxEntries :
        /\ Len(IdleAnd(n)) > Margin
        /\ where' = [where EXCEPT ![k] = Head(IdleAnd(n))]
        /\ idle' = Tail(IdleAnd(n))
        /\ allocated' = allocated + n
  BY DEF Insert
<1> DEFINE cells == IdleAnd(n)
<1>2. n \in Nat /\ Margin \in Nat \ {0}
  BY DEF StoreAssumption
<1>3. /\ cells \in Seq(Nat \ {0})
      /\ Len(cells) = Len(idle) + n
      /\ \A i \in 1..Len(idle) : cells[i] = idle[i]
      /\ \A i \in 1..Len(cells) : cells[i] <= allocated + n
      /\ \A i, j \in 1..Len(cells) : cells[i] = cells[j] => i = j
      /\ \A i \in 1..Len(cells) : \A m \in Stored : cells[i] # where[m]
  BY <1>2, QueueGrown
<1>4. /\ Len(cells) > Margin
      /\ where' = [where EXCEPT ![k] = Head(cells)]
      /\ idle' = Tail(cells)
      /\ allocated' = allocated + n
  BY <1>1
<1>5. /\ where \in [Key -> Nat] /\ idle \in Seq(Nat \ {0}) /\ allocated \in Nat
      /\ where[k] = Nil
  BY DEF StoreInv, TypeOK, Insert
<1> HIDE DEF cells
<1>6. /\ Head(cells) = cells[1] /\ Head(cells) \in Nat \ {0}
      /\ Tail(cells) \in Seq(Nat \ {0})
      /\ Len(Tail(cells)) = Len(cells) - 1
      /\ \A i \in 1..(Len(cells) - 1) : Tail(cells)[i] = cells[i + 1]
  <2>1. cells # <<>>
    BY <1>2, <1>3, <1>4
  <2>2. Head(cells) = cells[1]
    BY <2>1, <1>3
  <2> QED BY <2>1, <2>2, <1>3, HeadTailProperties
<1>7. TypeOK'
  BY <1>2, <1>4, <1>5, <1>6 DEF TypeOK
<1>8. MarginIsIdle'
  BY <1>2, <1>3, <1>4, <1>6 DEF MarginIsIdle
<1>9. /\ 1..Len(idle') = 1..(Len(cells) - 1)
      /\ \A i \in 1..Len(idle') : i + 1 \in 1..Len(cells) /\ idle'[i] = cells[i + 1]
      /\ 1 \in 1..Len(cells)
  BY <1>2, <1>3, <1>4, <1>6
<1>10. Stored' = Stored \union {k} /\ where'[k] = cells[1]
       /\ \A m \in Stored : m # k /\ where'[m] = where[m]
  BY <1>4, <1>5, <1>6 DEF Stored, Nil
<1>11. CellsExist'
  <2>1. \A i \in 1..Len(idle') : idle'[i] <= allocated'
    BY <1>3, <1>4, <1>9
  <2>2. \A m \in Key : where[m] <= allocated
    BY DEF StoreInv, CellsExist
  <2>3. ASSUME NEW m \in Key PROVE where'[m] <= allocated'
    <3>1. CASE m = k
      BY <3>1, <1>3, <1>4, <1>9, <1>10
    <3>2. CASE m # k
      BY <3>2, <2>2, <1>2, <1>4, <1>5
    <3> QED BY <3>1, <3>2
  <2> QED BY <2>1, <2>3 DEF CellsExist
<1>12. CellsDistinct'
  <2>1. \A i, j \in 1..Len(idle') : idle'[i] = idle'[j] => i = j
    BY <1>3, <1>9
  <2>2. \A m, l \in Stored : where[m] = where[l] => m = l
    BY DEF StoreInv, CellsDistinct
  <2>3. \A m, l \in Stored' : where'[m] = where'[l] => m = l
    BY <2>2, <1>3, <1>9, <1>10
  <2>4. ASSUME NEW i \in 1..Len(idle'), NEW m \in Stored'
        PROVE  idle'[i] # where'[m]
    <3>1. i + 1 \in 1..Len(cells) /\ i + 1 # 1 /\ idle'[i] = cells[i + 1]
      BY <1>9
    <3>2. CASE m = k
      BY <3>1, <3>2, <1>3, <1>9, <1>10
    <3>3. CASE m # k
      <4>1. m \in Stored /\ where'[m] = where[m]
        BY <3>3, <1>10
      <4> QED BY <3>1, <4>1, <1>3
    <3> QED BY <3>2, <3>3
  <2> QED BY <2>1, <2>3, <2>4 DEF CellsDistinct
<1>13. FreedBehindMargin
  BY <1>4, <1>5, <1>10 DEF FreedBehindMargin, Stored
<1>14. FirstFreedFirstUsed
  <2>1. ASSUME NEW i \in 2..Len(idle)
        PROVE  i - 2 + 1 \in 1..Len(idle') /\ idle'[i - 2 + 1] = idle[i]
    <3>1. Len(idle') = Len(cells) - 1 /\ Len(cells) \in Nat /\ Len(idle) \in Nat
      BY <1>3, <1>4, <1>5, <1>6
    <3>2. i - 1 \in 1..Len(idle') /\ i - 2 + 1 = i - 1 /\ (i - 1) + 1 = i
      BY <3>1, <1>2, <1>3
    <3>3. idle'[i - 1] = cells[(i - 1) + 1]
      BY <3>2, <1>9
    <3>4. i \in 1..Len(idle)
      BY <3>1
    <3> QED BY <3>2, <3>3, <3>4, <1>3
  <2> QED BY <2>1 DEF FirstFreedFirstUsed
<1> QED BY <1>7, <1>8, <1>11, <1>12, <1>13, <1>14 DEF StoreInv

\* A deleted key's cell joins the queue at its end.
LEMMA DeleteKeepsStore ==
  ASSUME StoreAssumption, StoreInv, NEW k \in Key, Delete(k)
  PROVE  StoreInv' /\ FreedBehindMargin /\ FirstFreedFirstUsed
<1>1. /\ where \in [Key -> Nat] /\ idle \in Seq(Nat \ {0}) /\ allocated \in Nat
      /\ Len(idle) \in Nat /\ Margin \in Nat
      /\ Len(idle) >= Margin
  BY DEF StoreInv, TypeOK, MarginIsIdle, StoreAssumption
<1>2. /\ where[k] \in Nat \ {0}
      /\ where' = [where EXCEPT ![k] = Nil]
      /\ idle' = Append(idle, where[k])
      /\ allocated' = allocated
  BY <1>1 DEF Delete, Nil
<1>3. /\ idle' \in Seq(Nat \ {0})
      /\ Len(idle') = Len(idle) + 1
      /\ idle'[Len(idle) + 1] = where[k]
      /\ \A i \in 1..Len(idle) : idle'[i] = idle[i]
  BY <1>1, <1>2
<1>4. /\ k \in Stored
      /\ Stored' = Stored \ {k}
      /\ \A m \in Stored' : where'[m] = where[m]
  BY <1>1, <1>2 DEF Stored, Nil
<1>5. ASSUME NEW i \in 1..Len(idle')
      PROVE  \/ i \in 1..Len(idle) /\ idle'[i] = idle[i]
             \/ i = Len(idle) + 1 /\ idle'[i] = where[k]
  BY <1>1, <1>3
<1>6. /\ \A i \in 1..Len(idle) : idle[i] <= allocated
      /\ \A m \in Key : where[m] <= allocated
      /\ \A i, j \in 1..Len(idle) : idle[i] = idle[j] => i = j
      /\ \A m, l \in Stored : where[m] = where[l] => m = l
      /\ \A i \in 1..Len(idle) : \A m \in Stored : idle[i] # where[m]
  BY DEF StoreInv, CellsExist, CellsDistinct
<1>7. TypeOK'
  BY <1>1, <1>2, <1>3 DEF TypeOK, Nil
<1>8. MarginIsIdle'
  BY <1>1, <1>3 DEF MarginIsIdle
<1>9. CellsExist'
  <2>1. \A i \in 1..Len(idle') : idle'[i] <= allocated'
    BY <1>2, <1>5, <1>6
  <2>2. \A m \in Key : where'[m] <= allocated'
    BY <1>1, <1>2, <1>6 DEF Nil
  <2> QED BY <2>1, <2>2 DEF CellsExist
<1>10. CellsDistinct'
  <2>1. \A i, j \in 1..Len(idle') : idle'[i] = idle'[j] => i = j
    BY <1>4, <1>5, <1>6
  <2>2. \A m, l \in Stored' : where'[m] = where'[l] => m = l
    BY <1>4, <1>6
  <2>3. \A i \in 1..Len(idle') : \A m \in Stored' : idle'[i] # where'[m]
    BY <1>4, <1>5, <1>6
  <2> QED BY <2>1, <2>2, <2>3 DEF CellsDistinct
<1>11. FreedBehindMargin
  <2>1. SUFFICES ASSUME NEW m \in Key, where[m] # Nil, where'[m] = Nil,
                        NEW i \in 1..Len(idle'), idle'[i] = where[m]
                 PROVE  i > Margin
    BY DEF FreedBehindMargin
  <2>2. m \in Stored
    BY <2>1 DEF Stored
  <2>3. i = Len(idle) + 1
    BY <2>1, <2>2, <1>5, <1>6
  <2> QED BY <2>3, <1>1
<1>12. FirstFreedFirstUsed
  <2>1. ASSUME NEW i \in 1..Len(idle)
        PROVE  i - 1 + 1 \in 1..Len(idle') /\ idle'[i - 1 + 1] = idle[i]
    <3>1. i - 1 + 1 = i /\ i \in 1..Len(idle')
      BY <1>1, <1>3
    <3> QED BY <3>1, <1>3
  <2> QED BY <2>1 DEF FirstFreedFirstUsed
<1> QED BY <1>7, <1>8, <1>9, <1>10, <1>11, <1>12 DEF StoreInv

\* Cleaning puts every occupied cell once behind the idle ones.
LEMMA CleanKeepsStore ==
  ASSUME StoreAssumption, StoreInv, Clean
  PROVE  StoreInv' /\ FreedBehindMargin /\ FirstFreedFirstUsed
<1>1. /\ where \in [Key -> Nat] /\ idle \in Seq(Nat \ {0}) /\ allocated \in Nat
      /\ Len(idle) \in Nat /\ Margin \in Nat
      /\ Len(idle) >= Margin
  BY DEF StoreInv, TypeOK, MarginIsIdle, StoreAssumption
<1>2. PICK n \in 0..MaxEntries : \E freed \in [1..n -> Occupied] :
        /\ \A i, j \in 1..n : freed[i] = freed[j] => i = j
        /\ \A c \in Occupied : \E i \in 1..n : freed[i] = c
        /\ idle' = idle \o freed
  BY DEF Clean
<1>3. PICK freed \in [1..n -> Occupied] :
        /\ \A i, j \in 1..n : freed[i] = freed[j] => i = j
        /\ idle' = idle \o freed
  BY <1>2
<1>4. n \in Nat /\ where' = [k \in Key |-> Nil] /\ allocated' = allocated
  BY DEF StoreAssumption, Clean
<1>5. /\ \A c \in Occupied : c \in Nat \ {0} /\ c <= allocated
      /\ \A i \in 1..Len(idle) : idle[i] <= allocated
      /\ \A i, j \in 1..Len(idle) : idle[i] = idle[j] => i = j
      /\ \A i \in 1..Len(idle) : \A c \in Occupied : idle[i] # c
  BY <1>1 DEF StoreInv, CellsExist, CellsDistinct, Occupied, Stored, Nil
<1>6. freed \in Seq(Nat \ {0}) /\ Len(freed) = n
  BY <1>3, <1>4, <1>5
<1>7. idle' \in Seq(Nat \ {0}) /\ Len(idle') = Len(idle) + n
  <2>1. idle' = idle \o freed /\ idle \in Seq(Nat \ {0})
    BY <1>1, <1>3
  <2> QED BY <2>1, <1>6, ConcatProperties
<1>8. ASSUME NEW i \in 1..Len(idle')
      PROVE  \/ i \in 1..Len(idle) /\ idle'[i] = idle[i]
             \/ /\ i > Len(idle) /\ i - Len(idle) \in 1..n
                /\ idle'[i] = freed[i - Len(idle)]
  BY <1>1, <1>3, <1>4, <1>6, <1>7
<1>9. ASSUME NEW i \in 1..Len(idle') 
      PROVE  i > Len(idle) => idle'[i] \in Occupied
  BY <1>3, <1>8
<1>10. Stored' = {}
  BY <1>4 DEF Stored
<1>11. TypeOK' /\ MarginIsIdle'
  BY <1>1, <1>4, <1>7 DEF TypeOK, MarginIsIdle, Nil
<1>12. CellsExist'
  <2>1. \A i \in 1..Len(idle') : idle'[i] <= allocated'
    BY <1>4, <1>5, <1>8, <1>9
  <2>2. \A m \in Key : where'[m] <= allocated'
    BY <1>1, <1>4 DEF Nil
  <2> QED BY <2>1, <2>2 DEF CellsExist
<1>13. CellsDistinct'
  <2>1. ASSUME NEW i \in 1..Len(idle'), NEW j \in 1..Len(idle'),
               idle'[i] = idle'[j]
        PROVE  i = j
    <3>1. CASE i \in 1..Len(idle) /\ j \in 1..Len(idle)
      <4>1. idle[i] = idle[j]
        BY <3>1, <2>1, <1>1, <1>8
      <4> QED BY <4>1, <3>1, <1>5
    <3>2. CASE i > Len(idle) /\ j > Len(idle)
      <4>1. i - Len(idle) \in 1..n /\ idle'[i] = freed[i - Len(idle)]
        BY <3>2, <1>1, <1>8
      <4>2. j - Len(idle) \in 1..n /\ idle'[j] = freed[j - Len(idle)]
        BY <3>2, <1>1, <1>8
      <4>3. i - Len(idle) = j - Len(idle)
        BY <4>1, <4>2, <2>1, <1>3
      <4> QED BY <4>3, <1>1, <1>7
    <3>3. CASE i \in 1..Len(idle) /\ j > Len(idle)
      <4>1. idle'[j] \in Occupied /\ idle'[i] = idle[i]
        BY <3>3, <1>1, <1>8, <1>9
      <4> QED BY <4>1, <3>3, <2>1, <1>5
    <3>4. CASE j \in 1..Len(idle) /\ i > Len(idle)
      <4>1. idle'[i] \in Occupied /\ idle'[j] = idle[j]
        BY <3>4, <1>1, <1>8, <1>9
      <4> QED BY <4>1, <3>4, <2>1, <1>5
    <3> QED BY <3>1, <3>2, <3>3, <3>4, <1>8
  <2> QED BY <2>1, <1>10 DEF CellsDistinct
<1>14. FreedBehindMargin
  <2>1. SUFFICES ASSUME NEW m \in Key, where[m] # Nil,
                        NEW i \in 1..Len(idle'), idle'[i] = where[m]
                 PROVE  i > Margin
    BY DEF FreedBehindMargin
  <2>2. where[m] \in Occupied
    BY <2>1 DEF Occupied, Stored
  <2>3. i > Len(idle)
    BY <2>1, <2>2, <1>5, <1>8
  <2> QED BY <2>3, <1>1, <1>7
<1>15. FirstFreedFirstUsed
  <2>1. ASSUME NEW i \in 1..Len(idle)
        PROVE  i - 1 + 1 \in 1..Len(idle') /\ idle'[i - 1 + 1] = idle[i]
    <3>1. i - 1 + 1 = i /\ i \in 1..Len(idle')
      BY <1>1, <1>4, <1>7
    <3> QED BY <3>1, <1>1, <1>8
  <2> QED BY <2>1 DEF FirstFreedFirstUsed
<1> QED BY <1>11, <1>12, <1>13, <1>14, <1>15 DEF StoreInv

\* Every step keeps the invariant and respects the margin.
LEMMA StepKeepsStore ==
  ASSUME StoreAssumption, StoreInv, Next
  PROVE  StoreInv' /\ FreedBehindMargin /\ FirstFreedFirstUsed
<1>1. ASSUME NEW k \in Key, Insert(k)
      PROVE  StoreInv' /\ FreedBehindMargin /\ FirstFreedFirstUsed
  BY <1>1, InsertKeepsStore
<1>2. ASSUME NEW k \in Key, Delete(k)
      PROVE  StoreInv' /\ FreedBehindMargin /\ FirstFreedFirstUsed
  BY <1>2, DeleteKeepsStore
<1>3. CASE Clean
  BY <1>3, CleanKeepsStore
<1> QED BY <1>1, <1>2, <1>3 DEF Next

\* No cell is ever shared: a cell belongs to one key, or waits once in the
\* queue, whatever keys are inserted, deleted and cleaned away
\* (InsertHash, DeleteHash, CleanHash).
THEOREM StoreIsSound ==
  ASSUME StoreAssumption
  PROVE  Spec => []StoreInv
<1>1. Init => StoreInv
  BY InitEstablishesStore
<1>2. StoreInv /\ [Next]_vars => StoreInv'
  <2>1. SUFFICES ASSUME StoreInv, [Next]_vars PROVE StoreInv'
    OBVIOUS
  <2>2. CASE Next
    BY <2>1, <2>2, StepKeepsStore
  <2>3. CASE UNCHANGED vars
    BY <2>1, <2>3 DEF vars, StoreInv, TypeOK, MarginIsIdle, CellsExist,
                      CellsDistinct, Stored
  <2> QED BY <2>1, <2>2, <2>3
<1> QED BY <1>1, <1>2, PTL DEF Spec

\* A cell that loses its key is used again only after Margin insertions: the
\* promise of free_entries_margin (hash.c 933-936), kept by deleting and by
\* cleaning the table.
THEOREM MarginIsKept ==
  ASSUME StoreAssumption
  PROVE  Spec => MarginKept
<1>1. StoreInv /\ [Next]_vars
        => [FreedBehindMargin /\ FirstFreedFirstUsed]_vars
  BY StepKeepsStore
<1> QED BY <1>1, StoreIsSound, PTL DEF Spec, MarginKept
=============================================================================
