------------------------------ MODULE CellStore ------------------------------
(***************************************************************************)
(* What the hash table of src/src/utils/mrvl_sai_hash.c promises to its     *)
(* callers, without chains, sorted list or index: every stored key has a    *)
(* memory cell that stays its own while the key is stored, and the cells    *)
(* that hold nothing are used again in the order they were given back,      *)
(* never below the margin the caller asked for at initialization.           *)
(***************************************************************************)
EXTENDS Naturals, Sequences, FiniteSets

CONSTANTS
  Key,          \* the keys of the entries
  MinEntries,   \* min_num_of_entries: entries there is memory for at first
  MaxEntries,   \* max_num_of_entries: entries there will ever be memory for
  Margin        \* free_entries_margin: idle cells no insertion may take

\* What NewInitHash requires of its parameters, as far as it matters here.
StoreAssumption ==
  /\ MinEntries \in Nat
  /\ MaxEntries \in Nat
  /\ Margin \in Nat \ {0}

VARIABLES
  where,      \* the cell of every stored key, Nil for the others
  idle,       \* the cells that hold no entry, the next one to be used first
  allocated   \* how many cells were ever allocated: they are 1..allocated

vars == <<where, idle, allocated>>

\* No cell: cells are numbered from 1.
Nil == 0

\* The keys an entry is stored for, and the cells of those entries.
Stored == {k \in Key : where[k] # Nil}
Occupied == {where[k] : k \in Stored}

-----------------------------------------------------------------------------
Init ==
  /\ where = [k \in Key |-> Nil]
  /\ idle = [i \in 1..(MinEntries + Margin) |-> i]
  /\ allocated = MinEntries + Margin

\* The idle cells followed by n newly allocated ones.
IdleAnd(n) == idle \o [i \in 1..n |-> allocated + i]

\* A key that is not stored gets the cell that has been idle for longest.
\* More cells may be allocated first; the margin stays behind.
Insert(k) ==
  /\ where[k] = Nil
  /\ Cardinality(Stored) < MaxEntries
  /\ \E n \in 0..MaxEntries :
       /\ Len(IdleAnd(n)) > Margin
       /\ where' = [where EXCEPT ![k] = Head(IdleAnd(n))]
       /\ idle' = Tail(IdleAnd(n))
       /\ allocated' = allocated + n

\* The cell of a deleted key goes to the end of the queue.
Delete(k) ==
  /\ where[k] # Nil
  /\ where' = [where EXCEPT ![k] = Nil]
  /\ idle' = Append(idle, where[k])
  /\ UNCHANGED allocated

\* All keys are deleted at once; their cells are queued in some order.
Clean ==
  /\ where' = [k \in Key |-> Nil]
  /\ \E n \in 0..MaxEntries : \E freed \in [1..n -> Occupied] :
       /\ \A i, j \in 1..n : freed[i] = freed[j] => i = j
       /\ \A c \in Occupied : \E i \in 1..n : freed[i] = c
       /\ idle' = idle \o freed
  /\ UNCHANGED allocated

Next ==
  \/ \E k \in Key : Insert(k) \/ Delete(k)
  \/ Clean

Spec == Init /\ [][Next]_vars

-----------------------------------------------------------------------------
TypeOK ==
  /\ where \in [Key -> Nat]
  /\ idle \in Seq(Nat \ {0})
  /\ allocated \in Nat

\* The cells of the margin are never taken.
MarginIsIdle == Len(idle) >= Margin

\* Every cell was allocated.
CellsExist ==
  /\ \A i \in 1..Len(idle) : idle[i] <= allocated
  /\ \A k \in Key : where[k] <= allocated

\* No cell belongs to two keys, waits twice, or waits while it is a key's.
CellsDistinct ==
  /\ \A i, j \in 1..Len(idle) : idle[i] = idle[j] => i = j
  /\ \A k, m \in Stored : where[k] = where[m] => k = m
  /\ \A i \in 1..Len(idle) : \A k \in Stored : idle[i] # where[k]

StoreInv == TypeOK /\ MarginIsIdle /\ CellsExist /\ CellsDistinct

\* A cell that loses its key has at least Margin cells before it in the
\* queue, so that as many insertions must come before it is used again:
\* what the description of free_entries_margin says (hash.c 933-936).
FreedBehindMargin ==
  \A k \in Key :
    where[k] # Nil /\ where'[k] = Nil =>
      \A i \in 1..Len(idle') : idle'[i] = where[k] => i > Margin

\* Cells leave the queue only at its head, and no cell overtakes another:
\* the queue changes only by losing its head or by cells joining its end.
FirstFreedFirstUsed ==
  \E from \in {1, 2} : \A i \in from..Len(idle) :
    i - from + 1 \in 1..Len(idle') /\ idle'[i - from + 1] = idle[i]

MarginKept == [][FreedBehindMargin /\ FirstFreedFirstUsed]_vars
=============================================================================
