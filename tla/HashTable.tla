------------------------------ MODULE HashTable ------------------------------
(***************************************************************************)
(* The generic hash table of src/src/utils/mrvl_sai_hash.c that keeps the   *)
(* routes (src/src/mrvl_sai_route.c 127-146), pointer by pointer: chains    *)
(* of the entries of a bucket, the free list, the list of the entries       *)
(* sorted by key, and the sorted header, an array of keys for a binary      *)
(* search into that list, refreshed only once in a while.                   *)
(*                                                                         *)
(* A table sorted by key is modelled (MRVL_SAI_UTL_SORT_BY_KEY_CNS, the     *)
(* only kind the routes use). Keys are numbers, in the order memcmp gives.  *)
(***************************************************************************)
EXTENDS Integers, Sequences, FiniteSets, FiniteSetsExt

CONSTANTS
  Key,                \* keys of the entries
  FirstKey,           \* the key of all 0x00 bytes
  LastKey,            \* the key of all 0xFF bytes
  NumBuckets,         \* header_size
  HashOf,             \* the hash function: a bucket for every key
  MinEntries,         \* min_num_of_entries
  MaxEntries,         \* max_num_of_entries
  AllocPortion,       \* alloc_portion
  Margin,             \* free_entries_margin
  SortedHeaderSize,   \* sorted_header_size: 0 without a sorted header
  MinRefresh,         \* mrvl_sai_utl_prv_min_refresh_treshold_CNS (3)
  MaxRefresh          \* mrvl_sai_utl_prv_max_refresh_treshold_CNS (20)

ASSUME TableAssumption ==
  /\ Key \subseteq Nat /\ {FirstKey, LastKey} \subseteq Nat
  /\ FirstKey <= LastKey /\ \A k \in Key : FirstKey <= k /\ k <= LastKey
  /\ {NumBuckets, MinEntries, MaxEntries, AllocPortion, Margin} \subseteq Nat
  /\ {SortedHeaderSize, MinRefresh, MaxRefresh} \subseteq Nat
  /\ HashOf \in [Key \union {FirstKey, LastKey} -> 1..NumBuckets]
  /\ MinEntries <= MaxEntries /\ AllocPortion <= MaxEntries
  /\ AllocPortion = 0 => MaxEntries = MinEntries
  /\ Margin > 0
  /\ SortedHeaderSize = 0 \/ SortedHeaderSize >= 5

Cell == 1..(MaxEntries + Margin)
Nil == 0
Bucket == 1..NumBuckets

\* The pointers and counters of mrvl_sai_utl_prv_hash_id_STC together with
\* the cells they lead to, numbered in the order they are allocated.
VARIABLE table

vars == table

-----------------------------------------------------------------------------
(* Following pointers.                                                     *)

\* The cells met from c on along succ. A chain longer than the memory is cut
\* one cell too long, where the program would walk in a circle.
Follow(succ, c) ==
  LET walk[at \in (0..(Cardinality(Cell) + 1)) \X (Cell \union {Nil})] ==
        IF at[1] = 0 \/ at[2] = Nil THEN <<>>
        ELSE <<at[2]>> \o walk[<<at[1] - 1, succ[at[2]]>>]
  IN  walk[<<Cardinality(Cell) + 1, c>>]

Chain(t, b)   == Follow(t.next, t.header[b])
FreeList(t)   == Follow(t.next, t.firstFree)
SortedList(t) == Follow(t.byKey, t.firstSorted)

\* mrvl_sai_utl_prv_search_by_key: the first cell of the chain with key k.
Search(t, k) ==
  LET chain == Chain(t, HashOf[k])
      hits  == {i \in DOMAIN chain : t.key[chain[i]] = k}
  IN  IF hits = {} THEN Nil ELSE chain[Min(hits)]

-----------------------------------------------------------------------------
(* The sorted header.                                                      *)

\* The binary search: a range is the position mid it is cut at and its number
\* of header keys; the search of k starts from one of them. The left part,
\* which mid ends, is never the smaller one.
Left(len) == len - len \div 2
Ranges == Int \X (3..SortedHeaderSize)

\* Mutant: a key equal to the middle one is looked for on the right.
SearchStartRight(t, k) ==
  LET start[range \in Ranges] ==
        IF k < t.sortedHeader[range[1]]
        THEN IF Left(range[2]) = 2 THEN range[1] - 1
             ELSE start[<<range[1] - Left(range[2]) \div 2, Left(range[2])>>]
        ELSE IF range[2] \div 2 = 1 THEN range[1]
             ELSE start[<<range[1] + Left(range[2] \div 2 + 1) - 1,
                          range[2] \div 2 + 1>>]
  IN  start[<<Left(SortedHeaderSize), SortedHeaderSize>>]

SearchStart(t, k) ==
  LET start[range \in Ranges] ==
        IF k <= t.sortedHeader[range[1]]
        THEN IF Left(range[2]) = 2 THEN range[1] - 1
             ELSE start[<<range[1] - Left(range[2]) \div 2, Left(range[2])>>]
        ELSE IF range[2] \div 2 = 1 THEN range[1]
             ELSE start[<<range[1] + Left(range[2] \div 2 + 1) - 1,
                          range[2] \div 2 + 1>>]
  IN  start[<<Left(SortedHeaderSize), SortedHeaderSize>>]

\* mrvl_sai_utl_prv_find_sorted_header_entry: the entry of the last header key
\* at or before the start that is still in the table; Nil stands for the
\* beginning of the sorted list, and so does the first header key.
LowCell(t, k) ==
  IF SortedHeaderSize = 0 THEN Nil
  ELSE LET present == {i \in 2..SearchStart(t, k) :
                         Search(t, t.sortedHeader[i]) # Nil}
       IN  IF present = {} THEN Nil
           ELSE Search(t, t.sortedHeader[Max(present)])

\* What that search leaves behind: a header key that is gone forces a refresh
\* at the next insertion or deletion.
Probed(t, k) ==
  IF /\ SortedHeaderSize # 0
     /\ SearchStart(t, k) > 1
     /\ Search(t, t.sortedHeader[SearchStart(t, k)]) = Nil
  THEN [t EXCEPT !.refreshCtr = MaxRefresh]
  ELSE t

\* mrvl_sai_utl_prv_get_pre_sorted: the last entry of the sorted list, from
\* the low cell on, that is smaller than k; Nil when there is none.
PreSorted(t, k) ==
  LET low  == LowCell(t, k)
      path == IF low = Nil THEN SortedList(t) ELSE Follow(t.byKey, t.byKey[low])
      stop == {i \in DOMAIN path : t.key[path[i]] >= k}
      n    == IF stop = {} THEN Len(path) ELSE Min(stop) - 1
  IN  IF n = 0 THEN low ELSE path[n]

\* mrvl_sai_utl_prv_refresh_sorted_header: all header keys but the first and
\* the last are taken from the sorted list, at equal distances.
Refreshed(t) ==
  LET sub    == t.numUsed \div (SortedHeaderSize - 1) + 1
      sorted == SortedList(t)
  IN  [t EXCEPT
        !.sortedHeader = [i \in DOMAIN @ |->
           IF i \in {1, SortedHeaderSize} THEN @[i]
           ELSE IF (i - 1) * sub <= Len(sorted) THEN t.key[sorted[(i - 1) * sub]]
           ELSE LastKey],
        !.refreshTreshold = Min({MaxRefresh, Max({MinRefresh, sub})}),
        !.refreshCtr = 0]

\* Every insertion and deletion counts towards the next refresh.
Counted(t) ==
  IF SortedHeaderSize = 0 THEN t
  ELSE IF t.refreshCtr + 1 >= t.refreshTreshold THEN Refreshed(t)
  ELSE [t EXCEPT !.refreshCtr = @ + 1]

-----------------------------------------------------------------------------
(* The operations.                                                         *)

\* mrvl_sai_utl_NewInitHash, with the cells not yet allocated blank.
NewInitHash ==
  LET made == MinEntries + Margin
  IN  [header |-> [b \in Bucket |-> Nil],
       next   |-> [c \in Cell |-> IF c < made THEN c + 1 ELSE Nil],
       free   |-> [c \in Cell |-> c <= made],
       byKey  |-> [c \in Cell |-> Nil],
       key    |-> [c \in Cell |-> FirstKey],
       firstFree |-> 1, lastFree |-> made, firstSorted |-> Nil,
       numFree |-> MinEntries, numUsed |-> 0, allocated |-> made,
       sortedHeader |-> [i \in 1..SortedHeaderSize |->
                           IF i < SortedHeaderSize THEN FirstKey ELSE LastKey],
       refreshCtr |-> 0, refreshTreshold |-> 2 * MinRefresh]

\* A portion of cells is added behind the free list.
GrownBy(t, portion) ==
  LET last == t.allocated + portion
  IN  [t EXCEPT
        !.next = [c \in Cell |->
           CASE c = t.lastFree                 -> t.allocated + 1
             [] c > t.allocated /\ c < last    -> c + 1
             [] c = last                       -> Nil
             [] OTHER                          -> @[c]],
        !.free = [c \in Cell |-> @[c] \/ c \in (t.allocated + 1)..last],
        !.lastFree = last, !.numFree = @ + portion, !.allocated = last]

\* mrvl_sai_utl_prv_allocate_more_entries: a portion, or what is left to the
\* maximum.
Grown(t) == GrownBy(t, Min({AllocPortion, MaxEntries - t.numUsed}))

\* The first free cell is taken for k and put first in the chain of its
\* bucket.
Placed(t, k) ==
  LET c == t.firstFree
  IN  [t EXCEPT
        !.firstFree = t.next[c], !.numFree = @ - 1, !.numUsed = @ + 1,
        !.key[c] = k, !.free[c] = FALSE,
        !.next[c] = t.header[HashOf[k]], !.header[HashOf[k]] = c]

\* mrvl_sai_utl_InsertHash. An existing key, a full table and a failing
\* malloc change nothing.
InsertHash(k) ==
  /\ Search(table, k) = Nil
  /\ table.numFree > 0 \/ table.numUsed < MaxEntries
  /\ LET placed == Placed(IF table.numFree = 0 THEN Grown(table) ELSE table, k)
         c      == placed.header[HashOf[k]]
         pre    == PreSorted(placed, k)
         t      == Probed(placed, k)
     IN  table' = Counted(
           IF pre = Nil
           THEN [t EXCEPT !.byKey[c] = t.firstSorted, !.firstSorted = c]
           ELSE [t EXCEPT !.byKey[c] = t.byKey[pre], !.byKey[pre] = c])

\* Mutant: the first cell takes the rest of its chain with it.
UnchainedRest(t, b, c) ==
  LET chain == Chain(t, b)
      i     == CHOOSE j \in DOMAIN chain : chain[j] = c
  IN  IF i = 1
      THEN [t EXCEPT !.header[b] = Nil, !.numUsed = @ - 1]
      ELSE [t EXCEPT !.next[chain[i - 1]] = t.next[c], !.numUsed = @ - 1]

\* The cell leaves the chain of its bucket.
Unchained(t, b, c) ==
  LET chain == Chain(t, b)
      i     == CHOOSE j \in DOMAIN chain : chain[j] = c
  IN  IF i = 1
      THEN [t EXCEPT !.header[b] = t.next[c], !.numUsed = @ - 1]
      ELSE [t EXCEPT !.next[chain[i - 1]] = t.next[c], !.numUsed = @ - 1]

\* The bytes the cells of a set still hold are not kept in the model: an
\* insertion writes them all before any operation reads them.
Blank(t, cells) ==
  [t EXCEPT !.free = [c \in Cell |-> @[c] \/ c \in cells],
            !.key = [c \in Cell |-> IF c \in cells THEN FirstKey ELSE @[c]],
            !.byKey = [c \in Cell |-> IF c \in cells THEN Nil ELSE @[c]]]

\* The pointers of next when it leads along path, and from its end to rest.
Relinked(next, path, rest) ==
  LET n     == Len(path)
      at(c) == CHOOSE i \in 1..n : path[i] = c
  IN  [c \in Cell |-> IF \A i \in 1..n : path[i] # c THEN next[c]
                      ELSE IF at(c) = n THEN rest
                      ELSE path[at(c) + 1]]

Elements(s) == {s[i] : i \in DOMAIN s}

\* Mutant: freed cells are the first to be used again.
FreedFirst(t, cells) ==
  IF cells = <<>> THEN t
  ELSE [Blank(t, Elements(cells)) EXCEPT
         !.next = Relinked(@, cells, t.firstFree),
         !.firstFree = cells[1], !.numFree = @ + Len(cells)]

\* Mutant: the end of the free list is not moved.
FreedNoEnd(t, cells) ==
  LET path == <<t.lastFree>> \o cells
  IN  [Blank(t, Elements(cells)) EXCEPT
        !.next = Relinked(@, path, Nil), !.numFree = @ + Len(cells)]

\* The cells of a sequence are put behind the free list.
Freed(t, cells) ==
  LET path == <<t.lastFree>> \o cells
  IN  [Blank(t, Elements(cells)) EXCEPT
        !.next = Relinked(@, path, Nil),
        !.lastFree = path[Len(path)], !.numFree = @ + Len(cells)]

\* mrvl_sai_utl_prv_delete_by_key: out of the chain, out of the sorted list,
\* then into the free list. A key that is not stored changes nothing.
DeleteHash(k) ==
  LET c == Search(table, k)
  IN  /\ c # Nil
      /\ LET unchained == Unchained(table, HashOf[k], c)
             pre       == PreSorted(unchained, k)
             t         == Probed(unchained, k)
         IN  table' = Freed(Counted(
               IF pre = Nil
               THEN [t EXCEPT !.firstSorted = t.byKey[c]]
               ELSE [t EXCEPT !.byKey[pre] = t.byKey[c]]), <<c>>)

\* mrvl_sai_utl_CleanHash: the chains follow each other into the free list.
CleanHash ==
  LET all[b \in 0..NumBuckets] ==
        IF b = 0 THEN <<>> ELSE all[b - 1] \o Chain(table, b)
  IN  table' = [Freed(table, all[NumBuckets]) EXCEPT
        !.header = [b \in Bucket |-> Nil], !.firstSorted = Nil, !.numUsed = 0,
        !.sortedHeader = [i \in DOMAIN @ |->
           IF i \in {1, SortedHeaderSize} THEN @[i] ELSE FirstKey],
        !.refreshCtr = IF SortedHeaderSize = 0 THEN @ ELSE 0,
        !.refreshTreshold = IF SortedHeaderSize = 0 THEN @ ELSE 2 * MinRefresh]

\* Mutant: a key smaller than all others has no successor.
NextSortAfterOnly(t, k) ==
  LET c   == Search(t, k)
      pre == IF c # Nil THEN c ELSE PreSorted(t, k)
  IN  IF pre # Nil THEN t.byKey[pre] ELSE Nil

\* mrvl_sai_utl_GetNextSort: the cell after key k in the sorted list, where k
\* itself need not be stored.
NextSort(t, k) ==
  LET c   == Search(t, k)
      pre == IF c # Nil THEN c ELSE PreSorted(t, k)
  IN  IF pre # Nil THEN t.byKey[pre] ELSE t.firstSorted

\* Looking for the successor of a key that is not stored may force a refresh.
GetNextSort(k) ==
  /\ Search(table, k) = Nil
  /\ table' = Probed(table, k)

-----------------------------------------------------------------------------
Init == table = NewInitHash

Next ==
  \/ \E k \in Key : InsertHash(k) \/ DeleteHash(k) \/ GetNextSort(k)
  \/ CleanHash

Spec == Init /\ [][Next]_vars

-----------------------------------------------------------------------------
(* What must hold. The lists are read through the pointers, so each of these
   needs all the pointer updates of an operation to agree.                  *)

CellOrNil == Cell \union {Nil}

\* The table's pointers lead to cells, its counters stay within the memory.
Table ==
  [header : [Bucket -> CellOrNil], next : [Cell -> CellOrNil],
   free : [Cell -> BOOLEAN], byKey : [Cell -> CellOrNil],
   key : [Cell -> Key \union {FirstKey}],
   firstFree : Cell, lastFree : Cell, firstSorted : CellOrNil,
   numFree : 0..MaxEntries, numUsed : 0..MaxEntries, allocated : Cell,
   sortedHeader : [1..SortedHeaderSize -> Key \union {FirstKey, LastKey}],
   refreshCtr : 0..Max({MaxRefresh, 2 * MinRefresh}),
   refreshTreshold : 0..Max({MaxRefresh, 2 * MinRefresh})]

TypeOK == table \in Table

Distinct(s) == \A i, j \in DOMAIN s : s[i] = s[j] => i = j
Chained == UNION {Elements(Chain(table, b)) : b \in Bucket}

\* Every allocated cell is in exactly one place: in the chain of the bucket of
\* its key or in the free list, which ends where the table says it does, and
\* holds the margin besides the free entries the table counts. The free bit
\* marks the cells of the free list, so a search never takes its restart
\* ("change in chain during search, start all over", hash.c 1843-1845), which
\* on a marked chain would never end. (InsertHash, DeleteHash, CleanHash,
\* allocate_more_entries.)
CellsAccounted ==
  LET free == FreeList(table)
  IN  /\ TypeOK
      /\ \A b \in Bucket :
           LET chain == Chain(table, b)
           IN  /\ Distinct(chain)
               /\ \A c \in Elements(chain) :
                    HashOf[table.key[c]] = b /\ ~table.free[c]
      /\ Distinct(free)
      /\ \A c \in Elements(free) : table.free[c]
      /\ Elements(free) = (1..table.allocated) \ Chained
      /\ free[Len(free)] = table.lastFree
      /\ Len(free) = table.numFree + Margin
      /\ Cardinality(Chained) = table.numUsed

\* The sorted list holds exactly the stored entries, in ascending order,
\* although insertions and deletions find their place in it through header
\* keys that may have been deleted, and stored again in another cell, since
\* the header was refreshed. (get_pre_sorted, refresh_sorted_header.)
SortedByKey ==
  LET sorted == SortedList(table)
  IN  /\ Elements(sorted) = Chained
      /\ \A i, j \in DOMAIN sorted :
           i < j => table.key[sorted[i]] < table.key[sorted[j]]

\* GetNextSort answers, for a key stored or not, the least greater key, and
\* nothing only when there is none: what "get next sorted (by key) entry"
\* promises (hash.c 590-594), and what a walk over the routes while they are
\* deleted relies on (route.c 609-632).
NextIsNext ==
  \A k \in Key :
    LET greater == {c \in Chained : table.key[c] > k}
        next    == NextSort(table, k)
    IN  IF greater = {} THEN next = Nil
        ELSE /\ next \in greater
             /\ \A c \in greater : table.key[next] <= table.key[c]

\* The table is a store of keys in cells that are used again in the order
\* they were freed.
Store == INSTANCE CellStore WITH
  where     <- [k \in Key |-> Search(table, k)],
  idle      <- FreeList(table),
  allocated <- table.allocated

StoreSpec == Store!Spec

\* A freed cell is used again only after at least Margin insertions.
MarginKept == Store!MarginKept
=============================================================================
