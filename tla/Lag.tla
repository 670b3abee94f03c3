--------------------------------- MODULE Lag ---------------------------------
(***************************************************************************)
(* Link aggregation groups (mrvl_sai_lag.c): the table that says which LAG *)
(* ids are in use and how many members each has, the L2 LAG groups of the  *)
(* switch with their buckets, and the object ids that name a member by its *)
(* port and its LAG.                                                       *)
(*                                                                         *)
(* One call is one step.  The index of a bucket is not modelled: the       *)
(* switch lists the buckets of a group in the order of their indices, and  *)
(* which come first is left open.                                          *)
(***************************************************************************)
EXTENDS Integers, FiniteSets

CONSTANTS
  NumLag,       \* LAG ids are 1 .. NumLag, that is SAI_LAG_MAX_GROUPS_CNS - 1
  Port,         \* ports
  MaxMembers,   \* buckets the switch has room for in a group
  CounterMod,   \* group_member_counter is an unsigned integer: 2^32
  Faults,       \* which fpaLib calls may fail without being at fault
  MaxStale,     \* port ids an uninitialised list on the stack may hold
  ClientChecksOids  \* the client names only LAGs and members it was given

ASSUME LagSizes ==
  /\ NumLag \in Nat \ {0} /\ MaxMembers \in Nat /\ MaxStale \in Nat
  /\ CounterMod \in Nat \ {0} /\ MaxMembers < CounterMod
  /\ IsFiniteSet(Port)

ASSUME LagEnvironment ==
  /\ Faults \subseteq {"lookup", "bucketDelete", "groupDelete"}
  /\ ClientChecksOids \in BOOLEAN

VARIABLES
  lagTable,     \* mrvl_sai_lag_group_table
  groups,       \* LAG ids whose group exists in the switch
  buckets,      \* the ports in each group
  told          \* members the client holds an object id of: <<LAG, port>>

lagVars == <<lagTable, groups, buckets, told>>

LagId == 1 .. NumLag

NoLag == [used |-> FALSE, counter |-> 0]

Init ==
  /\ lagTable = [l \in LagId |-> NoLag]
  /\ groups = {}
  /\ buckets = [l \in LagId |-> {}]
  /\ told = {}

-----------------------------------------------------------------------------
(* Object ids of members.  The id of the LAG goes into two bytes and comes *)
(* out again; both ways are written with logical operators.                *)

Truth(x) == IF x # 0 THEN 1 ELSE 0

LowByte(l)  == Truth(l)              \* lag_id && 0xFF
HighByte(l) == Truth(l \div 256)     \* (lag_id >> 8) && 0xFF

\* (reserved[1] << 8) || reserved[0]
LagOfBytes(high, low) == Truth(high * 256 + low)

\* The LAG that the object id of a member of l names.
LagNamed(l) == LagOfBytes(HighByte(l), LowByte(l))

-----------------------------------------------------------------------------
(* What the calls on members leave in the table.                           *)

Counted(l, n) == [lagTable EXCEPT ![l].counter = (@ + n) % CounterMod]

\* Mutant: only the counter is reset.
DisownedInUse(l) == [lagTable EXCEPT ![l].counter = 0]

\* Any failure is taken to mean that the group was deleted.
Disowned(l) == [lagTable EXCEPT ![l] = NoLag]

Without(l, P) == [buckets EXCEPT ![l] = @ \ P]

\* Mutant: the groups of the switch are numbered from 0.
CreateLagFromZero(l) ==
  /\ ~lagTable[l].used
  /\ \A j \in 1 .. l - 1 : lagTable[j].used
  /\ l - 1 \notin groups
  /\ groups' = groups \cup {l - 1}
  /\ lagTable' = [lagTable EXCEPT ![l] = [used |-> TRUE, counter |-> 0]]
  /\ UNCHANGED <<buckets, told>>

\* The first LAG not in use.  When the switch still has a group with its
\* id, the call fails, and so does every later one.
CreateLag(l) ==
  /\ ~lagTable[l].used
  /\ \A j \in 1 .. l - 1 : lagTable[j].used
  /\ l \notin groups
  /\ groups' = groups \cup {l}
  /\ buckets' = [buckets EXCEPT ![l] = {}]
  /\ lagTable' = [lagTable EXCEPT ![l] = [used |-> TRUE, counter |-> 0]]
  /\ told' = {m \in told : m[1] # l}

\* Mutant: a port that is in the group already is counted again.
AddedAgain(l, p) ==
  \/ /\ l \in groups
     /\ Cardinality(buckets[l]) < MaxMembers
     /\ buckets' = [buckets EXCEPT ![l] = @ \cup {p}]
     /\ lagTable' = Counted(l, 1)
     /\ UNCHANGED groups
  \/ /\ l \notin groups
     /\ lagTable' = Disowned(l)
     /\ UNCHANGED <<groups, buckets>>

\* mrvl_sai_utl_update_l2_lag_group_bucket with MRVL_SAI_UTL_ADD, and the
\* counter.  The group is deleted when the port cannot be looked up in it,
\* and stays when the bucket cannot be added.
Added(l, p) ==
  \/ /\ l \in groups /\ p \in buckets[l]
     /\ UNCHANGED <<lagTable, groups, buckets>>
  \/ /\ l \in groups /\ p \notin buckets[l]
     /\ Cardinality(buckets[l]) < MaxMembers
     /\ buckets' = [buckets EXCEPT ![l] = @ \cup {p}]
     /\ lagTable' = Counted(l, 1)
     /\ UNCHANGED groups
  \/ /\ \/ l \notin groups \/ "lookup" \in Faults
        \/ p \notin buckets[l] /\ Cardinality(buckets[l]) >= MaxMembers
     /\ lagTable' = Disowned(l)
     /\ UNCHANGED <<groups, buckets>>
  \/ /\ "lookup" \in Faults /\ l \in groups
     /\ groups' = groups \ {l}
     /\ buckets' = [buckets EXCEPT ![l] = {}]
     /\ lagTable' = Disowned(l)

\* The status of the switch is dropped: the member's object id is handed
\* out whether or not the port was added.
CreateLagMember(l, p) ==
  /\ ClientChecksOids => lagTable[l].used
  /\ Added(l, p)
  /\ told' = told \cup {<<l, p>>}

\* The object id of the member may name another LAG, which then loses the
\* port, if it has it, and is counted one down in any case.  Whether the
\* switch deletes the bucket is not looked at.
RemoveLagMember(l, p) ==
  LET t == LagNamed(l) IN
  /\ ClientChecksOids => <<l, p>> \in told
  /\ \/ /\ t \in groups
        /\ \/ buckets' = Without(t, {p})
           \/ "bucketDelete" \in Faults /\ UNCHANGED buckets
        /\ lagTable' = Counted(t, -1)
        /\ told' = told \ {<<l, p>>}
     \/ /\ t \notin groups \/ "lookup" \in Faults
        /\ lagTable' = Disowned(t)
        /\ UNCHANGED <<buckets, told>>
  /\ UNCHANGED groups

-----------------------------------------------------------------------------
(* Removing a LAG removes as many members as it counts, each by its object *)
(* id.                                                                     *)

Least(m, n) == IF m < n THEN m ELSE n

\* The members being gone, the group is deleted and the id is free.
GroupDropped(l, table, left) ==
  /\ l \in groups
  /\ groups' = groups \ {l}
  /\ buckets' = [left EXCEPT ![l] = {}]
  /\ lagTable' = [table EXCEPT ![l] = NoLag]
  /\ told' = {m \in told : m[1] # l}

\* Listed are the members found in the group and Stale what else the list
\* on the stack seemed to hold.  The buckets in Kept could not be deleted.
RemoveLag(l) ==
  LET n == lagTable[l].counter
      t == LagNamed(l)
  IN
  /\ lagTable[l].used
  /\ \E Listed \in SUBSET buckets[l], Stale \in SUBSET Port :
       LET tried == Cardinality(Listed) + Cardinality(Stale) IN
       /\ Cardinality(Listed) <= Least(n, Cardinality(buckets[l]))
       /\ "lookup" \notin Faults =>
            Cardinality(Listed) = Least(n, Cardinality(buckets[l]))
       /\ Cardinality(Stale) <= MaxStale /\ tried <= n
       /\ \/ \* the removal of a member fails
             /\ tried > 0
             /\ \E Done \in SUBSET (Listed \cup Stale) :
                  /\ IF t \in groups THEN "lookup" \in Faults ELSE Done = {}
                  /\ buckets' = Without(t, Done)
             /\ lagTable' = Disowned(t)
             /\ UNCHANGED <<groups, told>>
          \/ \* the loop passes, or meets an entry that is no port
             /\ tried > 0 => t \in groups
             /\ \E Kept \in SUBSET (Listed \cup Stale) :
                  LET left  == Without(t, (Listed \cup Stale) \ Kept)
                      table == IF tried > 0 THEN Counted(t, -tried) ELSE lagTable
                  IN
                  /\ "bucketDelete" \notin Faults => Kept = {}
                  /\ \/ tried = n /\ GroupDropped(l, table, left)
                     \/ /\ tried < n \/ l \notin groups \/ "groupDelete" \in Faults
                        /\ lagTable' = table /\ buckets' = left
                        /\ UNCHANGED <<groups, told>>

-----------------------------------------------------------------------------
LagApi ==
  \E l \in LagId : CreateLag(l) \/ RemoveLag(l)

LagMemberApi ==
  \E l \in LagId, p \in Port : CreateLagMember(l, p) \/ RemoveLagMember(l, p)

Next == LagApi \/ LagMemberApi

Spec == Init /\ [][Next]_lagVars

-----------------------------------------------------------------------------
(* Properties.                                                             *)

\* The counters stay within their width, a group that does not exist has no
\* buckets, and no group has more than the switch has room for.
TypeOK ==
  /\ lagTable \in [LagId -> [used : BOOLEAN, counter : 0 .. CounterMod - 1]]
  /\ groups \subseteq LagId
  /\ buckets \in [LagId -> SUBSET Port]
  /\ \A l \in LagId : /\ Cardinality(buckets[l]) <= MaxMembers
                      /\ l \notin groups => buckets[l] = {}
  /\ told \subseteq LagId \X Port

UsedLags == {l \in LagId : lagTable[l].used}

\* A LAG in use has its group in the switch, whichever calls failed: what
\* mrvl_sai_remove_lag and the calls on members rely on.
UsedHasGroup == UsedLags \subseteq groups

Counts(l) == lagTable[l].used => lagTable[l].counter = Cardinality(buckets[l])

\* Every LAG but the first counts its members exactly, even though its
\* members are removed under the name of the first, and calls fail.
OtherLagsCounted == \A l \in LagId \ {1} : Counts(l)

\* The ports in a group are those whose membership the client was given and
\* has not taken back: success means the port is in that LAG, or is out.
MembersAsTold == \A l \in LagId : buckets[l] = {p \in Port : <<l, p>> \in told}

=============================================================================
