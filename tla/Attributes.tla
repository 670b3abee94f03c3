----------------------------- MODULE Attributes -----------------------------
(***************************************************************************)
(* The attribute checks every create, set and get call goes through, and   *)
(* the dispatch to setters and getters (utils/mrvl_sai_utils.c).  A table  *)
(* is a sequence of entries, the generic and the vendor half of the code   *)
(* in one record: id, vendorId, list (the value is a pointer to a list),   *)
(* mandatory (on create), the sets of operations it is valid for,          *)
(* supported and implemented, and whether it has a setter and a getter.    *)
(* An attribute list is a sequence of [id, null], null for a list value    *)
(* without a buffer.                                                       *)
(***************************************************************************)
EXTENDS Naturals, Sequences

\* MAX_ATTRIBS_NUMBUR: the flags of the attributes present.
MaxAttribs == 100

\* A status, and the index it carries when it blames an attribute.
Status(s) == [status |-> s, at |-> 0]
Blame(s, i) == [status |-> s, at |-> i]

Least(S) == CHOOSE i \in S : \A j \in S : i <= j

-----------------------------------------------------------------------------

\* mrvl_sai_utl_find_functionality_attrib_index
Places(table, id) == {k \in DOMAIN table : table[k].id = id}
IndexOf(table, id) == Least(Places(table, id))

\* The same attribute earlier in the list: attr_present at its index.
Repeated(attrs, i) == \E j \in 1 .. i - 1 : attrs[j].id = attrs[i].id

\* What is wrong with the attribute at i, the checks in the order of the code.
Problem(table, attrs, oper, i) ==
  LET entry == table[IndexOf(table, attrs[i].id)]
  IN  IF Places(table, attrs[i].id) = {} THEN "unknownAttribute"
      ELSE IF oper \notin entry.valid THEN "invalidAttribute"
      ELSE IF oper \notin entry.supported THEN "notSupported"
      ELSE IF oper \notin entry.implemented THEN "notImplementedAttribute"
      ELSE IF Repeated(attrs, i) THEN "invalidAttribute"
      ELSE IF entry.list /\ attrs[i].null THEN "invalidValue"
      ELSE "none"

Problems(table, attrs, oper) ==
  {i \in DOMAIN attrs : Problem(table, attrs, oper, i) # "none"}

\* An entry that must be given on creation, and is not.
Missing(table, attrs) ==
  {k \in DOMAIN table :
     /\ table[k].mandatory
     /\ \A i \in DOMAIN attrs : IndexOf(table, attrs[i].id) # k}

\* mrvl_sai_utl_check_attribs_metadata: a list is accepted, or the first
\* attribute with a problem blamed.
CheckAttribs(table, attrs, oper) ==
  LET bad == Problems(table, attrs, oper)
  IN  IF oper = "remove" THEN Status("notImplemented")
      ELSE IF oper = "set" /\ Len(attrs) # 1 THEN Status("invalidParameter")
      ELSE IF \E k \in DOMAIN table : table[k].id # table[k].vendorId
             THEN Status("failure")
      ELSE IF Len(table) >= MaxAttribs THEN Status("noMemory")
      ELSE IF bad # {}
             THEN Blame(Problem(table, attrs, oper, Least(bad)), Least(bad))
      ELSE IF oper = "create" /\ Missing(table, attrs) # {}
             THEN Status("mandatoryMissing")
      ELSE Status("success")

Accepted(table, attrs, oper) ==
  CheckAttribs(table, attrs, oper).status = "success"

-----------------------------------------------------------------------------
(* What an accepted list is used for.                                      *)

\* mrvl_sai_utl_find_attrib_in_list: the first attribute with the id, or 0.
FindInList(attrs, id) ==
  LET hits == {i \in DOMAIN attrs : attrs[i].id = id}
  IN  IF hits = {} THEN 0 ELSE Least(hits)

\* mrvl_sai_utl_set_dispatch_attrib_handler: the vendor entry at the index
\* of the generic one is asked.
SetterOf(table, attr) ==
  LET entry == table[IndexOf(table, attr.id)]
  IN  IF entry.setter THEN entry.vendorId ELSE "noSetter"

\* mrvl_sai_utl_set_attribute: the setter called, if any.
SetAttribute(table, attr) ==
  IF Accepted(table, <<attr>>, "set") THEN SetterOf(table, attr) ELSE "noSetter"

\* mrvl_sai_utl_get_dispatch_attribs_handler: attributes are read in order
\* until one has no getter or its getter fails; fails is the set of ids for
\* which the getter does.  The values read before stay in the list.
GetStops(table, attrs, fails) ==
  {i \in DOMAIN attrs : \/ ~table[IndexOf(table, attrs[i].id)].getter
                        \/ attrs[i].id \in fails}

\* mrvl_sai_utl_get_attributes: the positions whose value has been read.
GetAttributes(table, attrs, fails) ==
  LET stops == GetStops(table, attrs, fails)
  IN  IF ~Accepted(table, attrs, "get") THEN {}
      ELSE IF stops = {} THEN DOMAIN attrs
      ELSE {i \in DOMAIN attrs : i < Least(stops)}

\* mrvl_sai_utl_fill_genericlist: values copied to the buffer of the caller,
\* count set to what is needed in any case.
FillList(list, values) ==
  IF Len(values) > list.count
  THEN [status |-> "bufferOverflow", count |-> Len(values), data |-> list.data]
  ELSE [status |-> "success", count |-> Len(values), data |-> values]

=============================================================================
