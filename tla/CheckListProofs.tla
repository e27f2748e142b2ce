--------------------------- MODULE CheckListProofs ---------------------------
(***************************************************************************)
(* For any set of values and any number of elements: the fields of a List  *)
(* agree (ListInv), and the list implements a sequence with a cursor.      *)
(***************************************************************************)
EXTENDS CheckList, SequenceTheorems, TLAPS

(* check_list_create() establishes the invariant *)
LEMMA InitListInv == Init => ListInv
  BY DEF Init, ListInv, TypeOK, LINIT

(* maybe_grow() makes room for one more element and keeps the others *)
LEMMA GrownFacts ==
  ASSUME ListInv
  PROVE  /\ GrownMax \in Nat \ {0}
         /\ n_elts < GrownMax
         /\ max_elts <= GrownMax
         /\ Grown \in [0 .. GrownMax - 1 -> Vals \cup {Undef}]
         /\ \A j \in 0 .. n_elts - 1 : Grown[j] = data[j]
<1>1. GrownMax \in Nat \ {0} /\ n_elts < GrownMax /\ max_elts <= GrownMax
  BY DEF ListInv, TypeOK, GrownMax, LGROW
<1>2. \A j \in 0 .. GrownMax - 1 :
        (IF j < max_elts THEN data[j] ELSE Undef) \in Vals \cup {Undef}
  BY <1>1 DEF ListInv, TypeOK
<1>3. Grown \in [0 .. GrownMax - 1 -> Vals \cup {Undef}]
  BY <1>2 DEF Grown
<1>4. \A j \in 0 .. n_elts - 1 : Grown[j] = data[j]
  BY <1>1 DEF Grown, ListInv, TypeOK
<1> QED BY <1>1, <1>3, <1>4

(* What the array holds after check_list_add_front(v) *)
LEMMA AddFrontData ==
  ASSUME ListInv, NEW v \in Vals, check_list_add_front(v)
  PROVE  /\ data' \in [0 .. GrownMax - 1 -> Vals \cup {Undef}]
         /\ data'[0] = v
         /\ \A j \in 1 .. n_elts : data'[j] = data[j - 1]
<1> DEFINE g == Grown
<1>1. /\ GrownMax \in Nat \ {0} /\ n_elts < GrownMax /\ n_elts \in Nat
      /\ g \in [0 .. GrownMax - 1 -> Vals \cup {Undef}]
      /\ \A j \in 0 .. n_elts - 1 : g[j] = data[j]
  BY GrownFacts DEF ListInv, TypeOK
<1>2. data' = [Shifted(g) EXCEPT ![0] = v]
  BY DEF check_list_add_front
<1>3. Shifted(g) = [j \in 0 .. GrownMax - 1 |->
                      IF j \in 1 .. n_elts THEN g[j - 1] ELSE g[j]]
  BY <1>1 DEF Shifted
<1> HIDE DEF g
<1> QED BY <1>1, <1>2, <1>3

(* What the array holds after check_list_add_end(v) *)
LEMMA AddEndData ==
  ASSUME ListInv, NEW v \in Vals, check_list_add_end(v)
  PROVE  /\ data' \in [0 .. GrownMax - 1 -> Vals \cup {Undef}]
         /\ data'[n_elts] = v
         /\ \A j \in 0 .. n_elts - 1 : data'[j] = data[j]
<1> DEFINE g == Grown
<1>1. /\ GrownMax \in Nat \ {0} /\ n_elts < GrownMax /\ n_elts \in Nat
      /\ g \in [0 .. GrownMax - 1 -> Vals \cup {Undef}]
      /\ \A j \in 0 .. n_elts - 1 : g[j] = data[j]
  BY GrownFacts DEF ListInv, TypeOK
<1>2. data' = [g EXCEPT ![n_elts] = v]
  BY DEF check_list_add_end, ListInv, TypeOK
<1> HIDE DEF g
<1> QED BY <1>1, <1>2

(* Every operation keeps the fields in agreement *)
LEMMA NextListInv == ListInv /\ [Next]_vars => ListInv'
<1> SUFFICES ASSUME ListInv, [Next]_vars PROVE ListInv'
  OBVIOUS
<1>1. ASSUME NEW v \in Vals, check_list_add_front(v) PROVE ListInv'
  <2>1. /\ data' \in [0 .. GrownMax - 1 -> Vals \cup {Undef}]
        /\ data'[0] = v
        /\ \A j \in 1 .. n_elts : data'[j] = data[j - 1]
    BY <1>1, AddFrontData
  <2>2. GrownMax \in Nat \ {0} /\ n_elts < GrownMax
    BY GrownFacts
  <2>3. /\ max_elts' = GrownMax /\ last' = last + 1
        /\ n_elts' = n_elts + 1 /\ current' = 0
    BY <1>1 DEF check_list_add_front
  <2>4. \A j \in 0 .. n_elts' - 1 : data'[j] \in Vals
    BY <2>1, <2>3 DEF ListInv, TypeOK
  <2> QED BY <2>1, <2>2, <2>3, <2>4 DEF ListInv, TypeOK
<1>2. ASSUME NEW v \in Vals, check_list_add_end(v) PROVE ListInv'
  <2>1. /\ data' \in [0 .. GrownMax - 1 -> Vals \cup {Undef}]
        /\ data'[n_elts] = v
        /\ \A j \in 0 .. n_elts - 1 : data'[j] = data[j]
    BY <1>2, AddEndData
  <2>2. GrownMax \in Nat \ {0} /\ n_elts < GrownMax
    BY GrownFacts
  <2>3. /\ max_elts' = GrownMax /\ last' = last + 1
        /\ n_elts' = n_elts + 1 /\ current' = last + 1
    BY <1>2 DEF check_list_add_end
  <2>4. \A j \in 0 .. n_elts' - 1 : data'[j] \in Vals
    BY <2>1, <2>3 DEF ListInv, TypeOK
  <2> QED BY <2>1, <2>2, <2>3, <2>4 DEF ListInv, TypeOK
<1>3. ASSUME NEW v \in Vals, check_list_contains(v) PROVE ListInv'
  BY <1>3 DEF check_list_contains, ListInv, TypeOK
<1>4. ASSUME check_list_front PROVE ListInv'
  BY <1>4 DEF check_list_front, ListInv, TypeOK
<1>5. ASSUME check_list_advance PROVE ListInv'
  BY <1>5 DEF check_list_advance, check_list_at_end, ListInv, TypeOK
<1>6. ASSUME UNCHANGED vars PROVE ListInv'
  BY <1>6 DEF vars, ListInv, TypeOK
<1> QED BY <1>1, <1>2, <1>3, <1>4, <1>5, <1>6 DEF Next

(* The fields of a List always agree, and its array is never overrun *)
THEOREM ListIsSound == Spec => []ListInv
  BY InitListInv, NextListInv, PTL DEF Spec

(* The readers the loops use see the abstract sequence *)
THEOREM ReadersSound == Spec => []ReadersAgree
<1>1. ListInv => ReadersAgree
  <2> SUFFICES ASSUME ListInv PROVE ReadersAgree
    OBVIOUS
  <2>1. Len(Items) = n_elts /\ n_elts \in Nat
    BY DEF Items, ListInv, TypeOK
  <2>2. At \in Nat /\ (current # -1 => At = current + 1)
    BY DEF At, ListInv, TypeOK
  <2>3. check_list_at_end <=> Abs!AtEnd
    BY <2>1, <2>2 DEF check_list_at_end, Abs!AtEnd, At, ListInv, TypeOK
  <2>4. ASSUME ~check_list_at_end PROVE Items[At] = data[current]
    BY <2>4, <2>1, <2>2 DEF check_list_at_end, Items, ListInv, TypeOK
  <2>5. check_list_val = IF check_list_at_end THEN NULL ELSE data[current]
    BY DEF check_list_val, check_list_at_end
  <2> QED BY <2>3, <2>4, <2>5 DEF ReadersAgree, Abs!Val
<1> QED BY <1>1, ListIsSound, PTL

(* Every operation on the array is the operation on the sequence *)
LEMMA NextRefines ==
  ASSUME ListInv, ListInv', [Next]_vars
  PROVE  [Abs!Next]_<<Items, At>>
<1>0. /\ n_elts \in Nat /\ Len(Items) = n_elts /\ Items \in Seq(Vals)
      /\ At \in Nat /\ (current # -1 => At = current + 1)
      /\ (current = -1 => At = 1)
  <2>1. n_elts \in Nat
    BY DEF ListInv, TypeOK
  <2>2. \A k \in 1 .. n_elts : data[k - 1] \in Vals
    BY DEF ListInv, TypeOK
  <2>3. Items \in [1 .. n_elts -> Vals]
    BY <2>2 DEF Items
  <2> QED BY <2>1, <2>3 DEF Items, At, ListInv, TypeOK
<1>1. ASSUME NEW v \in Vals, check_list_add_front(v) PROVE Abs!AddFront(v)
  <2>1. /\ data'[0] = v
        /\ \A j \in 1 .. n_elts : data'[j] = data[j - 1]
    BY <1>1, AddFrontData
  <2>2. n_elts' = n_elts + 1 /\ current' = 0
    BY <1>1 DEF check_list_add_front
  <2>3. Items' = [k \in 1 .. n_elts + 1 |-> data'[k - 1]]
    BY <2>2 DEF Items
  <2>4. <<v>> \o Items = [k \in 1 .. n_elts + 1 |->
                            IF k = 1 THEN v ELSE Items[k - 1]]
    BY <1>0
  <2>5. \A k \in 1 .. n_elts + 1 :
          data'[k - 1] = IF k = 1 THEN v ELSE Items[k - 1]
    BY <1>0, <2>1 DEF Items
  <2>6. Items' = <<v>> \o Items
    BY <2>3, <2>4, <2>5
  <2>7. At' = 1
    BY <2>2 DEF At
  <2> QED BY <2>6, <2>7 DEF Abs!AddFront
<1>2. ASSUME NEW v \in Vals, check_list_add_end(v) PROVE Abs!AddEnd(v)
  <2>1. /\ data'[n_elts] = v
        /\ \A j \in 0 .. n_elts - 1 : data'[j] = data[j]
    BY <1>2, AddEndData
  <2>2. n_elts' = n_elts + 1 /\ current' = n_elts
    BY <1>2 DEF check_list_add_end, ListInv, TypeOK
  <2>3. Items' = [k \in 1 .. n_elts + 1 |-> data'[k - 1]]
    BY <2>2 DEF Items
  <2>4. /\ Append(Items, v) \in Seq(Vals) /\ Len(Append(Items, v)) = n_elts + 1
        /\ \A k \in 1 .. n_elts : Append(Items, v)[k] = Items[k]
        /\ Append(Items, v)[n_elts + 1] = v
    BY <1>0, AppendProperties
  <2>5. /\ Items' \in Seq(Vals) /\ Len(Items') = n_elts + 1
        /\ \A k \in 1 .. n_elts : Items'[k] = Items[k]
        /\ Items'[n_elts + 1] = v
    <3>0. n_elts \in Nat /\ \A j \in 0 .. n_elts - 1 : data[j] \in Vals
      BY DEF ListInv, TypeOK
    <3>1. \A k \in 1 .. n_elts + 1 : data'[k - 1] \in Vals
      BY <3>0, <2>1
    <3>2. Items' \in [1 .. n_elts + 1 -> Vals]
      BY <2>3, <3>1
    <3>3. Items' \in Seq(Vals) /\ Len(Items') = n_elts + 1
      BY <3>0, <3>2
    <3>4. \A k \in 1 .. n_elts : Items'[k] = data'[k - 1]
      BY <3>0, <2>3
    <3>5. \A k \in 1 .. n_elts : data'[k - 1] = data[k - 1]
      BY <3>0, <2>1
    <3>6. \A k \in 1 .. n_elts : Items'[k] = Items[k]
      BY <3>4, <3>5 DEF Items
    <3>7. Items'[n_elts + 1] = data'[n_elts]
      BY <3>0, <2>3
    <3> QED BY <3>3, <3>6, <3>7, <2>1
  <2>6. Items' = Append(Items, v)
    <3>1. \A k \in 1 .. Len(Items') : Items'[k] = Append(Items, v)[k]
      BY <1>0, <2>4, <2>5
    <3> QED BY <2>4, <2>5, <3>1, SeqEqual
  <2>7. At' = Len(Items) + 1
    BY <1>0, <2>2 DEF At
  <2> QED BY <2>6, <2>7 DEF Abs!AddEnd
<1>3. ASSUME NEW v \in Vals, check_list_contains(v) PROVE Abs!Find(v)
  <2>1. UNCHANGED <<n_elts, data>> /\ Items' = Items
    BY <1>3 DEF check_list_contains, Items
  <2>2. /\ last = n_elts - 1 /\ current' \in -1 .. n_elts
        /\ (current' = -1 <=> n_elts = 0)
    BY <1>3, <2>1 DEF check_list_contains, ListInv, TypeOK
  <2>n. n_elts \in Nat
    BY DEF ListInv, TypeOK
  <2>a. /\ (current' = -1 => At' = 1) /\ (current' # -1 => At' = current' + 1)
        /\ current' \in Int
    BY <2>2 DEF At, ListInv, TypeOK
  <2>b. At' \in Int
    BY <2>a
  <2>3. PICK a \in Int, c \in Int :
          /\ a = At' /\ c = current'
          /\ (c = -1 => a = 1) /\ (c # -1 => a = c + 1)
    BY <2>a, <2>b
  <2>c. (c = -1 => a = 1) /\ (c # -1 => a = c + 1)
    BY <2>3
  <2>4. At' \in 1 .. Len(Items) + 1
    <3>1. c \in -1 .. n_elts /\ (c = -1 <=> n_elts = 0)
      BY <2>2, <2>3
    <3>2. a \in 1 .. n_elts + 1
      BY <3>1, <2>c, <2>n
    <3> QED BY <3>2, <2>3, <1>0
  <2>5. \A j \in 0 .. n_elts - 1 : j < current' => data[j] # v
    BY <1>3, <2>2 DEF check_list_contains
  <2>6. current' \in 0 .. n_elts - 1 => data[current'] = v
    BY <1>3, <2>2 DEF check_list_contains
  <2>7. \A k \in 1 .. n_elts : Items[k] = data[k - 1]
    BY DEF Items
  <2>8. \A k \in 1 .. At' - 1 : Items[k] # v
    <3> SUFFICES ASSUME NEW k \in 1 .. At' - 1 PROVE Items[k] # v
      OBVIOUS
    <3>1. c \in -1 .. n_elts /\ k \in 1 .. a - 1
      BY <2>2, <2>3
    <3>2. k \in 1 .. n_elts /\ k - 1 \in 0 .. n_elts - 1 /\ k - 1 < c
      BY <3>1, <2>c, <2>n
    <3> QED BY <3>2, <2>3, <2>5, <2>7
  <2>9. At' <= Len(Items) => Items[At'] = v
    <3> SUFFICES ASSUME At' <= Len(Items) PROVE Items[At'] = v
      OBVIOUS
    <3>1. c \in -1 .. n_elts /\ (c = -1 <=> n_elts = 0) /\ a <= n_elts
      BY <1>0, <2>2, <2>3
    <3>2. a \in 1 .. n_elts /\ a - 1 = c /\ c \in 0 .. n_elts - 1
      BY <3>1, <2>c, <2>n
    <3> QED BY <3>2, <2>3, <2>6, <2>7
  <2> QED BY <2>1, <2>4, <2>8, <2>9 DEF Abs!Find
<1>4. ASSUME check_list_front PROVE Abs!Front
  <2>1. UNCHANGED <<n_elts, data>> /\ Items' = Items
    BY <1>4 DEF check_list_front, Items
  <2>2. At' = 1
    BY <1>4 DEF check_list_front, At
  <2> QED BY <2>1, <2>2 DEF Abs!Front
<1>5. ASSUME check_list_advance PROVE Abs!Advance
  <2>1. UNCHANGED <<n_elts, data>> /\ Items' = Items
    BY <1>5 DEF check_list_advance, Items
  <2>2. check_list_at_end <=> At > Len(Items)
    BY <1>0 DEF check_list_at_end, ListInv, TypeOK
  <2>3. At' = IF At > Len(Items) THEN At ELSE At + 1
    BY <1>5, <2>2, <1>0 DEF check_list_advance, check_list_at_end, At, ListInv, TypeOK
  <2> QED BY <2>1, <2>3 DEF Abs!Advance, Abs!AtEnd
<1>6. ASSUME UNCHANGED vars PROVE UNCHANGED <<Items, At>>
  BY <1>6 DEF vars, Items, At
<1> QED BY <1>1, <1>2, <1>3, <1>4, <1>5, <1>6 DEF Next, Abs!Next

(* The List of check_list.c implements a sequence with a cursor, for every  *)
(* set of values and every number of elements.                              *)
THEOREM ListRefinesSequence == Spec => ImplementsSeqCursor
<1>1. Init => Abs!Init
  BY DEF Init, Abs!Init, Items, At
<1>2. ListInv /\ ListInv' /\ [Next]_vars => [Abs!Next]_<<Items, At>>
  BY NextRefines
<1> QED BY <1>1, <1>2, ListIsSound, PTL DEF Spec, ImplementsSeqCursor, Abs!Spec
=============================================================================
