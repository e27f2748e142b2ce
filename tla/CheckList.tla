------------------------------ MODULE CheckList ------------------------------
(***************************************************************************)
(* The List of src/check_list.c, which holds the suites, cases, fixtures,  *)
(* tests, tags, results and loggers: an array that doubles when it is full *)
(* and a single cursor, kept in the list, which the loops of the runner    *)
(* share.                                                                  *)
(***************************************************************************)
EXTENDS Integers, Sequences

CONSTANTS
  Vals,       \* the pointers a list may hold
  NULL,       \* the null pointer
  Undef,      \* what an element of the array holds before it is written
  MaxElts     \* bound on the number of elements

ASSUME CheckListAssumption ==
  /\ MaxElts \in Nat
  /\ NULL \notin Vals

LINIT == 1
LGROW == 2

VARIABLES
  n_elts, max_elts, current, last,   \* the fields of struct List
  data                               \* its array, indexed from 0

vars == <<n_elts, max_elts, current, last, data>>

(* check_list_create() *)
Init ==
  /\ n_elts = 0 /\ max_elts = LINIT
  /\ data = [j \in 0 .. LINIT - 1 |-> Undef]
  /\ current = -1 /\ last = -1

check_list_at_end == current = -1 \/ current > last

check_list_val == IF current = -1 \/ current > last THEN NULL ELSE data[current]

(* maybe_grow(): the new capacity, and the array it holds *)
GrownMax == IF n_elts >= max_elts THEN max_elts * LGROW ELSE max_elts

Grown == [j \in 0 .. GrownMax - 1 |-> IF j < max_elts THEN data[j] ELSE Undef]

(* memmove(data + 1, data, n_elts); the variant moves one too few *)
ShiftedShort(d) ==
  [j \in DOMAIN d |-> IF j \in 1 .. n_elts - 1 THEN d[j - 1] ELSE d[j]]
Shifted(d) == [j \in DOMAIN d |-> IF j \in 1 .. n_elts THEN d[j - 1] ELSE d[j]]

check_list_add_front(v) ==
  /\ n_elts < MaxElts
  /\ max_elts' = GrownMax
  /\ last' = last + 1 /\ n_elts' = n_elts + 1
  /\ current' = 0
  /\ data' = [Shifted(Grown) EXCEPT ![0] = v]

check_list_add_end(v) ==
  /\ n_elts < MaxElts
  /\ max_elts' = GrownMax
  /\ last' = last + 1 /\ n_elts' = n_elts + 1
  /\ current' = last + 1
  /\ data' = [Grown EXCEPT ![last + 1] = v]

check_list_front ==
  /\ current' = IF current = -1 THEN current ELSE 0
  /\ UNCHANGED <<n_elts, max_elts, last, data>>

check_list_advance ==
  /\ current' = IF check_list_at_end THEN current ELSE current + 1
  /\ UNCHANGED <<n_elts, max_elts, last, data>>

(* check_list_contains(): the loop moves the list's own cursor, and leaves *)
(* it where it stopped.                                                    *)
check_list_contains(v) ==
  /\ current' \in -1 .. last + 1
  /\ current' = -1 <=> current = -1
  /\ \A j \in 0 .. last : j < current' => data[j] # v
  /\ current' \in 0 .. last => data[current'] = v
  /\ UNCHANGED <<n_elts, max_elts, last, data>>

Next == \/ \E v \in Vals : \/ check_list_add_front(v) \/ check_list_add_end(v)
                           \/ check_list_contains(v)
        \/ check_list_front \/ check_list_advance

Spec == Init /\ [][Next]_vars

-----------------------------------------------------------------------------
(* The type invariant: the fields of the list and the extent of its array. *)
TypeOK ==
  /\ n_elts \in Nat /\ max_elts \in Nat \ {0}
  /\ last \in Int /\ current \in Int
  /\ data \in [0 .. max_elts - 1 -> Vals \cup {Undef}]

(* The fields agree: `last' is the index of the last of n_elts elements,    *)
(* all inside the array and written, and the cursor is at most one past     *)
(* them; it is -1 only while nothing was ever added.                        *)
ListInv ==
  /\ TypeOK
  /\ last = n_elts - 1
  /\ n_elts <= max_elts
  /\ current \in -1 .. n_elts
  /\ current = -1 <=> n_elts = 0
  /\ \A j \in 0 .. n_elts - 1 : data[j] \in Vals

Items == [k \in 1 .. n_elts |-> data[k - 1]]
At == IF current = -1 THEN 1 ELSE current + 1

Abs == INSTANCE SeqCursor WITH items <- Items, at <- At

(* The list is a sequence with a cursor: growing, shifting and the three    *)
(* counters are invisible.                                                  *)
ImplementsSeqCursor == Abs!Spec

(* What the loops read through check_list_at_end() and check_list_val() is  *)
(* what the abstract sequence holds: no element is skipped, none is read    *)
(* that was not added.                                                      *)
ReadersAgree ==
  /\ check_list_at_end <=> Abs!AtEnd
  /\ check_list_val = Abs!Val
=============================================================================
