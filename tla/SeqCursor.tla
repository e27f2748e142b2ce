------------------------------ MODULE SeqCursor ------------------------------
(***************************************************************************)
(* What the users of a List rely on: a sequence of values and a cursor     *)
(* that stands at one of them or past the last.                            *)
(***************************************************************************)
EXTENDS Integers, Sequences

CONSTANTS
  Vals,      \* the values a list may hold
  NULL       \* what reading past the end returns

VARIABLES
  items,     \* the sequence
  at         \* the cursor, Len(items) + 1 when past the end

AtEnd == at > Len(items)
Val == IF AtEnd THEN NULL ELSE items[at]

Init == items = << >> /\ at = 1

AddFront(v) == items' = <<v>> \o items /\ at' = 1
AddEnd(v) == items' = Append(items, v) /\ at' = Len(items) + 1
Front == at' = 1 /\ UNCHANGED items
Advance == at' = (IF AtEnd THEN at ELSE at + 1) /\ UNCHANGED items

(* A search leaves the cursor at the first v, or past the end *)
Find(v) ==
  /\ at' \in 1 .. Len(items) + 1
  /\ \A k \in 1 .. at' - 1 : items[k] # v
  /\ at' <= Len(items) => items[at'] = v
  /\ UNCHANGED items

Next == \/ \E v \in Vals : AddFront(v) \/ AddEnd(v) \/ Find(v)
        \/ Front \/ Advance

Spec == Init /\ [][Next]_<<items, at>>
=============================================================================
