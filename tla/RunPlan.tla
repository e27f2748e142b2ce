------------------------------- MODULE RunPlan -------------------------------
(***************************************************************************)
(* What a suite runner promises: the results of a run come in the order of *)
(* the suites, test cases, tests and iterations, one for every selected    *)
(* test iteration, except that one result for a failed unchecked setup     *)
(* may stand for all the tests of its case.                                *)
(*                                                                         *)
(* A label <<s, c, f, i>> is iteration i of test f of case c of suite s;   *)
(* <<s, c, 0, 0>> is the unchecked setup of the case.                      *)
(***************************************************************************)
EXTENDS Integers, Sequences

CONSTANTS
  Plans       \* the sets of labels a run may select

VARIABLES
  todo,       \* the labels the run has yet to deal with
  out         \* the labels of the results, oldest first

LabelBefore(a, b) ==
  \E k \in 1 .. 4 : a[k] < b[k] /\ \A j \in 1 .. k - 1 : a[j] = b[j]

IsNext(l) == l \in todo /\ \A m \in todo \ {l} : LabelBefore(l, m)
IsCase(l) == l[3] = 0
SameCase(a, b) == a[1] = b[1] /\ a[2] = b[2]

Init == todo = {} /\ out = << >>

StartRun == todo = {} /\ todo' \in Plans /\ UNCHANGED out

EnterCase(l) == IsNext(l) /\ IsCase(l) /\ todo' = todo \ {l} /\ UNCHANGED out

FailCase(l) ==
  /\ IsNext(l) /\ IsCase(l)
  /\ out' = Append(out, l)
  /\ todo' = {m \in todo : ~SameCase(l, m)}

ReportTest(l) ==
  /\ IsNext(l) /\ ~IsCase(l)
  /\ out' = Append(out, l)
  /\ todo' = todo \ {l}

Next == \/ StartRun
        \/ \E l \in todo : EnterCase(l) \/ FailCase(l) \/ ReportTest(l)

Spec == Init /\ [][Next]_<<todo, out>>
=============================================================================
