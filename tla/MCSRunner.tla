------------------------------ MODULE MCSRunner ------------------------------
EXTENDS SRunner

Case(name, tags, us, ut, cs, ct, tests) ==
  [name |-> name, tags |-> tags, usetup |-> us, uteardown |-> ut,
   csetup |-> cs, cteardown |-> ct, tests |-> tests]
Loop(lo, hi) == [lo |-> lo, hi |-> hi]

(* Two suites: a case with every kind of fixture and a looping test, one    *)
(* with pairs of fixtures, an empty case, and a case without fixtures.      *)
MCProgram ==
  <<[name |-> "S1",
     tcases |-> <<Case("core", {"fast"}, 1, 1, 1, 1, <<Loop(0, 1), Loop(-1, 1)>>),
                  Case("pairs", {"slow"}, 2, 2, 2, 2, <<Loop(0, 1)>>)>>],
    [name |-> "S2",
     tcases |-> <<Case("empty", {}, 1, 1, 0, 0, << >>),
                  Case("bare", {"fast", "slow"}, 0, 0, 0, 0,
                       <<Loop(1, 1), Loop(0, 1)>>)>>]>>

All == [sname |-> NULL, tcname |-> NULL, include |-> NULL, exclude |-> NULL]
MCAll == {All}

(* One argument at a time, and tags narrowing a name *)
MCSelections ==
  {All, [All EXCEPT !.sname = "S2"], [All EXCEPT !.tcname = "pairs"],
   [All EXCEPT !.include = {"fast"}], [All EXCEPT !.exclude = {"fast"}],
   [All EXCEPT !.tcname = "bare", !.include = {"slow"}]}
=============================================================================
