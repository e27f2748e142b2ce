--------------------------- MODULE MCSuiteBuild ---------------------------
EXTENDS SuiteBuild, TLC

MCTagStrings == {<<" ">>, <<"a", " ", " ", "b">>, <<" ", "a", "b", " ">>}
MCTimeouts == {-8, 13}
MCExitValues == {-1}
MCMultipliers == {-2, 3}
Symmetry == Permutations(Suites) \cup Permutations(TCases)
=============================================================================
