----------------------------- MODULE MCCheckList -----------------------------
EXTENDS CheckList
=============================================================================
