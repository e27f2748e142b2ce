----------------------------- MODULE MCNestedRuns -----------------------------
(* NestedRuns for TLC; its constants are given in the configuration. *)
EXTENDS NestedRuns
=============================================================================
