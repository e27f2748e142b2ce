------------------------------- MODULE MCPpack -------------------------------
(* Ppack for TLC: bytes of four values, so that an int goes to 127.  There  *)
(* is a message of each kind, with values at the limits: the largest line,  *)
(* a duration that was negative, no string, a message that does not fit the *)
(* buffer and one that is over the limit.  One thread sends twice, the      *)
(* other may be cancelled.                                                  *)
EXTENDS Ppack

CONSTANTS t1, t2

MCMsgs ==
  (t1 :> {LocMsg(<<3>>, INT_MAX), FailMsg(NULL)})
  @@ (t2 :> {DurationMsg(-1), FailMsg(<<1, 1, 1, 1, 1, 1>>)})
  @@ (Forked :> {CtxMsg(2), FailMsg(<<1, 1, 1, 1, 1, 1, 1>>)})

MCMaxSends == (t1 :> 2) @@ (t2 :> 1) @@ (Forked :> 1)
=============================================================================
