----------------------------- MODULE MCMsgStream -----------------------------
(* MsgStream for TLC: a receiver whose window is exactly the sender's limit, *)
(* and messages of every size up to one that is too long to send.            *)
EXTENDS MsgStream

MCMsgSizes == 1 .. SendMax + 1
=============================================================================
