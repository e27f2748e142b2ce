------------------------------- MODULE RcvMsg --------------------------------
(***************************************************************************)
(* What the runner makes of a message stream: the fold of get_result()     *)
(* over the messages (src/check_pack.c) and the TestResult built from it   *)
(* (src/check_msg.c, src/check_run.c).                                     *)
(*                                                                         *)
(* A location stands for a (file, line) pair, NoLoc for (NULL, -1); a      *)
(* message text for itself, and NULL for no text.                          *)
(***************************************************************************)
EXTENDS Integers, Sequences

CONSTANT NULL

NoLoc == NULL

Ctx == {"CK_CTX_SETUP", "CK_CTX_TEST", "CK_CTX_TEARDOWN"}
CK_CTX_INVALID == "CK_CTX_INVALID"

(* The messages send_ctx_info(), send_loc_info(), send_failure_info() and  *)
(* send_duration_info() write.                                             *)
CtxMsg(ctx) == [type |-> "CK_MSG_CTX", ctx |-> ctx]
LocMsg(loc) == [type |-> "CK_MSG_LOC", loc |-> loc]
FailMsg(msg) == [type |-> "CK_MSG_FAIL", msg |-> msg]
DurationMsg(d) == [type |-> "CK_MSG_DURATION", duration |-> d]

rcvmsg_create ==
  [lastctx |-> CK_CTX_INVALID, failctx |-> CK_CTX_INVALID, msg |-> NULL,
   duration |-> -1, test_loc |-> NoLoc, fixture_loc |-> NoLoc]

rcvmsg_update_ctx(rmsg, ctx) ==
  [rmsg EXCEPT !.lastctx = ctx,
               !.fixture_loc = IF rmsg.lastctx # CK_CTX_INVALID
                               THEN NoLoc ELSE @]

(* The variant, with a defect, takes every location for one of the test *)
rcvmsg_update_test_loc(rmsg, loc) == [rmsg EXCEPT !.test_loc = loc]
rcvmsg_update_loc(rmsg, loc) ==
  IF rmsg.lastctx = "CK_CTX_TEST"
  THEN [rmsg EXCEPT !.test_loc = loc]
  ELSE [rmsg EXCEPT !.fixture_loc = loc]

(* The first failure counts; in the variant it is the last *)
LastFailure(rmsg, msg) ==
  [rmsg EXCEPT !.msg = msg, !.failctx = rmsg.lastctx]
FirstFailure(rmsg, msg) ==
  IF rmsg.msg = NULL
  THEN [rmsg EXCEPT !.msg = msg, !.failctx = rmsg.lastctx]
  ELSE rmsg

get_result(rmsg, m) ==
  CASE m.type = "CK_MSG_CTX" -> rcvmsg_update_ctx(rmsg, m.ctx)
    [] m.type = "CK_MSG_LOC" -> IF rmsg.failctx = CK_CTX_INVALID
                                THEN rcvmsg_update_loc(rmsg, m.loc)
                                ELSE rmsg
    [] m.type = "CK_MSG_FAIL" -> FirstFailure(rmsg, m.msg)
    [] m.type = "CK_MSG_DURATION" -> [rmsg EXCEPT !.duration = m.duration]

NullRcvMsg == [lastctx |-> NULL]

(* punpack() of a whole stream; NULL when no context was ever announced *)
punpack(msgs) ==
  LET after[n \in 0 .. Len(msgs)] == IF n = 0 THEN rcvmsg_create
                                     ELSE get_result(after[n - 1], msgs[n])
      rmsg == after[Len(msgs)]
  IN  IF rmsg.lastctx = CK_CTX_INVALID THEN NullRcvMsg ELSE rmsg

LocByCtx(rmsg, ctx) ==
  IF ctx = "CK_CTX_TEST" THEN rmsg.test_loc ELSE rmsg.fixture_loc

construct_test_result(rmsg, waserror) ==
  LET tr(ctx, msg, duration) ==
        [ctx |-> ctx, msg |-> msg, duration |-> duration,
         loc |-> LocByCtx(rmsg, ctx)]
  IN  IF rmsg.msg # NULL \/ waserror
      THEN tr(IF rmsg.failctx # CK_CTX_INVALID THEN rmsg.failctx
                                               ELSE rmsg.lastctx,
              rmsg.msg, -1)
      ELSE IF rmsg.lastctx = "CK_CTX_SETUP"
      THEN tr("CK_CTX_SETUP", NULL, -1)
      ELSE tr("CK_CTX_TEST", NULL, rmsg.duration)

-----------------------------------------------------------------------------
(* The verdict on a test.  A wait status is a record: the child exited     *)
(* with a value or was ended by a signal; NoSignal is a TF.signal of 0.     *)
NoSignal == "0"

Exited(v) == [how |-> "exit", val |-> v]
Signaled(s) == [how |-> "signal", val |-> s]

(* An int stored in a signed char: WEXITSTATUS() and the masked            *)
(* allowed_exit_value both pass through one before they are compared.      *)
SChar(x) == LET u == x % 256 IN IF u < 128 THEN u ELSE u - 256

waserror(status, signal_expected) ==
  \/ status.how = "signal" /\ status.val # signal_expected
  \/ status.how = "exit" /\ status.val % 256 # 0

verdict(rtype, text) == [rtype |-> rtype, msg |-> text]

(* The expected signal came, or in its place a SIGKILL of the runner's     *)
(* alarm handler; the variant does not ask.                                *)
SignalIsPass(alarm) == verdict("CK_PASS", "Passed")
ExpectedSignal(alarm) == IF alarm THEN verdict("CK_ERROR", "timeout expired")
                                  ELSE verdict("CK_PASS", "Passed")

(* An exit is wrong where a signal is expected; the variant accepts it *)
SignalOptional(signal_expected) == FALSE
SignalMissing(signal_expected) == signal_expected # NoSignal

(* set_fork_info(): the type and the message of the result, given the      *)
(* message the test sent, the wait status, what the test declared and      *)
(* whether the runner's alarm went off.                                    *)
set_fork_info(msg, status, signal_expected, allowed_exit_value, alarm) ==
  LET exit_ok == SChar(status.val) = SChar(allowed_exit_value)
      alarm_or(text) == IF alarm THEN "timeout expired" ELSE text
  IN  CASE status.how = "signal" /\ status.val = signal_expected ->
             ExpectedSignal(alarm)
        [] status.how = "signal" /\ status.val # signal_expected ->
             verdict("CK_ERROR", alarm_or("received signal"))
        [] status.how = "exit" /\ SignalMissing(signal_expected) ->
             verdict("CK_FAILURE", "early exit")
        [] status.how = "exit" /\ ~SignalMissing(signal_expected) /\ exit_ok ->
             verdict("CK_PASS", "Passed")
        [] status.how = "exit" /\ ~SignalMissing(signal_expected) /\ ~exit_ok ->
             IF msg = NULL THEN verdict("CK_ERROR", "early exit")
                           ELSE verdict("CK_FAILURE", msg)

set_nofork_info(msg) ==
  IF msg = NULL THEN verdict("CK_PASS", "Passed")
                ELSE verdict("CK_FAILURE", msg)
=============================================================================
