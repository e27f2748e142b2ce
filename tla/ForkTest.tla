------------------------------ MODULE ForkTest -------------------------------
(***************************************************************************)
(* Running tests in CK_FORK mode: tcase_run_tfun_fork() and everything     *)
(* that runs beside it (src/check_run.c).  The actors are the runner, with *)
(* its SIGALRM, SIGINT and SIGTERM handler; the child it forks for each    *)
(* test, which runs the checked fixtures and the test function; and a      *)
(* process the test may start with check_fork().  They share the process   *)
(* groups, the one-shot timer and the temporary file of messages.          *)
(*                                                                         *)
(* The child of test t has pid t; process group 0 is the runner's own.     *)
(* User code (fixtures and test function) is any sequence of the calls it  *)
(* can make, and may stop making progress at any point.                    *)
(***************************************************************************)
EXTENDS RcvMsg

CONSTANTS
  NTests,         \* number of tests run one after the other
  TFs,            \* what a test may declare: [signal, allowed_exit_value]
  ExitValues,     \* values user code may pass to exit()
  RaisedSignals,  \* signals user code may raise in its own process
  Locs,           \* locations user code may report
  Forking,        \* TRUE when user code may call check_fork()
  Interrupts,     \* signals of {"SIGINT", "SIGTERM"} sent to the runner
  MaxMsgs         \* bound on the messages of a test, for mark_point() and teardowns

ASSUME ForkTestAssumption ==
  /\ NTests \in Nat \ {0}
  /\ TFs # {} /\ Locs # {}
  /\ NoSignal \notin RaisedSignals
  /\ Forking \in BOOLEAN
  /\ Interrupts \subseteq {"SIGINT", "SIGTERM"}
  /\ MaxMsgs \in Nat
  /\ NULL \notin {"assertion", "grandchild"}

Tests == 1 .. NTests

VARIABLES
  rpc,             \* where the runner is
  cur,             \* the test it is running
  tf,              \* what that test declares
  group_pid,       \* static pid_t group_pid
  alarm_received,  \* static int alarm_received
  timer,           \* "none", "armed", "expired"
  status,          \* as waitpid() stored it
  result,          \* the TestResult of a judged test, with its history
  cpc,             \* where the child is
  pgrp,            \* the child's process group
  cgroup_pid,      \* the child's copy of group_pid
  doomed,          \* a fatal signal is pending for the child, or NoSignal
  wstatus,         \* how the child ended, until waitpid() collects it
  gpc,             \* for each test, the process it made with check_fork()
  gkilled,         \* SIGKILL is pending for that process
  gstatus,         \* how it ended
  gfile,           \* the message file it inherited
  ggroup,          \* its process group
  pipe,            \* the current message file
  hist             \* history: what happened in the current test

runner == <<rpc, cur, tf, group_pid, alarm_received, timer, status, result>>
child == <<cpc, pgrp, cgroup_pid, doomed, wstatus>>
grand == <<gpc, gkilled, gstatus, gfile, ggroup>>
vars == <<runner, child, grand, pipe, hist>>

UserPhases == {"setup", "test", "teardown"}
ChildAlive == cpc \notin {"none", "zombie"}
GrandAlive(t) == gpc[t] \in {"running", "writing"}

NoResult == [rtype |-> "none"]
NoHist == [fired |-> FALSE, alarmKilled |-> FALSE, failed |-> FALSE,
           loc |-> NoLoc, ctx |-> CK_CTX_INVALID, raised |-> NoSignal,
           forked |-> FALSE, waited |-> FALSE, gfailed |-> FALSE,
           late |-> FALSE]

(* setup_pipe(): a temporary file nobody has written to *)
EmptyPipe(id) == [id |-> id, msgs |-> << >>, from |-> {}, torn |-> FALSE]

PhaseCtx(phase) == CASE phase = "setup" -> "CK_CTX_SETUP"
                     [] phase = "test" -> "CK_CTX_TEST"
                     [] phase = "teardown" -> "CK_CTX_TEARDOWN"

Init ==
  /\ rpc = "fork" /\ cur = 1 /\ tf \in TFs
  /\ group_pid = 0 /\ alarm_received = FALSE /\ timer = "none"
  /\ status = Exited(0) /\ result = NoResult
  /\ cpc = "none" /\ pgrp = 0 /\ cgroup_pid = 0
  /\ doomed = NoSignal /\ wstatus = Exited(0)
  /\ gpc = [t \in Tests |-> "none"]
  /\ gkilled = [t \in Tests |-> FALSE]
  /\ gstatus = [t \in Tests |-> Exited(0)]
  /\ gfile = [t \in Tests |-> 0]
  /\ ggroup = [t \in Tests |-> 0]
  /\ pipe = EmptyPipe(1)
  /\ hist = NoHist

-----------------------------------------------------------------------------
(* killpg(g, sig): sig is posted to every live member of the groups G.     *)
(* The child dies of it before its next step; so does the grandchild,      *)
(* but a write it has already entered may still complete.                  *)
(* The variant is kill(): it reaches the leader of the group only.         *)
kill(G, sig) ==
  /\ doomed' = IF ChildAlive /\ pgrp \in G /\ doomed = NoSignal
               THEN sig ELSE doomed
  /\ UNCHANGED gkilled

killpg(G, sig) ==
  /\ doomed' = IF ChildAlive /\ pgrp \in G /\ doomed = NoSignal
               THEN sig ELSE doomed
  /\ gkilled' = [t \in Tests |-> gkilled[t] \/
                    (ggroup[t] \in G /\ GrandAlive(t))]

(* Messages appended to the current file by test t *)
Send(t, msgs) == pipe' = [pipe EXCEPT !.msgs = @ \o msgs, !.from = @ \cup {t}]

-----------------------------------------------------------------------------
(* The runner.                                                             *)

(* int status = 0; fork(): the child starts with the runner's group and    *)
(* group_pid.                                                              *)
r_fork ==
  /\ rpc = "fork"
  /\ rpc' = "parent"
  /\ cpc' = "start" /\ pgrp' = 0 /\ cgroup_pid' = group_pid
  /\ doomed' = NoSignal /\ wstatus' = Exited(0)
  /\ status' = Exited(0) /\ result' = NoResult /\ hist' = NoHist
  /\ UNCHANGED <<cur, tf, group_pid, alarm_received, timer, grand, pipe>>

(* fork(), timer_create() or timer_settime() returns an error: eprintf()   *)
(* ends the runner, and in the latter two cases leaves the child running.  *)
r_eprintf ==
  /\ rpc \in {"fork", "arm"}
  /\ rpc' = "eprintf"
  /\ UNCHANGED <<cur, tf, group_pid, alarm_received, timer, status, result,
                 child, grand, pipe, hist>>

(* group_pid = pid; alarm_received = 0; *)
r_parent ==
  /\ rpc = "parent"
  /\ rpc' = "arm"
  /\ group_pid' = cur
  /\ alarm_received' = FALSE
  /\ UNCHANGED <<cur, tf, timer, status, result, child, grand, pipe, hist>>

(* timer_create() and timer_settime() with no interval: it fires once *)
r_arm ==
  /\ rpc = "arm"
  /\ rpc' = "wait"
  /\ timer' = "armed"
  /\ UNCHANGED <<cur, tf, group_pid, alarm_received, status, result,
                 child, grand, pipe, hist>>

(* Variant: the alarm is noted and nobody is killed *)
r_alarm_only_noted ==
  /\ timer = "armed"
  /\ timer' = "expired"
  /\ alarm_received' = TRUE
  /\ hist' = [hist EXCEPT !.fired = TRUE]
  /\ UNCHANGED <<rpc, cur, tf, group_pid, status, result, child, grand, pipe>>

(* sig_handler(SIGALRM), at any point until timer_delete() *)
r_alarm ==
  /\ timer = "armed"
  /\ timer' = "expired"
  /\ alarm_received' = TRUE
  /\ killpg({group_pid}, "SIGKILL")
  /\ hist' = [hist EXCEPT !.fired = TRUE,
                          !.alarmKilled = doomed' # doomed]
  /\ UNCHANGED <<rpc, cur, tf, group_pid, status, result,
                 cpc, pgrp, cgroup_pid, wstatus, gpc, gstatus, gfile, ggroup,
                 pipe>>

(* waitpid(pid, &status, 0), repeated while it returns -1 *)
r_waitpid ==
  /\ rpc = "wait" /\ cpc = "zombie"
  /\ rpc' = "timer_delete"
  /\ status' = wstatus
  /\ cpc' = "none"
  /\ UNCHANGED <<cur, tf, group_pid, alarm_received, timer, result,
                 pgrp, cgroup_pid, doomed, wstatus, grand, pipe, hist>>

r_timer_delete ==
  /\ rpc = "timer_delete"
  /\ rpc' = "killpg"
  /\ timer' = "none"
  /\ UNCHANGED <<cur, tf, group_pid, alarm_received, status, result,
                 child, grand, pipe, hist>>

(* killpg(pid, SIGKILL): kill remaining processes *)
r_killpg ==
  /\ rpc = "killpg"
  /\ rpc' = "rewind"
  /\ killpg({cur}, "SIGKILL")
  /\ UNCHANGED <<cur, tf, group_pid, alarm_received, timer, status, result,
                 cpc, pgrp, cgroup_pid, wstatus, gpc, gstatus, gfile, ggroup,
                 pipe, hist>>

(* rewind() moves the offset that every process with the file shares *)
r_rewind ==
  /\ rpc = "rewind"
  /\ rpc' = "read"
  /\ UNCHANGED <<cur, tf, group_pid, alarm_received, timer, status, result,
                 child, grand, pipe, hist>>

(* receive_result_info_fork(), given the messages of the test *)
Judge(rmsg) ==
  LET tr == construct_test_result(rmsg, waserror(status, tf.signal))
      v == set_fork_info(tr.msg, status, tf.signal, tf.allowed_exit_value,
                         alarm_received)
  IN  [rtype |-> v.rtype, msg |-> v.msg, ctx |-> tr.ctx, loc |-> tr.loc,
       tf |-> tf, hist |-> hist]

(* The loop over the iterations of a test *)
IsLast == cur = NTests

(* teardown_pipe(); setup_pipe(): a new file; the variant empties the old *)
truncate_pipe == pipe' = EmptyPipe(pipe.id)
replace_pipe == pipe' = EmptyPipe(pipe.id + 1)

(* receive_test_result(): read the file and replace it by a new one.  A    *)
(* stream without any context, or one that does not decode, is an          *)
(* eprintf(), which exits with status 2.                                   *)
r_read ==
  /\ rpc = "read"
  /\ \E rmsg \in {punpack(pipe.msgs)} :
       IF pipe.torn \/ rmsg = NullRcvMsg
       THEN /\ rpc' = "exit2"
            /\ UNCHANGED <<cur, tf, result, pipe>>
       ELSE /\ result' = Judge(rmsg)
            /\ replace_pipe
            /\ IF IsLast
               THEN rpc' = "finished" /\ UNCHANGED <<cur, tf>>
               ELSE rpc' = "fork" /\ cur' = cur + 1 /\ tf' \in TFs
  /\ UNCHANGED <<group_pid, alarm_received, timer, status, child, grand, hist>>

(* The groups sig_handler() signals; the variant forgets the test's *)
OwnGroup == {0}
InterruptedGroups == {group_pid, 0}

(* sig_handler(SIGINT or SIGTERM): the old action is restored, the signal  *)
(* goes to group_pid and then to the runner's own group, which ends it.    *)
r_interrupt(sig) ==
  /\ rpc \notin {"finished", "eprintf", "exit2", "dead"}
  /\ rpc' = "dead"
  /\ timer' = "none"
  /\ killpg(InterruptedGroups, IF sig = "SIGINT" THEN "SIGKILL" ELSE "SIGTERM")
  /\ UNCHANGED <<cur, tf, group_pid, alarm_received, status, result,
                 cpc, pgrp, cgroup_pid, wstatus, gpc, gstatus, gfile, ggroup,
                 pipe, hist>>

-----------------------------------------------------------------------------
(* The child.  It takes no further step once a fatal signal is pending.    *)

At(pc) == cpc = pc /\ doomed = NoSignal

(* The child becomes a zombie with this wait status *)
Ends(st) ==
  /\ cpc' = "zombie" /\ wstatus' = st
  /\ UNCHANGED <<pgrp, cgroup_pid, doomed>>

GoesTo(pc) == cpc' = pc /\ UNCHANGED <<pgrp, cgroup_pid, doomed, wstatus>>

c_die ==
  /\ ChildAlive /\ doomed # NoSignal
  /\ Ends(Signaled(doomed))
  /\ UNCHANGED <<runner, grand, pipe, hist>>

(* setpgid(0, 0) *)
c_setpgid ==
  /\ At("start")
  /\ cpc' = "setpgid" /\ pgrp' = cur
  /\ UNCHANGED <<cgroup_pid, doomed, wstatus, runner, grand, pipe, hist>>

(* group_pid = getpgrp() *)
c_getpgrp ==
  /\ At("setpgid")
  /\ cpc' = "ctx_setup" /\ cgroup_pid' = pgrp
  /\ UNCHANGED <<pgrp, doomed, wstatus, runner, grand, pipe, hist>>

(* Variant: the context of the setup is not announced *)
c_ctx_setup_silent ==
  /\ At("ctx_setup") /\ GoesTo("setup")
  /\ UNCHANGED <<runner, grand, pipe, hist>>

(* tcase_run_checked_setup() up to the first fixture *)
c_ctx_setup ==
  /\ At("ctx_setup") /\ GoesTo("setup")
  /\ Send(cur, <<CtxMsg("CK_CTX_SETUP")>>)
  /\ UNCHANGED <<runner, grand, hist>>

(* tcase_fn_start(), with its context sent before its location *)
c_fn_ctx ==
  /\ At("fn_ctx") /\ GoesTo("fn_loc")
  /\ Send(cur, <<CtxMsg("CK_CTX_TEST")>>)
  /\ UNCHANGED <<runner, grand, hist>>

c_fn_loc ==
  /\ At("fn_loc") /\ GoesTo("test")
  /\ Send(cur, <<LocMsg("tfun")>>)
  /\ UNCHANGED <<runner, grand, hist>>

(* srunner_run_teardown() up to the call of the fixture *)
c_ctx_teardown ==
  /\ At("ctx_teardown") /\ GoesTo("teardown")
  /\ Send(cur, <<CtxMsg("CK_CTX_TEARDOWN")>>)
  /\ UNCHANGED <<runner, grand, hist>>

(* send_duration_info(); exit(EXIT_SUCCESS) *)
c_finish ==
  /\ At("duration") /\ Ends(Exited(0))
  /\ Send(cur, <<DurationMsg(0)>>)
  /\ UNCHANGED <<runner, grand, hist>>

(* The last setup fixture, the test function or a teardown fixture         *)
(* returns; there may be any number of teardown fixtures.                  *)
c_return(phase) ==
  /\ At(phase)
  /\ \/ phase = "setup" /\ GoesTo("fn_ctx")
     \/ phase # "setup" /\ GoesTo("duration")
     \/ phase = "test" /\ GoesTo("ctx_teardown")
     \/ phase = "teardown" /\ Len(pipe.msgs) <= MaxMsgs
        /\ GoesTo("ctx_teardown")
  /\ UNCHANGED <<runner, grand, pipe, hist>>

_mark_point(phase, loc) ==
  /\ At(phase) /\ Len(pipe.msgs) < MaxMsgs
  /\ Send(cur, <<LocMsg(loc)>>)
  /\ UNCHANGED <<runner, child, grand, hist>>

(* _ck_assert_failed(): the location first ... *)
_ck_assert_failed(phase, loc) ==
  /\ At(phase) /\ GoesTo("failing")
  /\ Send(cur, <<LocMsg(loc)>>)
  /\ hist' = [hist EXCEPT !.loc = loc, !.ctx = PhaseCtx(phase)]
  /\ UNCHANGED <<runner, grand>>

(* ... then the message, and _exit(1) since the fork status is CK_FORK *)
c_send_failure ==
  /\ At("failing") /\ Ends(Exited(1))
  /\ Send(cur, <<FailMsg("assertion")>>)
  /\ hist' = [hist EXCEPT !.failed = TRUE]
  /\ UNCHANGED <<runner, grand>>

c_exit(phase, v) ==
  /\ At(phase) /\ Ends(Exited(v))
  /\ UNCHANGED <<runner, grand, pipe, hist>>

(* Variant: the child has the default actions *)
c_raise_default(phase, sig) ==
  /\ At(phase) /\ Ends(Signaled(sig))
  /\ hist' = [hist EXCEPT !.raised = sig]
  /\ UNCHANGED <<runner, grand, pipe>>

(* A signal raised by user code.  The child inherited sig_handler() for    *)
(* SIGALRM, SIGINT and SIGTERM; it acts on the child's own group_pid.      *)
c_raise(phase, sig) ==
  /\ At(phase)
  /\ LET handled == sig \in {"SIGALRM", "SIGINT", "SIGTERM"}
         sent == IF sig = "SIGTERM" THEN "SIGTERM" ELSE "SIGKILL"
     IN  /\ Ends(Signaled(IF handled THEN sent ELSE sig))
         /\ gkilled' = [t \in Tests |-> gkilled[t] \/
                           (handled /\ ggroup[t] = cgroup_pid /\ GrandAlive(t))]
  /\ hist' = [hist EXCEPT !.raised = sig]
  /\ UNCHANGED <<runner, gpc, gstatus, gfile, ggroup, pipe>>

-----------------------------------------------------------------------------
(* The process a test makes with check_fork(): setpgid(pid, group_pid) by  *)
(* parent and child puts it in the group of the test.                      *)

check_fork ==
  /\ Forking /\ At("test") /\ gpc[cur] = "none"
  /\ gpc' = [gpc EXCEPT ![cur] = "running"]
  /\ gfile' = [gfile EXCEPT ![cur] = pipe.id]
  /\ ggroup' = [ggroup EXCEPT ![cur] = cgroup_pid]
  /\ hist' = [hist EXCEPT !.forked = TRUE]
  /\ UNCHANGED <<runner, child, gkilled, gstatus, pipe>>

(* Variant: the status of the process is ignored *)
check_waitpid_and_succeed ==
  /\ At("test") /\ gpc[cur] = "exited"
  /\ Ends(Exited(0))
  /\ hist' = [hist EXCEPT !.waited = TRUE]
  /\ UNCHANGED <<runner, grand, pipe>>

(* check_waitpid_and_exit(): wait for it, and exit(EXIT_FAILURE) if it did *)
(* not exit with 0.                                                        *)
check_waitpid_and_exit ==
  /\ At("test") /\ gpc[cur] = "exited"
  /\ Ends(Exited(IF waserror(gstatus[cur], NoSignal) THEN 1 ELSE 0))
  /\ hist' = [hist EXCEPT !.waited = TRUE]
  /\ UNCHANGED <<runner, grand, pipe>>

GEnds(t, st) ==
  /\ gpc' = [gpc EXCEPT ![t] = "exited"]
  /\ gstatus' = [gstatus EXCEPT ![t] = st]
  /\ UNCHANGED <<gkilled, gfile, ggroup>>

g_die(t) ==
  /\ GrandAlive(t) /\ gkilled[t]
  /\ GEnds(t, Signaled("SIGKILL"))
  /\ UNCHANGED <<runner, child, pipe, hist>>

g_exit(t) ==
  /\ gpc[t] = "running" /\ ~gkilled[t]
  /\ GEnds(t, Exited(0))
  /\ UNCHANGED <<runner, child, pipe, hist>>

(* What a reader at the start of the file finds when m is written over its *)
(* head: m and then the messages from some boundary on.                    *)
Overwritten(msgs, m) ==
  {<<m>> \o SubSeq(msgs, k + 1, Len(msgs)) : k \in 1 .. Len(msgs)}

(* A message lands at the offset the processes share: the end of the file, *)
(* or its start once the runner has rewound it, where what follows may no  *)
(* longer decode.  A file the runner has closed reaches nobody.            *)
GSend(t, m) ==
  LET current == gfile[t] = pipe.id
      rewound == rpc = "read"
  IN  /\ CASE current /\ ~rewound -> Send(t, <<m>>)
           [] current /\ rewound ->
                \/ \E msgs \in Overwritten(pipe.msgs, m) :
                      pipe' = [pipe EXCEPT !.msgs = msgs]
                \/ pipe' = [pipe EXCEPT !.torn = TRUE]
           [] ~current -> UNCHANGED pipe
      /\ hist' = [hist EXCEPT
                    !.gfailed = @ \/ (current /\ m.type = "CK_MSG_FAIL"),
                    !.late = @ \/ (current /\ rewound)]

(* An assertion fails: the location is written, and the write of the       *)
(* failure message is entered ...                                          *)
g_assert_failed(t) ==
  /\ gpc[t] = "running" /\ ~gkilled[t]
  /\ gpc' = [gpc EXCEPT ![t] = "writing"]
  /\ GSend(t, LocMsg("grandchild"))
  /\ UNCHANGED <<runner, child, gkilled, gstatus, gfile, ggroup>>

(* ... and completes, which a pending SIGKILL need not prevent; _exit(1) *)
g_write(t) ==
  /\ gpc[t] = "writing"
  /\ GEnds(t, Exited(1))
  /\ GSend(t, FailMsg("grandchild"))
  /\ UNCHANGED <<runner, child>>

-----------------------------------------------------------------------------
RunnerStep == \/ r_fork \/ r_parent \/ r_arm \/ r_waitpid \/ r_timer_delete
              \/ r_killpg \/ r_rewind \/ r_read

(* The child's steps outside user code *)
ChildStep == \/ c_die \/ c_setpgid \/ c_getpgrp \/ c_ctx_setup \/ c_fn_ctx
             \/ c_fn_loc \/ c_ctx_teardown \/ c_finish \/ c_send_failure

UserCode ==
  \/ \E phase \in UserPhases :
       \/ c_return(phase)
       \/ \E loc \in Locs : \/ _mark_point(phase, loc)
                           \/ _ck_assert_failed(phase, loc)
       \/ \E v \in ExitValues : c_exit(phase, v)
       \/ \E sig \in RaisedSignals : c_raise(phase, sig)
  \/ check_fork
  \/ check_waitpid_and_exit

GrandStep == \E t \in Tests : \/ g_die(t) \/ g_exit(t)
                              \/ g_assert_failed(t) \/ g_write(t)

Next == \/ RunnerStep
        \/ r_alarm \/ r_eprintf
        \/ \E sig \in Interrupts : r_interrupt(sig)
        \/ ChildStep
        \/ UserCode
        \/ GrandStep

(* The kernel runs a runnable process, delivers a posted SIGKILL and lets  *)
(* an armed timer expire.  User code is promised nothing: a test may hang. *)
Fairness == /\ WF_vars(RunnerStep) /\ WF_vars(r_alarm) /\ WF_vars(ChildStep)
            /\ \A t \in Tests : WF_vars(g_die(t))

Spec == Init /\ [][Next]_vars /\ Fairness

-----------------------------------------------------------------------------
(* Properties.                                                             *)

RunnerPcs == {"fork", "parent", "arm", "wait", "timer_delete", "killpg",
              "rewind", "read", "finished", "eprintf", "exit2", "dead"}
ChildPcs == {"none", "start", "setpgid", "ctx_setup", "fn_ctx", "fn_loc",
             "ctx_teardown", "duration", "failing", "zombie"} \cup UserPhases

Hists == [fired : BOOLEAN, alarmKilled : BOOLEAN, failed : BOOLEAN,
          loc : Locs \cup {NoLoc}, ctx : Ctx \cup {CK_CTX_INVALID},
          raised : RaisedSignals \cup {NoSignal}, forked : BOOLEAN,
          waited : BOOLEAN, gfailed : BOOLEAN, late : BOOLEAN]

(* The type invariant: the control points of the three kinds of process,   *)
(* the process groups and the static variables of check_run.c.             *)
TypeOK ==
  /\ rpc \in RunnerPcs /\ cur \in Tests /\ tf \in TFs
  /\ group_pid \in 0 .. NTests /\ alarm_received \in BOOLEAN
  /\ timer \in {"none", "armed", "expired"}
  /\ cpc \in ChildPcs /\ pgrp \in 0 .. NTests /\ cgroup_pid \in 0 .. NTests
  /\ gpc \in [Tests -> {"none", "running", "writing", "exited"}]
  /\ gkilled \in [Tests -> BOOLEAN]
  /\ gfile \in [Tests -> Nat] /\ ggroup \in [Tests -> 0 .. NTests]
  /\ DOMAIN pipe = {"id", "msgs", "from", "torn"}
  /\ pipe.id \in Nat /\ pipe.from \subseteq Tests /\ pipe.torn \in BOOLEAN
  /\ hist \in Hists

(* alarm_received, which set_fork_info() and signal_msg() consult, is about *)
(* the test being judged: never left over from the timer of an earlier one. *)
AlarmIsCurrent ==
  rpc \in {"arm", "wait", "timer_delete", "killpg", "rewind", "read"}
    => (alarm_received <=> hist.fired)

(* A test killed by its timeout is reported as CK_ERROR with the timeout    *)
(* message, whatever it sent, did or declared before it was killed, a test  *)
(* that expects SIGKILL included.                                           *)
TimeoutIsError ==
  result # NoResult /\ result.hist.alarmKilled
    => result.rtype = "CK_ERROR" /\ result.msg = "timeout expired"

(* A pass is never an accident: the test was not killed by the timer, it    *)
(* raised a signal exactly if one was declared, and no assertion of its     *)
(* own failed unless it declared the exit value 1 that failures exit with.  *)
PassIsEarned ==
  result # NoResult /\ result.rtype = "CK_PASS"
    => /\ ~result.hist.alarmKilled
       /\ (result.tf.signal # NoSignal) <=> (result.hist.raised # NoSignal)
       /\ result.hist.failed => SChar(result.tf.allowed_exit_value) = 1

(* A test that raises the signal it declared passes if its timer has not    *)
(* gone off, unless the signal is one that sig_handler(), which the child   *)
(* inherits, answers with SIGKILL: that test is an error, although it did   *)
(* what "tcase_add_test_raise_signal" (src/check.h.in) asks for.            *)
DeclaredSignalJudged ==
  /\ result # NoResult /\ result.tf.signal # NoSignal
  /\ result.hist.raised = result.tf.signal /\ ~result.hist.fired
  => result.rtype = IF result.tf.signal \in {"SIGALRM", "SIGINT"}
                    THEN "CK_ERROR" ELSE "CK_PASS"

(* A failed assertion of a single-process test that declared nothing is     *)
(* reported as CK_FAILURE, in the context and at the location where it      *)
(* failed, unless the timer killed the test first.                          *)
FailureLocated ==
  LET h == result.hist IN
  /\ result # NoResult
  /\ h.failed /\ ~h.alarmKilled /\ ~h.forked
  /\ result.tf.signal = NoSignal /\ SChar(result.tf.allowed_exit_value) # 1
  => /\ result.rtype = "CK_FAILURE" /\ result.msg = "assertion"
     /\ result.ctx = h.ctx /\ result.loc = h.loc

(* A failure in a process made with check_fork() reaches the result when    *)
(* the test ends with check_waitpid_and_exit().                             *)
ForkedFailureReported ==
  LET h == result.hist IN
  /\ result # NoResult
  /\ h.waited /\ h.gfailed /\ ~h.alarmKilled
  /\ result.tf.signal = NoSignal /\ SChar(result.tf.allowed_exit_value) = 0
  => result.rtype = "CK_FAILURE"

(* Once the runner has passed its killpg(), every process of that test's    *)
(* group has ended or has SIGKILL pending, and stays that way.              *)
GroupKilled ==
  \A t \in Tests :
    (t < cur \/ (t = cur /\ rpc \in {"rewind", "read", "finished", "exit2"}))
      => gpc[t] = "none" \/ gpc[t] = "exited" \/ gkilled[t]

(* The file the runner reads for a test holds no message of another test,   *)
(* although the processes of earlier tests may still be writing.            *)
OwnMessages == pipe.from \subseteq {cur}

(* The runner itself stops with eprintf() over a test's messages only if    *)
(* the timer killed the test or a write landed after the rewind().          *)
RunnerStopsOnlyIf == rpc = "exit2" => hist.alarmKilled \/ hist.late

(* SIGINT or SIGTERM to the runner also ends the test it is waiting for,    *)
(* with the processes of its group.                                         *)
InterruptEndsTest ==
  [][rpc = "wait" /\ rpc' = "dead" /\ pgrp = cur
       => /\ ChildAlive' => doomed' # NoSignal
          /\ GrandAlive(cur)' => gkilled'[cur]]_vars

(* A hung test ends: once its child has its own group and the timer has not *)
(* fired, the runner's waitpid() returns.                                   *)
TimeoutEndsTest ==
  (rpc = "wait" /\ timer = "armed" /\ pgrp = cur) ~> (rpc # "wait")

-----------------------------------------------------------------------------
(* What the documentation and the comments say and the code does not keep. *)

(* Every test is over once its time is: doc/check.texi, "If the test is not *)
(* finished within that time, it is killed and logged as an error."  An     *)
(* alarm that precedes the child's setpgid() kills nobody, and is the last. *)
EveryTestEnds == (rpc = "wait") ~> (rpc # "wait")
=============================================================================
