--------------------------- MODULE ForkTestProofs ----------------------------
(***************************************************************************)
(* For every number of tests, declarations, exit values, signals and       *)
(* interleaving: the static alarm_received is about the current test, the  *)
(* processes of a test are killed with it, no test reads the messages of   *)
(* another, timeouts, passes and declared signals are judged rightly, the  *)
(* runner stops in mid-run only as it says it does, and a failure, that of *)
(* a process made with check_fork() included, is reported where it was.    *)
(***************************************************************************)
EXTENDS ForkTest, RcvMsgProofs, TLAPS

(* An armed timer belongs to the test the runner waits for, and has not    *)
(* fired; before that test the flag of its history is down.  The group     *)
(* that a signal would be forwarded to is that of the test awaited.        *)
RunnerInv ==
  /\ timer = "armed" => rpc \in {"wait", "timer_delete"}
  /\ rpc = "parent" => ~hist.fired
  /\ rpc \in {"arm", "wait"} => group_pid = cur

(* A child exists only until waitpid() has collected it, and is in its own *)
(* group, which it knows, from c_getpgrp on.                               *)
ChildInv ==
  /\ rpc \in {"fork", "timer_delete", "killpg", "rewind", "read", "finished",
              "exit2"} => cpc = "none"
  /\ cpc = "setpgid" => pgrp = cur
  /\ cpc \notin {"none", "start", "setpgid", "zombie"} => cgroup_pid = cur

(* A process made with check_fork() is in the group of its test, and the   *)
(* file it inherited is current only while its test is.                    *)
GrandInv ==
  \A t \in Tests :
    gpc[t] # "none" => /\ ggroup[t] = t
                       /\ gfile[t] <= pipe.id
                       /\ gfile[t] = pipe.id => t = cur

IInv == /\ TypeOK /\ RunnerInv /\ ChildInv /\ GrandInv
        /\ AlarmIsCurrent /\ GroupKilled /\ OwnMessages

GrandPcs == {"none", "running", "writing", "exited"}

(* The initial state *)
LEMMA InitIInv == Init => IInv
<1> SUFFICES ASSUME Init PROVE IInv
  OBVIOUS
<1>1. TypeOK
  <2>1. NoHist \in Hists
    BY DEF NoHist, Hists
  <2>2. /\ DOMAIN pipe = {"id", "msgs", "from", "torn"}
        /\ pipe.id \in Nat /\ pipe.from \subseteq Tests /\ pipe.torn \in BOOLEAN
    BY DEF Init, EmptyPipe
  <2>3. /\ cur \in Tests /\ group_pid \in 0 .. NTests
        /\ pgrp \in 0 .. NTests /\ cgroup_pid \in 0 .. NTests
    BY ForkTestAssumption DEF Init, Tests
  <2>4. rpc \in RunnerPcs /\ cpc \in ChildPcs /\ timer \in {"none", "armed", "expired"}
    BY DEF Init, RunnerPcs, ChildPcs
  <2>5. alarm_received \in BOOLEAN /\ tf \in TFs
    BY Zenon DEF Init
  <2>6. /\ gpc \in [Tests -> GrandPcs] /\ gkilled \in [Tests -> BOOLEAN]
        /\ gfile \in [Tests -> Nat] /\ ggroup \in [Tests -> 0 .. NTests]
    BY ForkTestAssumption DEF Init, GrandPcs
  <2>7. hist \in Hists
    BY <2>1 DEF Init
  <2> QED BY <2>2, <2>3, <2>4, <2>5, <2>6, <2>7, Zenon DEF TypeOK, GrandPcs
<1>2. RunnerInv /\ ChildInv /\ GrandInv
  BY DEF Init, RunnerInv, ChildInv, GrandInv
<1>3. AlarmIsCurrent /\ GroupKilled /\ OwnMessages
  BY DEF Init, AlarmIsCurrent, GroupKilled, OwnMessages, EmptyPipe, NoHist
<1> QED BY <1>1, <1>2, <1>3 DEF IInv

-----------------------------------------------------------------------------
(* What the processes of a test may do to what the invariant speaks of:    *)
(* nothing to the runner, and in the files and groups only what is theirs. *)
TypedPipe(p) ==
  /\ DOMAIN p = {"id", "msgs", "from", "torn"}
  /\ p.id \in Nat /\ p.from \subseteq Tests /\ p.torn \in BOOLEAN

KeepsPipe ==
  /\ TypedPipe(pipe') /\ pipe'.id = pipe.id
  /\ pipe'.from \subseteq {cur}

KeepsHist == hist' \in Hists /\ hist'.fired = hist.fired

KeepsGrand ==
  /\ gpc' \in [Tests -> GrandPcs] /\ gkilled' \in [Tests -> BOOLEAN]
  /\ UNCHANGED <<gfile, ggroup>>
  /\ \A t \in Tests : /\ gpc[t] = "none" => gpc'[t] = "none"
                      /\ gpc[t] = "exited" => gpc'[t] = "exited"
                      /\ gkilled[t] => gkilled'[t]

KeepsChild ==
  /\ cpc' \in ChildPcs /\ pgrp' \in 0 .. NTests /\ cgroup_pid' \in 0 .. NTests
  /\ ChildInv'

(* A step that keeps all of these keeps the invariant *)
LEMMA SubordinateStep ==
  ASSUME IInv, UNCHANGED runner, KeepsPipe, KeepsHist, KeepsGrand, KeepsChild
  PROVE  IInv'
<1>1. TypeOK'
  BY DEF IInv, TypeOK, runner, KeepsPipe, TypedPipe, KeepsHist, KeepsGrand,
     KeepsChild, GrandPcs
<1>2. RunnerInv' /\ AlarmIsCurrent'
  BY DEF IInv, RunnerInv, AlarmIsCurrent, runner, KeepsHist
<1>3. GrandInv' /\ GroupKilled'
  BY DEF IInv, GrandInv, GroupKilled, runner, KeepsGrand, KeepsPipe, Tests
<1>4. ChildInv' /\ OwnMessages'
  BY DEF KeepsChild, KeepsPipe, OwnMessages, runner
<1> QED BY <1>1, <1>2, <1>3, <1>4, Zenon DEF IInv

(* Messages of the current test leave the file its own *)
LEMMA SendKeeps ==
  ASSUME IInv, NEW msgs, Send(cur, msgs)
  PROVE  KeepsPipe
<1>1. cur \in Tests /\ TypedPipe(pipe) /\ pipe.from \subseteq {cur}
  BY DEF IInv, TypeOK, TypedPipe, OwnMessages
<1> QED BY <1>1 DEF Send, KeepsPipe, TypedPipe

(* What is left alone is kept *)
LEMMA UnchangedKeeps ==
  ASSUME IInv
  PROVE  /\ UNCHANGED pipe => KeepsPipe
         /\ UNCHANGED hist => KeepsHist
         /\ UNCHANGED grand => KeepsGrand
         /\ UNCHANGED <<runner, child>> => KeepsChild
<1>1. UNCHANGED pipe => KeepsPipe
  BY DEF IInv, TypeOK, OwnMessages, KeepsPipe, TypedPipe
<1>2. UNCHANGED hist => KeepsHist
  BY DEF IInv, TypeOK, KeepsHist
<1>3. UNCHANGED grand => KeepsGrand
  BY DEF IInv, TypeOK, grand, KeepsGrand, GrandPcs
<1>4. UNCHANGED <<runner, child>> => KeepsChild
  BY Zenon DEF IInv, TypeOK, ChildInv, runner, child, KeepsChild
<1> QED BY <1>1, <1>2, <1>3, <1>4, Zenon

(* A child past c_getpgrp goes on, or ends, in its own group *)
InTest == cpc \notin {"none", "start", "setpgid", "zombie"}

(* A move of the child to another control point preserves the invariant *)
LEMMA GoesToKeeps ==
  ASSUME IInv, UNCHANGED runner, InTest, NEW pc, GoesTo(pc),
         pc \in ChildPcs \ {"none", "start", "setpgid", "zombie"}
  PROVE  KeepsChild
BY Zenon DEF IInv, TypeOK, ChildInv, runner, GoesTo, KeepsChild, InTest

(* So does the end of the child, by exit() or by a signal *)
LEMMA EndsKeeps ==
  ASSUME IInv, UNCHANGED runner, ChildAlive, NEW st, Ends(st)
  PROVE  KeepsChild
BY DEF IInv, TypeOK, ChildInv, ChildPcs, ChildAlive, runner, Ends, KeepsChild

-----------------------------------------------------------------------------
(* The steps of the child, in Check's code and in the user's *)
LEMMA ChildStepIInv == IInv /\ ChildStep => IInv'
<1> SUFFICES ASSUME IInv, ChildStep PROVE IInv'
  OBVIOUS
<1>0. (UNCHANGED pipe => KeepsPipe) /\ (UNCHANGED hist => KeepsHist)
      /\ (UNCHANGED grand => KeepsGrand)
  BY UnchangedKeeps
<1>1. CASE c_die
  <2>1. KeepsChild
    BY <1>1, EndsKeeps DEF c_die
  <2> QED BY <1>0, <1>1, <2>1, SubordinateStep, Zenon DEF c_die
<1>2. CASE c_setpgid
  <2>1. KeepsChild
    BY <1>2 DEF c_setpgid, At, IInv, TypeOK, ChildInv, ChildPcs, Tests, runner,
       KeepsChild
  <2> QED BY <1>0, <1>2, <2>1, SubordinateStep, Zenon DEF c_setpgid
<1>3. CASE c_getpgrp
  <2>1. KeepsChild
    BY <1>3 DEF c_getpgrp, At, IInv, TypeOK, ChildInv, ChildPcs, runner,
       KeepsChild
  <2> QED BY <1>0, <1>3, <2>1, SubordinateStep, Zenon DEF c_getpgrp
<1>4. ASSUME NEW from, NEW pc, NEW msg, At(from), GoesTo(pc), Send(cur, <<msg>>),
             from \notin {"none", "start", "setpgid", "zombie"},
             pc \in ChildPcs \ {"none", "start", "setpgid", "zombie"},
             UNCHANGED <<runner, grand, hist>>
      PROVE  IInv'
  <2>1. KeepsChild
    BY <1>4, GoesToKeeps DEF At, InTest
  <2>2. KeepsPipe
    BY <1>4, SendKeeps, Zenon
  <2> QED BY <1>0, <1>4, <2>1, <2>2, SubordinateStep, Zenon
<1>5. CASE c_ctx_setup \/ c_fn_ctx \/ c_fn_loc \/ c_ctx_teardown
  BY <1>4, <1>5, Zenon DEF c_ctx_setup, c_fn_ctx, c_fn_loc, c_ctx_teardown, ChildPcs,
     UserPhases
<1>6. CASE c_finish
  <2>1. KeepsChild
    BY <1>6, EndsKeeps, Zenon DEF c_finish, At, ChildAlive
  <2>2. KeepsPipe
    BY <1>6, SendKeeps DEF c_finish
  <2> QED BY <1>0, <1>6, <2>1, <2>2, SubordinateStep, Zenon DEF c_finish
<1>7. CASE c_send_failure
  <2>1. KeepsChild
    BY <1>7, EndsKeeps DEF c_send_failure, At, ChildAlive
  <2>2. KeepsPipe
    BY <1>7, SendKeeps, Zenon DEF c_send_failure
  <2>3. KeepsHist
    BY <1>7, Zenon DEF c_send_failure, IInv, TypeOK, Hists, KeepsHist
  <2> QED BY <1>0, <1>7, <2>1, <2>2, <2>3, SubordinateStep, Zenon DEF c_send_failure
<1> QED BY <1>1, <1>2, <1>3, <1>5, <1>6, <1>7, Zenon DEF ChildStep

(* Whatever the test function does preserves the invariant *)
LEMMA UserCodeIInv == IInv /\ UserCode => IInv'
<1> SUFFICES ASSUME IInv, UserCode PROVE IInv'
  OBVIOUS
<1>0. /\ UNCHANGED pipe => KeepsPipe
      /\ UNCHANGED hist => KeepsHist
      /\ UNCHANGED grand => KeepsGrand
      /\ UNCHANGED <<runner, child>> => KeepsChild
  BY UnchangedKeeps
<1>p. \A phase \in UserPhases :
        /\ phase \notin {"none", "start", "setpgid", "zombie"}
        /\ PhaseCtx(phase) \in Ctx
  BY DEF UserPhases, PhaseCtx, Ctx
<1>1. ASSUME NEW phase \in UserPhases, c_return(phase) PROVE IInv'
  <2>1. KeepsChild
    <3>1. PICK pc \in {"fn_ctx", "duration", "ctx_teardown"} : GoesTo(pc)
      BY <1>1 DEF c_return
    <3>2. InTest /\ UNCHANGED runner
      BY <1>1, <1>p DEF c_return, At, InTest
    <3> QED BY <3>1, <3>2, GoesToKeeps DEF ChildPcs
  <2> QED BY <1>0, <1>1, <2>1, SubordinateStep DEF c_return
<1>2. ASSUME NEW phase \in UserPhases, NEW loc \in Locs, _mark_point(phase, loc)
      PROVE  IInv'
  <2>1. KeepsPipe
    BY <1>2, SendKeeps DEF _mark_point
  <2> QED BY <1>0, <1>2, <2>1, SubordinateStep DEF _mark_point
<1>3. ASSUME NEW phase \in UserPhases, NEW loc \in Locs, _ck_assert_failed(phase, loc)
      PROVE  IInv'
  <2>1. KeepsPipe
    BY <1>3, SendKeeps DEF _ck_assert_failed
  <2>2. KeepsHist
    BY <1>3, <1>p, Zenon DEF _ck_assert_failed, IInv, TypeOK, Hists, KeepsHist
  <2>3. KeepsChild
    BY <1>3, <1>p, GoesToKeeps DEF _ck_assert_failed, At, InTest, ChildPcs
  <2> QED BY <1>0, <1>3, <2>1, <2>2, <2>3, SubordinateStep DEF _ck_assert_failed
<1>4. ASSUME NEW phase \in UserPhases, NEW v, c_exit(phase, v) PROVE IInv'
  <2>1. KeepsChild
    BY <1>4, <1>p, EndsKeeps DEF c_exit, At, ChildAlive
  <2> QED BY <1>0, <1>4, <2>1, SubordinateStep DEF c_exit
<1>5. ASSUME NEW phase \in UserPhases, NEW sig \in RaisedSignals, c_raise(phase, sig)
      PROVE  IInv'
  <2>1. KeepsChild
    BY <1>5, <1>p, EndsKeeps DEF c_raise, At, ChildAlive
  <2>2. KeepsHist
    BY <1>5 DEF c_raise, IInv, TypeOK, Hists, KeepsHist
  <2>3. KeepsGrand
    BY <1>5 DEF c_raise, IInv, TypeOK, KeepsGrand, GrandPcs, GrandAlive
  <2> QED BY <1>0, <1>5, <2>1, <2>2, <2>3, SubordinateStep DEF c_raise
<1>6. CASE check_waitpid_and_exit
  <2>1. KeepsChild
    BY <1>6, EndsKeeps DEF check_waitpid_and_exit, At, ChildAlive
  <2>2. KeepsHist
    BY <1>6, Zenon DEF check_waitpid_and_exit, IInv, TypeOK, Hists, KeepsHist
  <2> QED BY <1>0, <1>6, <2>1, <2>2, SubordinateStep DEF check_waitpid_and_exit
<1>7. CASE check_fork
  <2>1. /\ cpc = "test" /\ gpc[cur] = "none" /\ cgroup_pid = cur
        /\ UNCHANGED <<runner, child, gkilled, pipe>>
        /\ gpc' = [gpc EXCEPT ![cur] = "running"]
        /\ gfile' = [gfile EXCEPT ![cur] = pipe.id]
        /\ ggroup' = [ggroup EXCEPT ![cur] = cur]
        /\ rpc \notin {"fork", "timer_delete", "killpg", "rewind", "read",
                       "finished", "exit2"}
    BY <1>7 DEF check_fork, At, IInv, ChildInv
  <2>2. KeepsHist
    BY <1>7, Zenon DEF check_fork, IInv, TypeOK, Hists, KeepsHist
  <2>3. KeepsPipe /\ KeepsChild
    BY <1>0, <2>1
  <2>4. TypeOK'
    BY <2>1, <2>2, <2>3, Zenon DEF IInv, TypeOK, KeepsHist, KeepsPipe, TypedPipe,
       KeepsChild, runner, Tests
  <2>5. GrandInv' /\ GroupKilled'
    BY <2>1 DEF IInv, TypeOK, GrandInv, GroupKilled, runner, Tests
  <2>6. RunnerInv' /\ AlarmIsCurrent'
    BY <2>1, <2>2 DEF IInv, RunnerInv, AlarmIsCurrent, runner, KeepsHist
  <2>7. ChildInv' /\ OwnMessages'
    BY <2>1, <2>3, Zenon DEF KeepsChild, KeepsPipe, OwnMessages, runner
  <2> QED BY <2>4, <2>5, <2>6, <2>7 DEF IInv
<1> QED BY <1>1, <1>2, <1>3, <1>4, <1>5, <1>6, <1>7 DEF UserCode

-----------------------------------------------------------------------------
(* The steps of the processes made with check_fork() *)
LEMMA GSendKeeps ==
  ASSUME IInv, NEW t \in Tests, gpc[t] # "none", NEW m, GSend(t, m)
  PROVE  KeepsPipe /\ KeepsHist
<1>1. TypedPipe(pipe) /\ pipe.from \subseteq {cur} /\ cur \in Tests
  BY Zenon DEF IInv, TypeOK, TypedPipe, OwnMessages
<1>2. gfile[t] = pipe.id => t = cur
  BY Zenon DEF IInv, GrandInv
<1>3. KeepsHist
  <2>1. \E a \in BOOLEAN, b \in BOOLEAN :
          hist' = [hist EXCEPT !.gfailed = a, !.late = b]
    <3> DEFINE a == hist.gfailed \/ (gfile[t] = pipe.id /\ m.type = "CK_MSG_FAIL")
               b == hist.late \/ (gfile[t] = pipe.id /\ rpc = "read")
    <3>1. hist' = [hist EXCEPT !.gfailed = a, !.late = b]
      BY DEF GSend
    <3>2. a \in BOOLEAN /\ b \in BOOLEAN
      BY Zenon
    <3> QED BY <3>1, <3>2, Zenon
  <2> QED BY <2>1, Zenon DEF IInv, TypeOK, Hists, KeepsHist
<1>4. CASE gfile[t] = pipe.id /\ rpc # "read"
  <2>1. Send(cur, <<m>>)
    BY <1>2, <1>4 DEF GSend
  <2> QED BY <1>3, <2>1, SendKeeps
<1>5. CASE gfile[t] = pipe.id /\ rpc = "read"
  <2>1. \/ \E msgs : pipe' = [pipe EXCEPT !.msgs = msgs]
        \/ pipe' = [pipe EXCEPT !.torn = TRUE]
    BY <1>5 DEF GSend
  <2> QED BY <1>1, <1>3, <2>1, Zenon DEF KeepsPipe, TypedPipe
<1>6. CASE gfile[t] # pipe.id
  <2>1. pipe' = pipe
    BY <1>6 DEF GSend
  <2> QED BY <1>3, <2>1, UnchangedKeeps
<1> QED BY <1>3, <1>4, <1>5, <1>6, Zenon

(* A step of a process made with check_fork() preserves the invariant *)
LEMMA GrandStepIInv == IInv /\ GrandStep => IInv'
<1> SUFFICES ASSUME IInv, NEW t \in Tests,
                    g_die(t) \/ g_exit(t) \/ g_assert_failed(t) \/ g_write(t)
             PROVE  IInv'
  BY DEF GrandStep
<1>0. UNCHANGED <<runner, child>> /\ KeepsChild
  BY UnchangedKeeps DEF g_die, g_exit, g_assert_failed, g_write
<1>1. KeepsGrand
  BY DEF g_die, g_exit, g_assert_failed, g_write, GEnds, GrandAlive, IInv, TypeOK,
     KeepsGrand, GrandPcs
<1>2. KeepsPipe /\ KeepsHist
  <2>1. CASE g_die(t) \/ g_exit(t)
    BY <2>1, UnchangedKeeps DEF g_die, g_exit
  <2>2. CASE g_assert_failed(t) \/ g_write(t)
    BY <2>2, GSendKeeps, Zenon DEF g_assert_failed, g_write
  <2> QED BY <2>1, <2>2
<1> QED BY <1>0, <1>1, <1>2, SubordinateStep

-----------------------------------------------------------------------------
(* killpg() kills, and revives nobody *)
LEMMA KillpgMonotone ==
  ASSUME IInv, NEW G, NEW sig, killpg(G, sig)
  PROVE  /\ gkilled' \in [Tests -> BOOLEAN]
         /\ \A t \in Tests : gkilled[t] => gkilled'[t]
         /\ \A t \in Tests : ggroup[t] \in G /\ GrandAlive(t) => gkilled'[t]
BY Zenon DEF killpg, IInv, TypeOK

(* The steps of the runner, one by one *)
LEMMA RunnerStepIInv == IInv /\ RunnerStep => IInv'
<1> SUFFICES ASSUME IInv, RunnerStep PROVE IInv'
  OBVIOUS
<1>1. CASE r_fork
  <2>1. TypeOK'
    <3>1. NoHist \in Hists /\ ~NoHist.fired
      BY DEF NoHist, Hists
    <3> QED BY <1>1, <3>1, ForkTestAssumption
            DEF r_fork, IInv, TypeOK, grand, RunnerPcs, ChildPcs
  <2>2. RunnerInv' /\ AlarmIsCurrent'
    BY <1>1 DEF r_fork, IInv, RunnerInv, AlarmIsCurrent, NoHist
  <2>3. ChildInv'
    BY <1>1 DEF r_fork, IInv, ChildInv
  <2>4. GrandInv' /\ GroupKilled' /\ OwnMessages'
    BY <1>1 DEF r_fork, IInv, GrandInv, GroupKilled, OwnMessages, grand
  <2> QED BY <2>1, <2>2, <2>3, <2>4 DEF IInv
<1>2. CASE r_parent \/ r_arm \/ r_timer_delete \/ r_rewind
  <2>0. UNCHANGED <<cur, tf, child, grand, pipe, hist>>
    BY <1>2 DEF r_parent, r_arm, r_timer_delete, r_rewind
  <2>1. TypeOK'
    <3>1. cur \in 0 .. NTests
      BY DEF IInv, TypeOK, Tests
    <3>2. rpc' \in RunnerPcs /\ timer' \in {"none", "armed", "expired"}
      BY <1>2, Zenon DEF r_parent, r_arm, r_timer_delete, r_rewind, RunnerPcs, IInv, TypeOK
    <3>3. group_pid' \in 0 .. NTests
      BY <1>2, <3>1 DEF r_parent, r_arm, r_timer_delete, r_rewind, IInv, TypeOK
    <3>4. alarm_received' \in BOOLEAN
      BY <1>2, Zenon DEF r_parent, r_arm, r_timer_delete, r_rewind, IInv, TypeOK
    <3> QED BY <2>0, <3>2, <3>3, <3>4, Zenon DEF IInv, TypeOK, child, grand
  <2>2. RunnerInv' /\ AlarmIsCurrent'
    BY <1>2, <2>0 DEF r_parent, r_arm, r_timer_delete, r_rewind, IInv, TypeOK,
       RunnerInv, AlarmIsCurrent
  <2>3. ChildInv'
    BY <1>2, <2>0, Zenon DEF r_parent, r_arm, r_timer_delete, r_rewind, IInv, ChildInv,
       child
  <2>4. GrandInv' /\ GroupKilled' /\ OwnMessages'
    BY <1>2, <2>0, Zenon DEF r_parent, r_arm, r_timer_delete, r_rewind, IInv, GrandInv,
       GroupKilled, OwnMessages, grand
  <2> QED BY <2>1, <2>2, <2>3, <2>4 DEF IInv
<1>3. CASE r_waitpid
  <2>1. TypeOK'
    BY <1>3, Zenon DEF r_waitpid, IInv, TypeOK, grand, RunnerPcs, ChildPcs
  <2>2. RunnerInv' /\ AlarmIsCurrent' /\ ChildInv'
    BY <1>3, Zenon DEF r_waitpid, IInv, RunnerInv, AlarmIsCurrent, ChildInv
  <2>3. GrandInv' /\ GroupKilled' /\ OwnMessages'
    BY <1>3, Zenon DEF r_waitpid, IInv, GrandInv, GroupKilled, OwnMessages, grand
  <2> QED BY <2>1, <2>2, <2>3, Zenon DEF IInv
<1>4. CASE r_killpg
  <2>1. TypeOK'
    BY <1>4, KillpgMonotone, Zenon DEF r_killpg, IInv, TypeOK, RunnerPcs
  <2>2. RunnerInv' /\ AlarmIsCurrent' /\ ChildInv'
    BY <1>4, Zenon DEF r_killpg, IInv, RunnerInv, AlarmIsCurrent, ChildInv
  <2>3. GrandInv' /\ OwnMessages'
    BY <1>4, Zenon DEF r_killpg, IInv, GrandInv, OwnMessages
  <2>4. GroupKilled'
    <3>1. \A t \in Tests : gkilled[t] => gkilled'[t]
      BY <1>4, KillpgMonotone, Zenon DEF r_killpg
    <3>2. ggroup[cur] \in {cur} /\ GrandAlive(cur) => gkilled'[cur]
      BY <1>4, KillpgMonotone, Zenon DEF r_killpg, IInv, TypeOK
    <3>3. gpc[cur] \notin {"none", "exited"} => ggroup[cur] \in {cur} /\ GrandAlive(cur)
      BY DEF IInv, TypeOK, GrandInv, GrandAlive
    <3> QED BY <1>4, <3>1, <3>2, <3>3, Zenon
            DEF r_killpg, IInv, TypeOK, GroupKilled, Tests
  <2> QED BY <2>1, <2>2, <2>3, <2>4, Zenon DEF IInv
<1>5. CASE r_read
  <2>0. /\ rpc = "read" /\ cpc = "none" /\ timer # "armed"
        /\ UNCHANGED <<group_pid, alarm_received, timer, status, child, grand, hist>>
        /\ \/ rpc' = "exit2" /\ UNCHANGED <<cur, tf, pipe>>
           \/ /\ pipe' = EmptyPipe(pipe.id + 1)
              /\ \/ rpc' = "finished" /\ UNCHANGED <<cur, tf>>
                 \/ rpc' = "fork" /\ cur' = cur + 1 /\ tf' \in TFs /\ cur # NTests
    BY <1>5, Zenon DEF r_read, IInv, ChildInv, RunnerInv, replace_pipe, IsLast
  <2>1. TypeOK'
    <3>1. cur' \in Tests /\ tf' \in TFs
      <4>1. cur \in 1 .. NTests /\ NTests \in Nat /\ tf \in TFs
        BY ForkTestAssumption, Zenon DEF IInv, TypeOK, Tests
      <4>2. cur' = cur \/ (cur' = cur + 1 /\ cur # NTests)
        BY <2>0, Zenon
      <4>3. cur' \in 1 .. NTests
        BY <4>1, <4>2
      <4>4. tf' \in TFs
        BY <2>0, <4>1, Zenon
      <4> QED BY <4>3, <4>4, Zenon DEF Tests
    <3>2. TypedPipe(pipe')
      <4>1. TypedPipe(pipe) /\ pipe.id + 1 \in Nat
        BY DEF IInv, TypeOK, TypedPipe
      <4>2. \A n \in Nat : TypedPipe(EmptyPipe(n))
        BY Zenon DEF TypedPipe, EmptyPipe
      <4> QED BY <2>0, <4>1, <4>2, Zenon
    <3> QED BY <2>0, <3>1, <3>2, Zenon DEF IInv, TypeOK, TypedPipe, child, grand, RunnerPcs
  <2>2. RunnerInv' /\ AlarmIsCurrent' /\ ChildInv'
    BY <2>0, Zenon DEF IInv, RunnerInv, AlarmIsCurrent, ChildInv, child
  <2>3. pipe'.id = pipe.id \/ pipe'.id = pipe.id + 1
    BY <2>0 DEF EmptyPipe
  <2>4. GrandInv'
    BY <2>0, <2>3 DEF IInv, TypeOK, GrandInv, EmptyPipe, grand
  <2>5. GroupKilled'
    BY <2>0 DEF IInv, TypeOK, GroupKilled, Tests, grand
  <2>6. OwnMessages'
    BY <2>0 DEF IInv, OwnMessages, EmptyPipe
  <2> QED BY <2>1, <2>2, <2>4, <2>5, <2>6, Zenon DEF IInv
<1> QED BY <1>1, <1>2, <1>3, <1>4, <1>5 DEF RunnerStep

(* The handler and the failing system calls *)
LEMMA HandlerIInv ==
  ASSUME IInv, r_alarm \/ r_eprintf \/ (\E sig : r_interrupt(sig))
  PROVE  IInv'
<1>1. CASE r_alarm
  <2>0. /\ rpc \in {"wait", "timer_delete"} /\ killpg({group_pid}, "SIGKILL")
        /\ timer' = "expired" /\ alarm_received' = TRUE
        /\ UNCHANGED <<rpc, cur, tf, group_pid, cpc, pgrp, cgroup_pid, gpc, gfile,
                       ggroup, pipe>>
    BY <1>1, Zenon DEF r_alarm, IInv, RunnerInv
  <2>1. hist' \in Hists /\ hist'.fired = TRUE
    <3>1. PICK b \in BOOLEAN : hist' = [hist EXCEPT !.fired = TRUE, !.alarmKilled = b]
      <4>1. (doomed' # doomed) \in BOOLEAN
        BY Zenon
      <4> QED BY <1>1, <4>1, Zenon DEF r_alarm
    <3> QED BY <3>1, Zenon DEF IInv, TypeOK, Hists
  <2>2. TypeOK'
    BY <2>0, <2>1, KillpgMonotone, Zenon DEF IInv, TypeOK
  <2>3. RunnerInv' /\ AlarmIsCurrent' /\ ChildInv' /\ OwnMessages'
    BY <2>0, <2>1, Zenon DEF IInv, RunnerInv, AlarmIsCurrent, ChildInv, OwnMessages
  <2>4. GrandInv' /\ GroupKilled'
    BY <2>0, KillpgMonotone, Zenon DEF IInv, GrandInv, GroupKilled
  <2> QED BY <2>2, <2>3, <2>4, Zenon DEF IInv
<1>2. CASE r_eprintf
  <2>1. TypeOK'
    BY <1>2, Zenon DEF r_eprintf, IInv, TypeOK, child, grand, RunnerPcs
  <2>2. RunnerInv' /\ AlarmIsCurrent' /\ ChildInv' /\ OwnMessages'
    BY <1>2, Zenon DEF r_eprintf, IInv, RunnerInv, AlarmIsCurrent, ChildInv, OwnMessages,
       child
  <2>3. GrandInv' /\ GroupKilled'
    BY <1>2, Zenon DEF r_eprintf, IInv, GrandInv, GroupKilled, grand
  <2> QED BY <2>1, <2>2, <2>3 DEF IInv
<1>3. ASSUME NEW sig, r_interrupt(sig) PROVE IInv'
  <2>0. PICK s : killpg(InterruptedGroups, s)
    BY <1>3, Zenon DEF r_interrupt
  <2>1. TypeOK'
    BY <1>3, <2>0, KillpgMonotone, Zenon DEF r_interrupt, IInv, TypeOK, RunnerPcs
  <2>2. RunnerInv' /\ AlarmIsCurrent' /\ ChildInv' /\ OwnMessages'
    BY <1>3, Zenon DEF r_interrupt, IInv, RunnerInv, AlarmIsCurrent, ChildInv, OwnMessages
  <2>3. \A t \in Tests : gkilled[t] => gkilled'[t]
    BY <2>0, KillpgMonotone, Zenon
  <2>4. GrandInv' /\ GroupKilled'
    BY <1>3, <2>3 DEF r_interrupt, IInv, GrandInv, GroupKilled
  <2> QED BY <2>1, <2>2, <2>4 DEF IInv
<1> QED BY <1>1, <1>2, <1>3

-----------------------------------------------------------------------------
(* Every reachable state satisfies the inductive invariant, whatever the   *)
(* tests declare and do, and however the actors interleave.                *)
THEOREM ForkInvariant == Spec => []IInv
<1>1. IInv /\ [Next]_vars => IInv'
  <2> SUFFICES ASSUME IInv, [Next]_vars PROVE IInv'
    BY Zenon
  <2>1. CASE UNCHANGED vars
    <3>1. UNCHANGED <<runner, child>> /\ UNCHANGED grand /\ UNCHANGED pipe
          /\ UNCHANGED hist /\ UNCHANGED runner
      BY <2>1 DEF vars
    <3> QED BY <3>1, UnchangedKeeps, SubordinateStep, Zenon
  <2> QED BY <2>1, RunnerStepIInv, HandlerIInv, ChildStepIInv, UserCodeIInv,
             GrandStepIInv, Zenon DEF Next
<1> QED BY InitIInv, <1>1, PTL DEF Spec

(* The variables of the runner and its processes keep their types: the     *)
(* type invariant of the whole protocol.                                   *)
THEOREM ForkTypeOK == Spec => []TypeOK
<1>1. IInv => TypeOK
  BY Zenon DEF IInv
<1> QED BY ForkInvariant, <1>1, PTL

(* The static alarm_received that set_fork_info() consults is always that  *)
(* of the test being judged, for any number of tests.                      *)
THEOREM AlarmAlwaysCurrent == Spec => []AlarmIsCurrent
<1>1. IInv => AlarmIsCurrent
  BY Zenon DEF IInv
<1> QED BY ForkInvariant, <1>1, PTL

(* Once the runner has called killpg() for a test, no process the test     *)
(* made with check_fork() is alive without SIGKILL pending, for ever after. *)
THEOREM GroupAlwaysKilled == Spec => []GroupKilled
<1>1. IInv => GroupKilled
  BY Zenon DEF IInv
<1> QED BY ForkInvariant, <1>1, PTL

(* The file receive_test_result() reads never holds a message of another   *)
(* test, although processes of earlier tests may still be writing.         *)
THEOREM MessagesAlwaysOwn == Spec => []OwnMessages
<1>1. IInv => OwnMessages
  BY DEF IInv
<1> QED BY ForkInvariant, <1>1, PTL

(* SIGINT or SIGTERM to a runner that waits for a test whose child has its *)
(* own group leaves no process of that test alive without a fatal signal   *)
(* pending, in every behaviour.                                            *)
THEOREM InterruptAlwaysEndsTest == Spec => InterruptEndsTest
<1> DEFINE A == rpc = "wait" /\ rpc' = "dead" /\ pgrp = cur
                  => /\ ChildAlive' => doomed' # NoSignal
                     /\ GrandAlive(cur)' => gkilled'[cur]
<1>1. IInv /\ [Next]_vars => [A]_vars
  <2> SUFFICES ASSUME IInv, Next, rpc = "wait", rpc' = "dead", pgrp = cur
               PROVE  /\ ChildAlive' => doomed' # NoSignal
                      /\ GrandAlive(cur)' => gkilled'[cur]
    BY Zenon
  <2>1. PICK sig : r_interrupt(sig)
    <3>1. ~RunnerStep
      BY DEF RunnerStep, r_fork, r_parent, r_arm, r_waitpid, r_timer_delete,
         r_killpg, r_rewind, r_read
    <3>2. ~r_alarm /\ ~r_eprintf
      BY DEF r_alarm, r_eprintf
    <3>3. ~ChildStep
      BY DEF ChildStep, c_die, c_setpgid, c_getpgrp, c_ctx_setup, c_fn_ctx,
         c_fn_loc, c_ctx_teardown, c_finish, c_send_failure, runner
    <3>4. ~UserCode
      BY Zenon DEF UserCode, c_return, _mark_point, _ck_assert_failed, c_exit, c_raise,
         check_fork, check_waitpid_and_exit, runner
    <3>5. ~GrandStep
      BY Zenon DEF GrandStep, g_die, g_exit, g_assert_failed, g_write, runner
    <3> QED BY <3>1, <3>2, <3>3, <3>4, <3>5, Zenon DEF Next
  <2>2. /\ cur \in InterruptedGroups /\ UNCHANGED <<cur, cpc, gpc>>
        /\ \E s \in {"SIGKILL", "SIGTERM"} : killpg(InterruptedGroups, s)
    BY <2>1, Zenon DEF r_interrupt, InterruptedGroups, IInv, RunnerInv
  <2>3. ChildAlive' => doomed' # NoSignal
    BY <2>2, Zenon DEF killpg, ChildAlive, NoSignal
  <2>4. cur \in Tests /\ (GrandAlive(cur) => ggroup[cur] = cur)
    BY Zenon DEF IInv, TypeOK, GrandInv, GrandAlive
  <2>5. GrandAlive(cur)' => gkilled'[cur]
    BY <2>2, <2>4, KillpgMonotone DEF GrandAlive
  <2> QED BY <2>3, <2>5
<1> QED BY ForkInvariant, <1>1, PTL DEF Spec, InterruptEndsTest

-----------------------------------------------------------------------------
(* A child the alarm has killed is on its way to a wait status of SIGKILL  *)
KilledInv ==
  hist.alarmKilled =>
    /\ hist.fired
    /\ \/ ChildAlive /\ doomed = "SIGKILL"
       \/ cpc = "zombie" /\ wstatus = Signaled("SIGKILL")
       \/ cpc = "none" /\ status = Signaled("SIGKILL")

(* set_fork_info() after a SIGKILL and an alarm, whatever was declared *)
LEMMA AlarmVerdict ==
  ASSUME NEW msg, NEW sig, NEW v
  PROVE  set_fork_info(msg, Signaled("SIGKILL"), sig, v, TRUE)
           = verdict("CK_ERROR", "timeout expired")
<1>1. Signaled("SIGKILL").how = "signal" /\ Signaled("SIGKILL").val = "SIGKILL"
  BY DEF Signaled
<1>2. CASE sig = "SIGKILL"
  BY <1>1, <1>2, Zenon DEF set_fork_info, ExpectedSignal
<1>3. CASE sig # "SIGKILL"
  BY <1>1, <1>3, Zenon DEF set_fork_info
<1> QED BY <1>2, <1>3, Zenon

(* A step of a process that is not killed, and leaves what the alarm did   *)
LEMMA AliveKeepsKilled ==
  ASSUME IInv, KilledInv, TimeoutIsError, UNCHANGED runner, KeepsHist,
         hist'.alarmKilled = hist.alarmKilled,
         ChildAlive, doomed = NoSignal
  PROVE  KilledInv' /\ TimeoutIsError'
<1>1. ~hist.alarmKilled
  BY Zenon DEF KilledInv, ChildAlive, NoSignal
<1>2. ~hist'.alarmKilled
  BY <1>1, Zenon
<1> QED BY <1>2, Zenon DEF KilledInv, TimeoutIsError, runner

(* A step that leaves child, status and verdict alone *)
LEMMA FrameKeepsKilled ==
  ASSUME KilledInv, TimeoutIsError, UNCHANGED <<cpc, doomed, wstatus, status, result>>,
         hist'.fired = hist.fired, hist'.alarmKilled = hist.alarmKilled
  PROVE  KilledInv' /\ TimeoutIsError'
BY Zenon DEF KilledInv, TimeoutIsError, ChildAlive

(* A child the alarm has killed stays killed, and is reported as an error *)
LEMMA KilledStep == IInv /\ KilledInv /\ TimeoutIsError /\ [Next]_vars
                      => KilledInv' /\ TimeoutIsError'
<1> SUFFICES ASSUME IInv, KilledInv, TimeoutIsError, [Next]_vars
             PROVE  KilledInv' /\ TimeoutIsError'
  BY Zenon
<1>t. hist \in Hists
  BY Zenon DEF IInv, TypeOK
<1>1. CASE r_fork
  BY <1>1, Zenon DEF r_fork, KilledInv, TimeoutIsError, NoHist
<1>2. CASE r_parent \/ r_arm \/ r_timer_delete \/ r_rewind \/ r_eprintf
  BY <1>2, FrameKeepsKilled, Zenon
     DEF r_parent, r_arm, r_timer_delete, r_rewind, r_eprintf, child
<1>3. CASE r_waitpid
  BY <1>3, Zenon DEF r_waitpid, KilledInv, TimeoutIsError, ChildAlive
<1>4. CASE r_killpg
  <2>1. cpc = "none"
    BY <1>4, Zenon DEF r_killpg, IInv, ChildInv
  <2> QED BY <1>4, <2>1, Zenon DEF r_killpg, killpg, KilledInv, TimeoutIsError, ChildAlive
<1>5. CASE r_read
  <2>0. UNCHANGED <<status, child, hist>> /\ cpc = "none" /\ rpc = "read"
    BY <1>5, Zenon DEF r_read, IInv, ChildInv
  <2>1. KilledInv'
    BY <2>0, Zenon DEF KilledInv, ChildAlive, child
  <2>2. CASE result' = result
    BY <2>1, <2>2, Zenon DEF TimeoutIsError
  <2>3. ASSUME NEW rmsg, result' = Judge(rmsg), hist.alarmKilled
        PROVE  result'.rtype = "CK_ERROR" /\ result'.msg = "timeout expired"
    <3>1. status = Signaled("SIGKILL") /\ alarm_received = TRUE
      BY <2>0, <2>3, Zenon DEF KilledInv, ChildAlive, IInv, TypeOK, AlarmIsCurrent
    <3> DEFINE msg == construct_test_result(rmsg, waserror(status, tf.signal)).msg
               v == set_fork_info(msg, status, tf.signal, tf.allowed_exit_value,
                                  alarm_received)
    <3>2. v = verdict("CK_ERROR", "timeout expired")
      BY <3>1, AlarmVerdict, Zenon
    <3>3. result'.rtype = v.rtype /\ result'.msg = v.msg
      BY <2>3, Zenon DEF Judge
    <3>4. v.rtype = "CK_ERROR" /\ v.msg = "timeout expired"
      <4> HIDE DEF v
      <4> QED BY <3>2, Zenon DEF verdict
    <3> QED BY <3>3, <3>4, Zenon
  <2>4. ASSUME NEW rmsg, result' = Judge(rmsg) PROVE result'.hist = hist
    BY <2>4, Zenon DEF Judge
  <2>5. result' = result \/ \E rmsg : result' = Judge(rmsg)
    BY <1>5, Zenon DEF r_read
  <2> QED BY <2>1, <2>2, <2>3, <2>4, <2>5, Zenon DEF TimeoutIsError
<1>6. CASE r_alarm
  <2>1. PICK b : /\ b <=> doomed' # doomed
                 /\ hist' = [hist EXCEPT !.fired = TRUE, !.alarmKilled = b]
    BY <1>6, Zenon DEF r_alarm
  <2>2. hist'.fired = TRUE /\ (hist'.alarmKilled => doomed' # doomed)
    BY <1>t, <2>1, Zenon DEF Hists
  <2>3. doomed' # doomed => ChildAlive /\ doomed' = "SIGKILL"
    BY <1>6, Zenon DEF r_alarm, killpg
  <2> QED BY <1>6, <2>2, <2>3, Zenon DEF r_alarm, KilledInv, TimeoutIsError, ChildAlive
<1>7. ASSUME NEW sig, r_interrupt(sig) PROVE KilledInv' /\ TimeoutIsError'
  <2>1. doomed = "SIGKILL" => doomed' = "SIGKILL"
    BY <1>7, Zenon DEF r_interrupt, killpg, NoSignal
  <2> QED BY <1>7, <2>1, Zenon DEF r_interrupt, KilledInv, TimeoutIsError, ChildAlive
<1>8. CASE c_die
  BY <1>8, Zenon DEF c_die, Ends, runner, KilledInv, TimeoutIsError, ChildAlive
<1>9. CASE ChildStep /\ ~c_die
  <2>1. ChildAlive /\ doomed = NoSignal /\ UNCHANGED runner
    BY <1>9, Zenon DEF ChildStep, c_setpgid, c_getpgrp, c_ctx_setup, c_fn_ctx, c_fn_loc,
       c_ctx_teardown, c_finish, c_send_failure, At, ChildAlive
  <2>2. hist' = hist \/ hist' = [hist EXCEPT !.failed = TRUE]
    BY <1>9 DEF ChildStep, c_setpgid, c_getpgrp, c_ctx_setup, c_fn_ctx, c_fn_loc,
       c_ctx_teardown, c_finish, c_send_failure
  <2>3. KeepsHist /\ hist'.alarmKilled = hist.alarmKilled
    BY <1>t, <2>2, Zenon DEF Hists, KeepsHist
  <2> QED BY <2>1, <2>3, AliveKeepsKilled, Zenon
<1>10. CASE UserCode
  <2>1. ChildAlive /\ doomed = NoSignal /\ UNCHANGED runner
    BY <1>10, Zenon DEF UserCode, c_return, _mark_point, _ck_assert_failed, c_exit,
       c_raise, check_fork, check_waitpid_and_exit, At, ChildAlive, UserPhases
  <2>2. KeepsHist /\ hist'.alarmKilled = hist.alarmKilled
    <3>1. \/ hist' = hist
          \/ \E phase \in UserPhases, loc \in Locs :
               hist' = [hist EXCEPT !.loc = loc, !.ctx = PhaseCtx(phase)]
          \/ \E sig \in RaisedSignals : hist' = [hist EXCEPT !.raised = sig]
          \/ hist' = [hist EXCEPT !.forked = TRUE]
          \/ hist' = [hist EXCEPT !.waited = TRUE]
      BY <1>10, Zenon DEF UserCode, c_return, _mark_point, _ck_assert_failed, c_exit,
         c_raise, check_fork, check_waitpid_and_exit
    <3>2. \A phase \in UserPhases : PhaseCtx(phase) \in Ctx
      BY Zenon DEF UserPhases, PhaseCtx, Ctx
    <3> QED BY <1>t, <3>1, <3>2, Zenon DEF Hists, KeepsHist
  <2> QED BY <2>1, <2>2, AliveKeepsKilled
<1>11. CASE GrandStep
  <2>1. UNCHANGED <<runner, child>>
    BY <1>11, Zenon DEF GrandStep, g_die, g_exit, g_assert_failed, g_write
  <2>2. hist' = hist \/ \E a, b : hist' = [hist EXCEPT !.gfailed = a, !.late = b]
    BY <1>11, Zenon DEF GrandStep, g_die, g_exit, g_assert_failed, g_write, GSend
  <2>3. hist'.fired = hist.fired /\ hist'.alarmKilled = hist.alarmKilled
    BY <1>t, <2>2, Zenon DEF Hists
  <2> QED BY <2>1, <2>3, FrameKeepsKilled, Zenon DEF runner, child
<1>12. CASE UNCHANGED vars
  BY <1>12, FrameKeepsKilled, Zenon DEF vars, runner, child
<1> QED BY <1>1, <1>2, <1>3, <1>4, <1>5, <1>6, <1>7, <1>8, <1>9, <1>10, <1>11,
           <1>12, Zenon DEF Next, RunnerStep

(* A test the timer killed is always reported as CK_ERROR with the timeout *)
(* message: for any number of tests, whatever the test declared and sent,  *)
(* and wherever the alarm went off.                                        *)
THEOREM TimeoutAlwaysError == Spec => []TimeoutIsError
<1>1. Init => KilledInv /\ TimeoutIsError
  BY DEF Init, KilledInv, TimeoutIsError, NoHist
<1> QED BY <1>1, KilledStep, ForkInvariant, PTL DEF Spec

-----------------------------------------------------------------------------
(* What a raised signal ends the child with: sig_handler(), which it       *)
(* inherits, sends SIGKILL in place of two of them                         *)
DeathBy(sig) == IF sig \in {"SIGALRM", "SIGINT"} THEN "SIGKILL" ELSE sig

(* A wait status that tells how the child came to its end: it raised no    *)
(* signal and exited, with 1 if an assertion failed; or no assertion       *)
(* failed, and it raised a signal or was killed by the alarm.              *)
Tells(st) ==
  \/ st.how = "exit" /\ hist.raised = NoSignal /\ (hist.failed => st.val = 1)
  \/ /\ st.how = "signal" /\ st.val # NoSignal /\ ~hist.failed
     /\ \/ hist.raised # NoSignal /\ st.val = DeathBy(hist.raised)
        \/ hist.alarmKilled

(* The alarm goes off once; and, unless the runner was interrupted, a live *)
(* child has neither failed nor raised a signal, only the alarm dooms it,  *)
(* and the status of an ended one tells what happened.                     *)
FateInv ==
  /\ rpc = "arm" \/ timer = "armed" => ~hist.fired
  /\ rpc # "dead" =>
       /\ ChildAlive => /\ ~hist.failed /\ hist.raised = NoSignal
                        /\ doomed # NoSignal => hist.alarmKilled
       /\ cpc = "zombie" => Tells(wstatus)
       /\ rpc \in {"timer_delete", "killpg", "rewind", "read"} => Tells(status)

(* A step that leaves the runner, the child and what it did alone *)
LEMMA FrameKeepsFate ==
  ASSUME FateInv, UNCHANGED <<rpc, timer, status, cpc, doomed, wstatus>>,
         hist'.fired = hist.fired, hist'.alarmKilled = hist.alarmKilled,
         hist'.failed = hist.failed, hist'.raised = hist.raised
  PROVE  FateInv'
BY Zenon DEF FateInv, Tells, ChildAlive

(* A live child that is not doomed goes on, having raised nothing *)
LEMMA AliveKeepsFate ==
  ASSUME IInv, FateInv, UNCHANGED runner, ChildAlive, UNCHANGED doomed, doomed = NoSignal,
         cpc' \notin {"none", "zombie"},
         hist'.fired = hist.fired, hist'.failed = hist.failed, hist'.raised = hist.raised
  PROVE  FateInv'
<1>1. rpc \notin {"timer_delete", "killpg", "rewind", "read"}
  BY Zenon DEF IInv, ChildInv, ChildAlive
<1> QED BY <1>1, Zenon DEF FateInv, ChildAlive, runner

(* It ends, and its status tells why *)
LEMMA EndKeepsFate ==
  ASSUME IInv, FateInv, UNCHANGED runner, ChildAlive, cpc' = "zombie",
         hist'.fired = hist.fired, rpc # "dead" => Tells(wstatus)'
  PROVE  FateInv'
<1>1. rpc \notin {"timer_delete", "killpg", "rewind", "read"}
  BY Zenon DEF IInv, ChildInv, ChildAlive
<1> QED BY <1>1, Zenon DEF FateInv, ChildAlive, runner

(* A pass of set_fork_info(): the declared signal, or with none declared   *)
(* the declared exit value                                                 *)
LEMMA PassVerdict ==
  ASSUME NEW msg, NEW st, NEW sig, NEW v, NEW alarm, st.how \in {"exit", "signal"},
         set_fork_info(msg, st, sig, v, alarm).rtype = "CK_PASS"
  PROVE  \/ st.how = "signal" /\ st.val = sig
         \/ st.how = "exit" /\ sig = NoSignal /\ SChar(st.val) = SChar(v)
<1>1. CASE st.how = "signal" /\ st.val # sig
  BY <1>1, Zenon DEF set_fork_info, verdict
<1>2. CASE st.how = "exit" /\ sig # NoSignal
  BY <1>2, Zenon DEF set_fork_info, SignalMissing, verdict
<1>3. CASE st.how = "exit" /\ sig = NoSignal /\ SChar(st.val) # SChar(v)
  BY <1>3, Zenon DEF set_fork_info, SignalMissing, verdict
<1> QED BY <1>1, <1>2, <1>3, Zenon

(* The status goes on to tell what happened until the verdict is taken *)
LEMMA FateStep == IInv /\ KilledInv /\ FateInv /\ [Next]_vars => FateInv'
<1> SUFFICES ASSUME IInv, KilledInv, FateInv, [Next]_vars
             PROVE  FateInv'
  BY Zenon
<1>t. hist \in Hists
  BY Zenon DEF IInv, TypeOK
<1>1. CASE r_fork
  BY <1>1, Zenon DEF r_fork, FateInv, IInv, RunnerInv, NoHist
<1>2. CASE r_parent \/ r_arm \/ r_timer_delete \/ r_rewind \/ r_eprintf
  BY <1>2, Zenon DEF r_parent, r_arm, r_timer_delete, r_rewind, r_eprintf, child, FateInv,
     IInv, RunnerInv, Tells, ChildAlive
<1>3. CASE r_waitpid
  BY <1>3, Zenon DEF r_waitpid, FateInv, Tells, ChildAlive
<1>4. CASE r_killpg
  <2>1. cpc = "none"
    BY <1>4, Zenon DEF r_killpg, IInv, ChildInv
  <2> QED BY <1>4, <2>1, Zenon DEF r_killpg, FateInv, Tells, ChildAlive
<1>5. CASE r_read
  <2>1. cpc = "none" /\ UNCHANGED <<cpc, timer>> /\ timer # "armed"
        /\ rpc' \in {"exit2", "finished", "fork"}
    BY <1>5, Zenon DEF r_read, child, IInv, ChildInv, RunnerInv
  <2> QED BY <2>1, Zenon DEF FateInv, ChildAlive
<1>6. CASE r_alarm
  <2>1. PICK b : /\ b <=> doomed' # doomed
                 /\ hist' = [hist EXCEPT !.fired = TRUE, !.alarmKilled = b]
    BY <1>6, Zenon DEF r_alarm
  <2>2. /\ hist'.failed = hist.failed /\ hist'.raised = hist.raised
        /\ doomed' # doomed => hist'.alarmKilled
    BY <1>t, <2>1, Zenon DEF Hists
  <2>3. ~hist.alarmKilled /\ rpc \in {"wait", "timer_delete"}
    BY <1>6, Zenon DEF r_alarm, FateInv, KilledInv, IInv, RunnerInv
  <2> QED BY <1>6, <2>2, <2>3, Zenon DEF r_alarm, FateInv, Tells, ChildAlive
<1>7. ASSUME NEW sig, r_interrupt(sig) PROVE FateInv'
  BY <1>7, Zenon DEF r_interrupt, FateInv
<1>8. CASE c_die
  <2>1. /\ ChildAlive /\ doomed # NoSignal /\ UNCHANGED <<runner, hist>>
        /\ cpc' = "zombie" /\ wstatus' = Signaled(doomed)
    BY <1>8, Zenon DEF c_die, Ends
  <2>2. wstatus'.how = "signal" /\ wstatus'.val # NoSignal
    BY <2>1, Zenon DEF Signaled
  <2>3. rpc # "dead" => Tells(wstatus)'
    BY <2>1, <2>2, Zenon DEF Tells, FateInv
  <2> QED BY <2>1, <2>3, EndKeepsFate, Zenon
<1>9. CASE c_setpgid \/ c_getpgrp \/ c_ctx_setup \/ c_fn_ctx \/ c_fn_loc \/ c_ctx_teardown
  BY <1>9, AliveKeepsFate, Zenon DEF c_setpgid, c_getpgrp, c_ctx_setup, c_fn_ctx, c_fn_loc,
     c_ctx_teardown, At, GoesTo, ChildAlive
<1>10. ASSUME NEW v, ChildAlive, UNCHANGED runner, Ends(Exited(v)),
              hist'.fired = hist.fired, hist'.raised = hist.raised,
              hist'.failed = hist.failed \/ v = 1
       PROVE  FateInv'
  <2>1. wstatus'.how = "exit" /\ wstatus'.val = v /\ cpc' = "zombie"
    BY <1>10, Zenon DEF Ends, Exited
  <2>2. rpc # "dead" => Tells(wstatus)'
    BY <1>10, <2>1, Zenon DEF Tells, FateInv
  <2> QED BY <1>10, <2>1, <2>2, EndKeepsFate, Zenon
<1>11. CASE c_finish
  BY <1>10, <1>11, Zenon DEF c_finish, At, ChildAlive
<1>12. CASE c_send_failure
  <2>1. hist'.fired = hist.fired /\ hist'.raised = hist.raised
    BY <1>t, <1>12 DEF c_send_failure, Hists
  <2> QED BY <1>10, <1>12, <2>1, Zenon DEF c_send_failure, At, ChildAlive
<1>13. CASE UserCode
  <2>1. ASSUME NEW phase \in UserPhases, c_return(phase) PROVE FateInv'
    BY <2>1, AliveKeepsFate DEF c_return, At, GoesTo, ChildAlive, UserPhases
  <2>2. ASSUME NEW phase \in UserPhases, NEW loc \in Locs, _mark_point(phase, loc)
        PROVE  FateInv'
    BY <2>2, AliveKeepsFate DEF _mark_point, At, child, ChildAlive, UserPhases
  <2>3. ASSUME NEW phase \in UserPhases, NEW loc \in Locs, _ck_assert_failed(phase, loc)
        PROVE  FateInv'
    <3>1. /\ hist'.fired = hist.fired /\ hist'.raised = hist.raised
          /\ hist'.failed = hist.failed
      BY <1>t, <2>3 DEF _ck_assert_failed, Hists
    <3> QED BY <2>3, <3>1, AliveKeepsFate
            DEF _ck_assert_failed, At, GoesTo, ChildAlive, UserPhases
  <2>4. ASSUME NEW phase \in UserPhases, NEW v \in ExitValues, c_exit(phase, v)
        PROVE  FateInv'
    BY <1>10, <2>4 DEF c_exit, At, ChildAlive, UserPhases
  <2>5. ASSUME NEW phase \in UserPhases, NEW sig \in RaisedSignals, c_raise(phase, sig)
        PROVE  FateInv'
    <3>1. DeathBy(sig) # NoSignal /\ Ends(Signaled(DeathBy(sig)))
      BY <2>5, ForkTestAssumption, Zenon DEF c_raise, DeathBy, NoSignal
    <3>2. /\ wstatus'.how = "signal" /\ wstatus'.val = DeathBy(sig)
          /\ wstatus'.val # NoSignal /\ cpc' = "zombie"
      BY <3>1 DEF Ends, Signaled
    <3>3. /\ hist'.fired = hist.fired /\ hist'.failed = hist.failed
          /\ hist'.raised = sig /\ sig # NoSignal
      BY <1>t, <2>5, ForkTestAssumption, Zenon DEF c_raise, Hists
    <3>4. ChildAlive /\ UNCHANGED runner
      BY <2>5, Zenon DEF c_raise, At, ChildAlive, UserPhases
    <3>5. rpc # "dead" => Tells(wstatus)'
      BY <3>2, <3>3, <3>4, Zenon DEF Tells, FateInv
    <3> QED BY <3>2, <3>3, <3>4, <3>5, EndKeepsFate, Zenon
  <2>6. CASE check_fork
    <3>1. /\ hist'.fired = hist.fired /\ hist'.raised = hist.raised
          /\ hist'.failed = hist.failed
      BY <1>t, <2>6, Zenon DEF check_fork, Hists
    <3> QED BY <2>6, <3>1, AliveKeepsFate, Zenon DEF check_fork, At, child, ChildAlive
  <2>7. CASE check_waitpid_and_exit
    <3>1. /\ hist'.fired = hist.fired /\ hist'.raised = hist.raised
          /\ hist'.failed = hist.failed
      BY <1>t, <2>7, Zenon DEF check_waitpid_and_exit, Hists
    <3> QED BY <1>10, <2>7, <3>1, Zenon DEF check_waitpid_and_exit, At, ChildAlive
  <2> QED BY <1>13, <2>1, <2>2, <2>3, <2>4, <2>5, <2>6, <2>7 DEF UserCode
<1>14. CASE GrandStep
  <2>1. UNCHANGED <<runner, child>>
    BY <1>14, Zenon DEF GrandStep, g_die, g_exit, g_assert_failed, g_write
  <2>2. hist' = hist \/ \E a, b : hist' = [hist EXCEPT !.gfailed = a, !.late = b]
    BY <1>14, Zenon DEF GrandStep, g_die, g_exit, g_assert_failed, g_write, GSend
  <2>3. /\ hist'.fired = hist.fired /\ hist'.alarmKilled = hist.alarmKilled
        /\ hist'.failed = hist.failed /\ hist'.raised = hist.raised
    BY <1>t, <2>2, Zenon DEF Hists
  <2> QED BY <2>1, <2>3, FrameKeepsFate, Zenon DEF runner, child
<1>15. CASE UNCHANGED vars
  BY <1>15, FrameKeepsFate, Zenon DEF vars, runner, child
<1> QED BY <1>1, <1>2, <1>3, <1>4, <1>5, <1>6, <1>7, <1>8, <1>9, <1>11, <1>12,
           <1>13, <1>14, <1>15, Zenon DEF Next, RunnerStep, ChildStep

(* The verdict is taken in receive_test_result() alone *)
LEMMA VerdictOnce ==
  [Next]_vars => r_read \/ r_fork \/ result' = result
BY Zenon DEF Next, RunnerStep, r_parent, r_arm, r_waitpid, r_timer_delete, r_killpg,
   r_rewind, r_alarm, r_eprintf, r_interrupt, ChildStep, c_die, c_setpgid,
   c_getpgrp, c_ctx_setup, c_fn_ctx, c_fn_loc, c_ctx_teardown, c_finish,
   c_send_failure, UserCode, c_return, _mark_point, _ck_assert_failed, c_exit,
   c_raise, check_fork, check_waitpid_and_exit, GrandStep, g_die, g_exit,
   g_assert_failed, g_write, runner, vars

(* A pass is earned when it is given, and stays the same *)
LEMMA PassStep ==
  IInv /\ FateInv /\ PassIsEarned /\ TimeoutIsError' /\ [Next]_vars => PassIsEarned'
<1> SUFFICES ASSUME IInv, FateInv, PassIsEarned, TimeoutIsError', [Next]_vars
             PROVE  PassIsEarned'
  BY Zenon
<1>1. CASE r_read /\ result' # result
  <2>1. PICK rmsg : result' = Judge(rmsg)
    BY <1>1, Zenon DEF r_read
  <2>2. Tells(status)
    BY <1>1, Zenon DEF r_read, FateInv
  <2> DEFINE msg == construct_test_result(rmsg, waserror(status, tf.signal)).msg
             v == set_fork_info(msg, status, tf.signal, tf.allowed_exit_value,
                                alarm_received)
  <2>3. result'.tf = tf /\ result'.hist = hist /\ result'.rtype = v.rtype
    BY <2>1, Zenon DEF Judge
  <2> SUFFICES ASSUME result' # NoResult, v.rtype = "CK_PASS"
               PROVE  /\ ~hist.alarmKilled
                      /\ (tf.signal # NoSignal) <=> (hist.raised # NoSignal)
                      /\ hist.failed => SChar(tf.allowed_exit_value) = 1
    BY <2>3, Zenon DEF PassIsEarned
  <2>4. ~hist.alarmKilled
    BY <2>3, Zenon DEF TimeoutIsError
  <2>5. \/ status.how = "signal" /\ status.val = tf.signal
        \/ /\ status.how = "exit" /\ tf.signal = NoSignal
           /\ SChar(status.val) = SChar(tf.allowed_exit_value)
    BY <2>2, PassVerdict DEF Tells
  <2>6. SChar(1) = 1
    BY DEF SChar
  <2> QED BY <2>2, <2>4, <2>5, <2>6, Zenon DEF Tells
<1>2. CASE r_fork
  BY <1>2, Zenon DEF r_fork, PassIsEarned
<1>3. CASE result' = result
  BY <1>3, Zenon DEF PassIsEarned
<1>4. r_read \/ r_fork \/ result' = result
  BY VerdictOnce, Zenon
<1> QED BY <1>1, <1>2, <1>3, <1>4, Zenon

(* Before the first test nothing has happened to one *)
LEMMA FateInit == Init => KilledInv /\ TimeoutIsError /\ FateInv
<1> SUFFICES ASSUME Init PROVE KilledInv /\ TimeoutIsError /\ FateInv
  BY Zenon
<1>1. KilledInv
  BY Zenon DEF Init, KilledInv, NoHist, ChildAlive
<1>2. TimeoutIsError
  BY Zenon DEF Init, TimeoutIsError, NoHist
<1>3. FateInv
  BY DEF Init, FateInv, NoHist, ChildAlive
<1> QED BY <1>1, <1>2, <1>3, Zenon

(* A test that is reported as passed was not killed by the timer, raised a *)
(* signal exactly if it declared one, and failed no assertion unless it    *)
(* declared the exit value 1: for any number of tests and declarations,    *)
(* and whatever the test, the processes it forked and the timer did.       *)
THEOREM PassAlwaysEarned == Spec => []PassIsEarned
<1>1. Init => PassIsEarned
  BY Zenon DEF Init, PassIsEarned, NoHist
<1> QED BY <1>1, FateInit, KilledStep, FateStep, PassStep, ForkInvariant, PTL DEF Spec

(* A declared signal is judged when the verdict is taken *)
LEMMA DeclaredStep ==
  IInv /\ KilledInv /\ FateInv /\ DeclaredSignalJudged /\ [Next]_vars
    => DeclaredSignalJudged'
<1> SUFFICES ASSUME IInv, KilledInv, FateInv, DeclaredSignalJudged, [Next]_vars
             PROVE  DeclaredSignalJudged'
  BY Zenon
<1>1. CASE r_read /\ result' # result
  <2>1. PICK rmsg : result' = Judge(rmsg)
    BY <1>1, Zenon DEF r_read
  <2>2. Tells(status) /\ (alarm_received <=> hist.fired)
    BY <1>1, Zenon DEF r_read, FateInv, IInv, AlarmIsCurrent
  <2> DEFINE msg == construct_test_result(rmsg, waserror(status, tf.signal)).msg
             v == set_fork_info(msg, status, tf.signal, tf.allowed_exit_value,
                                alarm_received)
  <2>3. result'.tf = tf /\ result'.hist = hist /\ result'.rtype = v.rtype
    BY <2>1, Zenon DEF Judge
  <2> SUFFICES ASSUME tf.signal # NoSignal, hist.raised = tf.signal, ~hist.fired
               PROVE  v.rtype = IF tf.signal \in {"SIGALRM", "SIGINT"}
                                THEN "CK_ERROR" ELSE "CK_PASS"
    BY <2>3, Zenon DEF DeclaredSignalJudged
  <2>4. ~hist.alarmKilled /\ ~alarm_received
    BY <2>2, Zenon DEF KilledInv
  <2>5. status.how = "signal" /\ status.val = DeathBy(tf.signal)
    BY <2>2, <2>4, Zenon DEF Tells
  <2>6. CASE tf.signal \in {"SIGALRM", "SIGINT"}
    <3>1. status.val # tf.signal
      BY <2>5, <2>6, Zenon DEF DeathBy
    <3> QED BY <2>5, <2>6, <3>1, Zenon DEF set_fork_info, verdict
  <2>7. CASE tf.signal \notin {"SIGALRM", "SIGINT"}
    <3>1. status.val = tf.signal
      BY <2>5, <2>7, Zenon DEF DeathBy
    <3> QED BY <2>4, <2>5, <2>7, <3>1, Zenon DEF set_fork_info, ExpectedSignal, verdict
  <2> QED BY <2>6, <2>7, Zenon
<1>2. CASE r_fork
  BY <1>2, Zenon DEF r_fork, DeclaredSignalJudged
<1>3. CASE result' = result
  BY <1>3, Zenon DEF DeclaredSignalJudged
<1> QED BY <1>1, <1>2, <1>3, VerdictOnce, Zenon

(* A test that raised the signal it declared, before its timer went off,   *)
(* passes, unless the signal is SIGINT or SIGALRM, which sig_handler() in  *)
(* the child turns into SIGKILL: for any declarations and signals.         *)
THEOREM DeclaredAlwaysJudged == Spec => []DeclaredSignalJudged
<1>1. Init => DeclaredSignalJudged
  BY Zenon DEF Init, DeclaredSignalJudged, NoHist
<1> QED BY <1>1, FateInit, KilledStep, FateStep, DeclaredStep, ForkInvariant, PTL DEF Spec

-----------------------------------------------------------------------------
(* The message file of a test.                                             *)

Texts == {"assertion", "grandchild"}
AllLocs == Locs \cup {"tfun", "grandchild"}
Msgs == Messages(AllLocs, Texts)

(* The runner is between the fork() of a test and its verdict; it has      *)
(* collected the child; the child has ended.                               *)
Collected == rpc \in {"timer_delete", "killpg", "rewind", "read"}
Active == rpc \in {"parent", "arm", "wait"} \/ Collected
Over == cpc = "zombie" \/ Collected

(* A test starts with an empty file and no process of its own; only a      *)
(* write that follows the rewind() tears the file.                         *)
FileInv ==
  /\ pipe.msgs \in Seq(Msgs)
  /\ \A t \in Tests : t > cur \/ (t = cur /\ rpc = "fork") => gpc[t] = "none"
  /\ ~hist.forked => gpc[cur] = "none"
  /\ rpc = "fork" => pipe.msgs = << >> /\ ~pipe.torn
  /\ Active /\ pipe.torn => hist.late
  /\ Active /\ hist.late => rpc = "read"

(* A message appended to the file is one get_result() more for the runner *)
LEMMA SendReceives ==
  ASSUME IInv, FileInv, NEW t, NEW m \in Msgs, Send(t, <<m>>)
  PROVE  /\ pipe'.msgs \in Seq(Msgs) /\ pipe'.msgs # << >> /\ pipe'.torn = pipe.torn
         /\ Received(pipe.msgs) \in RcvMsgs(AllLocs, Texts)
         /\ Received(pipe'.msgs) = get_result(Received(pipe.msgs), m)
         /\ Received(pipe.msgs).lastctx \in Ctx => Received(pipe'.msgs).lastctx \in Ctx
         /\ Received(pipe.msgs).msg # NULL => Received(pipe'.msgs).msg # NULL
<1>1. pipe'.msgs = pipe.msgs \o <<m>> /\ pipe'.torn = pipe.torn
  BY Zenon DEF Send, IInv, TypeOK
<1>2. pipe.msgs \in Seq(Msgs)
  BY Zenon DEF FileInv
<1>3. pipe'.msgs \in Seq(Msgs) /\ pipe'.msgs # << >>
  BY <1>1, <1>2
<1>4. Received(pipe.msgs) \in RcvMsgs(AllLocs, Texts)
  BY <1>2, ReceivedType, ForkTestAssumption, Zenon DEF Msgs, Texts
<1>5. Received(pipe'.msgs) = get_result(Received(pipe.msgs), m)
  BY <1>1, <1>2, ReceivedOneMore, Zenon
<1> QED BY <1>1, <1>3, <1>4, <1>5, GetResultKeeps, ForkTestAssumption, Zenon DEF Msgs, Texts

(* The messages the processes of a test send *)
LEMMA OurMessages ==
  /\ \A c \in Ctx : CtxMsg(c) \in Msgs
  /\ \A l \in AllLocs : LocMsg(l) \in Msgs
  /\ \A t \in Texts : FailMsg(t) \in Msgs
  /\ DurationMsg(0) \in Msgs
BY DEF Msgs, Messages

(* A message that is written over the head of the file leaves messages *)
LEMMA OverwrittenType ==
  ASSUME NEW msgs \in Seq(Msgs), NEW m \in Msgs, NEW new \in Overwritten(msgs, m)
  PROVE  new \in Seq(Msgs)
<1>1. PICK k \in 1 .. Len(msgs) : new = <<m>> \o SubSeq(msgs, k + 1, Len(msgs))
  BY Zenon DEF Overwritten
<1>2. SubSeq(msgs, k + 1, Len(msgs)) \in Seq(Msgs)
  BY <1>1
<1> QED BY <1>1, <1>2

(* What a step of the child, in Check's code or the user's, does to the    *)
(* file: nothing, or one message more.                                     *)
ChildWrites ==
  /\ UNCHANGED runner /\ ChildAlive /\ doomed = NoSignal
  /\ \/ UNCHANGED pipe
     \/ \E m \in Msgs : Send(cur, <<m>>)

(* What it does to the history *)
ChildRecords ==
  /\ hist'.late = hist.late /\ hist'.gfailed = hist.gfailed
  /\ hist'.alarmKilled = hist.alarmKilled
  /\ check_fork \/ hist'.forked = hist.forked
  /\ check_waitpid_and_exit \/ hist'.waited = hist.waited

(* A step of the child in Check's code does that, if it is not its death *)
LEMMA ChildStepWrites ==
  ASSUME IInv, ChildStep, ~c_die
  PROVE  ChildWrites /\ ChildRecords
<1>t. hist \in Hists
  BY Zenon DEF IInv, TypeOK
<1>1. UNCHANGED runner /\ ChildAlive /\ doomed = NoSignal
  BY Zenon DEF ChildStep, c_setpgid, c_getpgrp, c_ctx_setup, c_fn_ctx, c_fn_loc,
     c_ctx_teardown, c_finish, c_send_failure, At, ChildAlive
<1>2. UNCHANGED pipe \/ \E m \in Msgs : Send(cur, <<m>>)
  BY OurMessages, Zenon DEF ChildStep, c_setpgid, c_getpgrp, c_ctx_setup, c_fn_ctx,
     c_fn_loc, c_ctx_teardown, c_finish, c_send_failure, Ctx, AllLocs, Texts
<1>3. hist' = hist \/ hist' = [hist EXCEPT !.failed = TRUE]
  BY DEF ChildStep, c_setpgid, c_getpgrp, c_ctx_setup, c_fn_ctx, c_fn_loc,
     c_ctx_teardown, c_finish, c_send_failure
<1> QED BY <1>t, <1>1, <1>2, <1>3 DEF ChildWrites, ChildRecords, Hists

(* So does a step of user code in the child *)
LEMMA UserCodeWrites == IInv /\ UserCode => ChildWrites /\ ChildRecords
<1> SUFFICES ASSUME IInv, UserCode PROVE ChildWrites /\ ChildRecords
  BY Zenon
<1>t. hist \in Hists
  BY Zenon DEF IInv, TypeOK
<1>1. UNCHANGED runner /\ ChildAlive /\ doomed = NoSignal
  BY Zenon DEF UserCode, c_return, _mark_point, _ck_assert_failed, c_exit, c_raise,
     check_fork, check_waitpid_and_exit, At, ChildAlive, UserPhases
<1>2. UNCHANGED pipe \/ \E m \in Msgs : Send(cur, <<m>>)
  <2>1. UNCHANGED pipe \/ \E l \in Locs : Send(cur, <<LocMsg(l)>>)
    BY Zenon DEF UserCode, c_return, _mark_point, _ck_assert_failed, c_exit, c_raise,
       check_fork, check_waitpid_and_exit
  <2> QED BY <2>1, OurMessages, Zenon DEF AllLocs
<1>3. CASE check_fork
  <2>1. hist' = [hist EXCEPT !.forked = TRUE] /\ ~check_waitpid_and_exit
    BY <1>3, Zenon DEF check_fork, check_waitpid_and_exit, At
  <2> QED BY <1>t, <1>1, <1>2, <1>3, <2>1, Zenon DEF ChildWrites, ChildRecords, Hists
<1>4. CASE check_waitpid_and_exit
  <2>1. hist' = [hist EXCEPT !.waited = TRUE]
    BY <1>4, Zenon DEF check_waitpid_and_exit
  <2> QED BY <1>t, <1>1, <1>2, <1>4, <2>1, Zenon DEF ChildWrites, ChildRecords, Hists
<1>5. CASE ~check_fork /\ ~check_waitpid_and_exit
  <2>1. \/ hist' = hist
        \/ \E phase \in UserPhases, loc \in Locs :
             hist' = [hist EXCEPT !.loc = loc, !.ctx = PhaseCtx(phase)]
        \/ \E sig \in RaisedSignals : hist' = [hist EXCEPT !.raised = sig]
    BY <1>5, Zenon DEF UserCode, c_return, _mark_point, _ck_assert_failed, c_exit, c_raise
  <2> QED BY <1>t, <1>1, <1>2, <2>1, Zenon DEF ChildWrites, ChildRecords, Hists
<1> QED BY <1>3, <1>4, <1>5, Zenon

(* What a step of a process made with check_fork() does: unless it writes  *)
(* to the current file it leaves file and history alone; it may append to  *)
(* the file, or write over its head once the runner has rewound it.        *)
GrandWrites(t, m) ==
  /\ gpc[t] \notin {"none", "exited"} /\ gfile[t] = pipe.id /\ t = cur
  /\ \/ rpc # "read" /\ Send(cur, <<m>>) /\ hist'.late = hist.late
     \/ /\ rpc = "read" /\ hist'.late
        /\ pipe'.msgs \in Seq(Msgs)

(* A step of such a process does that *)
LEMMA GrandEffect ==
  ASSUME IInv, FileInv, NEW t \in Tests,
         g_die(t) \/ g_exit(t) \/ g_assert_failed(t) \/ g_write(t)
  PROVE  /\ UNCHANGED <<runner, child>>
         /\ gpc[t] \in {"running", "writing"} /\ \A u \in Tests \ {t} : gpc'[u] = gpc[u]
         /\ hist' \in Hists
         /\ hist'.alarmKilled = hist.alarmKilled /\ hist'.failed = hist.failed
         /\ hist'.forked = hist.forked /\ hist'.waited = hist.waited
         /\ hist'.ctx = hist.ctx /\ hist'.loc = hist.loc
         /\ \/ UNCHANGED <<pipe, hist>>
            \/ \E m \in Msgs : GrandWrites(t, m)
<1>t. hist \in Hists /\ DOMAIN pipe = {"id", "msgs", "from", "torn"}
  BY Zenon DEF IInv, TypeOK
<1>1. UNCHANGED <<runner, child>> /\ gpc[t] \in {"running", "writing"}
  BY Zenon DEF g_die, g_exit, g_assert_failed, g_write, GrandAlive
<1>2. \A u \in Tests \ {t} : gpc'[u] = gpc[u]
  <2>1. DOMAIN gpc = Tests
    BY Zenon DEF IInv, TypeOK
  <2>2. gpc' = [gpc EXCEPT ![t] = "exited"] \/ gpc' = [gpc EXCEPT ![t] = "writing"]
    BY Zenon DEF g_die, g_exit, g_assert_failed, g_write, GEnds
  <2> QED BY <2>1, <2>2, Zenon
<1>3. ASSUME NEW m \in Msgs, GSend(t, m)
      PROVE  /\ hist' \in Hists
             /\ hist'.alarmKilled = hist.alarmKilled /\ hist'.failed = hist.failed
             /\ hist'.forked = hist.forked /\ hist'.waited = hist.waited
             /\ hist'.ctx = hist.ctx /\ hist'.loc = hist.loc
             /\ UNCHANGED <<pipe, hist>> \/ GrandWrites(t, m)
  <2>1. PICK a \in BOOLEAN, b \in BOOLEAN :
          /\ hist' = [hist EXCEPT !.gfailed = a, !.late = b]
          /\ a <=> hist.gfailed \/ (gfile[t] = pipe.id /\ m.type = "CK_MSG_FAIL")
          /\ b <=> hist.late \/ (gfile[t] = pipe.id /\ rpc = "read")
    <3> DEFINE aa == hist.gfailed \/ (gfile[t] = pipe.id /\ m.type = "CK_MSG_FAIL")
               bb == hist.late \/ (gfile[t] = pipe.id /\ rpc = "read")
    <3>1. hist' = [hist EXCEPT !.gfailed = aa, !.late = bb]
      BY <1>3, Zenon DEF GSend
    <3>2. aa \in BOOLEAN /\ bb \in BOOLEAN
      BY Zenon
    <3> QED BY <3>1, <3>2, Zenon
  <2>3. /\ hist' \in Hists /\ hist'.late = b
        /\ hist'.alarmKilled = hist.alarmKilled /\ hist'.failed = hist.failed
        /\ hist'.forked = hist.forked /\ hist'.waited = hist.waited
        /\ hist'.ctx = hist.ctx /\ hist'.loc = hist.loc
    BY <1>t, <2>1, Zenon DEF Hists
  <2>4. CASE gfile[t] # pipe.id
    <3>1. a = hist.gfailed /\ b = hist.late
      BY <1>t, <2>1, <2>4 DEF Hists
    <3>2. hist' = hist
      BY <1>t, <2>1, <3>1, Zenon DEF Hists
    <3> QED BY <1>3, <2>3, <2>4, <3>2 DEF GSend
  <2>5. CASE gfile[t] = pipe.id /\ rpc # "read"
    <3>1. b = hist.late /\ t = cur
      BY <1>1, <1>t, <2>1, <2>5, Zenon DEF Hists, IInv, GrandInv
    <3> QED BY <1>1, <1>3, <2>3, <2>5, <3>1 DEF GSend, GrandWrites
  <2>6. CASE gfile[t] = pipe.id /\ rpc = "read"
    <3>1. b = TRUE /\ t = cur
      BY <1>1, <2>1, <2>6, Zenon DEF IInv, GrandInv
    <3>2. \/ \E msgs \in Overwritten(pipe.msgs, m) : pipe' = [pipe EXCEPT !.msgs = msgs]
          \/ pipe' = [pipe EXCEPT !.torn = TRUE]
      BY <1>3, <2>6, Zenon DEF GSend
    <3>3. pipe'.msgs \in Seq(Msgs)
      BY <1>t, <3>2, OverwrittenType, Zenon DEF FileInv
    <3> QED BY <1>1, <2>3, <2>6, <3>1, <3>3, Zenon DEF GrandWrites
  <2> QED BY <2>3, <2>4, <2>5, <2>6, Zenon
<1>4. CASE g_die(t) \/ g_exit(t)
  BY <1>1, <1>2, <1>4, <1>t, Zenon DEF g_die, g_exit
<1>5. CASE g_assert_failed(t) \/ g_write(t)
  <2>1. PICK m \in Msgs : GSend(t, m)
    BY <1>5, OurMessages, Zenon DEF g_assert_failed, g_write, AllLocs, Texts
  <2> QED BY <1>1, <1>2, <1>3, <2>1, Zenon
<1> QED BY <1>4, <1>5, Zenon

(* The file of a test starts empty, and holds messages only *)
LEMMA FileStep == IInv /\ FileInv /\ [Next]_vars => FileInv'
<1> SUFFICES ASSUME IInv, FileInv, [Next]_vars PROVE FileInv'
  BY Zenon
<1>t. hist \in Hists /\ cur \in Tests
  BY Zenon DEF IInv, TypeOK
<1>1. CASE r_fork
  BY <1>1, <1>t, Zenon DEF r_fork, FileInv, grand, NoHist, Active, Collected
<1>2. CASE r_parent \/ r_arm \/ r_waitpid \/ r_timer_delete \/ r_killpg \/ r_rewind
           \/ r_eprintf \/ (\E sig : r_interrupt(sig))
  <2>1. UNCHANGED <<cur, gpc, pipe, hist>> /\ rpc' # "fork"
        /\ (Active' => Active /\ rpc # "read")
    BY <1>2, Zenon DEF r_parent, r_arm, r_waitpid, r_timer_delete, r_killpg, r_rewind,
       r_eprintf, r_interrupt, grand, Active, Collected
  <2> QED BY <2>1, Zenon DEF FileInv
<1>3. CASE r_read
  <2>1. /\ UNCHANGED <<gpc, hist>> /\ ~Active' /\ rpc = "read"
        /\ \/ rpc' # "fork" /\ UNCHANGED <<cur, pipe>>
           \/ rpc' # "fork" /\ UNCHANGED cur /\ pipe' = EmptyPipe(pipe.id + 1)
           \/ rpc' = "fork" /\ cur' = cur + 1 /\ cur # NTests
              /\ pipe' = EmptyPipe(pipe.id + 1)
    BY <1>3, Zenon DEF r_read, grand, Active, Collected, replace_pipe, IsLast
  <2>2. pipe'.msgs \in Seq(Msgs) /\ (rpc' = "fork" => pipe'.msgs = << >> /\ ~pipe'.torn)
    <3>1. \A n : EmptyPipe(n).msgs = << >> /\ EmptyPipe(n).torn = FALSE
      BY DEF EmptyPipe
    <3>2. << >> \in Seq(Msgs) /\ pipe.msgs \in Seq(Msgs)
      BY DEF FileInv
    <3> QED BY <2>1, <3>1, <3>2, Zenon
  <2>3. \A t \in Tests : t > cur' \/ (t = cur' /\ rpc' = "fork") => gpc'[t] = "none"
    BY <1>t, <2>1, SMTT(30) DEF FileInv, Tests
  <2>4. ~hist'.forked => gpc'[cur'] = "none"
    <3>1. CASE cur' = cur
      BY <2>1, <3>1, Zenon DEF FileInv
    <3>2. CASE cur' = cur + 1 /\ cur # NTests
      <4>1. cur' \in Tests /\ cur' > cur
        BY <1>t, <3>2, ForkTestAssumption DEF Tests
      <4> QED BY <2>1, <4>1, Zenon DEF FileInv
    <3> QED BY <2>1, <3>1, <3>2
  <2> QED BY <2>1, <2>2, <2>3, <2>4, Zenon DEF FileInv
<1>4. CASE r_alarm
  <2>1. \E b : hist' = [hist EXCEPT !.fired = TRUE, !.alarmKilled = b]
    BY <1>4, Zenon DEF r_alarm
  <2>2. hist'.forked = hist.forked /\ hist'.late = hist.late
    BY <1>t, <2>1, Zenon DEF Hists
  <2> QED BY <1>4, <2>2, Zenon DEF r_alarm, FileInv, Active, Collected
<1>5. CASE c_die \/ UNCHANGED vars
  BY <1>5, Zenon DEF c_die, vars, runner, grand, FileInv, Active, Collected
<1>6. CASE (ChildStep /\ ~c_die) \/ UserCode
  <2>1. ChildWrites /\ ChildRecords
    BY <1>6, ChildStepWrites, UserCodeWrites, Zenon
  <2>2. rpc \notin {"fork", "read"} /\ UNCHANGED <<rpc, cur>>
    BY <2>1, Zenon DEF ChildWrites, runner, IInv, ChildInv, ChildAlive
  <2>3. pipe'.msgs \in Seq(Msgs) /\ pipe'.torn = pipe.torn
    BY <2>1, SendReceives, Zenon DEF ChildWrites, FileInv
  <2>4. CASE check_fork
    <3>1. hist'.forked /\ \A t \in Tests : t # cur => gpc'[t] = gpc[t]
      <4>1. hist'.forked
        BY <1>t, <2>4, Zenon DEF check_fork, Hists
      <4>2. DOMAIN gpc = Tests /\ gpc' = [gpc EXCEPT ![cur] = "running"]
        BY <2>4, Zenon DEF check_fork, IInv, TypeOK
      <4> QED BY <4>1, <4>2, Zenon
    <3> QED BY <1>t, <2>1, <2>2, <2>3, <3>1
            DEF FileInv, ChildRecords, Active, Collected, Tests
  <2>5. CASE ~check_fork
    <3>1. gpc' = gpc
      <4>1. CASE ChildStep
        BY <4>1, Zenon DEF ChildStep, c_die, c_setpgid, c_getpgrp, c_ctx_setup, c_fn_ctx,
           c_fn_loc, c_ctx_teardown, c_finish, c_send_failure, grand
      <4>2. CASE UserCode
        BY <2>5, <4>2, Zenon DEF UserCode, c_return, _mark_point, _ck_assert_failed, c_exit,
           c_raise, check_waitpid_and_exit, grand
      <4> QED BY <1>6, <4>1, <4>2, Zenon
    <3> QED BY <2>1, <2>2, <2>3, <2>5, <3>1, Zenon
            DEF FileInv, ChildRecords, Active, Collected
  <2> QED BY <2>4, <2>5, Zenon
<1>7. ASSUME NEW t \in Tests,
             g_die(t) \/ g_exit(t) \/ g_assert_failed(t) \/ g_write(t)
      PROVE  FileInv'
  <2>1. /\ UNCHANGED <<runner, child>> /\ hist'.forked = hist.forked
        /\ gpc[t] # "none" /\ \A u \in Tests : gpc[u] = "none" => gpc'[u] = "none"
        /\ UNCHANGED <<pipe, hist>> \/ \E m \in Msgs : GrandWrites(t, m)
    BY <1>7, GrandEffect, Zenon
  <2>2. UNCHANGED <<rpc, cur>>
    BY <2>1, Zenon DEF runner
  <2>3. CASE UNCHANGED <<pipe, hist>>
    BY <1>t, <2>1, <2>2, <2>3, Zenon DEF FileInv, Active, Collected
  <2>4. ASSUME NEW m \in Msgs, GrandWrites(t, m) PROVE FileInv'
    <3>1. rpc # "fork" /\ pipe'.msgs \in Seq(Msgs)
          /\ \/ rpc # "read" /\ pipe'.torn = pipe.torn /\ hist'.late = hist.late
             \/ rpc = "read" /\ hist'.late
      BY <2>1, <2>4, SendReceives, Zenon DEF GrandWrites, FileInv
    <3> QED BY <1>t, <2>1, <2>2, <3>1, Zenon DEF FileInv, Active, Collected
  <2> QED BY <2>1, <2>3, <2>4, Zenon
<1> QED BY <1>1, <1>2, <1>3, <1>4, <1>5, <1>6, <1>7, Zenon DEF Next, RunnerStep, GrandStep

-----------------------------------------------------------------------------
(* A child that has got as far as its setup has announced a context; so    *)
(* has one that has ended, unless the alarm killed it.                     *)
Silent == {"none", "start", "setpgid", "ctx_setup", "zombie"}

AnnouncedInv ==
  Active /\ ~hist.late =>
    /\ cpc \notin Silent => Received(pipe.msgs).lastctx \in Ctx
    /\ Over => hist.alarmKilled \/ Received(pipe.msgs).lastctx \in Ctx

(* The contexts are announced before anything else is done *)
LEMMA AnnouncedStep ==
  IInv /\ KilledInv /\ FateInv /\ FileInv /\ AnnouncedInv /\ [Next]_vars => AnnouncedInv'
<1> SUFFICES ASSUME IInv, KilledInv, FateInv, FileInv, AnnouncedInv, [Next]_vars
             PROVE  AnnouncedInv'
  BY Zenon
<1>t. hist \in Hists /\ cur \in Tests
  BY Zenon DEF IInv, TypeOK
<1>1. CASE r_fork
  BY <1>1, Zenon DEF r_fork, AnnouncedInv, Silent, Over, Collected
<1>2. CASE r_parent \/ r_arm \/ r_timer_delete \/ r_killpg \/ r_rewind
  BY <1>2, Zenon DEF r_parent, r_arm, r_timer_delete, r_killpg, r_rewind, child,
     AnnouncedInv, Active, Over, Collected
<1>3. CASE r_waitpid
  BY <1>3, Zenon DEF r_waitpid, AnnouncedInv, Active, Silent, Over, Collected
<1>4. CASE r_read \/ r_eprintf \/ (\E sig : r_interrupt(sig))
  BY <1>4, Zenon DEF r_read, r_eprintf, r_interrupt, AnnouncedInv, Active, Collected
<1>5. CASE r_alarm
  <2>1. ~hist.alarmKilled
    BY <1>5, Zenon DEF r_alarm, FateInv, KilledInv
  <2>2. \E b : hist' = [hist EXCEPT !.fired = TRUE, !.alarmKilled = b]
    BY <1>5, Zenon DEF r_alarm
  <2>3. hist'.late = hist.late
    BY <1>t, <2>2, Zenon DEF Hists
  <2> QED BY <1>5, <2>1, <2>3, Zenon DEF r_alarm, AnnouncedInv, Active, Over, Collected
<1>6. CASE c_die
  <2>1. Active => hist.alarmKilled
    BY <1>6, Zenon DEF c_die, FateInv, Active, Collected
  <2> QED BY <1>6, <2>1, Zenon DEF c_die, Ends, runner, AnnouncedInv, Active, Silent, Over,
             Collected
<1>7. CASE UNCHANGED vars
  BY <1>7, Zenon DEF vars, runner, child, AnnouncedInv, Active, Over, Collected
<1>8. CASE c_setpgid \/ c_getpgrp
  <2>1. ChildAlive /\ UNCHANGED <<rpc, hist>> /\ cpc' \in {"setpgid", "ctx_setup"}
    BY <1>8, Zenon DEF c_setpgid, c_getpgrp, At, ChildAlive, runner
  <2> QED BY <2>1, Zenon DEF IInv, ChildInv, ChildAlive, AnnouncedInv, Silent, Over, Collected
<1>9. CASE c_ctx_setup
  <2>1. Send(cur, <<CtxMsg("CK_CTX_SETUP")>>) /\ CtxMsg("CK_CTX_SETUP") \in Msgs
    BY <1>9, OurMessages, Zenon DEF c_ctx_setup, Ctx
  <2>2. Received(pipe'.msgs).lastctx \in Ctx
    <3>1. /\ Received(pipe.msgs) \in RcvMsgs(AllLocs, Texts)
          /\ Received(pipe'.msgs) = get_result(Received(pipe.msgs), CtxMsg("CK_CTX_SETUP"))
      BY <2>1, SendReceives, Zenon
    <3>2. "CK_CTX_SETUP" \in Ctx
      BY Zenon DEF Ctx
    <3> QED BY <3>1, <3>2, GetResultCtx
  <2> QED BY <2>2, Zenon DEF AnnouncedInv
<1>10. CASE ((ChildStep /\ ~c_die) \/ UserCode) /\ cpc \notin Silent
  <2>1. ChildWrites /\ ChildRecords
    BY <1>10, ChildStepWrites, UserCodeWrites, Zenon
  <2>2. Active /\ ~hist.late => Received(pipe.msgs).lastctx \in Ctx
    BY <1>10, Zenon DEF AnnouncedInv
  <2>3. Active /\ ~hist.late => Received(pipe'.msgs).lastctx \in Ctx
    BY <2>1, <2>2, SendReceives, Zenon DEF ChildWrites
  <2>4. (Active' <=> Active) /\ hist'.late = hist.late
    BY <2>1 DEF ChildWrites, ChildRecords, runner, Active, Collected
  <2> QED BY <2>3, <2>4, Zenon DEF AnnouncedInv
<1>11. ASSUME ChildStep \/ UserCode, cpc \in Silent
       PROVE  c_die \/ c_setpgid \/ c_getpgrp \/ c_ctx_setup
  <2>1. CASE ChildStep
    BY <1>11, <2>1 DEF ChildStep, c_fn_ctx, c_fn_loc, c_ctx_teardown, c_finish,
       c_send_failure, At, Silent
  <2>2. CASE UserCode
    BY <1>11, <2>2, Zenon DEF UserCode, c_return, _mark_point, _ck_assert_failed, c_exit,
       c_raise, check_fork, check_waitpid_and_exit, At, Silent, UserPhases
  <2> QED BY <1>11, <2>1, <2>2
<1>12. ASSUME NEW t \in Tests,
              g_die(t) \/ g_exit(t) \/ g_assert_failed(t) \/ g_write(t)
       PROVE  AnnouncedInv'
  <2>1. /\ UNCHANGED <<runner, child>> /\ hist'.alarmKilled = hist.alarmKilled
        /\ UNCHANGED <<pipe, hist>> \/ \E m \in Msgs : GrandWrites(t, m)
    BY <1>12, GrandEffect, Zenon
  <2>2. UNCHANGED <<rpc, cpc>>
    BY <2>1, Zenon DEF runner, child
  <2>3. CASE UNCHANGED <<pipe, hist>>
    BY <2>2, <2>3, Zenon DEF AnnouncedInv, Active, Over, Collected
  <2>4. ASSUME NEW m \in Msgs, GrandWrites(t, m) PROVE AnnouncedInv'
    <3>1. hist'.late \/ (/\ hist'.late = hist.late
                         /\ Received(pipe.msgs).lastctx \in Ctx
                              => Received(pipe'.msgs).lastctx \in Ctx)
      BY <2>4, SendReceives, Zenon DEF GrandWrites
    <3> QED BY <2>1, <2>2, <3>1, Zenon DEF AnnouncedInv, Active, Over, Collected
  <2> QED BY <2>1, <2>3, <2>4, Zenon
<1> QED BY <1>1, <1>2, <1>3, <1>4, <1>5, <1>6, <1>7, <1>8, <1>9, <1>10, <1>11, <1>12, Zenon
        DEF Next, RunnerStep, GrandStep

(* The runner stops over a test's messages only if the alarm killed the    *)
(* test, before it had announced a context, or a process the test left     *)
(* behind wrote after the rewind().                                        *)
LEMMA StopsStep ==
  IInv /\ FileInv /\ AnnouncedInv /\ RunnerStopsOnlyIf /\ [Next]_vars
    => RunnerStopsOnlyIf'
<1> SUFFICES ASSUME IInv, FileInv, AnnouncedInv, RunnerStopsOnlyIf, [Next]_vars,
                    rpc' = "exit2"
             PROVE  hist'.alarmKilled \/ hist'.late
  BY Zenon DEF RunnerStopsOnlyIf
<1>t. hist \in Hists
  BY Zenon DEF IInv, TypeOK
<1>1. CASE rpc # "exit2"
  <2>1. r_read
    <3>1. ~(r_fork \/ r_parent \/ r_arm \/ r_waitpid \/ r_timer_delete \/ r_killpg
            \/ r_rewind \/ r_alarm \/ r_eprintf \/ (\E sig : r_interrupt(sig)))
      BY <1>1, Zenon DEF r_fork, r_parent, r_arm, r_waitpid, r_timer_delete, r_killpg,
         r_rewind, r_alarm, r_eprintf, r_interrupt
    <3>2. rpc' = rpc \/ ~(ChildStep \/ UserCode)
      <4>1. CASE c_die
        BY <4>1, Zenon DEF c_die, runner
      <4>2. CASE (ChildStep /\ ~c_die) \/ UserCode
        BY <4>2, ChildStepWrites, UserCodeWrites, Zenon DEF ChildWrites, runner
      <4> QED BY <4>1, <4>2, Zenon
    <3>3. rpc' = rpc \/ ~GrandStep
      BY GrandEffect, Zenon DEF GrandStep, runner
    <3> QED BY <1>1, <3>1, <3>2, <3>3, Zenon DEF Next, RunnerStep, vars, runner
  <2>2. rpc = "read" /\ UNCHANGED hist
        /\ (pipe.torn \/ punpack(pipe.msgs) = NullRcvMsg)
    BY <2>1, Zenon DEF r_read
  <2>3. CASE pipe.torn
    BY <2>2, <2>3, Zenon DEF FileInv, Active, Collected
  <2>4. CASE punpack(pipe.msgs) = NullRcvMsg /\ ~hist.late
    <3>1. hist.alarmKilled \/ Received(pipe.msgs).lastctx \in Ctx
      BY <2>2, <2>4, Zenon DEF AnnouncedInv, Active, Over, Collected
    <3>2. Received(pipe.msgs).lastctx \notin Ctx
      <4> DEFINE rmsg == Received(pipe.msgs)
      <4>1. rmsg \in RcvMsgs(AllLocs, Texts)
        BY ReceivedType, ForkTestAssumption, Zenon DEF FileInv, Msgs, Texts
      <4>2. NullRcvMsg = IF rmsg.lastctx = CK_CTX_INVALID THEN NullRcvMsg ELSE rmsg
        BY <2>4, PunpackReceived, Zenon
      <4> HIDE DEF rmsg
      <4>3. rmsg # NullRcvMsg
        <5>1. "msg" \in DOMAIN rmsg /\ "msg" \notin DOMAIN NullRcvMsg
          BY <4>1, Zenon DEF RcvMsgs, NullRcvMsg
        <5> QED BY <5>1, Zenon
      <4>4. rmsg.lastctx = CK_CTX_INVALID
        BY <4>2, <4>3, Zenon
      <4> QED BY <4>4, Zenon DEF rmsg, Ctx, CK_CTX_INVALID
    <3> QED BY <2>2, <3>1, <3>2, Zenon
  <2> QED BY <2>2, <2>3, <2>4, Zenon
<1>2. CASE rpc = "exit2"
  <2>0. hist.alarmKilled \/ hist.late
    BY <1>2, Zenon DEF RunnerStopsOnlyIf
  <2>1. /\ ~RunnerStep /\ ~r_alarm /\ ~r_eprintf /\ ~(\E sig : r_interrupt(sig))
        /\ cpc = "none"
    BY <1>2, Zenon DEF RunnerStep, r_fork, r_parent, r_arm, r_waitpid, r_timer_delete,
       r_killpg, r_rewind, r_read, r_alarm, r_eprintf, r_interrupt, IInv, RunnerInv,
       ChildInv
  <2>2. ~ChildStep /\ ~UserCode
    <3>1. ~c_die
      BY <2>1, Zenon DEF c_die, ChildAlive
    <3> QED BY <2>1, <3>1, ChildStepWrites, UserCodeWrites, Zenon DEF ChildWrites, ChildAlive
  <2>3. CASE GrandStep
    <3>1. PICK t \in Tests : g_die(t) \/ g_exit(t) \/ g_assert_failed(t) \/ g_write(t)
      BY <2>3 DEF GrandStep
    <3>2. /\ hist'.alarmKilled = hist.alarmKilled
          /\ UNCHANGED hist \/ \E m \in Msgs : GrandWrites(t, m)
      BY <3>1, GrandEffect, Zenon
    <3> QED BY <2>0, <3>2, Zenon DEF GrandWrites
  <2> QED BY <2>0, <2>1, <2>2, <2>3, Zenon DEF Next, vars
<1> QED BY <1>1, <1>2, Zenon

(* Init satisfies the invariants of the message file *)
LEMMA FileInit == Init => FileInv /\ AnnouncedInv /\ RunnerStopsOnlyIf
<1> SUFFICES ASSUME Init PROVE FileInv /\ AnnouncedInv /\ RunnerStopsOnlyIf
  BY Zenon
<1>1. pipe.msgs = << >> /\ pipe.torn = FALSE /\ << >> \in Seq(Msgs)
  BY DEF Init, EmptyPipe
<1>2. cur \in Tests
  BY ForkTestAssumption DEF Init, Tests
<1>3. FileInv
  BY <1>1, <1>2, Zenon DEF Init, FileInv, Active, Collected
<1>4. AnnouncedInv /\ RunnerStopsOnlyIf
  BY <1>2 DEF Init, AnnouncedInv, RunnerStopsOnlyIf, Active, Collected
<1> QED BY <1>3, <1>4, Zenon

(* What is always true when a verdict is taken, and before *)
MessagesInv == IInv /\ KilledInv /\ FateInv /\ FileInv /\ AnnouncedInv

(* It is an invariant *)
THEOREM MessagesInvariant == Spec => []MessagesInv
<1>1. Spec => [](IInv /\ KilledInv /\ FateInv)
  BY FateInit, KilledStep, FateStep, ForkInvariant, PTL DEF Spec
<1> QED BY <1>1, FileInit, FileStep, AnnouncedStep, PTL DEF Spec, MessagesInv

(* receive_test_result() ends the runner over the messages of a test only  *)
(* if the timer killed that test or a process it forked wrote after the    *)
(* rewind(): for any number of tests, messages and interleavings.          *)
THEOREM RunnerStopsOnlyThen == Spec => []RunnerStopsOnlyIf
<1>1. MessagesInv /\ RunnerStopsOnlyIf /\ [Next]_vars => RunnerStopsOnlyIf'
  BY StopsStep DEF MessagesInv
<1> QED BY <1>1, FileInit, MessagesInvariant, PTL DEF Spec

-----------------------------------------------------------------------------
(* In a test that forks nothing, what has been received follows the child: *)
(* the context it is in; before a failure no failure; after the location   *)
(* of the failure that location, and after the failure all of it.          *)
AtFailure(rmsg) == hist.ctx \in Ctx /\ LocByCtx(rmsg, hist.ctx) = hist.loc

LocatedInv ==
  Active /\ ~hist.forked =>
    LET rmsg == Received(pipe.msgs) IN
    /\ ChildAlive => rmsg.msg = NULL /\ rmsg.failctx = CK_CTX_INVALID
    /\ cpc \in UserPhases => rmsg.lastctx = PhaseCtx(cpc)
    /\ cpc = "fn_loc" => rmsg.lastctx = "CK_CTX_TEST"
    /\ cpc = "failing" => AtFailure(rmsg) /\ rmsg.lastctx = hist.ctx
    /\ Over /\ hist.failed => /\ AtFailure(rmsg)
                              /\ rmsg.msg = "assertion" /\ rmsg.failctx = hist.ctx

(* A child that ends without a failure *)
LEMMA EndKeepsLocated ==
  ASSUME IInv, FateInv, LocatedInv, UNCHANGED <<runner, pipe>>, ChildAlive,
         NEW st, Ends(st), hist'.failed = hist.failed, hist'.forked = hist.forked
  PROVE  LocatedInv'
<1>1. Active => ~hist.failed
  BY Zenon DEF FateInv, Active, Collected
<1> QED BY <1>1, Zenon DEF LocatedInv, Ends, runner, Active, Collected, UserPhases, ChildAlive

(* A child that goes on, and says nothing *)
LEMMA MoveKeepsLocated ==
  ASSUME IInv, LocatedInv, UNCHANGED <<runner, pipe, hist>>, ChildAlive, NEW pc,
         cpc' = pc, pc \in ChildPcs \ (UserPhases \cup {"none", "zombie", "fn_loc", "failing"})
  PROVE  LocatedInv'
<1>1. ~Collected
  BY Zenon DEF IInv, ChildInv, ChildAlive, Collected
<1> QED BY <1>1, Zenon DEF LocatedInv, runner, Active, Over, Collected, UserPhases, ChildAlive

(* The messages of a step follow the child *)
LEMMA LocatedStep ==
  IInv /\ FateInv /\ FileInv /\ LocatedInv /\ [Next]_vars => LocatedInv'
<1> SUFFICES ASSUME IInv, FateInv, FileInv, LocatedInv, [Next]_vars
             PROVE  LocatedInv'
  BY Zenon
<1>t. hist \in Hists /\ cur \in Tests
  BY Zenon DEF IInv, TypeOK
<1>1. CASE r_fork
  <2>1. pipe'.msgs = << >>
    BY <1>1, Zenon DEF r_fork, FileInv
  <2>2. Received(pipe'.msgs).msg = NULL /\ Received(pipe'.msgs).failctx = CK_CTX_INVALID
    <3>1. rcvmsg_create.msg = NULL /\ rcvmsg_create.failctx = CK_CTX_INVALID
      BY Zenon DEF rcvmsg_create
    <3> QED BY <2>1, <3>1, ReceivedNothing, Zenon
  <2> QED BY <1>1, <2>2, Zenon DEF r_fork, LocatedInv, UserPhases, Over, Collected
<1>2. CASE r_parent \/ r_arm \/ r_timer_delete \/ r_killpg \/ r_rewind
  <2>1. /\ UNCHANGED <<cpc, pipe, hist>> /\ (Active' => Active) /\ (Over' => Over)
    BY <1>2, Zenon DEF r_parent, r_arm, r_timer_delete, r_killpg, r_rewind, child,
       Active, Over, Collected
  <2> QED BY <2>1, Zenon DEF LocatedInv, ChildAlive, AtFailure
<1>3. CASE r_waitpid
  <2>1. /\ UNCHANGED <<pipe, hist>> /\ Active /\ cpc = "zombie" /\ cpc' = "none"
    BY <1>3, Zenon DEF r_waitpid, Active
  <2> QED BY <2>1, Zenon DEF LocatedInv, ChildAlive, AtFailure, Over, UserPhases
<1>4. CASE r_read \/ r_eprintf \/ (\E sig : r_interrupt(sig))
  BY <1>4, Zenon DEF r_read, r_eprintf, r_interrupt, LocatedInv, Active, Collected
<1>5. CASE r_alarm
  <2>1. \E b : hist' = [hist EXCEPT !.fired = TRUE, !.alarmKilled = b]
    BY <1>5, Zenon DEF r_alarm
  <2>2. /\ hist'.forked = hist.forked /\ hist'.failed = hist.failed
        /\ hist'.ctx = hist.ctx /\ hist'.loc = hist.loc
    BY <1>t, <2>1, Zenon DEF Hists
  <2> QED BY <1>5, <2>2, Zenon DEF r_alarm, LocatedInv, ChildAlive, AtFailure, Active, Over,
             Collected
<1>6. CASE c_die
  BY <1>6, EndKeepsLocated, Zenon DEF c_die
<1>7. CASE UNCHANGED vars
  BY <1>7, Zenon DEF vars, runner, child, LocatedInv, ChildAlive, AtFailure, Active, Over,
     Collected
<1>8. CASE c_setpgid \/ c_getpgrp
  BY <1>8, MoveKeepsLocated, Zenon DEF c_setpgid, c_getpgrp, At, ChildAlive, ChildPcs,
     UserPhases
<1> DEFINE old == Received(pipe.msgs)
           new == Received(pipe'.msgs)
<1>s. ASSUME NEW m \in Msgs, Send(cur, <<m>>)
      PROVE  old \in RcvMsgs(AllLocs, Texts) /\ new = get_result(old, m)
  BY <1>s, SendReceives, Zenon
<1>r. \A pc : At(pc) /\ UNCHANGED runner /\ pc \notin {"none", "zombie"}
               => ~Collected' /\ (Active' <=> Active)
  BY Zenon DEF At, IInv, ChildInv, ChildAlive, Active, Collected, runner
<1> HIDE DEF old, new
<1>9. ASSUME NEW c \in Ctx, NEW pc \in {"setup", "fn_loc", "teardown"}, ChildAlive,
             ~Collected', Active' <=> Active,
             c = IF pc = "fn_loc" THEN "CK_CTX_TEST" ELSE PhaseCtx(pc),
             Send(cur, <<CtxMsg(c)>>), UNCHANGED hist, cpc' = pc
      PROVE  LocatedInv'
  <2>1. new = get_result(old, CtxMsg(c)) /\ old \in RcvMsgs(AllLocs, Texts)
    BY <1>9, <1>s, OurMessages, Zenon
  <2>2. new.lastctx = c /\ new.msg = old.msg /\ new.failctx = old.failctx
    BY <2>1, GetResultCtx
  <2> QED BY <1>9, <2>2, Zenon DEF LocatedInv, old, new, ChildAlive, Over, UserPhases
<1>10. CASE c_ctx_setup
  BY <1>9, <1>10, <1>r DEF c_ctx_setup, At, GoesTo, ChildAlive, PhaseCtx, Ctx
<1>11. CASE c_fn_ctx
  BY <1>9, <1>11, <1>r DEF c_fn_ctx, At, GoesTo, ChildAlive, Ctx
<1>12. CASE c_ctx_teardown
  BY <1>9, <1>12, <1>r DEF c_ctx_teardown, At, GoesTo, ChildAlive, PhaseCtx, Ctx
<1>13. ASSUME NEW l \in AllLocs, Send(cur, <<LocMsg(l)>>), ChildAlive, Active,
              ~hist.forked
       PROVE  /\ new.lastctx = old.lastctx /\ new.msg = NULL
              /\ new.failctx = CK_CTX_INVALID /\ LocByCtx(new, old.lastctx) = l
  <2>1. new = get_result(old, LocMsg(l)) /\ old \in RcvMsgs(AllLocs, Texts)
    BY <1>13, <1>s, OurMessages, Zenon
  <2>2. old.msg = NULL /\ old.failctx = CK_CTX_INVALID
    BY <1>13, Zenon DEF LocatedInv, old
  <2> QED BY <2>1, <2>2, GetResultLoc, Zenon
<1>14. CASE c_fn_loc
  <2>1. /\ ChildAlive /\ cpc = "fn_loc" /\ cpc' = "test" /\ ~Collected'
        /\ (Active' <=> Active) /\ UNCHANGED hist
        /\ Send(cur, <<LocMsg("tfun")>>) /\ "tfun" \in AllLocs
    BY <1>14, <1>r DEF c_fn_loc, At, GoesTo, ChildAlive, AllLocs
  <2>2. Active /\ ~hist.forked => /\ new.lastctx = "CK_CTX_TEST" /\ new.msg = NULL
                                  /\ new.failctx = CK_CTX_INVALID
    BY <1>13, <2>1, Zenon DEF LocatedInv, old
  <2> QED BY <2>1, <2>2, Zenon DEF LocatedInv, new, ChildAlive, Over, UserPhases, PhaseCtx
<1>15. CASE c_finish
  <2>1. ChildAlive /\ cpc' = "zombie" /\ rpc' = rpc /\ UNCHANGED hist
    BY <1>15, Zenon DEF c_finish, At, Ends, ChildAlive, runner
  <2>2. Active => ~hist.failed
    BY <2>1, Zenon DEF FateInv, Active, Collected
  <2> QED BY <2>1, <2>2, Zenon DEF LocatedInv, ChildAlive, UserPhases, Active, Collected
<1>16. CASE c_send_failure
  <2>1. /\ ChildAlive /\ cpc = "failing" /\ cpc' = "zombie" /\ (Active' <=> Active)
        /\ Send(cur, <<FailMsg("assertion")>>) /\ hist' = [hist EXCEPT !.failed = TRUE]
    BY <1>16, <1>r DEF c_send_failure, At, Ends, ChildAlive
  <2>2. /\ hist'.forked = hist.forked /\ hist'.ctx = hist.ctx /\ hist'.loc = hist.loc
    BY <1>t, <2>1, Zenon DEF Hists
  <2>3. new = get_result(old, FailMsg("assertion")) /\ old \in RcvMsgs(AllLocs, Texts)
    BY <1>s, <2>1, OurMessages, Zenon DEF Texts
  <2>4. Active /\ ~hist.forked =>
          /\ hist.ctx \in Ctx /\ LocByCtx(old, hist.ctx) = hist.loc
          /\ old.lastctx = hist.ctx /\ old.msg = NULL
    BY <2>1, Zenon DEF LocatedInv, AtFailure, old
  <2>5. Active /\ ~hist.forked =>
          /\ LocByCtx(new, hist.ctx) = hist.loc
          /\ new.msg = "assertion" /\ new.failctx = hist.ctx
    <3>1. old \in RcvMsgs(AllLocs, Texts)
      BY <2>3, Zenon
    <3>2. LET r == get_result(old, FailMsg("assertion"))
          IN  /\ old.msg = NULL => r.msg = "assertion" /\ r.failctx = old.lastctx
              /\ \A c : LocByCtx(r, c) = LocByCtx(old, c)
      BY <3>1, GetResultFail, Zenon
    <3> QED BY <2>3, <2>4, <3>2, Zenon
  <2> QED BY <2>1, <2>2, <2>4, <2>5, Zenon DEF LocatedInv, AtFailure, new, ChildAlive, UserPhases
<1>17. ASSUME NEW phase \in UserPhases, c_return(phase) PROVE LocatedInv'
  <2>1. PICK pc \in {"fn_ctx", "duration", "ctx_teardown"} : GoesTo(pc)
    BY <1>17 DEF c_return
  <2>2. ChildAlive /\ UNCHANGED <<runner, pipe, hist>>
    BY <1>17 DEF c_return, At, ChildAlive, UserPhases
  <2> QED BY <2>1, <2>2, MoveKeepsLocated DEF GoesTo, ChildPcs, UserPhases
<1>18. ASSUME NEW phase \in UserPhases, NEW loc \in Locs, _mark_point(phase, loc)
       PROVE  LocatedInv'
  <2>1. /\ ChildAlive /\ cpc = phase /\ cpc' = cpc /\ ~Collected' /\ UNCHANGED hist
        /\ (Active' <=> Active) /\ Send(cur, <<LocMsg(loc)>>) /\ loc \in AllLocs
    BY <1>18, <1>r, Zenon DEF _mark_point, At, child, ChildAlive, UserPhases, AllLocs
  <2>2. Active /\ ~hist.forked => /\ new.lastctx = PhaseCtx(cpc) /\ new.msg = NULL
                                  /\ new.failctx = CK_CTX_INVALID
    BY <1>13, <1>18, <2>1, Zenon DEF LocatedInv, old
  <2> QED BY <2>1, <2>2, Zenon DEF LocatedInv, new, ChildAlive, Over, UserPhases
<1>19. ASSUME NEW phase \in UserPhases, NEW loc \in Locs, _ck_assert_failed(phase, loc)
       PROVE  LocatedInv'
  <2>1. /\ ChildAlive /\ cpc = phase /\ cpc' = "failing" /\ ~Collected'
        /\ (Active' <=> Active) /\ Send(cur, <<LocMsg(loc)>>) /\ loc \in AllLocs
        /\ hist' = [hist EXCEPT !.loc = loc, !.ctx = PhaseCtx(phase)]
    BY <1>19, <1>r, Zenon DEF _ck_assert_failed, At, GoesTo, ChildAlive, UserPhases, AllLocs
  <2>2. PhaseCtx(phase) \in Ctx
    BY DEF UserPhases, PhaseCtx, Ctx
  <2>3. hist'.forked = hist.forked /\ hist'.loc = loc /\ hist'.ctx = PhaseCtx(phase)
    BY <1>t, <2>1, Zenon DEF Hists
  <2>4. Active /\ ~hist.forked =>
          /\ new.lastctx = PhaseCtx(phase) /\ new.msg = NULL
          /\ new.failctx = CK_CTX_INVALID /\ LocByCtx(new, PhaseCtx(phase)) = loc
    <3>1. Active /\ ~hist.forked => old.lastctx = PhaseCtx(phase)
      BY <2>1, Zenon DEF LocatedInv, old
    <3> QED BY <1>13, <2>1, <3>1, Zenon
  <2> QED BY <2>1, <2>2, <2>3, <2>4, Zenon DEF LocatedInv, AtFailure, new, ChildAlive, Over,
             UserPhases
<1>20. ASSUME NEW phase \in UserPhases, NEW v, c_exit(phase, v) PROVE LocatedInv'
  BY <1>20, EndKeepsLocated, Zenon DEF c_exit, At, ChildAlive, UserPhases
<1>21. ASSUME NEW phase \in UserPhases, NEW sig, c_raise(phase, sig) PROVE LocatedInv'
  <2>1. hist'.failed = hist.failed /\ hist'.forked = hist.forked
    BY <1>t, <1>21, Zenon DEF c_raise, Hists
  <2> QED BY <1>21, <2>1, EndKeepsLocated, Zenon DEF c_raise, At, ChildAlive, UserPhases
<1>22. CASE check_fork
  <2>1. hist'.forked
    BY <1>t, <1>22, Zenon DEF check_fork, Hists
  <2> QED BY <2>1, Zenon DEF LocatedInv
<1>23. CASE check_waitpid_and_exit
  <2>1. hist'.failed = hist.failed /\ hist'.forked = hist.forked
    BY <1>t, <1>23, Zenon DEF check_waitpid_and_exit, Hists
  <2> QED BY <1>23, <2>1, EndKeepsLocated, Zenon DEF check_waitpid_and_exit, At, ChildAlive
<1>24. ASSUME NEW t \in Tests,
              g_die(t) \/ g_exit(t) \/ g_assert_failed(t) \/ g_write(t)
       PROVE  LocatedInv'
  <2>1. /\ UNCHANGED <<runner, child>> /\ hist'.forked = hist.forked
        /\ gpc[t] \in {"running", "writing"}
        /\ UNCHANGED <<pipe, hist>> \/ \E m \in Msgs : GrandWrites(t, m)
    BY <1>24, GrandEffect, Zenon
  <2>2. hist.forked \/ UNCHANGED <<pipe, hist>>
    BY <2>1, Zenon DEF GrandWrites, FileInv
  <2>3. UNCHANGED <<rpc, cpc>>
    BY <2>1 DEF runner, child
  <2> QED BY <2>1, <2>2, <2>3, Zenon DEF LocatedInv, ChildAlive, AtFailure, Active, Over,
             Collected
<1>25. ChildStep => LocatedInv'
  BY <1>6, <1>8, <1>10, <1>11, <1>12, <1>14, <1>15, <1>16 DEF ChildStep
<1>26. UserCode => LocatedInv'
  BY <1>17, <1>18, <1>19, <1>20, <1>21, <1>22, <1>23 DEF UserCode
<1> QED BY <1>1, <1>2, <1>3, <1>4, <1>5, <1>7, <1>24, <1>25, <1>26, Zenon
        DEF Next, RunnerStep, GrandStep

(* construct_test_result() of a RcvMsg with a failure *)
LEMMA FailureConstructed ==
  ASSUME NEW rmsg, rmsg.msg # NULL, NEW e
  PROVE  LET tr == construct_test_result(rmsg, e)
         IN  /\ tr.msg = rmsg.msg
             /\ rmsg.failctx # CK_CTX_INVALID
                  => tr.ctx = rmsg.failctx /\ tr.loc = LocByCtx(rmsg, rmsg.failctx)
BY Zenon DEF construct_test_result

(* set_fork_info() of a test that sent a failure and exited with 1 *)
LEMMA FailureVerdict ==
  ASSUME NEW msg, msg # NULL, NEW st, st.how = "exit", st.val = 1, NEW alarm,
         NEW v, SChar(v) # 1
  PROVE  set_fork_info(msg, st, NoSignal, v, alarm) = verdict("CK_FAILURE", msg)
<1>1. SChar(st.val) # SChar(v)
  <2>1. SChar(1) = 1
    BY DEF SChar
  <2> QED BY <2>1, Zenon
<1> QED BY <1>1, Zenon DEF set_fork_info, SignalMissing

(* The result of a test is judged from what was received, as it was sent *)
LEMMA JudgedFrom ==
  ASSUME r_read, result' # result
  PROVE  /\ result' = Judge(Received(pipe.msgs)) /\ result'.tf = tf /\ result'.hist = hist
         /\ rpc = "read" /\ ~pipe.torn
<1>1. result' = Judge(punpack(pipe.msgs)) /\ punpack(pipe.msgs) # NullRcvMsg
      /\ rpc = "read" /\ ~pipe.torn
  BY Zenon DEF r_read
<1>2. punpack(pipe.msgs) = Received(pipe.msgs)
  BY <1>1, PunpackReceived, Zenon
<1> QED BY <1>1, <1>2, Zenon DEF Judge

(* A failure is reported when the verdict is taken *)
LEMMA LocatedVerdict ==
  IInv /\ FateInv /\ LocatedInv /\ FailureLocated /\ [Next]_vars => FailureLocated'
<1> SUFFICES ASSUME IInv, FateInv, LocatedInv, FailureLocated, [Next]_vars
             PROVE  FailureLocated'
  OBVIOUS
<1>1. CASE r_read /\ result' # result
  <2> DEFINE rmsg == Received(pipe.msgs)
             tr == construct_test_result(rmsg, waserror(status, tf.signal))
             v == set_fork_info(tr.msg, status, tf.signal, tf.allowed_exit_value,
                                alarm_received)
  <2>1. result' = Judge(rmsg) /\ result'.tf = tf /\ result'.hist = hist /\ rpc = "read"
    BY <1>1, JudgedFrom, Zenon
  <2>2. /\ result'.rtype = v.rtype /\ result'.msg = v.msg
        /\ result'.ctx = tr.ctx /\ result'.loc = tr.loc
    BY <2>1, Zenon DEF Judge
  <2> SUFFICES ASSUME hist.failed, ~hist.alarmKilled, ~hist.forked,
                      tf.signal = NoSignal, SChar(tf.allowed_exit_value) # 1
               PROVE  /\ v.rtype = "CK_FAILURE" /\ v.msg = "assertion"
                      /\ tr.ctx = hist.ctx /\ tr.loc = hist.loc
    BY <2>1, <2>2, Zenon DEF FailureLocated
  <2>3. status.how = "exit" /\ status.val = 1
    BY <2>1, Zenon DEF FateInv, Tells
  <2>4. /\ hist.ctx \in Ctx /\ LocByCtx(rmsg, hist.ctx) = hist.loc
        /\ rmsg.msg = "assertion" /\ rmsg.failctx = hist.ctx
    BY <2>1, Zenon DEF LocatedInv, Active, Over, Collected, AtFailure
  <2>5. rmsg.msg # NULL /\ rmsg.failctx # CK_CTX_INVALID
    BY <2>4, ForkTestAssumption, Zenon DEF Ctx, CK_CTX_INVALID
  <2> HIDE DEF rmsg
  <2>6. tr.msg = "assertion" /\ tr.ctx = hist.ctx /\ tr.loc = hist.loc
    BY <2>4, <2>5, FailureConstructed, Zenon
  <2> HIDE DEF tr
  <2>7. v = verdict("CK_FAILURE", "assertion")
    BY <2>3, <2>6, FailureVerdict, ForkTestAssumption, Zenon
  <2> HIDE DEF v
  <2> QED BY <2>6, <2>7, Zenon DEF verdict
<1>2. CASE r_fork
  BY <1>2, Zenon DEF r_fork, FailureLocated
<1>3. CASE result' = result
  BY <1>3, Zenon DEF FailureLocated
<1> QED BY <1>1, <1>2, <1>3, VerdictOnce, Zenon

(* A failed assertion of a test that forks and declares nothing is always  *)
(* reported as CK_FAILURE, with its message, in the context and at the     *)
(* location where it failed, unless the timer killed the test: whatever    *)
(* fixtures and locations there were before it, and for any number of      *)
(* messages and tests.                                                     *)
THEOREM FailureAlwaysLocated == Spec => []FailureLocated
<1>1. Init => LocatedInv /\ FailureLocated
  BY Zenon DEF Init, LocatedInv, FailureLocated, Active, Collected
<1>2. MessagesInv => IInv /\ FateInv /\ FileInv
  BY Zenon DEF MessagesInv
<1> QED BY <1>1, <1>2, LocatedStep, LocatedVerdict, MessagesInvariant, PTL DEF Spec

-----------------------------------------------------------------------------
(* A failure in a process made with check_fork() has ended it with 1, and  *)
(* is in the file unless it came after the rewind(); a child that waited   *)
(* for such a process has ended, with 1, and nobody writes any more.       *)
ForkedInv ==
  Active =>
    /\ hist.gfailed => /\ gpc[cur] = "exited" /\ gstatus[cur] = Exited(1)
                       /\ ~hist.late => Received(pipe.msgs).msg # NULL
    /\ hist.waited => /\ gpc[cur] = "exited" /\ ~hist.late /\ ~ChildAlive
                      /\ hist.gfailed => /\ cpc = "zombie" => wstatus = Exited(1)
                                         /\ Collected => status = Exited(1)

(* How a process made with check_fork() may end *)
GrandStatusInv ==
  gstatus \in [Tests -> {Exited(0), Exited(1), Signaled("SIGKILL")}]

(* It ends in one of these ways *)
LEMMA GrandStatusStep == GrandStatusInv /\ [Next]_vars => GrandStatusInv'
<1> SUFFICES ASSUME GrandStatusInv, [Next]_vars PROVE GrandStatusInv'
  OBVIOUS
<1>1. CASE GrandStep
  BY <1>1, Zenon DEF GrandStep, g_die, g_exit, g_assert_failed, g_write, GEnds, GrandStatusInv
<1>2. CASE ChildStep
  BY <1>2, Zenon DEF ChildStep, c_die, c_setpgid, c_getpgrp, c_ctx_setup, c_fn_ctx,
     c_fn_loc, c_ctx_teardown, c_finish, c_send_failure, grand, GrandStatusInv
<1>3. CASE UserCode
  BY <1>3, Zenon DEF UserCode, c_return, _mark_point, _ck_assert_failed, c_exit, c_raise,
     check_fork, check_waitpid_and_exit, grand, GrandStatusInv
<1>4. CASE RunnerStep \/ r_alarm \/ r_eprintf \/ (\E sig : r_interrupt(sig))
           \/ UNCHANGED vars
  BY <1>4, Zenon DEF RunnerStep, r_fork, r_parent, r_arm, r_waitpid, r_timer_delete,
     r_killpg, r_rewind, r_read, r_alarm, r_eprintf, r_interrupt, grand, vars,
     GrandStatusInv
<1> QED BY <1>1, <1>2, <1>3, <1>4, Zenon DEF Next

(* The status of the forked process is passed on by the child *)
LEMMA ForkedStep ==
  IInv /\ FateInv /\ FileInv /\ GrandStatusInv /\ ForkedInv /\ [Next]_vars
    => ForkedInv'
<1> SUFFICES ASSUME IInv, FateInv, FileInv, GrandStatusInv, ForkedInv, [Next]_vars
             PROVE  ForkedInv'
  BY Zenon
<1>t. hist \in Hists /\ cur \in Tests /\ gpc \in [Tests -> GrandPcs]
  BY Zenon DEF IInv, TypeOK, GrandPcs
<1>1. CASE r_fork
  BY <1>1, Zenon DEF r_fork, NoHist, ForkedInv
<1>2. CASE r_parent \/ r_arm \/ r_timer_delete \/ r_killpg \/ r_rewind
  <2>1. /\ UNCHANGED <<cur, cpc, wstatus, status, gpc, gstatus, pipe, hist>>
        /\ (Active' => Active) /\ (Collected' => Collected)
    BY <1>2, Zenon DEF r_parent, r_arm, r_timer_delete, r_killpg, r_rewind, child, grand,
       Active, Collected
  <2> QED BY <2>1, Zenon DEF ForkedInv, ChildAlive
<1>3. CASE r_waitpid
  BY <1>3, Zenon DEF r_waitpid, ForkedInv, ChildAlive, Active, grand
<1>4. CASE r_read \/ r_eprintf \/ (\E sig : r_interrupt(sig))
  BY <1>4, Zenon DEF r_read, r_eprintf, r_interrupt, ForkedInv, Active, Collected
<1>5. CASE r_alarm
  <2>1. \E b : hist' = [hist EXCEPT !.fired = TRUE, !.alarmKilled = b]
    BY <1>5, Zenon DEF r_alarm
  <2>2. hist'.gfailed = hist.gfailed /\ hist'.late = hist.late /\ hist'.waited = hist.waited
    BY <1>t, <2>1, Zenon DEF Hists
  <2> QED BY <1>5, <2>2, Zenon DEF r_alarm, ForkedInv, ChildAlive, Active, Collected
<1>6. CASE c_die
  <2>1. ChildAlive /\ UNCHANGED <<rpc, cur, gpc, gstatus, pipe, hist>>
    BY <1>6, Zenon DEF c_die, runner, grand
  <2> QED BY <2>1, Zenon DEF ForkedInv, Active, Collected
<1>7. CASE UNCHANGED vars
  BY <1>7, Zenon DEF vars, runner, child, grand, ForkedInv, ChildAlive, Active, Collected
<1>8. CASE ((ChildStep /\ ~c_die) \/ UserCode) /\ ~check_waitpid_and_exit
  <2>1. ChildWrites /\ ChildRecords
    BY <1>8, ChildStepWrites, UserCodeWrites, Zenon
  <2>2. /\ UNCHANGED <<rpc, cur>> /\ ChildAlive /\ hist'.gfailed = hist.gfailed
        /\ hist'.late = hist.late /\ hist'.waited = hist.waited
        /\ Received(pipe.msgs).msg # NULL => Received(pipe'.msgs).msg # NULL
    BY <1>8, <2>1, SendReceives, Zenon DEF ChildWrites, ChildRecords, runner
  <2>3. gpc[cur] = "exited" => gpc'[cur] = "exited" /\ gstatus'[cur] = gstatus[cur]
    <3>1. CASE ChildStep
      BY <3>1, Zenon DEF ChildStep, c_die, c_setpgid, c_getpgrp, c_ctx_setup, c_fn_ctx,
         c_fn_loc, c_ctx_teardown, c_finish, c_send_failure, grand
    <3>2. CASE UserCode
      BY <3>2, Zenon DEF UserCode, c_return, _mark_point, _ck_assert_failed, c_exit,
         c_raise, check_fork, check_waitpid_and_exit, grand
    <3> QED BY <1>8, <3>1, <3>2, Zenon
  <2> QED BY <2>2, <2>3, Zenon DEF ForkedInv, Active, Collected
<1>9. CASE check_waitpid_and_exit
  <2>1. /\ UNCHANGED <<rpc, cur, status, gpc, gstatus, pipe>> /\ gpc[cur] = "exited"
        /\ ChildAlive /\ cpc' = "zombie"
        /\ wstatus' = Exited(IF waserror(gstatus[cur], NoSignal) THEN 1 ELSE 0)
    BY <1>9, Zenon DEF check_waitpid_and_exit, At, Ends, ChildAlive, runner, grand
  <2>2. ~Collected /\ (Active => ~hist.late)
    BY <2>1, Zenon DEF IInv, ChildInv, ChildAlive, FileInv, Active, Collected
  <2>3. hist'.gfailed = hist.gfailed /\ hist'.late = hist.late
    BY <1>9, <1>t, Zenon DEF check_waitpid_and_exit, Hists
  <2>4. waserror(Exited(1), NoSignal)
    BY DEF waserror, Exited
  <2> QED BY <2>1, <2>2, <2>3, <2>4, Zenon DEF ForkedInv, ChildAlive, Active, Collected
<1>10. ASSUME NEW t \in Tests,
              g_die(t) \/ g_exit(t) \/ g_assert_failed(t) \/ g_write(t)
       PROVE  ForkedInv'
  <2>1. /\ UNCHANGED <<runner, child>> /\ gpc[t] \in {"running", "writing"}
        /\ hist'.waited = hist.waited
        /\ UNCHANGED <<pipe, hist>> \/ \E m \in Msgs : GrandWrites(t, m)
    BY <1>10, GrandEffect, Zenon
  <2>2. UNCHANGED <<rpc, cur, status, cpc, wstatus>>
    BY <2>1, Zenon DEF runner, child
  <2>3. CASE t # cur
    <3>1. UNCHANGED <<pipe, hist>>
      BY <2>1, <2>3, Zenon DEF GrandWrites
    <3>2. gpc'[cur] = gpc[cur] /\ gstatus'[cur] = gstatus[cur]
      BY <1>10, <1>t, <2>3 DEF g_die, g_exit, g_assert_failed, g_write, GEnds,
         GrandStatusInv
    <3> QED BY <2>2, <3>1, <3>2, Zenon DEF ForkedInv, ChildAlive, Active, Collected
  <2>4. CASE t = cur
    <3>1. Active => ~hist.gfailed /\ ~hist.waited
      BY <2>1, <2>4, Zenon DEF ForkedInv
    <3>2. CASE g_die(t) \/ g_exit(t)
      BY <2>2, <3>1, <3>2, Zenon DEF g_die, g_exit, ForkedInv, Active, Collected
    <3>3. CASE g_assert_failed(t)
      <4>1. Active => ~hist'.gfailed
        <5>1. LocMsg("grandchild").type # "CK_MSG_FAIL"
          BY Zenon DEF LocMsg
        <5>2. \E b : hist' = [hist EXCEPT
                   !.gfailed = @ \/ (gfile[t] = pipe.id
                                      /\ LocMsg("grandchild").type = "CK_MSG_FAIL"),
                   !.late = b]
          BY <3>3, Zenon DEF g_assert_failed, GSend
        <5> QED BY <1>t, <3>1, <5>1, <5>2, Zenon DEF Hists
      <4> QED BY <2>1, <2>2, <3>1, <4>1, Zenon DEF ForkedInv, Active, Collected
    <3>4. CASE g_write(t)
      <4>1. gpc'[cur] = "exited" /\ gstatus'[cur] = Exited(1)
        BY <1>t, <2>4, <3>4, Zenon DEF g_write, GEnds, GrandStatusInv
      <4>2. Active /\ hist'.gfailed /\ ~hist'.late => Received(pipe'.msgs).msg # NULL
        <5>1. SUFFICES ASSUME Active, hist'.gfailed, ~hist'.late
                       PROVE  Received(pipe'.msgs).msg # NULL
          BY Zenon
        <5>2. GSend(t, FailMsg("grandchild")) /\ hist' # hist
          BY <3>1, <3>4, <5>1, Zenon DEF g_write
        <5>3. gfile[t] = pipe.id /\ rpc # "read"
          BY <2>1, <5>1, <5>2, Zenon DEF GrandWrites
        <5>4. Send(t, <<FailMsg("grandchild")>>)
          BY <5>2, <5>3 DEF GSend
        <5>5. /\ Received(pipe.msgs) \in RcvMsgs(AllLocs, Texts)
              /\ Received(pipe'.msgs)
                   = get_result(Received(pipe.msgs), FailMsg("grandchild"))
              /\ Received(pipe.msgs).msg # NULL => Received(pipe'.msgs).msg # NULL
          BY <5>4, SendReceives, OurMessages, Zenon DEF Texts
        <5>6. Received(pipe.msgs).msg = NULL => Received(pipe'.msgs).msg = "grandchild"
          <6>1. PICK old : old = Received(pipe.msgs)
            BY Zenon
          <6>2. old.msg = NULL =>
                  /\ get_result(old, FailMsg("grandchild")).msg = "grandchild"
                  /\ get_result(old, FailMsg("grandchild")).failctx = old.lastctx
            <7>1. old \in RcvMsgs(AllLocs, Texts)
              BY <5>5, <6>1, Zenon
            <7> QED BY <7>1, GetResultFail, Zenon
          <6> QED BY <5>5, <6>1, <6>2, Zenon
        <5>7. "grandchild" # NULL
          BY ForkTestAssumption
        <5> QED BY <5>5, <5>6, <5>7, Zenon
      <4> QED BY <2>1, <2>2, <3>1, <4>1, <4>2, Zenon DEF ForkedInv, Active, Collected
    <3> QED BY <1>10, <3>2, <3>3, <3>4
  <2> QED BY <2>3, <2>4, Zenon
<1> QED BY <1>1, <1>2, <1>3, <1>4, <1>5, <1>6, <1>7, <1>8, <1>9, <1>10, Zenon
        DEF Next, RunnerStep, GrandStep

(* A forked failure is reported when the verdict is taken *)
LEMMA ForkedVerdict ==
  ForkedInv /\ ForkedFailureReported /\ [Next]_vars => ForkedFailureReported'
<1> SUFFICES ASSUME ForkedInv, ForkedFailureReported, [Next]_vars
             PROVE  ForkedFailureReported'
  OBVIOUS
<1>1. CASE r_read /\ result' # result
  <2> DEFINE rmsg == Received(pipe.msgs)
             tr == construct_test_result(rmsg, waserror(status, tf.signal))
             v == set_fork_info(tr.msg, status, tf.signal, tf.allowed_exit_value,
                                alarm_received)
  <2>1. result' = Judge(rmsg) /\ result'.tf = tf /\ result'.hist = hist /\ rpc = "read"
    BY <1>1, JudgedFrom
  <2>2. result'.rtype = v.rtype
    BY <2>1 DEF Judge
  <2> SUFFICES ASSUME hist.waited, hist.gfailed, tf.signal = NoSignal,
                      SChar(tf.allowed_exit_value) = 0
               PROVE  v.rtype = "CK_FAILURE"
    BY <2>1, <2>2, Zenon DEF ForkedFailureReported
  <2>3. rmsg.msg # NULL /\ status = Exited(1)
    BY <2>1, Zenon DEF ForkedInv, Active, Collected
  <2>4. status.how = "exit" /\ status.val = 1
    BY <2>3, Zenon DEF Exited
  <2> HIDE DEF rmsg
  <2>5. tr.msg # NULL
    BY <2>3, FailureConstructed, Zenon
  <2> HIDE DEF tr
  <2>6. v = verdict("CK_FAILURE", tr.msg)
    BY <2>4, <2>5, FailureVerdict
  <2> HIDE DEF v
  <2> QED BY <2>6 DEF verdict
<1>2. CASE r_fork
  BY <1>2, Zenon DEF r_fork, ForkedFailureReported
<1>3. CASE result' = result
  BY <1>3, Zenon DEF ForkedFailureReported
<1> QED BY <1>1, <1>2, <1>3, VerdictOnce

(* A failed assertion in a process made with check_fork() is always        *)
(* reported as CK_FAILURE by a test that ends with                         *)
(* check_waitpid_and_exit() and declares nothing, for any interleaving of  *)
(* the two processes and the runner.                                       *)
THEOREM ForkedFailureAlwaysReported == Spec => []ForkedFailureReported
<1>1. Init => GrandStatusInv /\ ForkedInv /\ ForkedFailureReported
  BY DEF Init, GrandStatusInv, ForkedInv, ForkedFailureReported, Active, Collected
<1>2. MessagesInv => IInv /\ FateInv /\ FileInv
  BY DEF MessagesInv
<1> QED BY <1>1, <1>2, GrandStatusStep, ForkedStep, ForkedVerdict, MessagesInvariant, PTL
        DEF Spec
=============================================================================
