------------------------------- MODULE SRunner -------------------------------
(***************************************************************************)
(* A run of a suite runner: srunner_run_tagged() and the functions it      *)
(* calls in src/check_run.c, over the suites, test cases, fixtures and     *)
(* tests of a Program.  User functions pass, fail an assertion or, in a    *)
(* child, crash.  ForkTest looks inside the fork of one test; here it is   *)
(* what the runner sees of it, and the concern is which functions are      *)
(* called, what is left in the message file from one call to the next, and *)
(* what is reported about whom.                                            *)
(***************************************************************************)
EXTENDS RcvMsg, FiniteSets

CONSTANTS
  Program,     \* suites: sequence of [name, tcases]; a case: [name, tags,
               \* usetup, uteardown, csetup, cteardown, tests]: four numbers
               \* of fixtures and a sequence of tests [lo, hi] (loop bounds)
  Settings,    \* the arguments of srunner_set_fork_status()
  EnvFork,     \* the environment variable CK_FORK, or NULL
  Selections,  \* the arguments of a run: [sname, tcname, include, exclude]
  MayFail,     \* kinds of user function that may fail an assertion
  MayCrash,    \* kinds of user function that may die of a signal in a child
  MaxRuns      \* bound on the runs of the same SRunner

Kinds == {"usetup", "uteardown", "csetup", "cteardown", "test"}

(* Labels and the sites of calls, which stand for the texts of failures *)
Labels == Nat \X Nat \X Nat \X Int
Sites == Nat \X Labels \X Kinds \X Nat

ASSUME SRunnerAssumption ==
  /\ Settings \subseteq {"CK_FORK", "CK_NOFORK", "CK_FORK_GETENV"}
  /\ MayFail \subseteq Kinds
  /\ MayCrash \subseteq {"csetup", "cteardown", "test"}
  /\ MaxRuns \in Nat
  /\ NULL \notin Sites

(* Lists of cases, fixtures and tests, and the int bounds of the loops *)
ASSUME ProgramAssumption ==
  /\ Len(Program) \in Nat
  /\ \A s \in 1 .. Len(Program) :
       /\ Len(Program[s].tcases) \in Nat
       /\ \A c \in 1 .. Len(Program[s].tcases) :
            LET tc == Program[s].tcases[c]
            IN  /\ {tc.usetup, tc.uteardown, tc.csetup, tc.cteardown} \subseteq Nat
                /\ Len(tc.tests) \in Nat
                /\ \A f \in 1 .. Len(tc.tests) :
                     tc.tests[f].lo \in Int /\ tc.tests[f].hi \in Int

VARIABLES
  pc,          \* the function, and the point in it, that is executing
  pos,         \* the cursors: suite s, case c, test f, iteration i, fixture x
  sel,         \* the arguments of the current run
  run,         \* number of the current run
  sr_fstat,    \* sr->fstat
  fstat,       \* static _fstat, what cur_fork_status() returns
  jmp,         \* the frame of the runner that last called setjmp()
  status,      \* the child's wait status
  pipe,        \* the messages in the current file
  resultlst,   \* sr->resultlst
  stats,       \* sr->stats
  log,         \* the events sent to the loggers by the current run
  calls        \* history: the user functions called by the current run

vars == <<pc, pos, sel, run, sr_fstat, fstat, jmp, status, pipe, resultlst,
          stats, log, calls>>

setting == <<sel, run, sr_fstat>>

Suite(p) == Program[p.s]
TCase(p) == Program[p.s].tcases[p.c]
Label(p) == <<p.s, p.c, p.f, p.i>>
Site(kind) == <<run, Label(pos), kind, pos.x>>

AtSuite(s) == [s |-> s, c |-> 0, f |-> 0, i |-> 0, x |-> 0]
NextFixture(p) == [p EXCEPT !.x = @ + 1]
NextTCase(p) == [AtSuite(p.s) EXCEPT !.c = p.c + 1]

(* The first iteration of test f, or the end of the list of tests; the     *)
(* variant, with a defect, starts at 0 whatever the bounds of the loop.    *)
AtTestFrom0(p, f) == [p EXCEPT !.f = f, !.x = 0, !.i = 0]
AtTest(p, f) ==
  LET tests == TCase(p).tests
  IN  [p EXCEPT !.f = f, !.x = 0,
                !.i = IF f <= Len(tests) THEN tests[f].lo ELSE 0]

(* suite_tcase() and the conditions of srunner_iterate_suites() *)
SuiteSelected(s, se) ==
  /\ se.sname # NULL => Program[s].name = se.sname
  /\ se.tcname # NULL => \E c \in 1 .. Len(Program[s].tcases) :
                            Program[s].tcases[c].name = se.tcname

(* tcase_matching_tag() *)
tcase_matching_tag(tc, tags) == tc.tags \cap tags # {}

(* The conditions on a case in srunner_iterate_suites() *)
TCaseSelected(tc, se) ==
  /\ se.tcname # NULL => tc.name = se.tcname
  /\ se.include # NULL => tcase_matching_tag(tc, se.include)
  /\ se.exclude # NULL => ~tcase_matching_tag(tc, se.exclude)

Init ==
  /\ pc = "idle" /\ pos = AtSuite(0) /\ sel = NULL /\ run = 0
  /\ sr_fstat = "CK_FORK_GETENV"
  /\ fstat = "CK_FORK" /\ jmp = "none"
  /\ status = Exited(0) /\ pipe = << >>
  /\ resultlst = << >>
  /\ stats = [n_checked |-> 0, n_failed |-> 0, n_errors |-> 0]
  /\ log = << >> /\ calls = << >>

-----------------------------------------------------------------------------
(* Calls of user functions.                                                *)

srunner_fork_status ==
  IF sr_fstat # "CK_FORK_GETENV" THEN sr_fstat
  ELSE IF EnvFork = "no" THEN "CK_NOFORK" ELSE "CK_FORK"

Forks == srunner_fork_status = "CK_FORK"

InChild == Forks /\ pc \in {"csetup", "test", "cteardown"}

(* What a call of a user function of this kind may do *)
Hows(kind) == {"ok"} \cup (IF kind \in MayFail THEN {"fail"} ELSE {})
                    \cup (IF kind \in MayCrash /\ Forks THEN {"crash"} ELSE {})

(* _ck_assert_failed() sends the location and then the message *)
UserMsgs(kind, how) ==
  IF how = "fail" THEN <<LocMsg(Site(kind)), FailMsg(Site(kind))>> ELSE << >>

(* Where control goes: a failed assertion ends the process if the fork     *)
(* status is CK_FORK, else jumps to the last setjmp(), which must be the   *)
(* one around this call.                                                   *)
Outcome(kind, how) ==
  CASE how = "ok" -> "returned"
    [] how = "crash" -> "ended"
    [] how = "fail" /\ fstat = "CK_FORK" -> IF InChild THEN "ended" ELSE "exited"
    [] how = "fail" /\ fstat = "CK_NOFORK" ->
         IF jmp' = kind THEN "jumped" ELSE "lost"

Called(kind, how) ==
  calls' = Append(calls, [site |-> Site(kind), how |-> how, forked |-> Forks])

(* receive_result_info_nofork(): a context always precedes, so punpack()   *)
(* returns a message.                                                      *)
receive_result_info_nofork(msgs, tname) ==
  LET tr == construct_test_result(punpack(msgs), FALSE)
      v == set_nofork_info(tr.msg)
  IN  [run |-> run, label |-> Label(pos), tname |-> tname, rtype |-> v.rtype,
       msg |-> v.msg, ctx |-> tr.ctx, loc |-> tr.loc]

(* receive_result_info_fork(), for tests that declare nothing *)
receive_result_info_fork ==
  LET tr == construct_test_result(punpack(pipe), waserror(status, NoSignal))
      v == set_fork_info(tr.msg, status, NoSignal, 0, FALSE)
  IN  [run |-> run, label |-> Label(pos), tname |-> "test", rtype |-> v.rtype,
       msg |-> v.msg, ctx |-> tr.ctx, loc |-> tr.loc]

(* Variant: setup failures are not counted as checks *)
add_failure_of_test(tr) ==
  /\ resultlst' = Append(resultlst, tr)
  /\ stats' = [n_checked |-> stats.n_checked + (IF tr.tname = "test" THEN 1 ELSE 0),
               n_failed |-> stats.n_failed +
                              (IF tr.rtype = "CK_FAILURE" THEN 1 ELSE 0),
               n_errors |-> stats.n_errors +
                              (IF tr.rtype = "CK_ERROR" THEN 1 ELSE 0)]

srunner_add_failure(tr) ==
  /\ resultlst' = Append(resultlst, tr)
  /\ stats' = [n_checked |-> stats.n_checked + 1,
               n_failed |-> stats.n_failed +
                              (IF tr.rtype = "CK_FAILURE" THEN 1 ELSE 0),
               n_errors |-> stats.n_errors +
                              (IF tr.rtype = "CK_ERROR" THEN 1 ELSE 0)]

(* The end of the loop body of srunner_iterate_tcase_tfuns() *)
TestDone(tr) ==
  /\ srunner_add_failure(tr)
  /\ log' = Append(log, <<"CLEND_T", tr.label>>)
  /\ pos' = [pos EXCEPT !.i = @ + 1, !.x = 0]
  /\ pc' = "tfun"

results == <<resultlst, stats>>

(* set_fork_status(srunner_fork_status(sr)) *)
own_fork_status == fstat' = srunner_fork_status

(* setjmp(error_jmp_buffer) in the frame around a call of this kind; the    *)
(* variant leaves it out.                                                   *)
no_setjmp(kind) == UNCHANGED jmp
setjmp(kind) == jmp' = kind

-----------------------------------------------------------------------------
(* The loops over suites and cases.                                        *)

srunner_run_init ==
  /\ own_fork_status
  /\ pipe' = << >>
  /\ log' = <<<<"CLSTART_SR">>>>

srunner_set_fork_status(fs) ==
  /\ pc = "idle" /\ sr_fstat' = fs
  /\ UNCHANGED <<pc, pos, sel, run, fstat, jmp, status, pipe, results, log,
                 calls>>

(* The start of a run: the arguments, or the environment in their place *)
srunner_run_tagged ==
  /\ pc = "idle" /\ run < MaxRuns
  /\ run' = run + 1 /\ sel' \in Selections
  /\ srunner_run_init
  /\ calls' = << >>
  /\ pos' = AtSuite(1) /\ pc' = "suite"
  /\ UNCHANGED <<sr_fstat, jmp, status, results>>

next_suite ==
  /\ pc = "suite" /\ pos.s <= Len(Program)
  /\ IF SuiteSelected(pos.s, sel)
     THEN /\ log' = Append(log, <<"CLSTART_S", pos.s>>)
          /\ pos' = NextTCase(pos) /\ pc' = "tcase"
     ELSE pos' = AtSuite(pos.s + 1) /\ UNCHANGED <<pc, log>>
  /\ UNCHANGED <<setting, fstat, jmp, status, pipe, results, calls>>

(* The next selected case starts srunner_run_unchecked_setup() *)
next_tcase ==
  /\ pc = "tcase" /\ pos.c <= Len(Suite(pos).tcases)
  /\ IF TCaseSelected(TCase(pos), sel)
     THEN fstat' = "CK_NOFORK" /\ pos' = NextFixture(pos) /\ pc' = "usetup"
     ELSE pos' = NextTCase(pos) /\ UNCHANGED <<pc, fstat>>
  /\ UNCHANGED <<setting, jmp, status, pipe, results, log, calls>>

suite_end ==
  /\ pc = "tcase" /\ pos.c > Len(Suite(pos).tcases)
  /\ log' = Append(log, <<"CLEND_S", pos.s>>)
  /\ pos' = AtSuite(pos.s + 1) /\ pc' = "suite"
  /\ UNCHANGED <<setting, fstat, jmp, status, pipe, results, calls>>

srunner_run_end ==
  /\ pc = "suite" /\ pos.s > Len(Program)
  /\ log' = Append(log, <<"CLEND_SR">>)
  /\ pipe' = << >>
  /\ fstat' = "CK_FORK"
  /\ pc' = "idle"
  /\ UNCHANGED <<pos, setting, jmp, status, results, calls>>

-----------------------------------------------------------------------------
(* srunner_run_unchecked_setup() and srunner_run_unchecked_teardown().     *)

(* One fixture under setjmp(), and its result; the first that is not a     *)
(* pass is added to the results, and the case is over.                     *)
unchecked_setup_fixture(how) ==
  /\ pc = "usetup" /\ pos.x <= TCase(pos).usetup
  /\ setjmp("usetup")
  /\ Called("usetup", how)
  /\ LET msgs == pipe \o <<CtxMsg("CK_CTX_SETUP")>> \o UserMsgs("usetup", how)
     IN  IF Outcome("usetup", how) \in {"returned", "jumped"}
         THEN \E tr \in {receive_result_info_nofork(msgs, "unchecked_setup")} :
                /\ pipe' = << >>
                /\ IF tr.rtype = "CK_PASS"
                   THEN /\ pos' = NextFixture(pos)
                        /\ UNCHANGED <<pc, fstat, results>>
                   ELSE /\ own_fork_status
                        /\ srunner_add_failure(tr)
                        /\ pos' = NextTCase(pos) /\ pc' = "tcase"
         ELSE /\ pc' = Outcome("usetup", how) /\ pipe' = msgs
              /\ UNCHANGED <<pos, fstat, results>>
  /\ UNCHANGED <<setting, status, log>>

unchecked_setup_done ==
  /\ pc = "usetup" /\ pos.x > TCase(pos).usetup
  /\ own_fork_status
  /\ pos' = AtTest(pos, 1) /\ pc' = "tfun"
  /\ UNCHANGED <<setting, jmp, status, pipe, results, log, calls>>

(* A failure leaves the loop in CK_NOFORK mode and ends the runner in      *)
(* CK_FORK mode; either way nothing reads the messages here.               *)
unchecked_teardown_fixture(how) ==
  /\ pc = "uteardown" /\ pos.x <= TCase(pos).uteardown
  /\ IF Forks THEN UNCHANGED jmp ELSE setjmp("uteardown")
  /\ Called("uteardown", how)
  /\ pipe' = pipe \o <<CtxMsg("CK_CTX_TEARDOWN")>> \o UserMsgs("uteardown", how)
  /\ CASE Outcome("uteardown", how) = "returned" ->
            pos' = NextFixture(pos) /\ UNCHANGED pc
       [] Outcome("uteardown", how) = "jumped" ->
            pos' = NextTCase(pos) /\ pc' = "tcase"
       [] OTHER -> pc' = Outcome("uteardown", how) /\ UNCHANGED pos
  /\ UNCHANGED <<setting, fstat, status, results, log>>

unchecked_teardown_done ==
  /\ pc = "uteardown" /\ pos.x > TCase(pos).uteardown
  /\ pos' = NextTCase(pos) /\ pc' = "tcase"
  /\ UNCHANGED <<setting, fstat, jmp, status, pipe, results, log, calls>>

-----------------------------------------------------------------------------
(* srunner_iterate_tcase_tfuns() and the two ways to run one iteration.    *)

(* log_test_start(); in CK_FORK mode the child announces the setup once *)
start_test ==
  /\ pc = "tfun" /\ pos.f <= Len(TCase(pos).tests)
  /\ pos.i < TCase(pos).tests[pos.f].hi
  /\ log' = Append(log, <<"CLSTART_T", Label(pos)>>)
  /\ pipe' = IF Forks THEN pipe \o <<CtxMsg("CK_CTX_SETUP")>>
                                 ELSE pipe
  /\ pos' = NextFixture(pos) /\ pc' = "csetup"
  /\ UNCHANGED <<setting, fstat, jmp, status, results, calls>>

next_tfun ==
  /\ pc = "tfun" /\ pos.f <= Len(TCase(pos).tests)
  /\ pos.i >= TCase(pos).tests[pos.f].hi
  /\ pos' = AtTest(pos, pos.f + 1)
  /\ UNCHANGED <<pc, setting, fstat, jmp, status, pipe, results, log, calls>>

(* Variant: the unchecked teardown is left out *)
tfuns_done_no_teardown ==
  /\ pc = "tfun" /\ pos.f > Len(TCase(pos).tests)
  /\ pos' = NextTCase(pos) /\ pc' = "tcase"
  /\ UNCHANGED <<setting, fstat, jmp, status, pipe, results, log, calls>>

tfuns_done ==
  /\ pc = "tfun" /\ pos.f > Len(TCase(pos).tests)
  /\ pos' = NextFixture(pos) /\ pc' = "uteardown"
  /\ UNCHANGED <<setting, fstat, jmp, status, pipe, results, log, calls>>

(* One checked setup fixture in CK_NOFORK mode: as an unchecked one, but   *)
(* its failure is the result of the test.                                  *)
checked_setup_nofork(how) ==
  /\ ~Forks
  /\ pc = "csetup" /\ pos.x <= TCase(pos).csetup
  /\ setjmp("csetup")
  /\ Called("csetup", how)
  /\ LET msgs == pipe \o <<CtxMsg("CK_CTX_SETUP")>> \o UserMsgs("csetup", how)
     IN  IF Outcome("csetup", how) \in {"returned", "jumped"}
         THEN \E tr \in {receive_result_info_nofork(msgs, "checked_setup")} :
                /\ pipe' = << >>
                /\ IF tr.rtype = "CK_PASS"
                   THEN pos' = NextFixture(pos) /\ UNCHANGED <<pc, results, log>>
                   ELSE TestDone(tr)
         ELSE /\ pc' = Outcome("csetup", how) /\ pipe' = msgs
              /\ UNCHANGED <<pos, results, log>>
  /\ UNCHANGED <<setting, fstat, status>>

(* The child ends, or goes on at the given point *)
ChildGoesOn(kind, how, p, next) ==
  /\ IF Outcome(kind, how) = "ended"
     THEN /\ status' = IF how = "crash" THEN Signaled("SIGSEGV") ELSE Exited(1)
          /\ pc' = "reap" /\ UNCHANGED pos
     ELSE pos' = p /\ pc' = next /\ UNCHANGED status
  /\ UNCHANGED jmp

checked_setup_fork(how) ==
  /\ Forks
  /\ pc = "csetup" /\ pos.x <= TCase(pos).csetup
  /\ Called("csetup", how)
  /\ pipe' = pipe \o UserMsgs("csetup", how)
  /\ ChildGoesOn("csetup", how, NextFixture(pos), "csetup")
  /\ UNCHANGED <<setting, fstat, results, log>>

checked_setup_done ==
  /\ pc = "csetup" /\ pos.x > TCase(pos).csetup
  /\ pc' = "test"
  /\ UNCHANGED <<pos, setting, fstat, jmp, status, pipe, results, log, calls>>

(* tcase_fn_start() and the test function, under setjmp() in CK_NOFORK     *)
(* mode, where a failure goes on to the teardown as a return does.         *)
run_test(how) ==
  /\ pc = "test"
  /\ Called("test", how)
  /\ pipe' = pipe \o <<CtxMsg("CK_CTX_TEST"), LocMsg(Label(pos))>>
                  \o UserMsgs("test", how)
  /\ IF Forks
     THEN ChildGoesOn("test", how, [pos EXCEPT !.x = 1], "cteardown")
     ELSE /\ setjmp("test")
          /\ IF Outcome("test", how) \in {"returned", "jumped"}
             THEN pos' = [pos EXCEPT !.x = 1] /\ pc' = "cteardown"
             ELSE pc' = Outcome("test", how) /\ UNCHANGED pos
          /\ UNCHANGED status
  /\ UNCHANGED <<setting, fstat, results, log>>

(* srunner_run_teardown(tc->ch_tflst, CK_NOFORK) *)
checked_teardown_fixture(how) ==
  /\ pc = "cteardown" /\ pos.x <= TCase(pos).cteardown
  /\ Called("cteardown", how)
  /\ pipe' = pipe \o <<CtxMsg("CK_CTX_TEARDOWN")>> \o UserMsgs("cteardown", how)
  /\ IF Forks
     THEN ChildGoesOn("cteardown", how, NextFixture(pos), "cteardown")
     ELSE /\ setjmp("cteardown")
          /\ CASE Outcome("cteardown", how) = "returned" ->
                    pos' = NextFixture(pos) /\ UNCHANGED pc
               [] Outcome("cteardown", how) = "jumped" ->
                    pc' = "receive" /\ UNCHANGED pos
               [] OTHER -> pc' = Outcome("cteardown", how) /\ UNCHANGED pos
          /\ UNCHANGED status
  /\ UNCHANGED <<setting, fstat, results, log>>

(* In a child: send_duration_info(); exit(EXIT_SUCCESS) *)
checked_teardown_done ==
  /\ pc = "cteardown" /\ pos.x > TCase(pos).cteardown
  /\ IF Forks
     THEN /\ pipe' = Append(pipe, DurationMsg(0))
          /\ status' = Exited(0) /\ pc' = "reap"
     ELSE pc' = "receive" /\ UNCHANGED <<pipe, status>>
  /\ UNCHANGED <<pos, setting, fstat, jmp, results, log, calls>>

(* The runner reads the result of the iteration *)
receive ==
  /\ pc \in {"receive", "reap"}
  /\ \E tr \in {IF pc = "reap" THEN receive_result_info_fork
                             ELSE receive_result_info_nofork(pipe, "test")} :
       TestDone(tr)
  /\ pipe' = << >>
  /\ UNCHANGED <<setting, fstat, jmp, status, calls>>

Next ==
  \/ \E fs \in Settings : srunner_set_fork_status(fs)
  \/ srunner_run_tagged \/ next_suite \/ next_tcase \/ suite_end
  \/ srunner_run_end
  \/ \E how \in Hows("usetup") : unchecked_setup_fixture(how)
  \/ unchecked_setup_done
  \/ start_test \/ next_tfun \/ tfuns_done
  \/ \E how \in Hows("csetup") : \/ checked_setup_nofork(how)
                               \/ checked_setup_fork(how)
  \/ checked_setup_done
  \/ \E how \in Hows("test") : run_test(how)
  \/ \E how \in Hows("cteardown") : checked_teardown_fixture(how)
  \/ checked_teardown_done \/ receive
  \/ \E how \in Hows("uteardown") : unchecked_teardown_fixture(how)
  \/ unchecked_teardown_done

(* User functions return, so the runner keeps going *)
Spec == Init /\ [][Next]_vars /\ WF_vars(Next)

-----------------------------------------------------------------------------
(* Properties.                                                             *)

(* The labels a run with these arguments has to deal with: the iterations   *)
(* of the cases that match every argument that is given.                    *)
PlanOf(se) ==
  LET Tests(s, c) ==
        LET tests == Program[s].tcases[c].tests
        IN  UNION {{<<s, c, f, i>> : i \in tests[f].lo .. tests[f].hi - 1} :
                     f \in 1 .. Len(tests)}
      Cases(s) == {c \in 1 .. Len(Program[s].tcases) :
                     LET tc == Program[s].tcases[c]
                     IN  /\ se.tcname \in {NULL, tc.name}
                         /\ se.include = NULL \/ \E t \in se.include : t \in tc.tags
                         /\ se.exclude = NULL \/ \A t \in se.exclude : t \notin tc.tags}
      Suites == {s \in 1 .. Len(Program) : se.sname \in {NULL, Program[s].name}}
  IN  UNION {UNION {{<<s, c, 0, 0>>} \cup Tests(s, c) : c \in Cases(s)} :
               s \in Suites}

LabelBefore(a, b) ==
  \E k \in 1 .. 4 : a[k] < b[k] /\ \A j \in 1 .. k - 1 : a[j] = b[j]

Todo == IF pc = "idle" THEN {}
        ELSE {l \in PlanOf(sel) : ~LabelBefore(l, Label(pos))}

Plan == INSTANCE RunPlan WITH
          Plans <- {PlanOf(se) : se \in Selections},
          todo <- Todo,
          out <- [k \in 1 .. Len(resultlst) |-> resultlst[k].label]

(* The loops of srunner_iterate_suites() and srunner_iterate_tcase_tfuns()  *)
(* implement the plan: the results are those of the selected iterations, in *)
(* order, each once, a case is dropped only with a result that says so, and *)
(* a run that has begun comes to its end.                                   *)
ResultsFollowPlan ==
  /\ Plan!Spec
  /\ (pc # "idle") ~> (pc \in {"idle", "exited"})

(* The calls under label l, by their places in the history *)
CallsOf(l) == {k \in 1 .. Len(calls) : calls[k].site[2] = l}

FirstOf(ks) == CHOOSE k \in ks : \A j \in ks : k <= j

(* No unchecked teardown of this run has failed so far *)
NoTeardownFailed ==
  \A j \in 1 .. Len(calls) :
    calls[j].site[3] = "uteardown" => calls[j].how = "ok"

KindCtx(kind) == CASE kind \in {"usetup", "csetup"} -> "CK_CTX_SETUP"
                   [] kind = "test" -> "CK_CTX_TEST"
                   [] kind \in {"uteardown", "cteardown"} -> "CK_CTX_TEARDOWN"

(* A result says what happened to the functions it is about: it is a pass   *)
(* if all of them passed, and otherwise it has the context, and after an    *)
(* assertion the message and the location, of the first that did not.  The  *)
(* exception is a failed unchecked teardown: in CK_NOFORK mode its message  *)
(* stays in the file, and the next case takes it for one of its own.        *)
FailureAttributed ==
  NoTeardownFailed =>
  \A k \in 1 .. Len(resultlst) :
    LET r == resultlst[k]
        bad == {j \in CallsOf(r.label) : calls[j].how # "ok"}
        first == calls[FirstOf(bad)]
    IN  r.run = run =>
          IF bad = {} THEN r.rtype = "CK_PASS"
          ELSE /\ r.ctx = KindCtx(first.site[3])
               /\ first.how = "crash" => r.rtype = "CK_ERROR"
               /\ first.how = "fail" => /\ r.rtype = "CK_FAILURE"
                                        /\ r.msg = first.site
                                        /\ r.loc = first.site

(* The functions called under one label, all of them passing: the unchecked *)
(* setups, the unchecked teardowns, or a test between its checked fixtures. *)
Expected(l) ==
  LET tc == Program[l[1]].tcases[l[2]]
      fixtures(kind, n) == [x \in 1 .. n |-> <<kind, x>>]
  IN  CASE l[3] = 0 -> fixtures("usetup", tc.usetup)
        [] l[3] > Len(tc.tests) -> fixtures("uteardown", tc.uteardown)
        [] OTHER -> fixtures("csetup", tc.csetup)
                      \o <<<<"test", tc.csetup + 1>>>>
                      \o fixtures("cteardown", tc.cteardown)

(* The unchecked teardown of every selected case whose unchecked setup      *)
(* passed has been run by the end of the run, whatever its tests did;       *)
(* unless a teardown failed, whose message the next case would take for a   *)
(* failure of its own setup.                                                *)
UncheckedTeardownsRun ==
  pc = "idle" /\ run > 0 /\ NoTeardownFailed =>
    \A l \in {m \in PlanOf(sel) : m[3] = 0} :
      LET tc == Program[l[1]].tcases[l[2]]
      IN  (\A j \in CallsOf(l) : calls[j].how = "ok")
            => tc.uteardown = 0 \/
               CallsOf(<<l[1], l[2], Len(tc.tests) + 1, 0>>) # {}

(* Fixtures and tests are called in their order, each once and with none of *)
(* another group between them; after a function that fails none of its      *)
(* group follows, but for the checked teardown after a test in CK_NOFORK    *)
(* mode; a test passes only when every function of its group has been       *)
(* called; and a case that was set up is torn down.                         *)
FixtureDiscipline ==
  /\ UncheckedTeardownsRun
  /\ \A k \in 1 .. Len(calls) :
       LET l == calls[k].site[2]
           n == k - FirstOf(CallsOf(l)) + 1
       IN  /\ n <= Len(Expected(l))
           /\ <<calls[k].site[3], calls[k].site[4]>> = Expected(l)[n]
           /\ \A j \in CallsOf(l) :
                j < k => \/ calls[j].how = "ok"
                         \/ calls[j].site[3] = "test" /\ ~calls[j].forked
  /\ \A k \in 1 .. Len(resultlst) :
       LET r == resultlst[k]
       IN  r.run = run /\ r.rtype = "CK_PASS" =>
             \A n \in 1 .. Len(Expected(r.label)) :
               \E j \in CallsOf(r.label) :
                 <<calls[j].site[3], calls[j].site[4]>> = Expected(r.label)[n]

ResultsOf(rtype) == {k \in 1 .. Len(resultlst) : resultlst[k].rtype = rtype}

(* sr->stats counts the results in sr->resultlst, over all the runs of the  *)
(* runner: srunner_failures() and srunner_results() allocate their arrays   *)
(* by the counters and fill them from the list.                             *)
StatsMatchResults ==
  /\ stats.n_checked = Len(resultlst)
  /\ stats.n_failed = Cardinality(ResultsOf("CK_FAILURE"))
  /\ stats.n_errors = Cardinality(ResultsOf("CK_ERROR"))

(* A failed assertion never jumps to a frame other than the one around the  *)
(* function that failed, and never ends the runner, but for an unchecked    *)
(* teardown in CK_FORK mode.                                                *)
FailuresContained ==
  /\ pc # "lost"
  /\ pc = "exited" => calls[Len(calls)].site[3] = "uteardown"
=============================================================================
