--------------------------- MODULE SRunnerProofs ----------------------------
(***************************************************************************)
(* For every program, selection, fork status and failing function: what    *)
(* the cursors of the nested loops of a run keep, that a failure stays     *)
(* within the group of functions it happens in, that the results follow    *)
(* the plan, and in which order the functions of a group are called.  The  *)
(* other proofs about SRunner rest on the invariants and the lemmas of     *)
(* this module.                                                            *)
(***************************************************************************)
EXTENDS SRunner, RcvMsgProofs, TLAPS

(* A sequence, of whatever elements *)
IsSequence(s) == \E S : s \in Seq(S)

(* Appending to a sequence of whatever elements *)
LEMMA AppendAny ==
  ASSUME NEW s, IsSequence(s), NEW v
  PROVE  /\ IsSequence(Append(s, v))
         /\ Len(s) \in Nat
         /\ Len(Append(s, v)) = Len(s) + 1
         /\ \A k \in 1 .. Len(s) : Append(s, v)[k] = s[k]
         /\ Append(s, v)[Len(s) + 1] = v
<1>1. PICK S : s \in Seq(S)
  BY DEF IsSequence
<1>2. s \in Seq(S \cup {v}) /\ v \in S \cup {v}
  BY <1>1
<1>3. /\ Append(s, v) \in Seq(S \cup {v})
      /\ Len(Append(s, v)) = Len(s) + 1
      /\ \A k \in 1 .. Len(s) : Append(s, v)[k] = s[k]
      /\ Append(s, v)[Len(s) + 1] = v
  BY <1>2, OneMore
<1> QED BY <1>1, <1>3 DEF IsSequence

(* The length of a sequence of whatever elements *)
LEMMA SequenceLength ==
  ASSUME NEW s, IsSequence(s)
  PROVE  Len(s) \in Nat
<1>1. PICK S : s \in Seq(S)
  BY Zenon DEF IsSequence
<1> QED BY <1>1

-----------------------------------------------------------------------------
(* The fork status that cur_fork_status() returns at each point: CK_NOFORK  *)
(* around the unchecked setups, the status of the runner everywhere else.   *)
FstatInv ==
  /\ sr_fstat \in {"CK_FORK", "CK_NOFORK", "CK_FORK_GETENV"}
  /\ pc = "usetup" => fstat = "CK_NOFORK"
  /\ pc \in {"suite", "tcase", "tfun", "csetup", "test", "cteardown", "receive",
             "reap", "uteardown"} => fstat = srunner_fork_status

ContainInv == IsSequence(calls) /\ FstatInv /\ FailuresContained

(* When a failed assertion goes astray, and when it ends the runner *)
LEMMA OutcomeCases ==
  ASSUME NEW kind, NEW how \in Hows(kind),
         fstat \in {"CK_FORK", "CK_NOFORK"}
  PROVE  /\ Outcome(kind, how) = "lost" => fstat = "CK_NOFORK" /\ jmp' # kind
         /\ Outcome(kind, how) = "exited" => fstat = "CK_FORK" /\ ~InChild
         /\ Outcome(kind, how) \in {"returned", "ended", "exited", "jumped", "lost"}
         /\ Outcome(kind, how) = "jumped" => fstat = "CK_NOFORK"
         /\ Outcome(kind, how) = "ended" => InChild \/ (kind \in MayCrash /\ Forks)
<1>1. /\ how \in {"ok", "fail", "crash"}
      /\ how = "crash" => kind \in MayCrash /\ Forks
  BY DEF Hows
<1>3. CASE how = "ok"
  BY <1>3 DEF Outcome
<1>4. CASE how = "crash"
  BY <1>4, <1>1, Zenon DEF Outcome
<1>5. CASE how = "fail" /\ fstat = "CK_FORK"
  BY <1>5 DEF Outcome
<1>6. CASE how = "fail" /\ fstat = "CK_NOFORK"
  BY <1>6, Zenon DEF Outcome
<1> QED BY <1>1, <1>3, <1>4, <1>5, <1>6, Zenon

(* The last call, once a call has been recorded *)
LEMMA CalledLast ==
  ASSUME IsSequence(calls), NEW kind, NEW how, Called(kind, how)
  PROVE  IsSequence(calls') /\ calls'[Len(calls')].site[3] = kind
<1> DEFINE call == [site |-> Site(kind), how |-> how, forked |-> Forks]
<1>1. calls' = Append(calls, call)
  BY DEF Called
<1>2. /\ IsSequence(calls') /\ Len(calls') = Len(calls) + 1
      /\ calls'[Len(calls) + 1] = call
  <2> HIDE DEF call
  <2> QED BY <1>1, AppendAny, Zenon
<1>3. Site(kind)[3] = kind
  BY Zenon DEF Site
<1> QED BY <1>2, <1>3

(* Each step keeps the fork status right and its failures contained *)
LEMMA NextContained == ContainInv /\ [Next]_vars => ContainInv'
<1> SUFFICES ASSUME ContainInv, [Next]_vars PROVE ContainInv'
  OBVIOUS
<1> USE DEF ContainInv, FstatInv, FailuresContained
<1>m. /\ srunner_fork_status \in {"CK_FORK", "CK_NOFORK"}
      /\ MayCrash \subseteq {"csetup", "cteardown", "test"}
      /\ Forks <=> srunner_fork_status = "CK_FORK"
  BY SRunnerAssumption, Zenon DEF srunner_fork_status, Forks
<1>s. ASSUME sr_fstat' = sr_fstat
      PROVE  srunner_fork_status' = srunner_fork_status
  BY <1>s, Zenon DEF srunner_fork_status
<1>1. ASSUME NEW how \in Hows("usetup"), unchecked_setup_fixture(how)
      PROVE  ContainInv'
  <2>1. /\ pc = "usetup" /\ fstat = "CK_NOFORK" /\ jmp' = "usetup"
        /\ sr_fstat' = sr_fstat
    BY <1>1, Zenon DEF setjmp, unchecked_setup_fixture, setting
  <2>2. IsSequence(calls') /\ calls'[Len(calls')].site[3] = "usetup"
    BY <1>1, CalledLast, Zenon DEF unchecked_setup_fixture
  <2>3. Outcome("usetup", how) \in {"returned", "jumped"}
    <3>1. ~InChild
      BY <2>1, Zenon DEF InChild
    <3> QED BY <2>1, <3>1, <1>m, OutcomeCases, Zenon
  <2>4. \/ pc' = pc /\ fstat' = fstat
        \/ pc' = "tcase" /\ fstat' = srunner_fork_status
    BY <1>1, <2>3, Zenon DEF own_fork_status, unchecked_setup_fixture
  <2> QED BY <2>1, <2>2, <2>4, <1>s, Zenon
<1>2. ASSUME NEW how \in Hows("csetup"), checked_setup_nofork(how)
      PROVE  ContainInv'
  <2>1. /\ pc = "csetup" /\ fstat = "CK_NOFORK" /\ ~Forks
        /\ srunner_fork_status = "CK_NOFORK"
        /\ jmp' = "csetup" /\ fstat' = fstat /\ sr_fstat' = sr_fstat
    BY <1>2, <1>m, Zenon DEF setjmp, checked_setup_nofork, setting
  <2>2. IsSequence(calls') /\ calls'[Len(calls')].site[3] = "csetup"
    BY <1>2, CalledLast, Zenon DEF checked_setup_nofork
  <2>3. Outcome("csetup", how) \in {"returned", "jumped"}
    <3>1. ~InChild
      BY <2>1, Zenon DEF InChild
    <3> QED BY <2>1, <3>1, <1>m, OutcomeCases, Zenon
  <2>4. pc' = pc \/ pc' = "tfun"
    BY <1>2, <2>3, Zenon DEF checked_setup_nofork, TestDone
  <2> QED BY <2>1, <2>2, <2>4, <1>s, Zenon
<1>3. ASSUME NEW kind \in Kinds, NEW how \in Hows(kind), NEW p, NEW next,
             Called(kind, how), ChildGoesOn(kind, how, p, next),
             next \in {"csetup", "cteardown"}, fstat' = fstat, fstat = srunner_fork_status,
             sr_fstat' = sr_fstat
      PROVE  ContainInv'
  <2>1. IsSequence(calls')
    BY <1>3, CalledLast, Zenon
  <2>2. pc' \in {"reap", "csetup", "cteardown"}
    BY <1>3, Zenon DEF ChildGoesOn
  <2> QED BY <1>3, <2>1, <2>2, <1>s, Zenon
<1>4. ASSUME NEW how \in Hows("csetup"), checked_setup_fork(how)
      PROVE  ContainInv'
  BY <1>4, <1>3, Zenon DEF checked_setup_fork, Kinds, setting
<1>5. ASSUME NEW how \in Hows("test"), run_test(how)
      PROVE  ContainInv'
  <2>1. /\ pc = "test" /\ fstat = srunner_fork_status /\ fstat' = fstat
        /\ sr_fstat' = sr_fstat /\ Called("test", how)
    BY <1>5, Zenon DEF run_test, setting
  <2>2. CASE Forks
    BY <2>1, <2>2, <1>3, <1>5, Zenon DEF run_test, Kinds
  <2>3. CASE ~Forks
    <3>1. IsSequence(calls')
      BY <2>1, CalledLast, Zenon
    <3>2. jmp' = "test"
      BY <1>5, <2>3, Zenon DEF setjmp, run_test
    <3>3. ~InChild
      BY <2>3, Zenon DEF InChild
    <3>4. Outcome("test", how) \in {"returned", "jumped"}
      BY <2>1, <2>3, <3>2, <3>3, <1>m, OutcomeCases, Zenon
    <3>5. pc' = "cteardown"
      BY <1>5, <2>3, <3>4, Zenon DEF run_test
    <3> QED BY <2>1, <3>1, <3>5, <1>s, Zenon
  <2> QED BY <2>2, <2>3, <1>m, Zenon
<1>6. ASSUME NEW how \in Hows("cteardown"), checked_teardown_fixture(how)
      PROVE  ContainInv'
  <2>1. /\ pc = "cteardown" /\ fstat = srunner_fork_status /\ fstat' = fstat
        /\ sr_fstat' = sr_fstat /\ Called("cteardown", how)
    BY <1>6, Zenon DEF checked_teardown_fixture, setting
  <2>2. CASE Forks
    BY <2>1, <2>2, <1>3, <1>6, Zenon DEF checked_teardown_fixture, Kinds
  <2>3. CASE ~Forks
    <3>1. IsSequence(calls')
      BY <2>1, CalledLast, Zenon
    <3>2. jmp' = "cteardown"
      BY <1>6, <2>3, Zenon DEF setjmp, checked_teardown_fixture
    <3>3. ~InChild
      BY <2>3, Zenon DEF InChild
    <3>4. Outcome("cteardown", how) \in {"returned", "jumped"}
      BY <2>1, <2>3, <3>2, <3>3, <1>m, OutcomeCases, Zenon
    <3>5. pc' \in {"cteardown", "receive"}
      BY <1>6, <2>1, <2>3, <3>4, Zenon DEF checked_teardown_fixture
    <3> QED BY <2>1, <3>1, <3>5, <1>s, Zenon
  <2> QED BY <2>2, <2>3, <1>m, Zenon
<1>7. ASSUME NEW how \in Hows("uteardown"), unchecked_teardown_fixture(how)
      PROVE  ContainInv'
  <2>1. /\ pc = "uteardown" /\ fstat = srunner_fork_status /\ fstat' = fstat
        /\ sr_fstat' = sr_fstat
        /\ srunner_fork_status = "CK_NOFORK" => jmp' = "uteardown"
    BY <1>7, <1>m, Zenon DEF setjmp, unchecked_teardown_fixture, setting
  <2>2. IsSequence(calls') /\ calls'[Len(calls')].site[3] = "uteardown"
    BY <1>7, CalledLast, Zenon DEF unchecked_teardown_fixture
  <2>3. Outcome("uteardown", how) \in {"returned", "jumped", "exited"}
    <3>1. ~InChild
      BY <2>1, Zenon DEF InChild
    <3> QED BY <2>1, <3>1, <1>m, OutcomeCases
  <2>4. pc' \in {"uteardown", "tcase", "exited"}
    BY <1>7, <2>1, <2>3, Zenon DEF unchecked_teardown_fixture
  <2> QED BY <2>1, <2>2, <2>4, <1>s, Zenon
<1>8. ASSUME srunner_run_tagged PROVE ContainInv'
  <2>1. IsSequence(calls')
    <3>1. << >> \in Seq({})
      OBVIOUS
    <3> QED BY <1>8, <3>1, Zenon DEF srunner_run_tagged, srunner_run_init, IsSequence
  <2>2. srunner_fork_status' = srunner_fork_status /\ sr_fstat' = sr_fstat
    BY <1>8, <1>s, Zenon DEF srunner_run_tagged
  <2> QED BY <1>8, <2>1, <2>2, Zenon
          DEF own_fork_status, srunner_run_tagged, srunner_run_init
<1>9. ASSUME \/ next_suite \/ next_tcase \/ suite_end \/ srunner_run_end
             \/ unchecked_setup_done \/ start_test \/ next_tfun \/ tfuns_done
             \/ checked_setup_done \/ checked_teardown_done \/ receive
             \/ unchecked_teardown_done \/ UNCHANGED vars
      PROVE  ContainInv'
  <2>1. srunner_fork_status' = srunner_fork_status /\ sr_fstat' = sr_fstat
    BY <1>9, <1>s, Zenon DEF next_suite, next_tcase, suite_end, srunner_run_end,
       unchecked_setup_done, start_test, next_tfun, tfuns_done,
       checked_setup_done, checked_teardown_done, receive,
       unchecked_teardown_done, vars, setting
  <2> QED BY <1>9, <2>1, Zenon DEF own_fork_status, next_suite, next_tcase, suite_end, srunner_run_end,
       unchecked_setup_done, start_test, next_tfun, tfuns_done,
       checked_setup_done, checked_teardown_done, receive, TestDone,
       unchecked_teardown_done, vars
<1>10. ASSUME NEW fs \in Settings, srunner_set_fork_status(fs)
       PROVE  ContainInv'
  BY <1>10, SRunnerAssumption, Zenon DEF srunner_set_fork_status
<1> QED BY <1>1, <1>2, <1>4, <1>5, <1>6, <1>7, <1>8, <1>9, <1>10, Zenon DEF Next

(* In every run of every program a failed assertion jumps only to the       *)
(* setjmp() around the function that failed, and ends the runner only from  *)
(* an unchecked teardown.                                                   *)
THEOREM FailuresAlwaysContained == Spec => []FailuresContained
<1>1. Init => ContainInv
  <2>1. << >> \in Seq({})
    OBVIOUS
  <2> QED BY <2>1 DEF Init, ContainInv, FstatInv, FailuresContained, IsSequence
<1>2. ContainInv => FailuresContained
  BY Zenon DEF ContainInv
<1> QED BY <1>1, <1>2, NextContained, PTL DEF Spec

-----------------------------------------------------------------------------
(* The loops follow the plan.                                              *)

(* The cursors of a run *)
Positions == [s : Nat, c : Nat, f : Nat, i : Int, x : Nat]

Lex(a1, a2, a3, a4, b1, b2, b3, b4) ==
  \/ a1 < b1
  \/ a1 = b1 /\ a2 < b2
  \/ a1 = b1 /\ a2 = b2 /\ a3 < b3
  \/ a1 = b1 /\ a2 = b2 /\ a3 = b3 /\ a4 < b4

(* The order of labels, spelled out *)
LEMMA LabelOrder ==
  ASSUME NEW a1 \in Int, NEW a2 \in Int, NEW a3 \in Int, NEW a4 \in Int,
         NEW b1 \in Int, NEW b2 \in Int, NEW b3 \in Int, NEW b4 \in Int
  PROVE  LabelBefore(<<a1, a2, a3, a4>>, <<b1, b2, b3, b4>>) <=>
           Lex(a1, a2, a3, a4, b1, b2, b3, b4)
<1> DEFINE a == <<a1, a2, a3, a4>>
           b == <<b1, b2, b3, b4>>
           P(k) == a[k] < b[k] /\ \A j \in 1 .. k - 1 : a[j] = b[j]
<1>0. /\ a[1] = a1 /\ a[2] = a2 /\ a[3] = a3 /\ a[4] = a4
      /\ b[1] = b1 /\ b[2] = b2 /\ b[3] = b3 /\ b[4] = b4
  BY Zenon
<1>1. P(1) <=> a1 < b1
  BY <1>0
<1>2. P(2) <=> a1 = b1 /\ a2 < b2
  <2>1. 1 .. 2 - 1 = {1}
    OBVIOUS
  <2> HIDE DEF a, b
  <2> QED BY <1>0, <2>1, Zenon
<1>3. P(3) <=> a1 = b1 /\ a2 = b2 /\ a3 < b3
  <2>1. 1 .. 3 - 1 = {1, 2}
    OBVIOUS
  <2> HIDE DEF a, b
  <2> QED BY <1>0, <2>1, Zenon
<1>4. P(4) <=> a1 = b1 /\ a2 = b2 /\ a3 = b3 /\ a4 < b4
  <2>1. 1 .. 4 - 1 = {1, 2, 3}
    OBVIOUS
  <2> HIDE DEF a, b
  <2> QED BY <1>0, <2>1, Zenon
<1>5. LabelBefore(a, b) <=> P(1) \/ P(2) \/ P(3) \/ P(4)
  <2>1. 1 .. 4 = {1, 2, 3, 4}
    OBVIOUS
  <2>2. LabelBefore(a, b) <=> \E k \in 1 .. 4 : P(k)
    BY Zenon DEF LabelBefore
  <2> HIDE DEF P, a, b
  <2> QED BY <2>1, <2>2, Zenon
<1> QED BY <1>1, <1>2, <1>3, <1>4, <1>5, Zenon DEF Lex

(* What the cursors of srunner_iterate_suites() and                        *)
(* srunner_iterate_tcase_tfuns() are at each point of a run.               *)
InCase == {"usetup", "tfun", "csetup", "test", "cteardown", "receive", "reap",
           "uteardown"}
InTest == {"csetup", "test", "cteardown", "receive", "reap"}

PosInv ==
  /\ pos \in Positions
  /\ pc # "idle" => sel \in Selections
  /\ pc = "suite" => pos.s >= 1 /\ pos.c = 0
  /\ pc \in {"suite", "tcase", "usetup"} => pos.f = 0 /\ pos.i = 0
  /\ pc \in InCase \cup {"tcase"} => /\ pos.s \in 1 .. Len(Program)
                                    /\ SuiteSelected(pos.s, sel)
                                    /\ pos.c >= 1
  /\ pc \in InCase => /\ pos.c <= Len(Suite(pos).tcases)
                      /\ TCaseSelected(TCase(pos), sel)
  /\ pc = "tfun" => /\ pos.f >= 1
                    /\ pos.f <= Len(TCase(pos).tests) => pos.i >= TCase(pos).tests[pos.f].lo
  /\ pc = "uteardown" => pos.f > Len(TCase(pos).tests)
  /\ pc \in InTest => /\ pos.f \in 1 .. Len(TCase(pos).tests)
                      /\ pos.i \in TCase(pos).tests[pos.f].lo .. TCase(pos).tests[pos.f].hi - 1

(* A step inside a test: it stays with the iteration, or it adds the result *)
(* of the iteration.                                                        *)
InTestStep ==
  /\ pc \in InTest /\ sel' = sel
  /\ \/ /\ pc' \in InTest \cup {"ended", "exited", "lost"}
        /\ \E n \in Nat : pos' = [pos EXCEPT !.x = n]
        /\ UNCHANGED resultlst
     \/ \E tr : tr.label = Label(pos) /\ TestDone(tr)

(* The outcomes of a call, whatever the point of the run *)
LEMMA Outcomes ==
  ASSUME FstatInv, NEW kind, NEW how \in Hows(kind), pc \in InCase
  PROVE  Outcome(kind, how) \in {"returned", "ended", "exited", "jumped", "lost"}
<1>1. fstat \in {"CK_FORK", "CK_NOFORK"}
  BY Zenon DEF FstatInv, srunner_fork_status, InCase
<1> QED BY <1>1, OutcomeCases, Zenon

(* The results that are received are about the current iteration *)
LEMMA ResultLabels ==
  /\ \A msgs, tname : receive_result_info_nofork(msgs, tname).label = Label(pos)
  /\ receive_result_info_fork.label = Label(pos)
BY Zenon DEF receive_result_info_nofork, receive_result_info_fork

(* The steps of the two ways to run an iteration are of that kind *)
LEMMA InTestSteps ==
  ASSUME PosInv, FstatInv,
         \/ \E how \in Hows("csetup") : checked_setup_nofork(how) \/ checked_setup_fork(how)
         \/ checked_setup_done
         \/ \E how \in Hows("test") : run_test(how)
         \/ \E how \in Hows("cteardown") : checked_teardown_fixture(how)
         \/ checked_teardown_done \/ receive
  PROVE  InTestStep
<1>0. /\ pos = [pos EXCEPT !.x = pos.x] /\ pos.x \in Nat /\ pos.x + 1 \in Nat
      /\ NextFixture(pos) = [pos EXCEPT !.x = pos.x + 1]
  BY DEF PosInv, Positions, NextFixture
<1>1. ASSUME NEW how \in Hows("csetup"), checked_setup_nofork(how) PROVE InTestStep
  <2>0. pc = "csetup" /\ sel' = sel
    BY <1>1, Zenon DEF checked_setup_nofork, setting
  <2>1. Outcome("csetup", how) \in {"returned", "ended", "exited", "jumped", "lost"}
    BY <2>0, Outcomes, Zenon DEF InCase
  <2>2. CASE Outcome("csetup", how) \in {"returned", "jumped"}
    <3>1. PICK msgs : \E tr \in {receive_result_info_nofork(msgs, "checked_setup")} :
                IF tr.rtype = "CK_PASS"
                THEN pos' = NextFixture(pos) /\ UNCHANGED <<pc, results, log>>
                ELSE TestDone(tr)
      BY <1>1, <2>2, Zenon DEF checked_setup_nofork
    <3>2. \/ pos' = NextFixture(pos) /\ UNCHANGED <<pc, results, log>>
          \/ \E tr : tr.label = Label(pos) /\ TestDone(tr)
      BY <3>1, ResultLabels, Zenon
    <3> QED BY <3>2, <2>0, <1>0, Zenon DEF InTestStep, InTest, results
  <2>3. CASE Outcome("csetup", how) \notin {"returned", "jumped"}
    <3>1. pc' = Outcome("csetup", how) /\ UNCHANGED <<pos, resultlst>>
      BY <1>1, <2>3, Zenon DEF checked_setup_nofork, results
    <3> QED BY <3>1, <2>0, <2>1, <2>3, <1>0, Zenon DEF InTestStep, InTest
  <2> QED BY <2>2, <2>3, Zenon
<1>2. ASSUME NEW kind, NEW how, NEW n \in Nat, NEW next \in InTest, pc \in InTest,
             ChildGoesOn(kind, how, [pos EXCEPT !.x = n], next), sel' = sel,
             UNCHANGED resultlst
      PROVE  InTestStep
  <2>1. \/ pc' = "reap" /\ pos' = pos
        \/ pc' = next /\ pos' = [pos EXCEPT !.x = n]
    BY <1>2, Zenon DEF ChildGoesOn
  <2> QED BY <1>0, <1>2, <2>1, Zenon DEF InTestStep, InTest
<1>3. ASSUME NEW how \in Hows("csetup"), checked_setup_fork(how) PROVE InTestStep
  <2>1. /\ pc = "csetup" /\ sel' = sel /\ UNCHANGED resultlst
        /\ ChildGoesOn("csetup", how, [pos EXCEPT !.x = pos.x + 1], "csetup")
    BY <1>3, <1>0, Zenon DEF checked_setup_fork, setting, results
  <2> QED BY <2>1, <1>0, <1>2, Zenon DEF InTest
<1>4. ASSUME NEW how \in Hows("test"), run_test(how) PROVE InTestStep
  <2>1. /\ pc = "test" /\ sel' = sel /\ UNCHANGED resultlst
        /\ IF Forks
           THEN ChildGoesOn("test", how, [pos EXCEPT !.x = 1], "cteardown")
           ELSE IF Outcome("test", how) \in {"returned", "jumped"}
                THEN pos' = [pos EXCEPT !.x = 1] /\ pc' = "cteardown"
                ELSE pc' = Outcome("test", how) /\ UNCHANGED pos
    BY <1>4, Zenon DEF run_test, setting, results
  <2>2. Outcome("test", how) \in {"returned", "ended", "exited", "jumped", "lost"}
    BY <2>1, Outcomes, Zenon DEF InCase
  <2>3. CASE Forks
    BY <2>1, <2>3, <1>2, Zenon DEF InTest
  <2>4. CASE ~Forks
    BY <2>1, <2>2, <2>4, <1>0, Zenon DEF InTestStep, InTest
  <2> QED BY <2>3, <2>4, Zenon
<1>5. ASSUME NEW how \in Hows("cteardown"), checked_teardown_fixture(how) PROVE InTestStep
  <2>1. /\ pc = "cteardown" /\ sel' = sel /\ UNCHANGED resultlst
        /\ IF Forks
           THEN ChildGoesOn("cteardown", how, NextFixture(pos), "cteardown")
           ELSE CASE Outcome("cteardown", how) = "returned" ->
                       pos' = NextFixture(pos) /\ UNCHANGED pc
                  [] Outcome("cteardown", how) = "jumped" ->
                       pc' = "receive" /\ UNCHANGED pos
                  [] OTHER -> pc' = Outcome("cteardown", how) /\ UNCHANGED pos
    BY <1>5, Zenon DEF checked_teardown_fixture, setting, results
  <2>2. Outcome("cteardown", how) \in {"returned", "ended", "exited", "jumped", "lost"}
    BY <2>1, Outcomes, Zenon DEF InCase
  <2>3. CASE Forks
    BY <2>1, <2>3, <1>0, <1>2 DEF InTest
  <2>4. CASE ~Forks
    BY <2>1, <2>2, <2>4, <1>0, Zenon DEF InTestStep, InTest
  <2> QED BY <2>3, <2>4, Zenon
<1>6. ASSUME checked_setup_done \/ checked_teardown_done PROVE InTestStep
  <2>1. /\ pc \in InTest /\ pc' \in InTest /\ UNCHANGED <<pos, sel, resultlst>>
    BY <1>6, Zenon DEF checked_setup_done, checked_teardown_done, setting, results, InTest
  <2> QED BY <2>1, <1>0, Zenon DEF InTestStep
<1>7. ASSUME receive PROVE InTestStep
  <2>1. /\ pc \in InTest /\ sel' = sel
        /\ \E tr \in {IF pc = "reap" THEN receive_result_info_fork
                      ELSE receive_result_info_nofork(pipe, "test")} : TestDone(tr)
    BY <1>7, Zenon DEF receive, setting, InTest
  <2>2. (IF pc = "reap" THEN receive_result_info_fork
         ELSE receive_result_info_nofork(pipe, "test")).label = Label(pos)
    BY ResultLabels, Zenon
  <2> QED BY <2>1, <2>2, Zenon DEF InTestStep
<1> QED BY <1>1, <1>3, <1>4, <1>5, <1>6, <1>7, Zenon

(* The positions that the loops move to *)
LEMMA PositionsMove ==
  /\ \A s \in Nat : /\ AtSuite(s) \in Positions
                    /\ Label(AtSuite(s)) = <<s, 0, 0, 0>>
                    /\ AtSuite(s).s = s /\ AtSuite(s).c = 0
                    /\ AtSuite(s).f = 0 /\ AtSuite(s).i = 0
  /\ \A p \in Positions :
       /\ NextFixture(p) \in Positions
       /\ NextFixture(p).s = p.s /\ NextFixture(p).c = p.c
       /\ NextFixture(p).f = p.f /\ NextFixture(p).i = p.i
       /\ NextTCase(p) \in Positions
       /\ NextTCase(p).s = p.s /\ NextTCase(p).c = p.c + 1
       /\ NextTCase(p).f = 0 /\ NextTCase(p).i = 0
BY DEF AtSuite, NextFixture, NextTCase, Positions, Label

(* The first iteration of the next test *)
LEMMA AtTestMoves ==
  ASSUME NEW p \in Positions, NEW f \in Nat, f >= 1,
         p.s \in 1 .. Len(Program), p.c \in 1 .. Len(Suite(p).tcases)
  PROVE  /\ AtTest(p, f) \in Positions
         /\ AtTest(p, f).s = p.s /\ AtTest(p, f).c = p.c /\ AtTest(p, f).f = f
         /\ f <= Len(TCase(p).tests) => AtTest(p, f).i = TCase(p).tests[f].lo
         /\ Len(TCase(p).tests) \in Nat
<1>1. /\ Len(TCase(p).tests) \in Nat
      /\ \A g \in 1 .. Len(TCase(p).tests) : TCase(p).tests[g].lo \in Int
  BY ProgramAssumption, Zenon DEF TCase, Suite
<1> DEFINE i == IF f <= Len(TCase(p).tests) THEN TCase(p).tests[f].lo ELSE 0
<1>2. i \in Int
  BY <1>1
<1>3. AtTest(p, f) = [p EXCEPT !.f = f, !.x = 0, !.i = i]
  BY DEF AtTest
<1> HIDE DEF i
<1>4. /\ AtTest(p, f) \in Positions
      /\ AtTest(p, f).s = p.s /\ AtTest(p, f).c = p.c /\ AtTest(p, f).f = f
      /\ AtTest(p, f).i = i
  <2> DEFINE q == [p EXCEPT !.f = f]
             r == [q EXCEPT !.x = 0]
  <2>1. q \in Positions /\ q.s = p.s /\ q.c = p.c /\ q.f = f
    BY Zenon DEF Positions
  <2> HIDE DEF q
  <2>2. r \in Positions /\ r.s = p.s /\ r.c = p.c /\ r.f = f
    BY <2>1, Zenon DEF Positions
  <2> HIDE DEF r
  <2>3. AtTest(p, f) = [r EXCEPT !.i = i]
    BY <1>3, Zenon DEF q, r
  <2> QED BY <1>2, <2>2, <2>3, Zenon DEF Positions
<1> QED BY <1>1, <1>4, Zenon DEF i

(* The lists of the case at a position *)
LEMMA CaseLists ==
  ASSUME NEW p \in Positions, p.s \in 1 .. Len(Program),
         p.c \in 1 .. Len(Suite(p).tcases)
  PROVE  /\ Len(TCase(p).tests) \in Nat
         /\ \A f \in 1 .. Len(TCase(p).tests) :
              TCase(p).tests[f].lo \in Int /\ TCase(p).tests[f].hi \in Int
         /\ {TCase(p).usetup, TCase(p).uteardown, TCase(p).csetup, TCase(p).cteardown}
              \subseteq Nat
BY ProgramAssumption, Zenon DEF TCase, Suite

(* Steps that stay with the case and the label of the position *)
LEMMA SameCasePos ==
  ASSUME NEW p \in Positions, NEW q \in Positions, q.s = p.s, q.c = p.c
  PROVE  Suite(q) = Suite(p) /\ TCase(q) = TCase(p)
BY DEF Suite, TCase

(* A failed unchecked setup adds its result and leaves the case *)
SetupFails ==
  /\ \E tr : tr.label = Label(pos) /\ srunner_add_failure(tr)
  /\ pos' = NextTCase(pos) /\ pc' = "tcase"

(* What an unchecked setup fixture does to the cursors *)
LEMMA SetupFixtureMoves ==
  ASSUME FstatInv, NEW how \in Hows("usetup"), unchecked_setup_fixture(how)
  PROVE  /\ pc = "usetup" /\ sel' = sel
         /\ \/ pos' = NextFixture(pos) /\ UNCHANGED <<pc, resultlst>>
            \/ SetupFails
            \/ pc' \in {"ended", "exited", "lost"} /\ UNCHANGED <<pos, resultlst>>
<1>0. pc = "usetup" /\ sel' = sel
  BY Zenon DEF unchecked_setup_fixture, setting
<1>1. Outcome("usetup", how) \in {"returned", "ended", "exited", "jumped", "lost"}
  BY <1>0, Outcomes, Zenon DEF InCase
<1>2. CASE Outcome("usetup", how) \in {"returned", "jumped"}
  <2>1. PICK msgs : \E tr \in {receive_result_info_nofork(msgs, "unchecked_setup")} :
              IF tr.rtype = "CK_PASS"
              THEN pos' = NextFixture(pos) /\ UNCHANGED <<pc, fstat, results>>
              ELSE srunner_add_failure(tr) /\ pos' = NextTCase(pos) /\ pc' = "tcase"
    BY <1>2, Zenon DEF unchecked_setup_fixture
  <2> QED BY <2>1, <1>0, ResultLabels, Zenon DEF results, SetupFails
<1>3. CASE Outcome("usetup", how) \notin {"returned", "jumped"}
  <2>1. pc' = Outcome("usetup", how) /\ UNCHANGED <<pos, resultlst>>
    BY <1>3, Zenon DEF unchecked_setup_fixture, results
  <2> QED BY <2>1, <1>0, <1>1, <1>3, Zenon
<1> QED BY <1>2, <1>3, Zenon

(* What an unchecked teardown fixture does to the cursors *)
LEMMA TeardownFixtureMoves ==
  ASSUME FstatInv, NEW how \in Hows("uteardown"), unchecked_teardown_fixture(how)
  PROVE  /\ pc = "uteardown" /\ UNCHANGED <<sel, resultlst>>
         /\ \/ pos' = NextFixture(pos) /\ UNCHANGED pc
            \/ pos' = NextTCase(pos) /\ pc' = "tcase"
            \/ pc' \in {"ended", "exited", "lost"} /\ UNCHANGED pos
<1>0. pc = "uteardown" /\ UNCHANGED <<sel, resultlst>>
  BY Zenon DEF unchecked_teardown_fixture, setting, results
<1>1. Outcome("uteardown", how) \in {"returned", "ended", "exited", "jumped", "lost"}
  BY <1>0, Outcomes, Zenon DEF InCase
<1>2. /\ CASE Outcome("uteardown", how) = "returned" ->
                pos' = NextFixture(pos) /\ UNCHANGED pc
           [] Outcome("uteardown", how) = "jumped" ->
                pos' = NextTCase(pos) /\ pc' = "tcase"
           [] OTHER -> pc' = Outcome("uteardown", how) /\ UNCHANGED pos
  BY Zenon DEF unchecked_teardown_fixture
<1> QED BY <1>0, <1>1, <1>2, Zenon

(* Each step moves the cursors as the loops of the code do *)
LEMMA PosStep ==
  ASSUME PosInv, FstatInv, [Next]_vars
  PROVE  PosInv'
<1> USE DEF InCase, InTest
<1>0. pos \in Positions /\ Len(Program) \in Nat
  BY ProgramAssumption, Zenon DEF PosInv
<1>n. /\ pos.s \in Nat /\ pos.c \in Nat /\ pos.f \in Nat /\ pos.i \in Int /\ pos.x \in Nat
      /\ 1 \in Nat /\ pos.s + 1 \in Nat
  BY <1>0 DEF Positions
<1>s. \A q \in Positions : q.s = pos.s /\ q.c = pos.c => Suite(q) = Suite(pos) /\ TCase(q) = TCase(pos)
  BY <1>0, SameCasePos, Zenon
<1>i. pc \in InCase => /\ Len(TCase(pos).tests) \in Nat
                      /\ \A f \in 1 .. Len(TCase(pos).tests) :
                           TCase(pos).tests[f].lo \in Int /\ TCase(pos).tests[f].hi \in Int
  <2> SUFFICES ASSUME pc \in InCase
               PROVE  /\ Len(TCase(pos).tests) \in Nat
                      /\ \A f \in 1 .. Len(TCase(pos).tests) :
                           TCase(pos).tests[f].lo \in Int /\ TCase(pos).tests[f].hi \in Int
    BY Zenon
  <2>1. pos.s \in 1 .. Len(Program) /\ pos.c \in 1 .. Len(Suite(pos).tcases)
    BY <1>n, ProgramAssumption, SMTT(30) DEF PosInv, Suite
  <2> QED BY <2>1, <1>0, CaseLists, Zenon
<1>1. ASSUME NEW fs \in Settings, srunner_set_fork_status(fs) PROVE PosInv'
  BY <1>1, <1>0, Zenon DEF srunner_set_fork_status, PosInv
<1>2. ASSUME srunner_run_tagged PROVE PosInv'
  <2>1. pos' = AtSuite(1) /\ pc' = "suite" /\ sel' \in Selections
    BY <1>2, Zenon DEF srunner_run_tagged
  <2> QED BY <2>1, PositionsMove DEF PosInv
<1>3. ASSUME next_suite PROVE PosInv'
  <2>1. CASE SuiteSelected(pos.s, sel)
    <3>1. /\ pc = "suite" /\ pos.s <= Len(Program) /\ sel' = sel
          /\ pos' = NextTCase(pos) /\ pc' = "tcase"
      BY <1>3, <2>1, Zenon DEF next_suite, setting
    <3> QED BY <2>1, <3>1, <1>0, <1>n, PositionsMove, SMTT(30) DEF PosInv
  <2>2. CASE ~SuiteSelected(pos.s, sel)
    <3>1. pc = "suite" /\ sel' = sel /\ pos' = AtSuite(pos.s + 1) /\ pc' = pc
      BY <1>3, <2>2, Zenon DEF next_suite, setting
    <3> QED BY <3>1, <1>n, PositionsMove DEF PosInv
  <2> QED BY <2>1, <2>2, Zenon
<1>4. ASSUME next_tcase PROVE PosInv'
  <2>1. CASE TCaseSelected(TCase(pos), sel)
    <3>1. /\ pc = "tcase" /\ pos.c <= Len(Suite(pos).tcases) /\ sel' = sel
          /\ pos' = NextFixture(pos) /\ pc' = "usetup"
      BY <1>4, <2>1 DEF next_tcase, setting
    <3>2. pos' \in Positions /\ Suite(pos') = Suite(pos) /\ TCase(pos') = TCase(pos)
      BY <3>1, <1>0, <1>s, PositionsMove, Zenon
    <3> QED BY <2>1, <3>1, <3>2, <1>0, <1>n, PositionsMove, Zenon DEF PosInv
  <2>2. CASE ~TCaseSelected(TCase(pos), sel)
    <3>1. pc = "tcase" /\ sel' = sel /\ pos' = NextTCase(pos) /\ pc' = pc
      BY <1>4, <2>2 DEF next_tcase, setting
    <3> QED BY <3>1, <1>0, <1>n, PositionsMove, SMTT(30) DEF PosInv
  <2> QED BY <2>1, <2>2, Zenon
<1>5. ASSUME suite_end PROVE PosInv'
  <2>1. pc = "tcase" /\ sel' = sel /\ pos' = AtSuite(pos.s + 1) /\ pc' = "suite"
    BY <1>5, Zenon DEF suite_end, setting
  <2> QED BY <2>1, <1>n, PositionsMove, SMTT(30) DEF PosInv
<1>6. ASSUME srunner_run_end PROVE PosInv'
  BY <1>6, <1>0, Zenon DEF srunner_run_end, PosInv
<1>x. ASSUME pos' = NextFixture(pos), UNCHANGED <<pc, sel>> PROVE PosInv'
  <2>1. /\ pos' \in Positions /\ Suite(pos') = Suite(pos) /\ TCase(pos') = TCase(pos)
        /\ pos'.s = pos.s /\ pos'.c = pos.c /\ pos'.f = pos.f /\ pos'.i = pos.i
    BY <1>x, <1>0, <1>s, PositionsMove, Zenon
  <2> QED BY <2>1, <1>x, Zenon DEF PosInv
<1>y. ASSUME pc \in InCase, pos' = NextTCase(pos), pc' = "tcase", sel' = sel PROVE PosInv'
  BY <1>y, <1>0, <1>n, PositionsMove, SMTT(30) DEF PosInv
<1>z. ASSUME pc # "idle", pos' = pos, sel' = sel, pc' \in {"ended", "exited", "lost"} PROVE PosInv'
  BY <1>z DEF PosInv
<1>7. ASSUME NEW how \in Hows("usetup"), unchecked_setup_fixture(how) PROVE PosInv'
  <2>1. /\ pc = "usetup" /\ sel' = sel
        /\ \/ pos' = NextFixture(pos) /\ UNCHANGED pc
           \/ pos' = NextTCase(pos) /\ pc' = "tcase"
           \/ pc' \in {"ended", "exited", "lost"} /\ UNCHANGED pos
    BY <1>7, SetupFixtureMoves, Zenon DEF SetupFails
  <2> QED BY <2>1, <1>x, <1>y, <1>z
<1>8. ASSUME NEW how \in Hows("uteardown"), unchecked_teardown_fixture(how) PROVE PosInv'
  <2>1. /\ pc = "uteardown" /\ sel' = sel
        /\ \/ pos' = NextFixture(pos) /\ UNCHANGED pc
           \/ pos' = NextTCase(pos) /\ pc' = "tcase"
           \/ pc' \in {"ended", "exited", "lost"} /\ UNCHANGED pos
    BY <1>8, TeardownFixtureMoves, Zenon
  <2> QED BY <2>1, <1>x, <1>y, <1>z, Zenon
<1>9. ASSUME unchecked_teardown_done PROVE PosInv'
  <2>1. pc = "uteardown" /\ pos' = NextTCase(pos) /\ pc' = "tcase" /\ sel' = sel
    BY <1>9, Zenon DEF unchecked_teardown_done, setting
  <2> QED BY <2>1, <1>y, Zenon
<1>10. ASSUME NEW f \in Nat, f >= 1, pc \in {"usetup", "tfun"}, sel' = sel,
              pos' = AtTest(pos, f), pc' = "tfun"
       PROVE  PosInv'
  <2>1. pos.s \in 1 .. Len(Program) /\ pos.c \in 1 .. Len(Suite(pos).tcases)
    BY <1>10, <1>n, ProgramAssumption, SMTT(30) DEF PosInv, Suite
  <2>2. /\ pos' \in Positions /\ Len(TCase(pos).tests) \in Nat
        /\ pos'.s = pos.s /\ pos'.c = pos.c /\ pos'.f = f
        /\ f <= Len(TCase(pos).tests) => pos'.i = TCase(pos).tests[f].lo
    BY <1>0, <1>10, <2>1, AtTestMoves, Zenon
  <2>3. Suite(pos') = Suite(pos) /\ TCase(pos') = TCase(pos)
    BY <2>2, <1>s, Zenon
  <2>4. f <= Len(TCase(pos).tests) => f \in 1 .. Len(TCase(pos).tests)
    BY <2>2, <1>10
  <2> QED BY <1>10, <2>1, <2>2, <2>3, <2>4, <1>i, SMTT(30) DEF PosInv
<1>11. ASSUME unchecked_setup_done PROVE PosInv'
  <2>1. pc = "usetup" /\ sel' = sel /\ pos' = AtTest(pos, 1) /\ pc' = "tfun"
    BY <1>11, Zenon DEF unchecked_setup_done, setting
  <2> QED BY <2>1, <1>n, <1>10
<1>12. ASSUME next_tfun PROVE PosInv'
  <2>1. pc = "tfun" /\ sel' = sel /\ pos' = AtTest(pos, pos.f + 1) /\ pc' = "tfun"
    BY <1>12, Zenon DEF next_tfun, setting
  <2> QED BY <2>1, <1>n, <1>10
<1>13. ASSUME start_test \/ tfuns_done PROVE PosInv'
  <2>1. /\ pc = "tfun" /\ sel' = sel /\ pos' = NextFixture(pos)
        /\ \/ pc' = "uteardown" /\ pos.f > Len(TCase(pos).tests)
           \/ /\ pc' = "csetup" /\ pos.f <= Len(TCase(pos).tests)
              /\ pos.i < TCase(pos).tests[pos.f].hi
    BY <1>13, Zenon DEF start_test, tfuns_done, setting
  <2>2. /\ pos' \in Positions /\ Suite(pos') = Suite(pos) /\ TCase(pos') = TCase(pos)
        /\ pos'.s = pos.s /\ pos'.c = pos.c /\ pos'.f = pos.f /\ pos'.i = pos.i
    BY <2>1, <1>0, <1>s, PositionsMove, Zenon
  <2> QED BY <2>1, <2>2, <1>n, <1>i, SMTT(30) DEF PosInv
<1>14. ASSUME InTestStep PROVE PosInv'
  <2>1. pc \in InTest /\ sel' = sel
    BY <1>14, Zenon DEF InTestStep
  <2>2. CASE /\ pc' \in InTest \cup {"ended", "exited", "lost"}
             /\ \E n \in Nat : pos' = [pos EXCEPT !.x = n]
    <3>1. /\ pos' \in Positions
          /\ pos'.s = pos.s /\ pos'.c = pos.c /\ pos'.f = pos.f /\ pos'.i = pos.i
      BY <2>2, <1>0, Zenon DEF Positions
    <3> QED BY <2>1, <2>2, <3>1, <1>s, Zenon DEF PosInv
  <2>3. CASE \E tr : TestDone(tr)
    <3>1. pos' = [pos EXCEPT !.i = @ + 1, !.x = 0] /\ pc' = "tfun"
      BY <2>3, Zenon DEF TestDone
    <3>2. /\ pos' \in Positions
          /\ pos'.s = pos.s /\ pos'.c = pos.c /\ pos'.f = pos.f /\ pos'.i = pos.i + 1
      <4> DEFINE q == [pos EXCEPT !.i = pos.i + 1]
      <4>1. q \in Positions /\ q.s = pos.s /\ q.c = pos.c /\ q.f = pos.f /\ q.i = pos.i + 1
        BY <1>0, <1>n DEF Positions
      <4>2. pos' = [q EXCEPT !.x = 0]
        BY <3>1, Zenon
      <4> HIDE DEF q
      <4> QED BY <4>1, <4>2, Zenon DEF Positions
    <3>3. Suite(pos') = Suite(pos) /\ TCase(pos') = TCase(pos)
      BY <3>2, <1>s, Zenon
    <3>4. /\ pos.f \in 1 .. Len(TCase(pos).tests) /\ TCase(pos).tests[pos.f].lo \in Int
          /\ TCase(pos).tests[pos.f].hi \in Int
          /\ pos.i \in TCase(pos).tests[pos.f].lo .. TCase(pos).tests[pos.f].hi - 1
      BY <2>1, <1>i, Zenon DEF PosInv
    <3>5. pos'.i >= TCase(pos).tests[pos.f].lo
      BY <3>2, <3>4, <1>n, SMTT(30)
    <3>6. pos.f >= 1
      BY <3>4, <1>n
    <3> QED BY <2>1, <3>1, <3>2, <3>3, <3>5, <3>6, Zenon DEF PosInv
  <2> QED BY <1>14, <2>2, <2>3, Zenon DEF InTestStep
<1>15. ASSUME UNCHANGED vars PROVE PosInv'
  BY <1>15, Zenon DEF vars, PosInv
<1> QED BY <1>1, <1>2, <1>3, <1>4, <1>5, <1>6, <1>7, <1>8, <1>9, <1>11, <1>12,
           <1>13, <1>14, <1>15, InTestSteps, Zenon DEF Next

(* A runner starts idle *)
LEMMA PosInit == Init => PosInv /\ ContainInv
<1> SUFFICES ASSUME Init PROVE PosInv /\ ContainInv
  OBVIOUS
<1>1. << >> \in Seq({})
  OBVIOUS
<1>2. ContainInv
  BY <1>1, Zenon DEF Init, ContainInv, FstatInv, FailuresContained, IsSequence
<1>3. pos = AtSuite(0) /\ pc = "idle" /\ 0 \in Nat
  BY Zenon DEF Init
<1>4. pos \in Positions
  BY <1>3, PositionsMove, Zenon
<1>5. PosInv
  BY <1>3, <1>4, Zenon DEF PosInv, InCase, InTest
<1> QED BY <1>2, <1>5, Zenon

-----------------------------------------------------------------------------
(* What is reported about whom.                                            *)

(* The points at which the functions of a group are called, or were *)
InGroup == {"usetup", "uteardown"} \cup InTest \cup {"ended", "exited", "lost"}

CallRecs == [site : Sites, how : {"ok", "fail", "crash"}, forked : BOOLEAN]
RunMsgs == Messages(Sites \cup Labels, Sites)

(* The calls and the results of a run are about labels the run has reached: *)
(* those of the current group, or earlier ones.                             *)
OrderInv ==
  /\ run \in Nat /\ pipe \in Seq(RunMsgs) /\ calls \in Seq(CallRecs)
  /\ IsSequence(resultlst)
  /\ \A k \in 1 .. Len(resultlst) :
       /\ resultlst[k].run \in Nat /\ resultlst[k].run <= run
       /\ resultlst[k].run = run => resultlst[k].label \in Labels
  /\ pc # "idle" =>
       /\ \A k \in 1 .. Len(resultlst) :
            resultlst[k].run = run => LabelBefore(resultlst[k].label, Label(pos))
       /\ \A k \in 1 .. Len(calls) :
            \/ LabelBefore(calls[k].site[2], Label(pos))
            \/ calls[k].site[2] = Label(pos) /\ pc \in InGroup

(* The order of labels is a strict order *)
LEMMA LabelsOrdered ==
  /\ \A a \in Labels : ~LabelBefore(a, a)
  /\ \A a, b, c \in Labels : LabelBefore(a, b) /\ LabelBefore(b, c) => LabelBefore(a, c)
<1>0. \A a \in Labels : /\ a = <<a[1], a[2], a[3], a[4]>>
                        /\ a[1] \in Int /\ a[2] \in Int /\ a[3] \in Int /\ a[4] \in Int
  BY DEF Labels
<1>1. ASSUME NEW a \in Labels, NEW b \in Labels
      PROVE  LabelBefore(a, b) <=> Lex(a[1], a[2], a[3], a[4], b[1], b[2], b[3], b[4])
  <2>1. LabelBefore(<<a[1], a[2], a[3], a[4]>>, <<b[1], b[2], b[3], b[4]>>) <=>
          Lex(a[1], a[2], a[3], a[4], b[1], b[2], b[3], b[4])
    BY <1>0, LabelOrder, Zenon
  <2>2. a = <<a[1], a[2], a[3], a[4]>> /\ b = <<b[1], b[2], b[3], b[4]>>
    BY <1>0, Zenon
  <2> QED BY <2>1, <2>2, Zenon
<1>2. ASSUME NEW a \in Labels PROVE ~LabelBefore(a, a)
  BY <1>0, <1>1, <1>2 DEF Lex
<1>3. ASSUME NEW a \in Labels, NEW b \in Labels, NEW c \in Labels,
             LabelBefore(a, b), LabelBefore(b, c)
      PROVE  LabelBefore(a, c)
  BY <1>0, <1>1, <1>3 DEF Lex
<1> QED BY <1>2, <1>3, Zenon

(* The label of a position *)
LEMMA LabelOfPosition ==
  ASSUME NEW p \in Positions
  PROVE  Label(p) \in Labels
BY DEF Positions, Label, Labels

(* Moving forward *)
LEMMA LabelMoves ==
  ASSUME NEW p \in Positions, NEW q \in Positions,
         Lex(p.s, p.c, p.f, p.i, q.s, q.c, q.f, q.i)
  PROVE  LabelBefore(Label(p), Label(q))
<1>1. /\ p.s \in Int /\ p.c \in Int /\ p.f \in Int /\ p.i \in Int
      /\ q.s \in Int /\ q.c \in Int /\ q.f \in Int /\ q.i \in Int
  BY DEF Positions
<1> QED BY <1>1, LabelOrder, Zenon DEF Label

(* The calls of history cs under label l, those of them that did not pass,  *)
(* and the first of these.                                                  *)
CallsIn(cs, l) == {k \in 1 .. Len(cs) : cs[k].site[2] = l}
BadIn(cs, l) == {k \in CallsIn(cs, l) : cs[k].how # "ok"}
FirstIn(cs, l) == cs[FirstOf(BadIn(cs, l))]

(* A call more in a history *)
LEMMA CallsGrow ==
  ASSUME NEW cs \in Seq(CallRecs), NEW c \in CallRecs
  PROVE  /\ Append(cs, c) \in Seq(CallRecs)
         /\ Len(cs) \in Nat /\ Len(Append(cs, c)) = Len(cs) + 1
         /\ \A k \in 1 .. Len(cs) : Append(cs, c)[k] = cs[k]
         /\ Append(cs, c)[Len(cs) + 1] = c
         /\ \A l : CallsIn(Append(cs, c), l) =
                     CallsIn(cs, l) \cup (IF c.site[2] = l THEN {Len(cs) + 1} ELSE {})
<1> DEFINE ds == Append(cs, c)
<1>1. /\ ds \in Seq(CallRecs) /\ Len(cs) \in Nat /\ Len(ds) = Len(cs) + 1
      /\ \A k \in 1 .. Len(cs) : ds[k] = cs[k]
      /\ ds[Len(cs) + 1] = c
  BY OneMore
<1> HIDE DEF ds
<1>2. ASSUME NEW l
      PROVE  CallsIn(ds, l) = CallsIn(cs, l) \cup (IF c.site[2] = l THEN {Len(cs) + 1} ELSE {})
  <2>1. 1 .. Len(ds) = 1 .. Len(cs) \cup {Len(cs) + 1}
    BY <1>1
  <2> QED BY <1>1, <2>1, Zenon DEF CallsIn
<1> QED BY <1>1, <1>2, Zenon DEF ds

(* The least of a set of numbers *)
LEMMA FirstOfSet ==
  ASSUME NEW S, S \subseteq Nat, S # {}
  PROVE  FirstOf(S) \in S /\ \A k \in S : FirstOf(S) <= k
<1>1. \E k \in S : \A j \in S : k <= j
  BY LeastExists, Zenon
<1> QED BY <1>1, Zenon DEF FirstOf

(* The least stays the least when a greater number is added *)
LEMMA FirstOfMore ==
  ASSUME NEW m \in Nat, NEW B, B \subseteq 1 .. m, B # {}
  PROVE  FirstOf(B \cup {m + 1}) = FirstOf(B)
<1> DEFINE D == B \cup {m + 1}
<1>1. B \subseteq Nat /\ D \subseteq Nat /\ D # {} /\ m + 1 \in Nat
  OBVIOUS
<1> HIDE DEF D
<1>2. PICK a, b : a = FirstOf(B) /\ b = FirstOf(D)
  OBVIOUS
<1>3. a \in B /\ b \in D /\ (\A k \in B : a <= k) /\ (\A k \in D : b <= k)
  BY <1>1, <1>2, FirstOfSet, Zenon
<1>4. a \in Nat /\ a < m + 1 /\ a \in D
  BY <1>3 DEF D
<1>5. b \in Nat /\ b <= a
  BY <1>1, <1>3, <1>4, Zenon
<1>6. b \in B
  BY <1>3, <1>4, <1>5 DEF D
<1>7. a <= b
  BY <1>3, <1>6, Zenon
<1>8. a = b
  BY <1>4, <1>5, <1>7
<1> QED BY <1>2, <1>8, Zenon DEF D

(* A new call leaves the first failure of a group the first *)
LEMMA BadGrows ==
  ASSUME NEW cs \in Seq(CallRecs), NEW c \in CallRecs, NEW l
  PROVE  LET ds == Append(cs, c)
         IN  /\ c.site[2] # l \/ c.how = "ok" => BadIn(ds, l) = BadIn(cs, l)
             /\ c.site[2] = l /\ c.how # "ok" => BadIn(ds, l) # {}
             /\ BadIn(cs, l) # {} => BadIn(ds, l) # {} /\ FirstIn(ds, l) = FirstIn(cs, l)
             /\ BadIn(cs, l) = {} /\ BadIn(ds, l) # {} => FirstIn(ds, l) = c
<1> DEFINE ds == Append(cs, c)
           n == Len(cs) + 1
           B == BadIn(cs, l)
           D == BadIn(ds, l)
<1>1. /\ Len(cs) \in Nat
      /\ \A k \in 1 .. Len(cs) : ds[k] = cs[k]
      /\ ds[Len(cs) + 1] = c
      /\ CallsIn(ds, l) = CallsIn(cs, l) \cup (IF c.site[2] = l THEN {Len(cs) + 1} ELSE {})
  BY CallsGrow
<1> HIDE DEF ds
<1>2. CallsIn(cs, l) \subseteq 1 .. Len(cs)
  BY Zenon DEF CallsIn
<1>4. c.site[2] # l \/ c.how = "ok" => D = B
  BY <1>1, <1>2, Zenon DEF BadIn
<1>5. c.site[2] = l /\ c.how # "ok" => D = B \cup {n}
  BY <1>1, <1>2, Zenon DEF BadIn
<1>6. B \subseteq 1 .. Len(cs) /\ B \subseteq Nat
  BY <1>1, <1>2 DEF BadIn
<1>7. FirstIn(ds, l) = ds[FirstOf(D)] /\ FirstIn(cs, l) = cs[FirstOf(B)]
  BY Zenon DEF FirstIn
<1> HIDE DEF B, D
<1>8. ASSUME B # {} PROVE D # {} /\ FirstIn(ds, l) = FirstIn(cs, l)
  <2>1. FirstOf(B) \in 1 .. Len(cs)
    BY <1>6, <1>8, FirstOfSet, Zenon
  <2>2. FirstOf(B \cup {n}) = FirstOf(B)
    BY <1>1, <1>6, <1>8, FirstOfMore, Zenon
  <2>3. FirstOf(D) = FirstOf(B) /\ D # {}
    BY <1>4, <1>5, <1>8, <2>2, Zenon
  <2>4. ds[FirstOf(B)] = cs[FirstOf(B)]
    BY <1>1, <2>1, Zenon
  <2> QED BY <2>3, <2>4, <1>7, Zenon
<1>9. ASSUME B = {}, D # {} PROVE FirstIn(ds, l) = c
  <2>1. D = {n}
    BY <1>4, <1>5, <1>9, Zenon
  <2>2. FirstOf({n}) = n
    <3>1. {n} \subseteq Nat /\ {n} # {}
      BY <1>1
    <3>2. FirstOf({n}) \in {n}
      BY <3>1, FirstOfSet, Zenon
    <3> QED BY <3>2, Zenon
  <2> QED BY <2>1, <2>2, <1>1, <1>7, Zenon
<1> QED BY <1>4, <1>5, <1>8, <1>9, Zenon DEF B, D, ds

(* Where a call leads: in a child every failure is its end; elsewhere a     *)
(* failed assertion jumps back to the runner, but for an unchecked teardown *)
(* in CK_FORK mode, which ends it.                                          *)
LEMMA WhereCallsLead ==
  ASSUME FstatInv, pc \in InCase, NEW kind \in Kinds, NEW how \in Hows(kind),
         pc = kind
  PROVE  /\ how \in {"ok", "fail", "crash"}
         /\ how = "ok" => Outcome(kind, how) = "returned"
         /\ how = "crash" => Forks /\ kind \in {"csetup", "test", "cteardown"}
         /\ Forks /\ kind \in {"csetup", "test", "cteardown"} /\ how # "ok" =>
              Outcome(kind, how) = "ended"
         /\ jmp' = kind /\ how = "fail" /\ (~Forks \/ kind = "usetup") =>
              Outcome(kind, how) = "jumped"
         /\ Forks /\ kind = "uteardown" /\ how = "fail" => Outcome(kind, how) = "exited"
<1>1. /\ how \in {"ok", "fail", "crash"}
      /\ how = "crash" => kind \in MayCrash /\ Forks
  BY DEF Hows
<1>2. how = "crash" => Forks /\ kind \in {"csetup", "test", "cteardown"}
  BY <1>1, SRunnerAssumption, Zenon
<1>3. srunner_fork_status \in {"CK_FORK", "CK_NOFORK"}
  BY Zenon DEF FstatInv, srunner_fork_status
<1>4. /\ Forks /\ pc # "usetup" => fstat = "CK_FORK"
      /\ ~Forks \/ pc = "usetup" => fstat = "CK_NOFORK"
  BY <1>3, Zenon DEF FstatInv, Forks, InCase
<1>5. how = "ok" => Outcome(kind, how) = "returned"
  BY Zenon DEF Outcome
<1>6. ASSUME Forks, kind \in {"csetup", "test", "cteardown"}, how # "ok"
      PROVE  Outcome(kind, how) = "ended"
  <2>1. InChild /\ fstat = "CK_FORK"
    BY <1>4, <1>6, Zenon DEF InChild
  <2> QED BY <1>1, <1>6, <2>1, Zenon DEF Outcome
<1>7. ASSUME jmp' = kind, how = "fail", ~Forks \/ kind = "usetup"
      PROVE  Outcome(kind, how) = "jumped"
  BY <1>4, <1>7, Zenon DEF Outcome
<1>8. ASSUME Forks, kind = "uteardown", how = "fail"
      PROVE  Outcome(kind, how) = "exited"
  <2>1. ~InChild /\ fstat = "CK_FORK"
    BY <1>4, <1>8, Zenon DEF InChild
  <2> QED BY <1>8, <2>1, Zenon DEF Outcome
<1> QED BY <1>1, <1>2, <1>5, <1>6, <1>7, <1>8, Zenon

(* A call is recorded under the current label *)
LEMMA CallRecorded ==
  ASSUME OrderInv, pos \in Positions, NEW kind \in Kinds,
         NEW how \in {"ok", "fail", "crash"}, Called(kind, how)
  PROVE  /\ Site(kind) \in Sites
         /\ \E c \in CallRecs : /\ calls' = Append(calls, c) /\ c.how = how
                                /\ c.forked = Forks
                                /\ c.site = Site(kind) /\ c.site[2] = Label(pos)
                                /\ c.site[3] = kind /\ c.site[4] = pos.x
<1>1. Label(pos) \in Labels /\ pos.x \in Nat /\ run \in Nat
  BY LabelOfPosition, Zenon DEF Positions, OrderInv
<1>2. Site(kind) = <<run, Label(pos), kind, pos.x>>
  BY Zenon DEF Site
<1>3. Site(kind) \in Sites
  BY <1>1, <1>2 DEF Sites
<1> DEFINE c == [site |-> Site(kind), how |-> how, forked |-> Forks]
<1>4. c \in CallRecs
  BY <1>3, Zenon DEF CallRecs, Forks
<1>5. calls' = Append(calls, c)
  BY Zenon DEF Called
<1>6. c.site = Site(kind) /\ c.how = how /\ c.forked = Forks
  BY Zenon
<1>7. Site(kind)[2] = Label(pos) /\ Site(kind)[3] = kind /\ Site(kind)[4] = pos.x
  BY <1>2
<1> HIDE DEF c
<1> QED BY <1>3, <1>4, <1>5, <1>6, <1>7, Zenon

(* Calls are made under labels *)
LEMMA CallLabels ==
  ASSUME NEW cs \in Seq(CallRecs), NEW k \in 1 .. Len(cs)
  PROVE  /\ cs[k] \in CallRecs /\ cs[k].how \in {"ok", "fail", "crash"}
         /\ cs[k].site \in Sites /\ cs[k].site[2] \in Labels /\ cs[k].site[3] \in Kinds
<1>1. cs[k] \in CallRecs
  OBVIOUS
<1>2. cs[k].site \in Sites /\ cs[k].how \in {"ok", "fail", "crash"}
  BY <1>1, Zenon DEF CallRecs
<1>3. \A t \in Sites : t[2] \in Labels /\ t[3] \in Kinds
  BY Zenon DEF Sites
<1> QED BY <1>1, <1>2, <1>3, Zenon

(* Calls and results of a step within a run *)
CallsStep == \/ UNCHANGED calls
             \/ /\ pc \in InGroup
                /\ \E c \in CallRecs : c.site[2] = Label(pos) /\ calls' = Append(calls, c)
ResultStep == \/ UNCHANGED resultlst
              \/ /\ LabelBefore(Label(pos), Label(pos')) /\ pc' # "idle"
                 /\ \E tr : /\ tr.run = run /\ tr.label = Label(pos)
                            /\ resultlst' = Append(resultlst, tr)
LabelStep == \/ pc' = "idle"
             \/ LabelBefore(Label(pos), Label(pos'))
             \/ Label(pos') = Label(pos) /\ pc' \in InGroup

(* Such a step keeps the order of calls and results *)
LEMMA OrderKept ==
  ASSUME OrderInv, pc # "idle", run' = run, pos \in Positions, pos' \in Positions,
         pipe' \in Seq(RunMsgs), CallsStep, ResultStep, LabelStep
  PROVE  OrderInv'
<1> DEFINE l == Label(pos)
           m == Label(pos')
<1>1. l \in Labels /\ m \in Labels
  BY LabelOfPosition, Zenon
<1>2. run \in Nat /\ calls \in Seq(CallRecs) /\ IsSequence(resultlst)
  BY Zenon DEF OrderInv
<1>3. Len(calls) \in Nat /\ Len(resultlst) \in Nat
  <2>1. Len(calls) \in Nat
    BY <1>2
  <2> QED BY <1>2, <2>1, SequenceLength, Zenon
<1>4. /\ calls' \in Seq(CallRecs) /\ Len(calls') \in Nat
      /\ \A k \in 1 .. Len(calls') : \/ k \in 1 .. Len(calls) /\ calls'[k] = calls[k]
                                     \/ calls'[k].site[2] = l /\ pc \in InGroup
  <2>1. CASE UNCHANGED calls
    BY <1>2, <1>3, <2>1, Zenon
  <2>2. CASE pc \in InGroup /\ \E c \in CallRecs : c.site[2] = l /\ calls' = Append(calls, c)
    <3>1. PICK c \in CallRecs : c.site[2] = l /\ calls' = Append(calls, c)
      BY <2>2, Zenon
    <3>2. /\ calls' \in Seq(CallRecs) /\ Len(calls') = Len(calls) + 1
          /\ \A k \in 1 .. Len(calls) : calls'[k] = calls[k]
          /\ calls'[Len(calls) + 1] = c
      BY <1>2, <3>1, CallsGrow
    <3>3. /\ Len(calls') \in Nat
          /\ \A k \in 1 .. Len(calls') : k \in 1 .. Len(calls) \/ k = Len(calls) + 1
      BY <1>3, <3>2
    <3> HIDE DEF l
    <3> QED BY <2>2, <3>1, <3>2, <3>3, Zenon
  <2> QED BY <2>1, <2>2, Zenon DEF CallsStep
<1>5. \A k \in 1 .. Len(calls) : calls[k].site[2] \in Labels
  BY <1>2, CallLabels, Zenon
<1>6. /\ IsSequence(resultlst') /\ Len(resultlst') \in Nat
      /\ \A k \in 1 .. Len(resultlst') :
           \/ k \in 1 .. Len(resultlst) /\ resultlst'[k] = resultlst[k]
           \/ /\ resultlst'[k].run = run /\ resultlst'[k].label = l
              /\ LabelBefore(l, m) /\ pc' # "idle"
  <2>1. CASE UNCHANGED resultlst
    BY <1>2, <1>3, <2>1, Zenon
  <2>2. CASE /\ LabelBefore(l, m) /\ pc' # "idle"
             /\ \E tr : tr.run = run /\ tr.label = l /\ resultlst' = Append(resultlst, tr)
    <3>1. PICK tr : tr.run = run /\ tr.label = l /\ resultlst' = Append(resultlst, tr)
      BY <2>2, Zenon
    <3>2. /\ IsSequence(resultlst') /\ Len(resultlst') = Len(resultlst) + 1
          /\ \A k \in 1 .. Len(resultlst) : resultlst'[k] = resultlst[k]
          /\ resultlst'[Len(resultlst) + 1] = tr
      BY <1>2, <3>1, AppendAny, Zenon
    <3>3. /\ Len(resultlst') \in Nat
          /\ \A k \in 1 .. Len(resultlst') : k \in 1 .. Len(resultlst) \/ k = Len(resultlst) + 1
      BY <1>3, <3>2
    <3> HIDE DEF l
    <3> QED BY <2>2, <3>1, <3>2, <3>3, Zenon
  <2> QED BY <2>1, <2>2, Zenon DEF ResultStep
<1> HIDE DEF l, m
<1>7. \A k \in 1 .. Len(resultlst') :
        /\ resultlst'[k].run \in Nat /\ resultlst'[k].run <= run'
        /\ resultlst'[k].run = run' => resultlst'[k].label \in Labels
  <2>1. ASSUME NEW k \in 1 .. Len(resultlst'), k \in 1 .. Len(resultlst),
               resultlst'[k] = resultlst[k]
        PROVE  /\ resultlst'[k].run \in Nat /\ resultlst'[k].run <= run'
               /\ resultlst'[k].run = run' => resultlst'[k].label \in Labels
    BY <2>1, Zenon DEF OrderInv
  <2>2. ASSUME NEW k \in 1 .. Len(resultlst'), resultlst'[k].run = run, resultlst'[k].label = l
        PROVE  /\ resultlst'[k].run \in Nat /\ resultlst'[k].run <= run'
               /\ resultlst'[k].run = run' => resultlst'[k].label \in Labels
    BY <1>1, <1>2, <2>2
  <2> QED BY <1>6, <2>1, <2>2, Zenon
<1>8. ASSUME pc' # "idle"
      PROVE  /\ \A k \in 1 .. Len(resultlst') :
                  resultlst'[k].run = run' => LabelBefore(resultlst'[k].label, m)
             /\ \A k \in 1 .. Len(calls') :
                  \/ LabelBefore(calls'[k].site[2], m)
                  \/ calls'[k].site[2] = m /\ pc' \in InGroup
  <2>1. LabelBefore(l, m) \/ (m = l /\ pc' \in InGroup)
    BY <1>8 DEF LabelStep, l, m
  <2>2. \A a \in Labels : LabelBefore(a, l) => LabelBefore(a, m)
    BY <1>1, <2>1, LabelsOrdered, Zenon
  <2>3. /\ \A k \in 1 .. Len(resultlst) : resultlst[k].run = run =>
             LabelBefore(resultlst[k].label, l) /\ resultlst[k].label \in Labels
        /\ \A k \in 1 .. Len(calls) :
             LabelBefore(calls[k].site[2], l) \/ calls[k].site[2] = l
    BY Zenon DEF OrderInv, l
  <2>4. ASSUME NEW k \in 1 .. Len(resultlst'), resultlst'[k].run = run'
        PROVE  LabelBefore(resultlst'[k].label, m)
    BY <1>6, <2>2, <2>3, <2>4, Zenon
  <2>5. ASSUME NEW k \in 1 .. Len(calls')
        PROVE  \/ LabelBefore(calls'[k].site[2], m)
               \/ calls'[k].site[2] = m /\ pc' \in InGroup
    <3>1. \/ calls'[k].site[2] \in Labels /\ LabelBefore(calls'[k].site[2], l)
          \/ calls'[k].site[2] = l
      BY <1>4, <1>5, <2>3, <2>5, Zenon
    <3> QED BY <2>1, <2>2, <3>1, Zenon
  <2> QED BY <2>4, <2>5
<1> QED BY <1>2, <1>4, <1>6, <1>7, <1>8, Zenon DEF OrderInv, m

(* No call is recorded yet under a label that has only now been reached *)
LEMMA FreshLabel ==
  ASSUME OrderInv, pc # "idle", pos \in Positions, NEW q \in Positions,
         LabelBefore(Label(pos), Label(q)) \/ (Label(q) = Label(pos) /\ pc \notin InGroup)
  PROVE  CallsIn(calls, Label(q)) = {} /\ BadIn(calls, Label(q)) = {}
<1> DEFINE l == Label(pos)
           m == Label(q)
<1>1. l \in Labels /\ m \in Labels
  BY LabelOfPosition, Zenon
<1>2. calls \in Seq(CallRecs)
  BY Zenon DEF OrderInv
<1>3. \A k \in 1 .. Len(calls) : calls[k].site[2] \in Labels
  BY <1>2, CallLabels, Zenon
<1>4. \A k \in 1 .. Len(calls) :
        LabelBefore(calls[k].site[2], l) \/ (calls[k].site[2] = l /\ pc \in InGroup)
  BY Zenon DEF OrderInv
<1> HIDE DEF l, m
<1>5. ASSUME NEW k \in 1 .. Len(calls) PROVE calls[k].site[2] # m
  BY <1>1, <1>3, <1>4, LabelsOrdered, Zenon DEF l, m
<1>6. CallsIn(calls, m) = {}
  BY <1>5, Zenon DEF CallsIn
<1> QED BY <1>6, Zenon DEF BadIn, m

(* The labels the cursors move to *)
LEMMA LabelsForward ==
  ASSUME NEW p \in Positions
  PROVE  /\ AtSuite(p.s + 1) \in Positions
         /\ LabelBefore(Label(p), Label(AtSuite(p.s + 1)))
         /\ NextTCase(p) \in Positions /\ LabelBefore(Label(p), Label(NextTCase(p)))
         /\ NextFixture(p) \in Positions /\ Label(NextFixture(p)) = Label(p)
         /\ \A n \in Nat : /\ [p EXCEPT !.x = n] \in Positions
                           /\ Label([p EXCEPT !.x = n]) = Label(p)
         /\ LabelBefore(Label(p), Label([p EXCEPT !.i = @ + 1, !.x = 0]))
         /\ \A f \in Nat : /\ f > p.f /\ p.s \in 1 .. Len(Program)
                           /\ p.c \in 1 .. Len(Suite(p).tcases)
                           => LabelBefore(Label(p), Label(AtTest(p, f)))
<1>1. p.s \in Nat /\ p.c \in Nat /\ p.f \in Nat /\ p.i \in Int /\ p.s + 1 \in Nat
  BY DEF Positions
<1>2. /\ AtSuite(p.s + 1) \in Positions
      /\ LabelBefore(Label(p), Label(AtSuite(p.s + 1)))
  <2>1. AtSuite(p.s + 1) \in Positions /\ AtSuite(p.s + 1).s = p.s + 1
    BY <1>1, PositionsMove, Zenon
  <2>2. PICK q \in Positions : q = AtSuite(p.s + 1)
    BY <2>1, Zenon
  <2>3. Lex(p.s, p.c, p.f, p.i, q.s, q.c, q.f, q.i)
    BY <1>1, <2>1, <2>2 DEF Lex
  <2> QED BY <2>1, <2>2, <2>3, LabelMoves, Zenon
<1>3. NextTCase(p) \in Positions /\ LabelBefore(Label(p), Label(NextTCase(p)))
  <2>1. NextTCase(p) \in Positions /\ NextTCase(p).s = p.s /\ NextTCase(p).c = p.c + 1
    BY PositionsMove, Zenon
  <2>2. PICK q \in Positions : q = NextTCase(p)
    BY <2>1, Zenon
  <2>3. Lex(p.s, p.c, p.f, p.i, q.s, q.c, q.f, q.i)
    BY <1>1, <2>1, <2>2 DEF Lex
  <2> QED BY <2>1, <2>2, <2>3, LabelMoves, Zenon
<1>4. NextFixture(p) \in Positions /\ Label(NextFixture(p)) = Label(p)
  BY PositionsMove, Zenon DEF Label
<1>5. ASSUME NEW n \in Nat
      PROVE  [p EXCEPT !.x = n] \in Positions /\ Label([p EXCEPT !.x = n]) = Label(p)
  BY Zenon DEF Positions, Label
<1>6. LabelBefore(Label(p), Label([p EXCEPT !.i = @ + 1, !.x = 0]))
  <2> DEFINE r == [p EXCEPT !.i = p.i + 1]
  <2>1. r \in Positions /\ r.s = p.s /\ r.c = p.c /\ r.f = p.f /\ r.i = p.i + 1
    BY <1>1 DEF Positions
  <2>2. PICK q : q = [p EXCEPT !.i = @ + 1, !.x = 0]
    BY Zenon
  <2>3. q = [r EXCEPT !.x = 0]
    BY <2>2, Zenon
  <2> HIDE DEF r
  <2>4. q \in Positions /\ q.s = p.s /\ q.c = p.c /\ q.f = p.f /\ q.i = p.i + 1
    BY <2>1, <2>3, Zenon DEF Positions
  <2>5. Lex(p.s, p.c, p.f, p.i, q.s, q.c, q.f, q.i)
    BY <1>1, <2>4 DEF Lex
  <2> QED BY <2>2, <2>4, <2>5, LabelMoves, Zenon
<1>7. ASSUME NEW f \in Nat, f > p.f, p.s \in 1 .. Len(Program),
             p.c \in 1 .. Len(Suite(p).tcases)
      PROVE  LabelBefore(Label(p), Label(AtTest(p, f)))
  <2>0. f >= 1
    BY <1>1, <1>7
  <2>1. AtTest(p, f) \in Positions /\ AtTest(p, f).s = p.s /\ AtTest(p, f).c = p.c
        /\ AtTest(p, f).f = f
    BY <1>7, <2>0, AtTestMoves, Zenon
  <2>2. PICK q \in Positions : q = AtTest(p, f)
    BY <2>1, Zenon
  <2>3. Lex(p.s, p.c, p.f, p.i, q.s, q.c, q.f, q.i)
    BY <1>1, <1>7, <2>1, <2>2, Zenon DEF Lex
  <2> QED BY <2>2, <2>3, LabelMoves, Zenon
<1> QED BY <1>2, <1>3, <1>4, <1>5, <1>6, <1>7, Zenon

(* A teardown that failed stays in the history of the run *)
LEMMA TeardownsBefore ==
  ASSUME calls \in Seq(CallRecs), NEW c \in CallRecs, calls' = Append(calls, c)
  PROVE  NoTeardownFailed' => /\ NoTeardownFailed
                              /\ c.site[3] = "uteardown" => c.how = "ok"
<1>1. /\ Len(calls) \in Nat /\ Len(calls') = Len(calls) + 1
      /\ \A k \in 1 .. Len(calls) : calls'[k] = calls[k]
      /\ calls'[Len(calls) + 1] = c
  BY CallsGrow
<1>2. /\ \A k \in 1 .. Len(calls) : k \in 1 .. Len(calls')
      /\ Len(calls) + 1 \in 1 .. Len(calls')
  BY <1>1
<1> QED BY <1>1, <1>2, Zenon DEF NoTeardownFailed

(* Label <<s, c, f, i>> is one of the plan of selection se *)
InPlan(s, c, f, i, se) ==
  /\ s \in 1 .. Len(Program) /\ c \in 1 .. Len(Program[s].tcases)
  /\ SuiteSelected(s, se) /\ TCaseSelected(Program[s].tcases[c], se)
  /\ \/ f = 0 /\ i = 0
     \/ /\ f \in 1 .. Len(Program[s].tcases[c].tests)
        /\ i \in Program[s].tcases[c].tests[f].lo ..
                    Program[s].tcases[c].tests[f].hi - 1

(* Label <<s, c, f, i>> is that of position p or comes after it *)
(* The labels of the plan that PlanOf() gathers are those the conditions    *)
(* of srunner_iterate_suites() select.                                      *)
LEMMA PlanMembers ==
  ASSUME NEW se
  PROVE  \A l : l \in PlanOf(se) <=>
                  \E s, c, f, i \in Int : l = <<s, c, f, i>> /\ InPlan(s, c, f, i, se)
<1> DEFINE Tests(s, c) ==
             UNION {{<<s, c, f, i>> : i \in Program[s].tcases[c].tests[f].lo ..
                                            Program[s].tcases[c].tests[f].hi - 1} :
                      f \in 1 .. Len(Program[s].tcases[c].tests)}
           CaseOK(tc) == /\ se.tcname \in {NULL, tc.name}
                         /\ se.include = NULL \/ \E t \in se.include : t \in tc.tags
                         /\ se.exclude = NULL \/ \A t \in se.exclude : t \notin tc.tags
           Cases(s) == {c \in 1 .. Len(Program[s].tcases) : CaseOK(Program[s].tcases[c])}
           Suites == {s \in 1 .. Len(Program) : se.sname \in {NULL, Program[s].name}}
<1>1. PlanOf(se) = UNION {UNION {{<<s, c, 0, 0>>} \cup Tests(s, c) : c \in Cases(s)} :
                            s \in Suites}
  BY Zenon DEF PlanOf
<1>2. \A tc : CaseOK(tc) <=> TCaseSelected(tc, se)
  BY Zenon DEF TCaseSelected, tcase_matching_tag
<1>3. \A s \in 1 .. Len(Program) : \A c \in 1 .. Len(Program[s].tcases) :
        s \in Suites /\ c \in Cases(s) <=>
        SuiteSelected(s, se) /\ TCaseSelected(Program[s].tcases[c], se)
  <2> SUFFICES ASSUME NEW s \in 1 .. Len(Program), NEW c \in 1 .. Len(Program[s].tcases)
               PROVE  s \in Suites /\ c \in Cases(s) <=>
                      SuiteSelected(s, se) /\ TCaseSelected(Program[s].tcases[c], se)
    BY Zenon
  <2>1. c \in Cases(s) <=> TCaseSelected(Program[s].tcases[c], se)
    BY <1>2, Zenon
  <2>2. s \in Suites <=> (se.sname # NULL => Program[s].name = se.sname)
    BY Zenon
  <2>3. TCaseSelected(Program[s].tcases[c], se) =>
          (se.tcname # NULL => \E d \in 1 .. Len(Program[s].tcases) :
                                  Program[s].tcases[d].name = se.tcname)
    BY Zenon DEF TCaseSelected
  <2> QED BY <2>1, <2>2, <2>3, Zenon DEF SuiteSelected
<1>4. \A s, c, l : l \in Tests(s, c) <=>
        \E f \in 1 .. Len(Program[s].tcases[c].tests) :
        \E i \in Program[s].tcases[c].tests[f].lo .. Program[s].tcases[c].tests[f].hi - 1 :
          l = <<s, c, f, i>>
  <2> DEFINE F(s, c) == 1 .. Len(Program[s].tcases[c].tests)
             I(s, c, f) == Program[s].tcases[c].tests[f].lo ..
                             Program[s].tcases[c].tests[f].hi - 1
  <2>1. \A s, c : Tests(s, c) = UNION {{<<s, c, f, i>> : i \in I(s, c, f)} : f \in F(s, c)}
    BY Zenon
  <2> HIDE DEF F, I, Tests
  <2>2. \A s, c, l : l \in Tests(s, c) <=>
                       \E f \in F(s, c) : \E i \in I(s, c, f) : l = <<s, c, f, i>>
    BY <2>1
  <2> QED BY <2>2, Zenon DEF F, I
<1>6. \A s \in Suites : /\ s \in 1 .. Len(Program)
                       /\ \A c \in Cases(s) : c \in 1 .. Len(Program[s].tcases)
  BY Zenon
<1> HIDE DEF Tests, CaseOK, Cases, Suites
<1>5. \A l : l \in PlanOf(se) <=>
        \E s \in Suites : \E c \in Cases(s) : l = <<s, c, 0, 0>> \/ l \in Tests(s, c)
  BY <1>1
<1> TAKE l
<1>7. ASSUME l \in PlanOf(se)
      PROVE  \E s, c, f, i \in Int : l = <<s, c, f, i>> /\ InPlan(s, c, f, i, se)
  <2>1. PICK s \in Suites : \E c \in Cases(s) : l = <<s, c, 0, 0>> \/ l \in Tests(s, c)
    BY <1>5, <1>7, Zenon
  <2>2. PICK c \in Cases(s) : l = <<s, c, 0, 0>> \/ l \in Tests(s, c)
    BY <2>1, Zenon
  <2>3. /\ s \in 1 .. Len(Program) /\ c \in 1 .. Len(Program[s].tcases)
        /\ SuiteSelected(s, se) /\ TCaseSelected(Program[s].tcases[c], se)
    BY <1>3, <1>6, Zenon
  <2>4. s \in Int /\ c \in Int
    BY <2>3, ProgramAssumption, SMTT(30)
  <2>5. CASE l = <<s, c, 0, 0>>
    <3>1. InPlan(s, c, 0, 0, se)
      BY <2>3, Zenon DEF InPlan
    <3> QED BY <3>1, <2>4, <2>5
  <2>6. CASE l \in Tests(s, c)
    <3>1. PICK f \in 1 .. Len(Program[s].tcases[c].tests) :
               \E i \in Program[s].tcases[c].tests[f].lo .. Program[s].tcases[c].tests[f].hi - 1 :
                 l = <<s, c, f, i>>
      BY <1>4, <2>6, SMTT(30)
    <3>2. PICK i \in Program[s].tcases[c].tests[f].lo .. Program[s].tcases[c].tests[f].hi - 1 :
                 l = <<s, c, f, i>>
      BY <3>1, Zenon
    <3>3. InPlan(s, c, f, i, se)
      BY <2>3, <3>1, <3>2, Zenon DEF InPlan
    <3>4. f \in Int /\ i \in Int
      <4>1. /\ Len(Program[s].tcases[c].tests) \in Nat
            /\ Program[s].tcases[c].tests[f].lo \in Int
            /\ Program[s].tcases[c].tests[f].hi \in Int
        BY <2>3, <3>1, ProgramAssumption, Zenon
      <4> QED BY <3>1, <3>2, <4>1
    <3> QED BY <3>2, <3>3, <3>4, <2>4, Zenon
  <2> QED BY <2>2, <2>5, <2>6, Zenon
<1>8. ASSUME NEW s \in Int, NEW c \in Int, NEW f \in Int, NEW i \in Int,
             l = <<s, c, f, i>>, InPlan(s, c, f, i, se)
      PROVE  l \in PlanOf(se)
  <2>1. s \in Suites /\ c \in Cases(s)
    BY <1>3, <1>8, Zenon DEF InPlan
  <2>2. l = <<s, c, 0, 0>> \/ l \in Tests(s, c)
    BY <1>4, <1>8, Zenon DEF InPlan
  <2> QED BY <1>5, <2>1, <2>2, Zenon
<1> QED BY <1>7, <1>8, Zenon

(* A step adds one result or leaves list and counters alone *)
LEMMA ResultsStep ==
  ASSUME [Next]_vars
  PROVE  (\E tr : srunner_add_failure(tr)) \/ UNCHANGED results
<1>1. ASSUME NEW how, unchecked_setup_fixture(how)
      PROVE  (\E tr : srunner_add_failure(tr)) \/ UNCHANGED results
  BY <1>1, Zenon DEF unchecked_setup_fixture, results
<1>2. ASSUME NEW how, checked_setup_nofork(how)
      PROVE  (\E tr : srunner_add_failure(tr)) \/ UNCHANGED results
  BY <1>2, Zenon DEF checked_setup_nofork, results, TestDone
<1>3. ASSUME receive
      PROVE  (\E tr : srunner_add_failure(tr)) \/ UNCHANGED results
  BY <1>3, Zenon DEF receive, TestDone
<1>4. ASSUME \/ srunner_run_tagged \/ next_suite \/ next_tcase \/ suite_end
             \/ srunner_run_end \/ unchecked_setup_done
             \/ start_test \/ next_tfun \/ tfuns_done
             \/ checked_setup_done \/ checked_teardown_done
             \/ unchecked_teardown_done \/ UNCHANGED vars
      PROVE  UNCHANGED results
  BY <1>4, Zenon DEF srunner_run_tagged, srunner_run_init, next_suite, next_tcase, suite_end,
       srunner_run_end, unchecked_setup_done, start_test, next_tfun,
       tfuns_done, checked_setup_done, checked_teardown_done,
       unchecked_teardown_done, vars, results
<1>5. ASSUME NEW how, \/ checked_setup_fork(how) \/ run_test(how)
                      \/ checked_teardown_fixture(how)
                      \/ unchecked_teardown_fixture(how)
      PROVE  UNCHANGED results
  BY <1>5, Zenon DEF checked_setup_fork, run_test, checked_teardown_fixture,
       unchecked_teardown_fixture, results
<1>6. ASSUME NEW fs, srunner_set_fork_status(fs)
      PROVE  UNCHANGED results
  BY <1>6, Zenon DEF srunner_set_fork_status
<1> QED BY <1>1, <1>2, <1>3, <1>4, <1>5, <1>6, Zenon DEF Next

AtOrAfter(s, c, f, i, p) ==
  \/ s > p.s
  \/ s = p.s /\ c > p.c
  \/ s = p.s /\ c = p.c /\ f > p.f
  \/ s = p.s /\ c = p.c /\ f = p.f /\ i >= p.i

(* The labels of the plan from position p on *)
Rest(p, se) == {l \in PlanOf(se) : ~LabelBefore(l, Label(p))}

(* What is left of the plan at a position *)
LEMMA RestMembers ==
  ASSUME NEW p \in Positions, NEW se
  PROVE  \A l : l \in Rest(p, se) <=>
                  \E s, c, f, i \in Int : /\ l = <<s, c, f, i>>
                                         /\ InPlan(s, c, f, i, se)
                                         /\ AtOrAfter(s, c, f, i, p)
<1>1. p.s \in Int /\ p.c \in Int /\ p.f \in Int /\ p.i \in Int
  BY DEF Positions
<1>2. \A s, c, f, i \in Int : ~LabelBefore(<<s, c, f, i>>, Label(p)) <=> AtOrAfter(s, c, f, i, p)
  <2> TAKE s \in Int, c \in Int, f \in Int, i \in Int
  <2>1. LabelBefore(<<s, c, f, i>>, Label(p)) <=> Lex(s, c, f, i, p.s, p.c, p.f, p.i)
    BY <1>1, LabelOrder, Zenon DEF Label
  <2> QED BY <1>1, <2>1 DEF AtOrAfter, Lex
<1>3. \A l : l \in PlanOf(se) <=>
               \E s, c, f, i \in Int : l = <<s, c, f, i>> /\ InPlan(s, c, f, i, se)
  BY PlanMembers, Zenon
<1>4. \A l : l \in Rest(p, se) <=> l \in PlanOf(se) /\ ~LabelBefore(l, Label(p))
  BY Zenon DEF Rest
<1> QED BY <1>2, <1>3, <1>4

(* Two positions with no label of the plan between them *)
LEMMA RestSame ==
  ASSUME NEW p \in Positions, NEW q \in Positions, NEW se,
         \A s, c, f, i \in Int : InPlan(s, c, f, i, se) =>
           (AtOrAfter(s, c, f, i, p) <=> AtOrAfter(s, c, f, i, q))
  PROVE  Rest(p, se) = Rest(q, se)
<1>1. \A r \in Positions : \A l : l \in Rest(r, se) <=>
               \E s, c, f, i \in Int : /\ l = <<s, c, f, i>>
                                      /\ InPlan(s, c, f, i, se)
                                      /\ AtOrAfter(s, c, f, i, r)
  BY RestMembers, Zenon
<1>2. \A l : l \in Rest(p, se) <=> l \in Rest(q, se)
  BY <1>1
<1> QED BY <1>2, Zenon DEF Rest

(* The labels of the results, oldest first *)
Out == [k \in 1 .. Len(resultlst) |-> resultlst[k].label]

(* srunner_add_failure() appends the label of the result *)
LEMMA OutAppends ==
  ASSUME IsSequence(resultlst), NEW tr, srunner_add_failure(tr)
  PROVE  Out' = Append(Out, tr.label)
<1>1. resultlst' = Append(resultlst, tr)
  BY Zenon DEF srunner_add_failure
<1>2. /\ Len(resultlst) \in Nat /\ Len(resultlst') = Len(resultlst) + 1
      /\ \A k \in 1 .. Len(resultlst) : resultlst'[k] = resultlst[k]
      /\ resultlst'[Len(resultlst) + 1] = tr
  BY <1>1, AppendAny
<1> DEFINE n == Len(resultlst)
           S == {resultlst[k].label : k \in 1 .. n} \cup {tr.label}
<1>3. Out \in Seq(S) /\ Len(Out) = n
  <2>1. \A k \in 1 .. n : resultlst[k].label \in S
    BY Zenon
  <2> HIDE DEF S
  <2> QED BY <2>1, <1>2 DEF Out
<1>4. Out' \in Seq(S) /\ Len(Out') = n + 1
  <2>1. \A k \in 1 .. n + 1 : resultlst'[k].label \in S
    BY <1>2
  <2>2. Out' = [k \in 1 .. n + 1 |-> resultlst'[k].label]
    BY <1>2, Zenon DEF Out
  <2> HIDE DEF S
  <2> QED BY <2>1, <2>2, <1>2
<1>5. /\ Append(Out, tr.label) \in Seq(S) /\ Len(Append(Out, tr.label)) = n + 1
      /\ \A k \in 1 .. n : Append(Out, tr.label)[k] = Out[k]
      /\ Append(Out, tr.label)[n + 1] = tr.label
  <2>1. tr.label \in S
    BY Zenon
  <2> HIDE DEF S
  <2> QED BY <1>3, <2>1, OneMore
<1>6. \A k \in 1 .. n + 1 : Out'[k] = Append(Out, tr.label)[k]
  <2> TAKE k \in 1 .. n + 1
  <2>1. Out'[k] = resultlst'[k].label
    BY <1>2 DEF Out
  <2>2. CASE k \in 1 .. n
    BY <2>1, <2>2, <1>2, <1>5 DEF Out
  <2>3. CASE k = n + 1
    BY <2>1, <2>3, <1>2, <1>5
  <2>4. k \in 1 .. n \/ k = n + 1
    BY <1>2
  <2> QED BY <2>2, <2>3, <2>4, Zenon
<1> HIDE DEF S
<1> QED BY <1>2, <1>3, <1>4, <1>5, <1>6, SameSequence, Zenon

(* The label of the position is the next one of the plan *)
LEMMA NextLabel ==
  ASSUME pos \in Positions, pc # "idle", InPlan(pos.s, pos.c, pos.f, pos.i, sel)
  PROVE  Label(pos) \in Todo /\ Plan!IsNext(Label(pos))
<1>0. pos.s \in Int /\ pos.c \in Int /\ pos.f \in Int /\ pos.i \in Int
  BY DEF Positions
<1>1. Todo = Rest(pos, sel)
  BY Zenon DEF Todo, Rest
<1>2. \A l : l \in Rest(pos, sel) <=>
               \E s, c, f, i \in Int : /\ l = <<s, c, f, i>>
                                       /\ InPlan(s, c, f, i, sel)
                                       /\ AtOrAfter(s, c, f, i, pos)
  BY RestMembers, Zenon
<1>3. AtOrAfter(pos.s, pos.c, pos.f, pos.i, pos)
  BY <1>0 DEF AtOrAfter
<1>4. Label(pos) \in Todo
  BY <1>0, <1>1, <1>2, <1>3, Zenon DEF Label
<1>5. ASSUME NEW m \in Todo, m # Label(pos) PROVE Plan!LabelBefore(Label(pos), m)
  <2>1. PICK s \in Int, c \in Int, f \in Int, i \in Int :
               m = <<s, c, f, i>> /\ AtOrAfter(s, c, f, i, pos)
    BY <1>1, <1>2, Zenon
  <2>2. ~(s = pos.s /\ c = pos.c /\ f = pos.f /\ i = pos.i)
    BY <1>5, <2>1, Zenon DEF Label
  <2>3. Lex(pos.s, pos.c, pos.f, pos.i, s, c, f, i)
    BY <1>0, <2>1, <2>2 DEF AtOrAfter, Lex
  <2>4. LabelBefore(Label(pos), m)
    BY <1>0, <2>1, <2>3, LabelOrder, Zenon DEF Label
  <2> QED BY <2>4, Zenon DEF LabelBefore, Plan!LabelBefore
<1> QED BY <1>4, <1>5, Zenon DEF Plan!IsNext

(* A move past the label of the position and past no other *)
LEMMA MovePast ==
  ASSUME pos \in Positions, pos' \in Positions, pc # "idle", pc' # "idle", sel' = sel,
         \A s, c, f, i \in Int : InPlan(s, c, f, i, sel) =>
           (AtOrAfter(s, c, f, i, pos') <=>
              /\ AtOrAfter(s, c, f, i, pos)
              /\ ~(s = pos.s /\ c = pos.c /\ f = pos.f /\ i = pos.i))
  PROVE  Todo' = Todo \ {Label(pos)}
<1>1. Todo = Rest(pos, sel) /\ Todo' = Rest(pos', sel)
  BY Zenon DEF Todo, Rest
<1>2. \A r \in Positions : \A l : l \in Rest(r, sel) <=>
               \E s, c, f, i \in Int : /\ l = <<s, c, f, i>>
                                       /\ InPlan(s, c, f, i, sel)
                                       /\ AtOrAfter(s, c, f, i, r)
  BY RestMembers, Zenon
<1>3. \A s, c, f, i : <<s, c, f, i>> = Label(pos) <=>
                        s = pos.s /\ c = pos.c /\ f = pos.f /\ i = pos.i
  BY Zenon DEF Label
<1>4. \A l : l \in Todo' <=> l \in Todo /\ l # Label(pos)
  <2>1. ASSUME NEW l, l \in Todo' PROVE l \in Todo /\ l # Label(pos)
    <3>1. PICK s \in Int, c \in Int, f \in Int, i \in Int :
                 /\ l = <<s, c, f, i>> /\ InPlan(s, c, f, i, sel)
                 /\ AtOrAfter(s, c, f, i, pos')
      BY <2>1, <1>1, <1>2, Zenon
    <3>2. /\ AtOrAfter(s, c, f, i, pos)
          /\ ~(s = pos.s /\ c = pos.c /\ f = pos.f /\ i = pos.i)
      BY <3>1, Zenon
    <3>3. l # Label(pos)
      BY <3>1, <3>2, <1>3, Zenon
    <3> QED BY <3>1, <3>2, <3>3, <1>1, <1>2, Zenon
  <2>2. ASSUME NEW l, l \in Todo, l # Label(pos) PROVE l \in Todo'
    <3>1. PICK s \in Int, c \in Int, f \in Int, i \in Int :
                 /\ l = <<s, c, f, i>> /\ InPlan(s, c, f, i, sel)
                 /\ AtOrAfter(s, c, f, i, pos)
      BY <2>2, <1>1, <1>2, Zenon
    <3>2. AtOrAfter(s, c, f, i, pos')
      BY <3>1, <2>2, <1>3, Zenon
    <3> QED BY <3>1, <3>2, <1>1, <1>2, Zenon
  <2> QED BY <2>1, <2>2, Zenon
<1> QED BY <1>4, <1>1, Zenon

(* A move over no label of the plan *)
LEMMA MoveOver ==
  ASSUME pos \in Positions, pos' \in Positions, pc # "idle", pc' # "idle", sel' = sel,
         UNCHANGED resultlst,
         \A s, c, f, i \in Int : InPlan(s, c, f, i, sel) =>
           (AtOrAfter(s, c, f, i, pos) <=> AtOrAfter(s, c, f, i, pos'))
  PROVE  UNCHANGED <<Todo, Out>>
<1>1. Todo = Rest(pos, sel) /\ Todo' = Rest(pos', sel)
  BY Zenon DEF Todo, Rest
<1>2. Rest(pos, sel) = Rest(pos', sel)
  BY RestSame, Zenon
<1> QED BY <1>1, <1>2, Zenon DEF Out

(* A step of the plan, or none *)
PlanStep == [Plan!Next]_<<Todo, Out>>

(* Each step of the runner is a step of the plan or leaves it alone *)
LEMMA NextFollowsPlan ==
  ASSUME PosInv, PosInv', FstatInv, IsSequence(resultlst), [Next]_vars
  PROVE  PlanStep
<1> USE DEF InCase, InTest
<1>0. /\ pos \in Positions /\ pos' \in Positions /\ Len(Program) \in Nat
      /\ pos.s \in Nat /\ pos.c \in Nat /\ pos.f \in Nat /\ pos.i \in Int
      /\ pos'.s \in Nat /\ pos'.c \in Nat /\ pos'.f \in Nat /\ pos'.i \in Int
  BY ProgramAssumption, Zenon DEF PosInv, Positions
<1>o. pc # "idle" /\ pc' # "idle" /\ UNCHANGED <<sel, resultlst>> =>
        ((\A s, c, f, i \in Int : InPlan(s, c, f, i, sel) =>
            (AtOrAfter(s, c, f, i, pos) <=> AtOrAfter(s, c, f, i, pos')))
         => PlanStep)
  BY <1>0, MoveOver, Zenon DEF PlanStep
<1>s. ASSUME pc # "idle", pc' # "idle", UNCHANGED <<sel, resultlst>>,
             pos'.s = pos.s, pos'.c = pos.c, pos'.f = pos.f, pos'.i = pos.i
      PROVE  PlanStep
  BY <1>s, <1>o DEF AtOrAfter
<1>c. pc \in InCase => /\ pos.s \in 1 .. Len(Program) /\ pos.c \in 1 .. Len(Suite(pos).tcases)
                      /\ Len(TCase(pos).tests) \in Nat
                      /\ \A f \in 1 .. Len(TCase(pos).tests) :
                           TCase(pos).tests[f].lo \in Int /\ TCase(pos).tests[f].hi \in Int
  <2> SUFFICES ASSUME pc \in InCase
               PROVE  /\ pos.s \in 1 .. Len(Program) /\ pos.c \in 1 .. Len(Suite(pos).tcases)
                      /\ Len(TCase(pos).tests) \in Nat
                      /\ \A f \in 1 .. Len(TCase(pos).tests) :
                           TCase(pos).tests[f].lo \in Int /\ TCase(pos).tests[f].hi \in Int
    BY Zenon
  <2>1. pos.s \in 1 .. Len(Program) /\ pos.c >= 1 /\ pos.c <= Len(Suite(pos).tcases)
    BY Zenon DEF PosInv
  <2>2. Len(Suite(pos).tcases) \in Nat
    BY <2>1, ProgramAssumption, Zenon DEF Suite
  <2>3. pos.c \in 1 .. Len(Suite(pos).tcases)
    BY <2>1, <2>2, <1>0
  <2> QED BY <2>1, <2>3, <1>0, CaseLists, Zenon
<1>q. ASSUME pc \in InCase, NEW f \in Int, NEW i \in Int, InPlan(pos.s, pos.c, f, i, sel)
      PROVE  \/ f = 0 /\ i = 0
             \/ /\ f \in 1 .. Len(TCase(pos).tests)
                /\ TCase(pos).tests[f].lo \in Int /\ TCase(pos).tests[f].hi \in Int
                /\ TCase(pos).tests[f].lo <= i /\ i < TCase(pos).tests[f].hi
  <2>1. \/ f = 0 /\ i = 0
        \/ /\ f \in 1 .. Len(TCase(pos).tests)
           /\ i \in TCase(pos).tests[f].lo .. TCase(pos).tests[f].hi - 1
    BY <1>q, Zenon DEF InPlan, TCase
  <2> QED BY <2>1, <1>q, <1>c, SMTT(30)
<1>p. \A s, c, f, i \in Int : InPlan(s, c, f, i, sel) => s >= 1 /\ c >= 1 /\ f >= 0 /\ (f = 0 => i = 0)
  <2> SUFFICES ASSUME NEW s \in Int, NEW c \in Int, NEW f \in Int, NEW i \in Int, InPlan(s, c, f, i, sel)
               PROVE  s >= 1 /\ c >= 1 /\ f >= 0 /\ (f = 0 => i = 0)
    BY Zenon
  <2>1. s \in 1 .. Len(Program) /\ c \in 1 .. Len(Program[s].tcases)
    BY Zenon DEF InPlan
  <2>2. /\ Len(Program[s].tcases) \in Nat /\ Len(Program[s].tcases[c].tests) \in Nat
    BY <2>1, ProgramAssumption, Zenon
  <2> QED BY <2>1, <2>2, <1>0, SMTT(30) DEF InPlan
<1>1. ASSUME NEW fs \in Settings, srunner_set_fork_status(fs) PROVE PlanStep
  <2>1. UNCHANGED <<Todo, Out>>
    BY <1>1, Zenon DEF srunner_set_fork_status, Todo, Out, results
  <2> QED BY <2>1 DEF PlanStep
<1>2. ASSUME srunner_run_tagged PROVE PlanStep
  <2>1. /\ pc = "idle" /\ pos' = AtSuite(1) /\ pc' = "suite" /\ sel' \in Selections
        /\ UNCHANGED resultlst
    BY <1>2, Zenon DEF srunner_run_tagged, results
  <2>2. Todo = {} /\ Todo' = Rest(pos', sel') /\ UNCHANGED Out
    BY <2>1, Zenon DEF Todo, Rest, Out
  <2>3. \A s, c, f, i \in Int : InPlan(s, c, f, i, sel') => AtOrAfter(s, c, f, i, pos')
    <3> SUFFICES ASSUME NEW s \in Int, NEW c \in Int, NEW f \in Int, NEW i \in Int,
                        InPlan(s, c, f, i, sel')
                 PROVE  AtOrAfter(s, c, f, i, pos')
      BY Zenon
    <3>1. s \in 1 .. Len(Program) /\ c \in 1 .. Len(Program[s].tcases)
      BY Zenon DEF InPlan
    <3>2. Len(Program[s].tcases) \in Nat
      BY <3>1, ProgramAssumption, Zenon
    <3>3. pos'.s = 1 /\ pos'.c = 0
      BY <2>1, PositionsMove, Zenon
    <3> QED BY <3>1, <3>2, <3>3, <1>0 DEF AtOrAfter
  <2>4. \A l : l \in PlanOf(sel') <=>
               \E s, c, f, i \in Int : l = <<s, c, f, i>> /\ InPlan(s, c, f, i, sel')
    BY PlanMembers, Zenon
  <2>5. \A l : l \in Rest(pos', sel') <=>
               \E s, c, f, i \in Int : /\ l = <<s, c, f, i>>
                                       /\ InPlan(s, c, f, i, sel')
                                       /\ AtOrAfter(s, c, f, i, pos')
    BY <1>0, RestMembers, Zenon
  <2>6. Rest(pos', sel') = PlanOf(sel')
    <3>1. \A l : l \in Rest(pos', sel') <=> l \in PlanOf(sel')
      BY <2>3, <2>4, <2>5
    <3> QED BY <3>1, Zenon DEF Rest
  <2>7. Plan!StartRun
    BY <2>1, <2>2, <2>6, Zenon DEF Plan!StartRun, Out
  <2> QED BY <2>7, Zenon DEF PlanStep, Plan!Next
<1>3. ASSUME next_suite PROVE PlanStep
  <2>0. /\ pc = "suite" /\ pos.s \in 1 .. Len(Program) /\ UNCHANGED <<sel, resultlst>>
        /\ pos.c = 0 /\ pos.f = 0 /\ pos.i = 0
    BY <1>3, <1>0, SMTT(30) DEF next_suite, setting, results, PosInv
  <2>1. CASE SuiteSelected(pos.s, sel)
    <3>1. /\ pc' = "tcase" /\ pos' = NextTCase(pos)
      BY <1>3, <2>1, Zenon DEF next_suite
    <3>2. pos'.s = pos.s /\ pos'.c = 1 /\ pos'.f = 0 /\ pos'.i = 0
      BY <3>1, <2>0, <1>0, PositionsMove
    <3>3. \A s, c, f, i \in Int : InPlan(s, c, f, i, sel) =>
            (AtOrAfter(s, c, f, i, pos) <=> AtOrAfter(s, c, f, i, pos'))
      BY <2>0, <3>2, <1>0, <1>p DEF AtOrAfter
    <3> QED BY <2>0, <3>1, <3>3, <1>o, Zenon
  <2>2. CASE ~SuiteSelected(pos.s, sel)
    <3>1. pc' = "suite" /\ pos' = AtSuite(pos.s + 1)
      BY <1>3, <2>0, <2>2, Zenon DEF next_suite
    <3>2. pos'.s = pos.s + 1 /\ pos'.c = 0 /\ pos'.f = 0 /\ pos'.i = 0
      <4>1. pos.s + 1 \in Nat
        BY <1>0
      <4> QED BY <3>1, <4>1, PositionsMove, Zenon
    <3>3. \A s, c, f, i \in Int : InPlan(s, c, f, i, sel) => s # pos.s
      BY <2>2, Zenon DEF InPlan
    <3>4. \A s, c, f, i \in Int : InPlan(s, c, f, i, sel) =>
            (AtOrAfter(s, c, f, i, pos) <=> AtOrAfter(s, c, f, i, pos'))
      BY <2>0, <3>2, <3>3, <1>0, <1>p DEF AtOrAfter
    <3> QED BY <2>0, <3>1, <3>4, <1>o, Zenon
  <2> QED BY <2>1, <2>2, Zenon
<1>4. ASSUME next_tcase PROVE PlanStep
  <2>0. /\ pc = "tcase" /\ UNCHANGED <<sel, resultlst>>
        /\ pos.f = 0 /\ pos.i = 0
    BY <1>4, Zenon DEF next_tcase, setting, results, PosInv
  <2>1. CASE TCaseSelected(TCase(pos), sel)
    <3>1. pc' = "usetup" /\ pos' = NextFixture(pos)
      BY <1>4, <2>1, Zenon DEF next_tcase
    <3>2. pos'.s = pos.s /\ pos'.c = pos.c /\ pos'.f = pos.f /\ pos'.i = pos.i
      BY <3>1, <1>0, PositionsMove, Zenon
    <3> QED BY <2>0, <3>1, <3>2, <1>s, Zenon
  <2>2. CASE ~TCaseSelected(TCase(pos), sel)
    <3>1. pc' = "tcase" /\ pos' = NextTCase(pos)
      BY <1>4, <2>0, <2>2, Zenon DEF next_tcase
    <3>2. pos'.s = pos.s /\ pos'.c = pos.c + 1 /\ pos'.f = 0 /\ pos'.i = 0
      BY <3>1, <1>0, PositionsMove, Zenon
    <3>3. \A s, c, f, i \in Int : InPlan(s, c, f, i, sel) => ~(s = pos.s /\ c = pos.c)
      BY <2>2, Zenon DEF InPlan, TCase
    <3>4. \A s, c, f, i \in Int : InPlan(s, c, f, i, sel) =>
            (AtOrAfter(s, c, f, i, pos) <=> AtOrAfter(s, c, f, i, pos'))
      BY <2>0, <3>2, <3>3, <1>0, <1>p DEF AtOrAfter
    <3> QED BY <2>0, <3>1, <3>4, <1>o, Zenon
  <2> QED BY <2>1, <2>2, Zenon
<1>5. ASSUME suite_end PROVE PlanStep
  <2>0. /\ pc = "tcase" /\ pc' = "suite" /\ pos' = AtSuite(pos.s + 1)
        /\ pos.c > Len(Suite(pos).tcases) /\ UNCHANGED <<sel, resultlst>>
        /\ pos.s \in 1 .. Len(Program)
    BY <1>5, Zenon DEF suite_end, setting, results, PosInv
  <2>2. pos'.s = pos.s + 1 /\ pos'.c = 0 /\ pos'.f = 0 /\ pos'.i = 0
    <3>1. pos.s + 1 \in Nat
      BY <1>0
    <3> QED BY <2>0, <3>1, PositionsMove, Zenon
  <2>3. \A s, c, f, i \in Int : InPlan(s, c, f, i, sel) => (s = pos.s => c < pos.c)
    <3>1. Len(Suite(pos).tcases) \in Nat
      BY <2>0, ProgramAssumption, Zenon DEF Suite
    <3> QED BY <2>0, <3>1, <1>0, SMTT(30) DEF InPlan, Suite
  <2>4. \A s, c, f, i \in Int : InPlan(s, c, f, i, sel) =>
          (AtOrAfter(s, c, f, i, pos) <=> AtOrAfter(s, c, f, i, pos'))
    BY <2>2, <2>3, <1>0, <1>p, SMTT(30) DEF AtOrAfter
  <2> QED BY <2>0, <2>4, <1>o, Zenon
<1>6. ASSUME srunner_run_end PROVE PlanStep
  <2>0. /\ pc = "suite" /\ pc' = "idle" /\ pos.s > Len(Program) /\ UNCHANGED resultlst
    BY <1>6 DEF srunner_run_end, results
  <2>1. Todo = Rest(pos, sel) /\ Todo' = {}
    BY <2>0, Zenon DEF Todo, Rest
  <2>2. \A l : l \in Rest(pos, sel) <=>
               \E s, c, f, i \in Int : /\ l = <<s, c, f, i>>
                                       /\ InPlan(s, c, f, i, sel)
                                       /\ AtOrAfter(s, c, f, i, pos)
    BY <1>0, RestMembers, Zenon
  <2>3. \A s, c, f, i \in Int : InPlan(s, c, f, i, sel) => ~AtOrAfter(s, c, f, i, pos)
    BY <2>0, <1>0, SMTT(30) DEF InPlan, AtOrAfter
  <2>4. UNCHANGED <<Todo, Out>>
    BY <2>0, <2>1, <2>2, <2>3, Zenon DEF Out
  <2> QED BY <2>4 DEF PlanStep
<1>t. ASSUME pc = "uteardown", pos' = NextTCase(pos), pc' = "tcase",
             UNCHANGED <<sel, resultlst>>
      PROVE  PlanStep
  <2>1. pos'.s = pos.s /\ pos'.c = pos.c + 1 /\ pos'.f = 0 /\ pos'.i = 0
    BY <1>t, <1>0, PositionsMove, Zenon
  <2>2. \A s, c, f, i \in Int : InPlan(s, c, f, i, sel) => (s = pos.s /\ c = pos.c => f < pos.f)
    <3>1. pos.f > Len(TCase(pos).tests)
      BY <1>t, Zenon DEF PosInv
    <3>2. pc \in InCase /\ pos.f >= 1 /\ Len(TCase(pos).tests) \in Nat
      BY <1>t, <3>1, <1>0, <1>c, SMTT(30)
    <3>3. \A f, i \in Int : InPlan(pos.s, pos.c, f, i, sel) => f < pos.f
      <4> SUFFICES ASSUME NEW f \in Int, NEW i \in Int, InPlan(pos.s, pos.c, f, i, sel)
                   PROVE  f < pos.f
        BY Zenon
      <4>1. f = 0 \/ f \in 1 .. Len(TCase(pos).tests)
        BY <3>2, <1>q, Zenon
      <4> QED BY <3>1, <3>2, <4>1, <1>0
    <3> QED BY <3>3, Zenon
  <2>3. \A s, c, f, i \in Int : InPlan(s, c, f, i, sel) =>
          (AtOrAfter(s, c, f, i, pos) <=> AtOrAfter(s, c, f, i, pos'))
    BY <2>1, <2>2, <1>0, <1>p DEF AtOrAfter
  <2> QED BY <1>t, <2>3, <1>o, Zenon
<1>7. ASSUME NEW how \in Hows("uteardown"), unchecked_teardown_fixture(how) PROVE PlanStep
  <2>1. /\ pc = "uteardown" /\ UNCHANGED <<sel, resultlst>>
        /\ \/ pos' = NextFixture(pos) /\ UNCHANGED pc
           \/ pos' = NextTCase(pos) /\ pc' = "tcase"
           \/ pc' \in {"ended", "exited", "lost"} /\ UNCHANGED pos
    BY <1>7, TeardownFixtureMoves, Zenon
  <2>2. pos' \in {pos, NextFixture(pos)} =>
          pos'.s = pos.s /\ pos'.c = pos.c /\ pos'.f = pos.f /\ pos'.i = pos.i
    BY <1>0, PositionsMove, Zenon
  <2> QED BY <2>1, <2>2, <1>s, <1>t
<1>8. ASSUME unchecked_teardown_done PROVE PlanStep
  BY <1>8, <1>t, Zenon DEF unchecked_teardown_done, setting, results
<1>9. ASSUME NEW how \in Hows("usetup"), unchecked_setup_fixture(how) PROVE PlanStep
  <2>1. /\ pc = "usetup" /\ sel' = sel
        /\ \/ pos' = NextFixture(pos) /\ UNCHANGED <<pc, resultlst>>
           \/ SetupFails
           \/ pc' \in {"ended", "exited", "lost"} /\ UNCHANGED <<pos, resultlst>>
    BY <1>9, SetupFixtureMoves, Zenon
  <2>2. pos' \in {pos, NextFixture(pos)} =>
          pos'.s = pos.s /\ pos'.c = pos.c /\ pos'.f = pos.f /\ pos'.i = pos.i
    BY <1>0, PositionsMove, Zenon
  <2>3. CASE SetupFails
    <3>1. PICK tr : tr.label = Label(pos) /\ srunner_add_failure(tr)
      BY <2>3, Zenon DEF SetupFails
    <3>2. pos' = NextTCase(pos) /\ pc' = "tcase"
      BY <2>3, Zenon DEF SetupFails
    <3>3. pos'.s = pos.s /\ pos'.c = pos.c + 1 /\ pos'.f = 0 /\ pos'.i = 0
      BY <3>2, <1>0, PositionsMove, Zenon
    <3>4. /\ InPlan(pos.s, pos.c, pos.f, pos.i, sel) /\ pos.f = 0 /\ pos.i = 0
      BY <2>1, <1>c, Zenon DEF InPlan, PosInv, Suite, TCase
    <3>5. Label(pos) \in Todo /\ Plan!IsNext(Label(pos)) /\ Plan!IsCase(Label(pos))
      BY <1>0, <2>1, <3>4, NextLabel, Zenon DEF Plan!IsCase, Label
    <3>6. Out' = Append(Out, Label(pos))
      BY <3>1, OutAppends, Zenon
    <3>7. Todo' = {m \in Todo : ~Plan!SameCase(Label(pos), m)}
      <4>1. Todo = Rest(pos, sel) /\ Todo' = Rest(pos', sel)
        BY <2>1, <3>2, Zenon DEF Todo, Rest
      <4>2. \A r \in Positions : \A l : l \in Rest(r, sel) <=>
               \E s, c, f, i \in Int : /\ l = <<s, c, f, i>>
                                       /\ InPlan(s, c, f, i, sel)
                                       /\ AtOrAfter(s, c, f, i, r)
        BY RestMembers, Zenon
      <4>3. \A s, c, f, i : Plan!SameCase(Label(pos), <<s, c, f, i>>) <=>
                              s = pos.s /\ c = pos.c
        BY Zenon DEF Plan!SameCase, Label
      <4>4. \A s, c, f, i \in Int : InPlan(s, c, f, i, sel) =>
              (AtOrAfter(s, c, f, i, pos') <=>
                 AtOrAfter(s, c, f, i, pos) /\ ~(s = pos.s /\ c = pos.c))
        BY <3>3, <3>4, <1>0, <1>p DEF AtOrAfter
      <4>5. ASSUME NEW l, l \in Todo'
            PROVE  l \in Todo /\ ~Plan!SameCase(Label(pos), l)
        <5>1. PICK s \in Int, c \in Int, f \in Int, i \in Int :
                     /\ l = <<s, c, f, i>> /\ InPlan(s, c, f, i, sel)
                     /\ AtOrAfter(s, c, f, i, pos')
          BY <4>5, <4>1, <4>2, <1>0, Zenon
        <5>2. AtOrAfter(s, c, f, i, pos) /\ ~(s = pos.s /\ c = pos.c)
          BY <5>1, <4>4, Zenon
        <5> QED BY <5>1, <5>2, <4>1, <4>2, <4>3, <1>0, Zenon
      <4>6. ASSUME NEW l, l \in Todo, ~Plan!SameCase(Label(pos), l)
            PROVE  l \in Todo'
        <5>1. PICK s \in Int, c \in Int, f \in Int, i \in Int :
                     /\ l = <<s, c, f, i>> /\ InPlan(s, c, f, i, sel)
                     /\ AtOrAfter(s, c, f, i, pos)
          BY <4>6, <4>1, <4>2, <1>0, Zenon
        <5>2. AtOrAfter(s, c, f, i, pos')
          BY <5>1, <4>3, <4>4, <4>6, Zenon
        <5> QED BY <5>1, <5>2, <4>1, <4>2, <1>0, Zenon
      <4> QED BY <4>1, <4>5, <4>6, Zenon
    <3>8. PICK l : l = Label(pos)
      BY Zenon
    <3>9. Plan!IsNext(l) /\ Plan!IsCase(l) /\ Out' = Append(Out, l)
          /\ Todo' = {m \in Todo : ~Plan!SameCase(l, m)}
      BY <3>5, <3>6, <3>7, <3>8, Zenon
    <3>10. Plan!FailCase(l)
      BY <3>9, Zenon DEF Plan!FailCase, Out
    <3>11. Plan!Next
      BY <3>5, <3>8, <3>10, Zenon DEF Plan!Next
    <3> QED BY <3>11, Zenon DEF PlanStep
  <2> QED BY <2>1, <2>2, <2>3, <1>s, Zenon
<1>10. ASSUME unchecked_setup_done PROVE PlanStep
  <2>1. /\ pc = "usetup" /\ pc' = "tfun" /\ pos' = AtTest(pos, 1)
        /\ UNCHANGED <<sel, resultlst>> /\ 1 \in Nat
    BY <1>10, Zenon DEF unchecked_setup_done, setting, results
  <2>2. /\ pos'.s = pos.s /\ pos'.c = pos.c /\ pos'.f = 1
        /\ 1 <= Len(TCase(pos).tests) => pos'.i = TCase(pos).tests[1].lo
        /\ Len(TCase(pos).tests) \in Nat
    <3>1. pos.s \in 1 .. Len(Program) /\ pos.c \in 1 .. Len(Suite(pos).tcases) /\ 1 >= 1
      BY <2>1, <1>c
    <3> QED BY <2>1, <3>1, <1>0, AtTestMoves, Zenon
  <2>3. InPlan(pos.s, pos.c, pos.f, pos.i, sel) /\ pos.f = 0 /\ pos.i = 0
    BY <2>1, <1>c, Zenon DEF InPlan, PosInv, Suite, TCase
  <2>4. Label(pos) \in Todo /\ Plan!IsNext(Label(pos)) /\ Plan!IsCase(Label(pos))
    BY <1>0, <2>1, <2>3, NextLabel, Zenon DEF Plan!IsCase, Label
  <2>5. \A s, c, f, i \in Int :
          InPlan(s, c, f, i, sel) /\ s = pos.s /\ c = pos.c /\ f = 1 => i >= pos'.i
    <3> SUFFICES ASSUME NEW i \in Int, InPlan(pos.s, pos.c, 1, i, sel) PROVE i >= pos'.i
      BY <1>0, Zenon
    <3>1. /\ 1 \in 1 .. Len(TCase(pos).tests) /\ TCase(pos).tests[1].lo \in Int
          /\ TCase(pos).tests[1].lo <= i
      BY <2>1, <1>q, SMTT(30)
    <3> QED BY <3>1, <2>2, SMTT(30)
  <2>6. \A s, c, f, i \in Int : InPlan(s, c, f, i, sel) =>
           (AtOrAfter(s, c, f, i, pos') <=>
              /\ AtOrAfter(s, c, f, i, pos)
              /\ ~(s = pos.s /\ c = pos.c /\ f = pos.f /\ i = pos.i))
    BY <2>2, <2>3, <2>5, <1>0, <1>p, SMTT(30) DEF AtOrAfter
  <2>7. Todo' = Todo \ {Label(pos)}
    BY <2>1, <2>6, <1>0, MovePast, Zenon
  <2>8. Plan!EnterCase(Label(pos))
    BY <2>1, <2>4, <2>7, Zenon DEF Plan!EnterCase
  <2> QED BY <2>4, <2>8, Zenon DEF PlanStep, Plan!Next
<1>11. ASSUME next_tfun PROVE PlanStep
  <2>1. /\ pc = "tfun" /\ pc' = "tfun" /\ pos' = AtTest(pos, pos.f + 1)
        /\ pos.f <= Len(TCase(pos).tests) /\ pos.i >= TCase(pos).tests[pos.f].hi
        /\ UNCHANGED <<sel, resultlst>> /\ pos.f >= 1
    BY <1>11, Zenon DEF next_tfun, setting, results, PosInv
  <2>2. /\ pos'.s = pos.s /\ pos'.c = pos.c /\ pos'.f = pos.f + 1
        /\ pos.f + 1 <= Len(TCase(pos).tests) => pos'.i = TCase(pos).tests[pos.f + 1].lo
        /\ Len(TCase(pos).tests) \in Nat
    <3>1. pos.f + 1 \in Nat /\ pos.f + 1 >= 1
      BY <1>0
    <3> QED BY <2>1, <3>1, <1>0, <1>c, AtTestMoves, Zenon
  <2>3. \A s, c, f, i \in Int :
          InPlan(s, c, f, i, sel) /\ s = pos.s /\ c = pos.c =>
            /\ f = pos.f + 1 => i >= pos'.i
            /\ f = pos.f => i < pos.i
    <3> SUFFICES ASSUME NEW f \in Int, NEW i \in Int, InPlan(pos.s, pos.c, f, i, sel)
                 PROVE  /\ f = pos.f + 1 => i >= pos'.i
                        /\ f = pos.f => i < pos.i
      BY <1>0, Zenon
    <3>1. f # 0 => /\ f \in 1 .. Len(TCase(pos).tests)
                   /\ TCase(pos).tests[f].lo \in Int /\ TCase(pos).tests[f].hi \in Int
                   /\ TCase(pos).tests[f].lo <= i /\ i < TCase(pos).tests[f].hi
      BY <2>1, <1>q, Zenon
    <3>2. ASSUME f = pos.f + 1 PROVE i >= pos'.i
      BY <3>1, <3>2, <2>1, <2>2, <1>0, SMTT(30)
    <3>3. ASSUME f = pos.f PROVE i < pos.i
      <4> DEFINE hi == TCase(pos).tests[pos.f].hi
      <4>1. hi \in Int /\ i < hi /\ pos.i >= hi
        BY <3>1, <3>3, <2>1, <1>0, SMTT(30)
      <4> HIDE DEF hi
      <4> QED BY <4>1, <1>0
    <3> QED BY <3>2, <3>3, Zenon
  <2>4. \A s, c, f, i \in Int : InPlan(s, c, f, i, sel) =>
          (AtOrAfter(s, c, f, i, pos) <=> AtOrAfter(s, c, f, i, pos'))
    <3> SUFFICES ASSUME NEW s \in Int, NEW c \in Int, NEW f \in Int, NEW i \in Int,
                        InPlan(s, c, f, i, sel)
                 PROVE  AtOrAfter(s, c, f, i, pos) <=> AtOrAfter(s, c, f, i, pos')
      BY Zenon
    <3>1. /\ s = pos.s /\ c = pos.c /\ f = pos.f + 1 => i >= pos'.i
          /\ s = pos.s /\ c = pos.c /\ f = pos.f => i < pos.i
      BY <2>3, Zenon
    <3> QED BY <3>1, <2>2, <1>0, SMTT(30) DEF AtOrAfter
  <2> QED BY <2>1, <2>4, <1>o, Zenon
<1>12. ASSUME start_test \/ tfuns_done PROVE PlanStep
  <2>1. /\ pc = "tfun" /\ pc' # "idle" /\ pos' = NextFixture(pos)
        /\ UNCHANGED <<sel, resultlst>>
    BY <1>12, Zenon DEF start_test, tfuns_done, setting, results
  <2>2. pos'.s = pos.s /\ pos'.c = pos.c /\ pos'.f = pos.f /\ pos'.i = pos.i
    BY <2>1, <1>0, PositionsMove, Zenon
  <2> QED BY <2>1, <2>2, <1>s, Zenon
<1>13. ASSUME InTestStep PROVE PlanStep
  <2>1. pc \in InTest /\ pc # "idle" /\ sel' = sel
    BY <1>13, Zenon DEF InTestStep
  <2>2. CASE /\ pc' \in InTest \cup {"ended", "exited", "lost"}
             /\ \E n \in Nat : pos' = [pos EXCEPT !.x = n]
             /\ UNCHANGED resultlst
    <3>1. /\ pos'.s = pos.s /\ pos'.c = pos.c /\ pos'.f = pos.f /\ pos'.i = pos.i
      BY <2>2, <1>0, Zenon DEF Positions
    <3> QED BY <2>1, <2>2, <3>1, <1>s, Zenon
  <2>3. CASE \E tr : tr.label = Label(pos) /\ TestDone(tr)
    <3>1. PICK tr : tr.label = Label(pos) /\ TestDone(tr)
      BY <2>3, Zenon
    <3>2. /\ srunner_add_failure(tr) /\ pc' = "tfun"
          /\ pos' = [pos EXCEPT !.i = @ + 1, !.x = 0]
      BY <3>1, Zenon DEF TestDone
    <3>3. /\ pos'.s = pos.s /\ pos'.c = pos.c /\ pos'.f = pos.f /\ pos'.i = pos.i + 1
      BY <3>2, <1>0, Zenon DEF Positions
    <3>4. /\ pos.f \in 1 .. Len(TCase(pos).tests)
          /\ InPlan(pos.s, pos.c, pos.f, pos.i, sel)
      BY <2>1, <1>c, Zenon DEF InPlan, PosInv, Suite, TCase
    <3>5. Label(pos) \in Todo /\ Plan!IsNext(Label(pos))
      BY <1>0, <2>1, <3>4, NextLabel, Zenon
    <3>6. ~Plan!IsCase(Label(pos))
      BY <3>4, <2>1, <1>c DEF Plan!IsCase, Label
    <3>7. Out' = Append(Out, Label(pos))
      BY <3>1, <3>2, OutAppends, Zenon
    <3>8. \A s, c, f, i \in Int : InPlan(s, c, f, i, sel) =>
             (AtOrAfter(s, c, f, i, pos') <=>
                /\ AtOrAfter(s, c, f, i, pos)
                /\ ~(s = pos.s /\ c = pos.c /\ f = pos.f /\ i = pos.i))
      BY <3>3, <1>0 DEF AtOrAfter
    <3>9. Todo' = Todo \ {Label(pos)}
      BY <2>1, <3>2, <3>8, <1>0, MovePast, Zenon
    <3>l. PICK l : l = Label(pos)
      BY Zenon
    <3>m. Plan!IsNext(l) /\ ~Plan!IsCase(l) /\ Out' = Append(Out, l) /\ Todo' = Todo \ {l}
      BY <3>5, <3>6, <3>7, <3>9, <3>l, Zenon
    <3>10. Plan!ReportTest(l)
      BY <3>m, Zenon DEF Plan!ReportTest, Out
    <3>11. Plan!Next
      BY <3>5, <3>10, <3>l, Zenon DEF Plan!Next
    <3> QED BY <3>11, Zenon DEF PlanStep
  <2> QED BY <1>13, <2>2, <2>3, Zenon DEF InTestStep
<1>14. ASSUME UNCHANGED vars PROVE PlanStep
  <2>1. UNCHANGED <<Todo, Out>>
    BY <1>14, Zenon DEF vars, Todo, Out
  <2> QED BY <2>1 DEF PlanStep
<1> QED BY <1>1, <1>2, <1>3, <1>4, <1>5, <1>6, <1>7, <1>8, <1>9, <1>10, <1>11, <1>12,
           <1>13, <1>14, InTestSteps DEF Next

(* The results of a run, for every program and every selection, are those  *)
(* of the selected iterations in the order of suites, cases, tests and     *)
(* iterations, each once, and a case is dropped only with a result of its  *)
(* unchecked setup: the nested loops of srunner_iterate_suites() and       *)
(* srunner_iterate_tcase_tfuns() implement the plan.                       *)
THEOREM RunImplementsPlan == Spec => Plan!Spec
<1> DEFINE Listed == IsSequence(resultlst)
<1>1. Init => PosInv /\ ContainInv /\ Listed /\ Plan!Init
  <2> SUFFICES ASSUME Init PROVE PosInv /\ ContainInv /\ Listed /\ Plan!Init
    BY Zenon
  <2>1. Listed
    <3>1. resultlst = << >> /\ << >> \in Seq({})
      BY DEF Init
    <3> QED BY <3>1, Zenon DEF IsSequence
  <2>2. Plan!Init
    BY SMTT(30) DEF Init, Plan!Init, Todo
  <2> QED BY <2>1, <2>2, PosInit, Zenon
<1>2. Listed /\ [Next]_vars => Listed'
  <2> SUFFICES ASSUME Listed, [Next]_vars PROVE Listed'
    BY Zenon
  <2>1. UNCHANGED resultlst \/ \E tr : resultlst' = Append(resultlst, tr)
    BY ResultsStep, Zenon DEF srunner_add_failure, results
  <2>2. CASE UNCHANGED resultlst
    BY <2>2, Zenon
  <2>3. ASSUME NEW tr, resultlst' = Append(resultlst, tr) PROVE Listed'
    BY <2>3, AppendAny, Zenon
  <2> QED BY <2>1, <2>2, <2>3, Zenon
<1>3. PosInv /\ ContainInv /\ [Next]_vars => PosInv'
  BY PosStep, Zenon DEF ContainInv
<1>4. PosInv /\ PosInv' /\ ContainInv /\ Listed /\ [Next]_vars => PlanStep
  BY NextFollowsPlan, Zenon DEF ContainInv
<1>5. PlanStep => [Plan!Next]_<<Todo, [k \in 1 .. Len(resultlst) |-> resultlst[k].label]>>
  BY DEF PlanStep, Out
<1> QED BY <1>1, <1>2, <1>3, <1>4, <1>5, NextContained, PTL DEF Spec, Plan!Spec

-----------------------------------------------------------------------------
(* The order in which fixtures and tests are called.                       *)

(* How many functions of a kind a case has; the test is numbered after the  *)
(* checked setups.                                                          *)
Fixtures(kind, tc) == CASE kind = "usetup" -> tc.usetup
                        [] kind = "uteardown" -> tc.uteardown
                        [] kind = "csetup" -> tc.csetup
                        [] kind = "test" -> tc.csetup + 1
                        [] kind = "cteardown" -> tc.cteardown

(* The place in its group of the x-th function of a kind *)
Place(kind, tc, x) == IF kind = "cteardown" THEN tc.csetup + 1 + x ELSE x

(* A call that others of its group may follow *)
Excused(c) == c.how = "ok" \/ (c.site[3] = "test" /\ ~c.forked)

(* Call k of history cs is that of the next function of its group *)
InPlace(cs, k) ==
  LET l == cs[k].site[2]
      n == k - FirstOf(CallsIn(cs, l)) + 1
  IN  /\ n <= Len(Expected(l))
      /\ <<cs[k].site[3], cs[k].site[4]>> = Expected(l)[n]
      /\ \A j \in CallsIn(cs, l) : j < k => Excused(cs[j])

AllInPlace(cs) == \A k \in 1 .. Len(cs) : InPlace(cs, k)

(* Result r is no pass, or every function of its group is in history cs *)
Complete(r, cs) ==
  r.rtype = "CK_PASS" =>
    \A n \in 1 .. Len(Expected(r.label)) :
      \E j \in CallsIn(cs, r.label) :
        <<cs[j].site[3], cs[j].site[4]>> = Expected(r.label)[n]

AllComplete == \A k \in 1 .. Len(resultlst) :
                 resultlst[k].run = run => Complete(resultlst[k], calls)

(* A case of which nothing failed in the unchecked setup is torn down *)
TornDown(cs, s, c) ==
  LET tc == Program[s].tcases[c]
  IN  BadIn(cs, <<s, c, 0, 0>>) = {} =>
        tc.uteardown = 0 \/ CallsIn(cs, <<s, c, Len(tc.tests) + 1, 0>>) # {}

(* The run has left case c of suite s behind *)
Behind(s, c) == IF pc = "idle" THEN run > 0
                ELSE s < pos.s \/ (s = pos.s /\ c < pos.c)

AllTornDown == NoTeardownFailed =>
                 \A s, c \in Nat : Behind(s, c) /\ InPlan(s, c, 0, 0, sel)
                                     => TornDown(calls, s, c)

(* While the functions of a group are called, the last calls of the history *)
(* are those of the group, as many as come before the next one.             *)
FixtureInv ==
  /\ pc \in {"tcase", "tfun"} => pos.x = 0
  /\ pc \in Kinds =>
       /\ pos.x >= 1 /\ pos.x <= Fixtures(pc, TCase(pos)) + 1
       /\ CallsIn(calls, Label(pos)) =
            Len(calls) - Place(pc, TCase(pos), pos.x) + 2 .. Len(calls)
       /\ \A j \in CallsIn(calls, Label(pos)) : Excused(calls[j])
  /\ pc = "test" => pos.x = TCase(pos).csetup + 1
  /\ pc \in {"receive", "reap"} /\ BadIn(calls, Label(pos)) = {} =>
       CallsIn(calls, Label(pos)) =
         Len(calls) - Len(Expected(Label(pos))) + 1 .. Len(calls)
  /\ (pc = "tfun" /\ pos.f > Len(TCase(pos).tests)) \/ pc = "uteardown" =>
       pos.f = Len(TCase(pos).tests) + 1 /\ pos.i = 0

Disciplined == FixtureInv /\ AllInPlace(calls) /\ AllComplete /\ AllTornDown

(* The property in these terms *)
LEMMA DisciplineMeans ==
  FixtureDiscipline <=> UncheckedTeardownsRun /\ AllInPlace(calls) /\ AllComplete
<1>1. \A l : CallsOf(l) = CallsIn(calls, l)
  BY Zenon DEF CallsOf, CallsIn
<1>2. AllInPlace(calls) <=>
        \A k \in 1 .. Len(calls) :
          LET l == calls[k].site[2]
              n == k - FirstOf(CallsOf(l)) + 1
          IN  /\ n <= Len(Expected(l))
              /\ <<calls[k].site[3], calls[k].site[4]>> = Expected(l)[n]
              /\ \A j \in CallsOf(l) :
                   j < k => \/ calls[j].how = "ok"
                            \/ calls[j].site[3] = "test" /\ ~calls[j].forked
  BY Zenon DEF AllInPlace, InPlace, Excused, CallsOf, CallsIn
<1>3. AllComplete <=>
        \A k \in 1 .. Len(resultlst) :
          LET r == resultlst[k]
          IN  r.run = run /\ r.rtype = "CK_PASS" =>
                \A n \in 1 .. Len(Expected(r.label)) :
                  \E j \in CallsOf(r.label) :
                    <<calls[j].site[3], calls[j].site[4]>> = Expected(r.label)[n]
  BY Zenon DEF AllComplete, Complete, CallsOf, CallsIn
<1> QED BY <1>2, <1>3, Zenon DEF FixtureDiscipline

(* The functions of a kind, as a sequence *)
LEMMA FixtureSeq ==
  ASSUME NEW kind, NEW n \in Nat, NEW e, e = [x \in 1 .. n |-> <<kind, x>>]
  PROVE  /\ e \in Seq({kind} \X Nat) /\ Len(e) = n
         /\ \A x \in 1 .. n : e[x] = <<kind, x>>
<1>1. e \in [1 .. n -> {kind} \X Nat]
  OBVIOUS
<1> QED BY <1>1

(* The functions of a test: checked setups, the test, checked teardowns *)
LEMMA TestGroup ==
  ASSUME NEW n \in Nat, NEW m \in Nat, NEW e,
         e = [x \in 1 .. n |-> <<"csetup", x>>] \o <<<<"test", n + 1>>>>
               \o [x \in 1 .. m |-> <<"cteardown", x>>]
  PROVE  /\ Len(e) = n + 1 + m
         /\ \A x \in 1 .. n : e[x] = <<"csetup", x>>
         /\ e[n + 1] = <<"test", n + 1>>
         /\ \A x \in 1 .. m : e[n + 1 + x] = <<"cteardown", x>>
<1> DEFINE T == {"csetup", "test", "cteardown"} \X Nat
<1>1. PICK a, t, b : /\ a = [x \in 1 .. n |-> <<"csetup", x>>]
                     /\ b = [x \in 1 .. m |-> <<"cteardown", x>>]
                     /\ t = <<<<"test", n + 1>>>>
  BY Zenon
<1>2. /\ a \in Seq({"csetup"} \X Nat) /\ Len(a) = n
      /\ \A x \in 1 .. n : a[x] = <<"csetup", x>>
  BY <1>1, FixtureSeq
<1>3. /\ b \in Seq({"cteardown"} \X Nat) /\ Len(b) = m
      /\ \A x \in 1 .. m : b[x] = <<"cteardown", x>>
  BY <1>1, FixtureSeq
<1>4. t \in Seq({"test"} \X Nat) /\ Len(t) = 1 /\ t[1] = <<"test", n + 1>>
  BY <1>1
<1>5. a \in Seq(T) /\ b \in Seq(T) /\ t \in Seq(T)
  BY <1>2, <1>3, <1>4
<1> HIDE DEF T
<1>6. PICK at : at = a \o t
  BY Zenon
<1>7. /\ at \in Seq(T) /\ Len(at) = n + 1
      /\ \A x \in 1 .. n + 1 : at[x] = IF x <= n THEN a[x] ELSE t[x - n]
  <2>1. /\ a \o t \in Seq(T) /\ Len(a \o t) = Len(a) + Len(t)
        /\ \A x \in 1 .. Len(a) + Len(t) :
             (a \o t)[x] = IF x <= Len(a) THEN a[x] ELSE t[x - Len(a)]
    BY <1>5, Joined, Zenon
  <2> QED BY <1>2, <1>4, <1>6, <2>1, Zenon
<1>8. e = at \o b
  BY <1>1, <1>6, Zenon
<1>9. /\ Len(e) = n + 1 + m
      /\ \A x \in 1 .. n + 1 + m : e[x] = IF x <= n + 1 THEN at[x] ELSE b[x - (n + 1)]
  <2>1. /\ Len(at \o b) = Len(at) + Len(b)
        /\ \A x \in 1 .. Len(at) + Len(b) :
             (at \o b)[x] = IF x <= Len(at) THEN at[x] ELSE b[x - Len(at)]
    BY <1>5, <1>7, Joined, Zenon
  <2> QED BY <1>3, <1>7, <1>8, <2>1, Zenon
<1>10. ASSUME NEW x \in 1 .. n PROVE e[x] = <<"csetup", x>>
  BY <1>2, <1>7, <1>9
<1>11. e[n + 1] = <<"test", n + 1>>
  BY <1>4, <1>7, <1>9
<1>12. ASSUME NEW x \in 1 .. m PROVE e[n + 1 + x] = <<"cteardown", x>>
  <2>1. n + 1 + x \in 1 .. n + 1 + m /\ ~(n + 1 + x <= n + 1) /\ n + 1 + x - (n + 1) = x
    OBVIOUS
  <2> QED BY <1>3, <1>9, <2>1
<1> QED BY <1>9, <1>10, <1>11, <1>12, Zenon

(* The next function to be called is the one at its place in its group *)
LEMMA ExpectedAt ==
  ASSUME PosInv, pc \in Kinds,
         NEW x \in 1 .. Fixtures(pc, TCase(pos)), pc = "test" => x = TCase(pos).csetup + 1
  PROVE  LET n == Place(pc, TCase(pos), x)
         IN  n \in Nat /\ n >= 1 /\ n <= Len(Expected(Label(pos)))
             /\ Expected(Label(pos))[n] = <<pc, x>>
<1> DEFINE tc == TCase(pos)
           l == Label(pos)
           u == [y \in 1 .. tc.usetup |-> <<"usetup", y>>]
           v == [y \in 1 .. tc.uteardown |-> <<"uteardown", y>>]
           a == [y \in 1 .. tc.csetup |-> <<"csetup", y>>]
           t == <<<<"test", tc.csetup + 1>>>>
           b == [y \in 1 .. tc.cteardown |-> <<"cteardown", y>>]
<1>1. /\ pc \in InCase /\ pos \in Positions /\ pos.f \in Nat
      /\ pos.s \in 1 .. Len(Program) /\ pos.c \in 1 .. Len(Suite(pos).tcases)
  BY DEF PosInv, Positions, Kinds, InCase, Suite
<1>2. /\ tc.usetup \in Nat /\ tc.uteardown \in Nat /\ tc.csetup \in Nat
      /\ tc.cteardown \in Nat /\ Len(tc.tests) \in Nat
  BY <1>1, CaseLists, Zenon
<1>3. l[1] = pos.s /\ l[2] = pos.c /\ l[3] = pos.f /\ tc = Program[l[1]].tcases[l[2]]
  BY Zenon DEF Label, TCase
<1>4. Expected(l) = CASE l[3] = 0 -> u
                      [] l[3] > Len(tc.tests) -> v
                      [] OTHER -> a \o t \o b
  BY <1>3, Zenon DEF Expected
<1>5. /\ pc = "usetup" => pos.f = 0
      /\ pc = "uteardown" => pos.f # 0 /\ pos.f > Len(tc.tests)
      /\ pc \in {"csetup", "test", "cteardown"} => pos.f # 0 /\ ~(pos.f > Len(tc.tests))
  BY <1>1, <1>2 DEF PosInv, InTest
<1> HIDE DEF tc, l
<1>6. /\ Len(u) = tc.usetup /\ \A y \in 1 .. tc.usetup : u[y] = <<"usetup", y>>
      /\ Len(v) = tc.uteardown /\ \A y \in 1 .. tc.uteardown : v[y] = <<"uteardown", y>>
  BY <1>2, FixtureSeq
<1>7. CASE pc \in {"usetup", "uteardown"}
  <2>1. Expected(l) = IF pc = "usetup" THEN u ELSE v
    <3> HIDE DEF u, v, a, t, b
    <3> QED BY <1>3, <1>4, <1>5, <1>7, SMTT(30)
  <2> HIDE DEF u, v
  <2>2. x \in 1 .. (IF pc = "usetup" THEN tc.usetup ELSE tc.uteardown)
    BY <1>7, Zenon DEF Fixtures, tc
  <2>3. Place(pc, tc, x) = x
    BY <1>7, Zenon DEF Place
  <2> QED BY <1>2, <1>6, <1>7, <2>1, <2>2, <2>3 DEF l, tc
<1>8. CASE pc \in {"csetup", "test", "cteardown"}
  <2>1. Expected(l) = a \o t \o b
    <3> HIDE DEF u, v, a, t, b
    <3> QED BY <1>3, <1>4, <1>5, <1>8, Zenon
  <2>2. PICK e : e = a \o t \o b
    BY Zenon
  <2>3. /\ Len(e) = tc.csetup + 1 + tc.cteardown
        /\ \A y \in 1 .. tc.csetup : e[y] = <<"csetup", y>>
        /\ e[tc.csetup + 1] = <<"test", tc.csetup + 1>>
        /\ \A y \in 1 .. tc.cteardown : e[tc.csetup + 1 + y] = <<"cteardown", y>>
    <3>1. PICK n \in Nat, m \in Nat : n = tc.csetup /\ m = tc.cteardown
      BY <1>2
    <3>2. e = [y \in 1 .. n |-> <<"csetup", y>>] \o <<<<"test", n + 1>>>>
                \o [y \in 1 .. m |-> <<"cteardown", y>>]
      BY <2>2, <3>1, Zenon
    <3> HIDE DEF a, b, t
    <3>3. /\ Len(e) = n + 1 + m
          /\ \A y \in 1 .. n : e[y] = <<"csetup", y>>
          /\ e[n + 1] = <<"test", n + 1>>
          /\ \A y \in 1 .. m : e[n + 1 + y] = <<"cteardown", y>>
      BY <3>2, TestGroup
    <3> QED BY <3>1, <3>3, Zenon
  <2>6. /\ pc = "csetup" => x \in 1 .. tc.csetup /\ Place(pc, tc, x) = x
        /\ pc = "test" => x = tc.csetup + 1 /\ Place(pc, tc, x) = x
        /\ pc = "cteardown" => x \in 1 .. tc.cteardown /\ Place(pc, tc, x) = tc.csetup + 1 + x
    BY Zenon DEF Fixtures, Place, tc
  <2>7. Expected(l) = e
    BY <2>1, <2>2, Zenon
  <2>8. CASE pc = "csetup"
    BY <1>2, <2>3, <2>6, <2>7, <2>8 DEF l, tc
  <2>9. CASE pc = "test"
    BY <1>2, <2>3, <2>6, <2>7, <2>9 DEF l, tc
  <2>10. CASE pc = "cteardown"
    BY <1>2, <2>3, <2>6, <2>7, <2>10, SMTT(30) DEF l, tc
  <2> QED BY <1>8, <2>8, <2>9, <2>10, Zenon
<1> QED BY <1>7, <1>8, Zenon DEF Kinds

(* The number of functions of the group of a test *)
LEMMA ExpectedOfTest ==
  ASSUME PosInv, pc \in InTest
  PROVE  Len(Expected(Label(pos))) = TCase(pos).csetup + 1 + TCase(pos).cteardown
<1> DEFINE tc == TCase(pos)
           l == Label(pos)
           a == [y \in 1 .. tc.csetup |-> <<"csetup", y>>]
           t == <<<<"test", tc.csetup + 1>>>>
           b == [y \in 1 .. tc.cteardown |-> <<"cteardown", y>>]
<1>1. /\ pc \in InCase /\ pos \in Positions /\ pos.f \in Nat
      /\ pos.s \in 1 .. Len(Program) /\ pos.c \in 1 .. Len(Suite(pos).tcases)
  BY DEF PosInv, Positions, InTest, InCase, Suite
<1>2. tc.csetup \in Nat /\ tc.cteardown \in Nat /\ Len(tc.tests) \in Nat
  BY <1>1, CaseLists
<1>3. /\ l[1] = pos.s /\ l[2] = pos.c /\ l[3] = pos.f /\ tc = Program[l[1]].tcases[l[2]]
  BY DEF Label, TCase
<1>f. pos.f # 0 /\ ~(pos.f > Len(tc.tests))
  BY <1>1, <1>2 DEF PosInv
<1>4. Expected(l) = a \o t \o b
  <2> HIDE DEF tc, l
  <2> QED BY <1>3, <1>f, Zenon DEF Expected
<1> HIDE DEF tc, l
<1>5. Len(a \o t \o b) = tc.csetup + 1 + tc.cteardown
  BY <1>2, TestGroup
<1> QED BY <1>4, <1>5, Zenon DEF tc, l

(* The least of an interval *)
LEMMA FirstOfInterval ==
  ASSUME NEW a \in Nat, NEW b \in Nat, a <= b
  PROVE  FirstOf(a .. b) = a
<1>1. a .. b \subseteq Nat /\ a .. b # {} /\ a \in a .. b
  OBVIOUS
<1>2. PICK f : f = FirstOf(a .. b)
  BY Zenon
<1>3. f \in a .. b /\ \A k \in a .. b : f <= k
  BY <1>1, <1>2, FirstOfSet, Zenon
<1> QED BY <1>1, <1>2, <1>3

(* A call of the next function of its group leaves every call in its place *)
LEMMA HistoryGrows ==
  ASSUME NEW cs \in Seq(CallRecs), NEW c \in CallRecs, AllInPlace(cs),
         NEW l, c.site[2] = l, NEW n \in Nat, n >= 1,
         CallsIn(cs, l) = Len(cs) - n + 2 .. Len(cs),
         n <= Len(Expected(l)), Expected(l)[n] = <<c.site[3], c.site[4]>>,
         \A j \in CallsIn(cs, l) : Excused(cs[j])
  PROVE  /\ AllInPlace(Append(cs, c))
         /\ CallsIn(Append(cs, c), l) = Len(Append(cs, c)) - n + 1 .. Len(Append(cs, c))
<1>1. PICK ds : ds = Append(cs, c)
  BY Zenon
<1>2. /\ Len(cs) \in Nat /\ Len(ds) = Len(cs) + 1
      /\ \A k \in 1 .. Len(cs) : ds[k] = cs[k]
      /\ ds[Len(cs) + 1] = c
      /\ \A m : CallsIn(ds, m) = CallsIn(cs, m) \cup (IF c.site[2] = m THEN {Len(cs) + 1} ELSE {})
  BY <1>1, CallsGrow
<1>3. PICK a : a = Len(cs) - n + 2
  OBVIOUS
<1>4. a \in Nat /\ a <= Len(cs) + 1
  <2>1. CASE n = 1
    BY <1>2, <1>3, <2>1
  <2>2. CASE n # 1
    <3>1. a \in CallsIn(cs, l)
      BY <1>2, <1>3, <2>2
    <3> QED BY <1>2, <1>3, <3>1 DEF CallsIn
  <2> QED BY <2>1, <2>2
<1>5. CallsIn(ds, l) = a .. Len(cs) + 1
  <2>1. CallsIn(ds, l) = CallsIn(cs, l) \cup {Len(cs) + 1}
    BY <1>2, Zenon
  <2> QED BY <1>2, <1>3, <1>4, <2>1
<1>6. ASSUME NEW k \in 1 .. Len(cs) PROVE InPlace(ds, k)
  <2>1. PICK m : m = cs[k].site[2]
    BY Zenon
  <2>2. /\ k \in CallsIn(cs, m) /\ CallsIn(cs, m) \subseteq 1 .. Len(cs)
        /\ \A j \in CallsIn(ds, m) : j \in CallsIn(cs, m) \/ j = Len(cs) + 1
    <3>1. k \in CallsIn(cs, m) /\ CallsIn(cs, m) \subseteq 1 .. Len(cs)
      BY <2>1, Zenon DEF CallsIn
    <3>2. \A j \in CallsIn(ds, m) : j \in CallsIn(cs, m) \/ j = Len(cs) + 1
      <4>1. CallsIn(ds, m) = CallsIn(cs, m) \cup (IF c.site[2] = m THEN {Len(cs) + 1} ELSE {})
        BY <1>2, Zenon
      <4>2. CASE c.site[2] = m
        BY <4>1, <4>2, Zenon
      <4>3. CASE c.site[2] # m
        BY <4>1, <4>3, Zenon
      <4> QED BY <4>2, <4>3, Zenon
    <3> QED BY <3>1, <3>2, Zenon
  <2>3. FirstOf(CallsIn(ds, m)) = FirstOf(CallsIn(cs, m))
    <3>1. CASE c.site[2] = m
      <4>1. CallsIn(ds, m) = CallsIn(cs, m) \cup {Len(cs) + 1}
        BY <1>2, <3>1, Zenon
      <4> QED BY <1>2, <2>2, <4>1, FirstOfMore, SMTT(30)
    <3>2. CASE c.site[2] # m
      <4>1. CallsIn(ds, m) = CallsIn(cs, m) \cup {}
        BY <1>2, <3>2, Zenon
      <4>2. CallsIn(cs, m) \cup {} = CallsIn(cs, m)
        BY Zenon
      <4> QED BY <4>1, <4>2, Zenon
    <3> QED BY <3>1, <3>2
  <2>4. InPlace(cs, k)
    BY Zenon DEF AllInPlace
  <2>5. ds[k] = cs[k] /\ k \in Nat
    BY <1>2
  <2>6. ASSUME NEW j \in CallsIn(ds, m), j < k PROVE Excused(ds[j])
    <3>1. j \in CallsIn(cs, m) /\ j \in 1 .. Len(cs)
      BY <1>2, <2>2, <2>5, <2>6
    <3>2. Excused(cs[j])
      BY <2>1, <2>4, <2>6, <3>1, Zenon DEF InPlace
    <3> QED BY <1>2, <3>1, <3>2, Zenon
  <2> QED BY <2>1, <2>3, <2>4, <2>5, <2>6, Zenon DEF InPlace
<1>7. InPlace(ds, Len(cs) + 1)
  <2>1. FirstOf(CallsIn(ds, l)) = a
    <3>1. Len(cs) + 1 \in Nat
      BY <1>2
    <3> QED BY <1>4, <1>5, <3>1, FirstOfInterval, Zenon
  <2>2. Len(cs) + 1 - a + 1 = n
    BY <1>2, <1>3
  <2>3. ASSUME NEW j \in CallsIn(ds, l), j < Len(cs) + 1 PROVE Excused(ds[j])
    <3>1. j \in CallsIn(cs, l) /\ j \in 1 .. Len(cs)
      BY <1>2, <2>3 DEF CallsIn
    <3> QED BY <1>2, <3>1, Zenon
  <2>4. PICK k : k = Len(cs) + 1
    BY Zenon
  <2>5. /\ ds[k] = c /\ c.site[2] = l /\ k - FirstOf(CallsIn(ds, l)) + 1 = n
        /\ \A j \in CallsIn(ds, l) : j < k => Excused(ds[j])
    <3>1. ds[k] = c /\ c.site[2] = l
      BY <1>2, <2>4, Zenon
    <3>2. k - a + 1 = n
      BY <1>2, <1>4, <2>2, <2>4
    <3>3. k - FirstOf(CallsIn(ds, l)) + 1 = n
      BY <2>1, <3>2, Zenon
    <3>4. \A j \in CallsIn(ds, l) : j < k => Excused(ds[j])
      BY <2>3, <2>4, Zenon
    <3> QED BY <3>1, <3>3, <3>4, Zenon
  <2>6. InPlace(ds, k)
    BY <2>5, Zenon DEF InPlace
  <2> QED BY <2>4, <2>6, Zenon
<1>8. AllInPlace(ds)
  BY <1>2, <1>6, <1>7 DEF AllInPlace
<1>9. CallsIn(ds, l) = Len(ds) - n + 1 .. Len(ds)
  BY <1>2, <1>3, <1>5
<1> QED BY <1>1, <1>8, <1>9, Zenon

(* The same of the steps of a run *)
CallPlaced(how) ==
  /\ CallsStep /\ AllInPlace(calls') /\ Len(calls') \in Nat
  /\ CallsIn(calls', Label(pos)) =
       Len(calls') - Place(pc, TCase(pos), pos.x) + 1 .. Len(calls')
  /\ how = "ok" \/ (pc = "test" /\ ~Forks) =>
       \A j \in CallsIn(calls', Label(pos)) : Excused(calls'[j])
  /\ how # "ok" => BadIn(calls', Label(pos)) # {}

(* A user function is called in its place *)
LEMMA CallInPlace ==
  ASSUME OrderInv, PosInv, FixtureInv, AllInPlace(calls), pc \in Kinds,
         pos.x <= Fixtures(pc, TCase(pos)),
         NEW how \in {"ok", "fail", "crash"}, Called(pc, how)
  PROVE  CallPlaced(how)
<1> DEFINE l == Label(pos)
           n == Place(pc, TCase(pos), pos.x)
<1>1. /\ pos \in Positions /\ pos.x \in Nat /\ calls \in Seq(CallRecs) /\ Len(calls) \in Nat
      /\ pc \in InGroup
  BY DEF PosInv, Positions, OrderInv, Kinds, InGroup, InTest
<1>2. PICK c \in CallRecs : /\ calls' = Append(calls, c) /\ c.how = how /\ c.forked = Forks
                            /\ c.site[2] = l /\ c.site[3] = pc /\ c.site[4] = pos.x
  BY <1>1, CallRecorded
<1>3. /\ pos.x >= 1 /\ CallsIn(calls, l) = Len(calls) - n + 2 .. Len(calls)
      /\ \A j \in CallsIn(calls, l) : Excused(calls[j])
      /\ pc = "test" => pos.x = TCase(pos).csetup + 1
  BY Zenon DEF FixtureInv
<1>4. Fixtures(pc, TCase(pos)) \in Nat
  <2>1. /\ pos.s \in 1 .. Len(Program) /\ pos.c \in 1 .. Len(Suite(pos).tcases)
    BY <1>1 DEF PosInv, Kinds, InCase, Positions
  <2>2. /\ TCase(pos).usetup \in Nat /\ TCase(pos).uteardown \in Nat
        /\ TCase(pos).csetup \in Nat /\ TCase(pos).cteardown \in Nat
    BY <1>1, <2>1, CaseLists, Zenon
  <2> QED BY <2>2 DEF Fixtures, Kinds
<1>5. pos.x \in 1 .. Fixtures(pc, TCase(pos))
  BY <1>1, <1>3, <1>4
<1>6. n \in Nat /\ n >= 1 /\ n <= Len(Expected(l)) /\ Expected(l)[n] = <<pc, pos.x>>
  BY <1>3, <1>5, ExpectedAt, Zenon
<1> HIDE DEF l, n
<1>7. AllInPlace(calls') /\ CallsIn(calls', l) = Len(calls') - n + 1 .. Len(calls')
  BY <1>1, <1>2, <1>3, <1>6, HistoryGrows, Zenon
<1>8. /\ \A k \in 1 .. Len(calls) : calls'[k] = calls[k]
      /\ calls'[Len(calls) + 1] = c /\ Len(calls') = Len(calls) + 1
      /\ CallsIn(calls', l) = CallsIn(calls, l) \cup {Len(calls) + 1}
  BY <1>1, <1>2, CallsGrow
<1>9. CallsIn(calls, l) \subseteq 1 .. Len(calls)
  BY Zenon DEF CallsIn
<1>10. ASSUME how = "ok" \/ (pc = "test" /\ ~Forks), NEW j \in CallsIn(calls', l)
       PROVE  Excused(calls'[j])
  <2>1. CASE j \in CallsIn(calls, l)
    BY <1>3, <1>8, <1>9, <2>1
  <2>2. CASE j = Len(calls) + 1
    BY <1>2, <1>8, <1>10, <2>2, Zenon DEF Excused
  <2> QED BY <1>8, <2>1, <2>2, Zenon
<1>11. how # "ok" => BadIn(calls', l) # {}
  BY <1>2, <1>8, Zenon DEF BadIn
<1>12. CallsStep
  BY <1>1, <1>2, Zenon DEF CallsStep, l
<1>13. Len(calls') \in Nat
  BY <1>1, <1>8
<1> QED BY <1>7, <1>10, <1>11, <1>12, <1>13, Zenon DEF l, n, CallPlaced

(* A pass stays complete, and so do the results when the new ones are *)
LEMMA CompleteKept ==
  ASSUME OrderInv, run' = run, CallsStep, AllComplete,
         \/ UNCHANGED resultlst
         \/ \E tr : Complete(tr, calls') /\ resultlst' = Append(resultlst, tr)
  PROVE  AllComplete'
<1>1. IsSequence(resultlst) /\ calls \in Seq(CallRecs)
  BY Zenon DEF OrderInv
<1>2. ASSUME NEW r, Complete(r, calls) PROVE Complete(r, calls')
  <2>1. CASE UNCHANGED calls
    BY <1>2, <2>1, Zenon
  <2>2. ASSUME NEW c \in CallRecs, calls' = Append(calls, c) PROVE Complete(r, calls')
    <3>1. /\ \A k \in 1 .. Len(calls) : calls'[k] = calls[k]
          /\ CallsIn(calls, r.label) \subseteq CallsIn(calls', r.label)
      BY <1>1, <2>2, CallsGrow
    <3>2. CallsIn(calls, r.label) \subseteq 1 .. Len(calls)
      BY Zenon DEF CallsIn
    <3>3. \A j \in CallsIn(calls, r.label) : j \in CallsIn(calls', r.label) /\ calls'[j] = calls[j]
      BY <3>1, <3>2, Zenon
    <3> QED BY <1>2, <3>3, Zenon DEF Complete
  <2> QED BY <2>1, <2>2, Zenon DEF CallsStep
<1>3. \A k \in 1 .. Len(resultlst) : resultlst[k].run = run => Complete(resultlst[k], calls')
  BY <1>2, Zenon DEF AllComplete
<1>4. CASE UNCHANGED resultlst
  BY <1>3, <1>4, Zenon DEF AllComplete
<1>5. ASSUME NEW tr, Complete(tr, calls'), resultlst' = Append(resultlst, tr)
      PROVE  AllComplete'
  <2>1. /\ Len(resultlst) \in Nat /\ Len(resultlst') = Len(resultlst) + 1
        /\ \A k \in 1 .. Len(resultlst) : resultlst'[k] = resultlst[k]
        /\ resultlst'[Len(resultlst) + 1] = tr
    BY <1>1, <1>5, AppendAny
  <2>2. ASSUME NEW k \in 1 .. Len(resultlst'), resultlst'[k].run = run'
        PROVE  Complete(resultlst'[k], calls')
    <3>1. k \in 1 .. Len(resultlst) \/ k = Len(resultlst) + 1
      BY <2>1
    <3> QED BY <1>3, <1>5, <2>1, <2>2, <3>1, Zenon
  <2> QED BY <2>2, Zenon DEF AllComplete
<1> QED BY <1>4, <1>5, Zenon

(* A case that is torn down stays so, and the cases left behind are all     *)
(* torn down when the ones left by this step are.                           *)
LEMMA TornDownKept ==
  ASSUME OrderInv, pc # "idle", pc' # "idle", sel' = sel, CallsStep, AllTornDown,
         ASSUME NoTeardownFailed', NEW s \in Nat, NEW c \in Nat, InPlan(s, c, 0, 0, sel),
                s < pos'.s \/ (s = pos'.s /\ c < pos'.c)
         PROVE  s < pos.s \/ (s = pos.s /\ c < pos.c) \/ TornDown(calls', s, c)
  PROVE  AllTornDown'
<1>1. calls \in Seq(CallRecs)
  BY Zenon DEF OrderInv
<1>2. NoTeardownFailed' => NoTeardownFailed
  <2>1. CASE UNCHANGED calls
    BY <2>1, Zenon DEF NoTeardownFailed
  <2>2. ASSUME NEW c \in CallRecs, calls' = Append(calls, c)
        PROVE  NoTeardownFailed' => NoTeardownFailed
    BY <1>1, <2>2, TeardownsBefore, Zenon
  <2> QED BY <2>1, <2>2, Zenon DEF CallsStep
<1>3. ASSUME NEW s \in Nat, NEW c \in Nat, TornDown(calls, s, c) PROVE TornDown(calls', s, c)
  <2>1. CASE UNCHANGED calls
    BY <1>3, <2>1, Zenon
  <2>2. ASSUME NEW d \in CallRecs, calls' = Append(calls, d) PROVE TornDown(calls', s, c)
    <3>1. \A l : CallsIn(calls, l) \subseteq CallsIn(calls', l)
      BY <1>1, <2>2, CallsGrow
    <3>2. \A l : BadIn(calls, l) # {} => BadIn(calls', l) # {}
      BY <1>1, <2>2, BadGrows, Zenon
    <3> QED BY <1>3, <3>1, <3>2, Zenon DEF TornDown
  <2> QED BY <2>1, <2>2, Zenon DEF CallsStep
<1>4. ASSUME NoTeardownFailed', NEW s \in Nat, NEW c \in Nat,
             InPlan(s, c, 0, 0, sel), Behind(s, c)'
      PROVE  TornDown(calls', s, c)
  <2>1. s < pos'.s \/ (s = pos'.s /\ c < pos'.c)
    BY <1>4, Zenon DEF Behind
  <2>2. CASE s < pos.s \/ (s = pos.s /\ c < pos.c)
    <3>1. Behind(s, c)
      BY <2>2, Zenon DEF Behind
    <3>2. TornDown(calls, s, c)
      BY <1>2, <1>4, <3>1, Zenon DEF AllTornDown
    <3> QED BY <1>3, <3>2, Zenon
  <2> QED BY <1>4, <2>1, <2>2, Zenon
<1>5. \A s, c \in Nat : InPlan(s, c, 0, 0, sel)' <=> InPlan(s, c, 0, 0, sel)
  BY Zenon DEF InPlan
<1> QED BY <1>4, <1>5, Zenon DEF AllTornDown

(* The numbers of the case at a position *)
LEMMA CaseNumbers ==
  ASSUME PosInv, pc \in InCase
  PROVE  /\ pos \in Positions /\ pos.x \in Nat /\ pos.s \in Nat /\ pos.c \in Nat
         /\ pos.f \in Nat /\ pos.i \in Int
         /\ pos.s \in 1 .. Len(Program) /\ pos.c \in 1 .. Len(Suite(pos).tcases)
         /\ Len(TCase(pos).tests) \in Nat
         /\ TCase(pos).usetup \in Nat /\ TCase(pos).uteardown \in Nat
         /\ TCase(pos).csetup \in Nat /\ TCase(pos).cteardown \in Nat
<1>1. /\ pos \in Positions /\ pos.x \in Nat /\ pos.s \in Nat /\ pos.c \in Nat
      /\ pos.f \in Nat /\ pos.i \in Int
      /\ pos.s \in 1 .. Len(Program) /\ pos.c \in 1 .. Len(Suite(pos).tcases)
  BY DEF PosInv, Positions
<1> QED BY <1>1, CaseLists, Zenon

(* Fixtures are numbered from 0 *)
LEMMA FixtureNumbers ==
  ASSUME NEW p \in Positions
  PROVE  /\ AtSuite(p.s).x = 0 /\ NextTCase(p).x = 0
         /\ NextFixture(p).x = p.x + 1
         /\ \A f : AtTest(p, f).x = 0
         /\ [p EXCEPT !.i = @ + 1, !.x = 0].x = 0
         /\ [p EXCEPT !.i = @ + 1, !.x = 0].s = p.s /\ [p EXCEPT !.i = @ + 1, !.x = 0].c = p.c
         /\ [p EXCEPT !.i = @ + 1, !.x = 0].f = p.f
<1>1. AtSuite(p.s).x = 0 /\ NextTCase(p).x = 0 /\ NextFixture(p).x = p.x + 1
  BY Zenon DEF AtSuite, NextTCase, NextFixture, Positions
<1>2. ASSUME NEW f PROVE AtTest(p, f).x = 0
  <2> DEFINE i == IF f <= Len(TCase(p).tests) THEN TCase(p).tests[f].lo ELSE 0
             q == [p EXCEPT !.f = f, !.x = 0]
  <2>1. AtTest(p, f) = [q EXCEPT !.i = i]
    BY Zenon DEF AtTest
  <2>2. q.x = 0 /\ DOMAIN q = {"s", "c", "f", "i", "x"}
    BY Zenon DEF Positions
  <2> HIDE DEF q, i
  <2> QED BY <2>1, <2>2, Zenon
<1> QED BY <1>1, <1>2, Zenon DEF Positions

(* A step that calls no user function and adds no result *)
LEMMA PlacesKept ==
  ASSUME OrderInv, Disciplined, UNCHANGED <<run, sel, calls, resultlst>>,
         pc # "idle", pc' # "idle",
         ASSUME NoTeardownFailed, NEW s \in Nat, NEW c \in Nat, InPlan(s, c, 0, 0, sel),
                s < pos'.s \/ (s = pos'.s /\ c < pos'.c)
         PROVE  s < pos.s \/ (s = pos.s /\ c < pos.c) \/ TornDown(calls, s, c)
  PROVE  AllInPlace(calls') /\ AllComplete' /\ AllTornDown'
<1>1. AllInPlace(calls) /\ AllComplete /\ AllTornDown /\ CallsStep
  BY Zenon DEF Disciplined, CallsStep
<1>2. AllComplete'
  BY <1>1, CompleteKept, Zenon
<1>3. NoTeardownFailed' <=> NoTeardownFailed
  BY Zenon DEF NoTeardownFailed
<1>4. ASSUME NoTeardownFailed', NEW s \in Nat, NEW c \in Nat, InPlan(s, c, 0, 0, sel),
             s < pos'.s \/ (s = pos'.s /\ c < pos'.c)
      PROVE  s < pos.s \/ (s = pos.s /\ c < pos.c) \/ TornDown(calls', s, c)
  BY <1>3, <1>4, Zenon
<1>5. AllTornDown'
  BY <1>1, <1>4, TornDownKept, Zenon
<1> QED BY <1>1, <1>2, <1>5, Zenon

(* The first function of a group *)
LEMMA GroupStarts ==
  ASSUME OrderInv, FixtureInv, PosInv, PosInv', pc \in {"tcase", "tfun"},
         pc' \in {"usetup", "csetup", "uteardown"}, pos' = NextFixture(pos), calls' = calls,
         pc' = "uteardown" => pos.f = Len(TCase(pos).tests) + 1 /\ pos.i = 0
  PROVE  FixtureInv'
<1>1. /\ pos \in Positions /\ pos' \in Positions /\ pos.x = 0 /\ pos'.x = 1
      /\ pos'.s = pos.s /\ pos'.c = pos.c /\ pos'.f = pos.f /\ pos'.i = pos.i
      /\ Label(pos') = Label(pos)
  <2>1. pos \in Positions /\ pos' \in Positions /\ pos.x = 0
    BY Zenon DEF PosInv, FixtureInv
  <2>2. /\ NextFixture(pos).x = pos.x + 1
        /\ NextFixture(pos).s = pos.s /\ NextFixture(pos).c = pos.c
        /\ NextFixture(pos).f = pos.f /\ NextFixture(pos).i = pos.i
    BY <2>1, PositionsMove, FixtureNumbers, Zenon
  <2>3. Label(NextFixture(pos)) = Label(pos)
    BY <2>1, LabelsForward, Zenon
  <2> QED BY <2>1, <2>2, <2>3
<1>2. TCase(pos') = TCase(pos)
  BY <1>1, SameCasePos, Zenon
<1>3. CallsIn(calls, Label(pos)) = {}
  BY <1>1, FreshLabel, Zenon DEF InGroup, InTest
<1>4. /\ pc' \in InCase /\ pc' \in Kinds /\ calls \in Seq(CallRecs) /\ Len(calls) \in Nat
  BY DEF InCase, OrderInv, Kinds
<1>5. /\ TCase(pos').usetup \in Nat /\ TCase(pos').uteardown \in Nat
      /\ TCase(pos').csetup \in Nat
  <2>1. pos'.s \in 1 .. Len(Program) /\ pos'.c \in 1 .. Len(Suite(pos').tcases)
    BY <1>1, <1>4, SMTT(30) DEF PosInv, Positions
  <2> QED BY <1>1, <2>1, CaseLists, Zenon
<1>6. Fixtures(pc', TCase(pos')) \in Nat /\ Place(pc', TCase(pos'), 1) = 1
  BY <1>5, Zenon DEF Fixtures, Place
<1>7. Len(calls) - 1 + 2 .. Len(calls) = {}
  BY <1>4
<1> QED BY <1>1, <1>2, <1>3, <1>4, <1>6, <1>7 DEF FixtureInv
=============================================================================
