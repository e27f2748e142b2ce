------------------------- MODULE RunHistoryProofs ---------------------------
(***************************************************************************)
(* For every program, fork status and failing function: the fixtures and   *)
(* tests of a run are called in the order Expected() gives, none after a   *)
(* failure that ends their group, and the unchecked teardowns of a case    *)
(* are not forgotten.                                                      *)
(***************************************************************************)
EXTENDS ReportProofs

-----------------------------------------------------------------------------
(* The discipline of fixtures, step by step *)

(* The steps of the loops, and those between the functions of a test *)
LEMMA LoopsDisciplined ==
  ASSUME Reported, PosInv, PosInv', Disciplined,
         \/ next_suite \/ next_tcase \/ suite_end
         \/ unchecked_setup_done \/ start_test \/ next_tfun \/ tfuns_done
         \/ unchecked_teardown_done \/ checked_setup_done \/ checked_teardown_done
  PROVE  Disciplined'
<1>0. /\ pos \in Positions /\ pos' \in Positions /\ OrderInv /\ FixtureInv
      /\ pos.s \in Nat /\ pos.c \in Nat /\ pos.f \in Nat /\ pos.i \in Int /\ pos.x \in Nat
      /\ Len(calls) \in Nat
  BY SMTT(30) DEF PosInv, Positions, Reported, Disciplined, OrderInv
<1>m. /\ UNCHANGED <<run, sel, calls, resultlst>> /\ pc # "idle" /\ pc' # "idle"
  BY Zenon DEF next_suite, next_tcase, suite_end, unchecked_setup_done, start_test, next_tfun,
         tfuns_done, unchecked_teardown_done, checked_setup_done, checked_teardown_done,
         setting, results
<1>s. ASSUME FixtureInv', pos'.s = pos.s, pos'.c = pos.c PROVE Disciplined'
  <2>1. ASSUME NEW s \in Nat, NEW c \in Nat, s < pos'.s \/ (s = pos'.s /\ c < pos'.c)
        PROVE  s < pos.s \/ (s = pos.s /\ c < pos.c)
    BY <1>s, <2>1, Zenon
  <2>2. AllInPlace(calls') /\ AllComplete' /\ AllTornDown'
    BY <1>0, <1>m, <2>1, PlacesKept, Zenon
  <2> QED BY <1>s, <2>2, Zenon DEF Disciplined
<1>a. ASSUME pc' \in {"suite", "tcase"}, pos' = AtSuite(pos.s + 1) \/ pos' = NextTCase(pos),
             pc' = "tcase" => pos' = NextTCase(pos),
             ASSUME NoTeardownFailed, NEW s \in Nat, NEW c \in Nat, InPlan(s, c, 0, 0, sel),
                    s < pos'.s \/ (s = pos'.s /\ c < pos'.c)
             PROVE  s < pos.s \/ (s = pos.s /\ c < pos.c) \/ TornDown(calls, s, c)
      PROVE  Disciplined'
  <2>1. AllInPlace(calls') /\ AllComplete' /\ AllTornDown'
    BY <1>0, <1>m, <1>a, PlacesKept, Zenon
  <2>2. pc' = "tcase" => pos'.x = 0
    BY <1>0, <1>a, FixtureNumbers, Zenon
  <2>3. FixtureInv'
    BY <1>a, <2>2, Zenon DEF FixtureInv, Kinds
  <2> QED BY <2>1, <2>3, Zenon DEF Disciplined
<1>p. /\ AtSuite(pos.s + 1).s = pos.s + 1 /\ AtSuite(pos.s + 1).c = 0
      /\ NextTCase(pos).s = pos.s /\ NextTCase(pos).c = pos.c + 1
      /\ NextFixture(pos).s = pos.s /\ NextFixture(pos).c = pos.c
  BY <1>0, PositionsMove
<1>1. CASE next_suite
  <2>1. pc = "suite" /\ pos.c = 0
    BY <1>1, Zenon DEF next_suite, PosInv
  <2>2. CASE SuiteSelected(pos.s, sel)
    <3>1. pc' = "tcase" /\ pos' = NextTCase(pos)
      BY <1>1, <2>2, Zenon DEF next_suite
    <3>2. ASSUME NEW s \in Nat, NEW c \in Nat, InPlan(s, c, 0, 0, sel),
                 s < pos'.s \/ (s = pos'.s /\ c < pos'.c)
          PROVE  s < pos.s
      BY <1>0, <1>p, <2>1, <3>1, <3>2, SMTT(30) DEF InPlan
    <3> QED BY <1>a, <3>1, <3>2, Zenon
  <2>3. CASE ~SuiteSelected(pos.s, sel)
    <3>1. pc' = "suite" /\ pos' = AtSuite(pos.s + 1)
      BY <1>1, <2>1, <2>3, Zenon DEF next_suite
    <3>2. ASSUME NEW s \in Nat, NEW c \in Nat, InPlan(s, c, 0, 0, sel),
                 s < pos'.s \/ (s = pos'.s /\ c < pos'.c)
          PROVE  s < pos.s
      BY <1>0, <1>p, <2>3, <3>1, <3>2 DEF InPlan
    <3> QED BY <1>a, <3>1, <3>2, Zenon
  <2> QED BY <2>2, <2>3, Zenon
<1>2. CASE next_tcase
  <2>1. pc = "tcase"
    BY <1>2, Zenon DEF next_tcase
  <2>2. CASE TCaseSelected(TCase(pos), sel)
    <3>1. pc' = "usetup" /\ pos' = NextFixture(pos)
      BY <1>2, <2>2, Zenon DEF next_tcase
    <3>2. FixtureInv'
      BY <1>0, <1>m, <2>1, <3>1, GroupStarts, Zenon
    <3> QED BY <1>p, <1>s, <3>1, <3>2, Zenon
  <2>3. CASE ~TCaseSelected(TCase(pos), sel)
    <3>1. pc' = "tcase" /\ pos' = NextTCase(pos)
      BY <1>2, <2>1, <2>3, Zenon DEF next_tcase
    <3>2. ASSUME NEW s \in Nat, NEW c \in Nat, InPlan(s, c, 0, 0, sel),
                 s < pos'.s \/ (s = pos'.s /\ c < pos'.c)
          PROVE  s < pos.s \/ (s = pos.s /\ c < pos.c)
      <4>1. s < pos.s \/ (s = pos.s /\ c < pos.c) \/ (s = pos.s /\ c = pos.c)
        BY <1>0, <1>p, <3>1, <3>2
      <4>2. ~(s = pos.s /\ c = pos.c)
        BY <2>3, <3>2, Zenon DEF InPlan, TCase
      <4> QED BY <4>1, <4>2, Zenon
    <3> QED BY <1>a, <3>1, <3>2, Zenon
  <2> QED BY <2>2, <2>3, Zenon
<1>3. CASE suite_end
  <2>1. /\ pc = "tcase" /\ pos.c > Len(Suite(pos).tcases)
        /\ pc' = "suite" /\ pos' = AtSuite(pos.s + 1)
    BY <1>3, Zenon DEF suite_end
  <2>2. Len(Program[pos.s].tcases) \in Nat
    BY <2>1, ProgramAssumption, Zenon DEF PosInv
  <2>3. ASSUME NEW s \in Nat, NEW c \in Nat, InPlan(s, c, 0, 0, sel),
               s < pos'.s \/ (s = pos'.s /\ c < pos'.c)
        PROVE  s < pos.s \/ (s = pos.s /\ c < pos.c)
    <3>1. s <= pos.s /\ c \in 1 .. Len(Program[s].tcases)
      BY <1>0, <1>p, <2>1, <2>3, SMTT(30) DEF InPlan
    <3>2. s = pos.s => c < pos.c
      BY <1>0, <2>1, <2>2, <3>1 DEF Suite
    <3> QED BY <1>0, <3>1, <3>2
  <2> QED BY <1>a, <2>1, <2>3, Zenon
<1>4. CASE unchecked_teardown_done
  <2>1. /\ pc = "uteardown" /\ pos.x > TCase(pos).uteardown
        /\ pc' = "tcase" /\ pos' = NextTCase(pos)
    BY <1>4, Zenon DEF unchecked_teardown_done
  <2>2. /\ TCase(pos).uteardown \in Nat
        /\ pos.f = Len(TCase(pos).tests) + 1 /\ pos.i = 0
        /\ CallsIn(calls, Label(pos)) = Len(calls) - pos.x + 2 .. Len(calls)
    BY <1>0, <2>1, CaseNumbers, Zenon DEF FixtureInv, InCase, Kinds, Place
  <2>3. TornDown(calls, pos.s, pos.c)
    <3>1. Label(pos) = <<pos.s, pos.c, Len(TCase(pos).tests) + 1, 0>>
      BY <2>2, Zenon DEF Label
    <3>2. TCase(pos).uteardown # 0 => Len(calls) \in CallsIn(calls, Label(pos))
      BY <1>0, <2>1, <2>2
    <3> QED BY <3>1, <3>2, Zenon DEF TornDown, TCase
  <2>4. ASSUME NEW s \in Nat, NEW c \in Nat, s < pos'.s \/ (s = pos'.s /\ c < pos'.c)
        PROVE  s < pos.s \/ (s = pos.s /\ c < pos.c) \/ TornDown(calls, s, c)
    <3>1. s < pos.s \/ (s = pos.s /\ c < pos.c) \/ (s = pos.s /\ c = pos.c)
      BY <1>0, <1>p, <2>1, <2>4
    <3> QED BY <2>3, <3>1, Zenon
  <2> QED BY <1>a, <2>1, <2>4, Zenon
<1>5. CASE unchecked_setup_done \/ next_tfun
  <2>1. PICK f \in Nat : /\ pos' = AtTest(pos, f) /\ pc' = "tfun" /\ f >= 1
                         /\ f <= Len(TCase(pos).tests) + 1 /\ pc \in InCase
    <3>1. CASE unchecked_setup_done
      <4>1. pc = "usetup" /\ pos' = AtTest(pos, 1) /\ pc' = "tfun"
        BY <3>1, Zenon DEF unchecked_setup_done
      <4>2. pc \in InCase /\ Len(TCase(pos).tests) \in Nat /\ 1 \in Nat
        BY <4>1, CaseNumbers, Zenon DEF InCase
      <4> QED BY <4>1, <4>2
    <3>2. CASE next_tfun
      <4>1. pc = "tfun" /\ pos' = AtTest(pos, pos.f + 1) /\ pc' = "tfun"
            /\ pos.f <= Len(TCase(pos).tests)
        BY <3>2, Zenon DEF next_tfun
      <4>2. pc \in InCase /\ Len(TCase(pos).tests) \in Nat /\ pos.f + 1 \in Nat
        BY <1>0, <4>1, CaseNumbers DEF InCase
      <4> QED BY <1>0, <4>1, <4>2
    <3> QED BY <1>5, <3>1, <3>2, Zenon
  <2>2. /\ pos.s \in 1 .. Len(Program) /\ pos.c \in 1 .. Len(Suite(pos).tcases)
        /\ Len(TCase(pos).tests) \in Nat
    BY <2>1, CaseNumbers, Zenon
  <2>3. /\ pos'.s = pos.s /\ pos'.c = pos.c /\ pos'.f = f /\ pos'.x = 0
    BY <1>0, <2>1, <2>2, AtTestMoves, FixtureNumbers
  <2>4. TCase(pos') = TCase(pos)
    BY <1>0, <2>3, SameCasePos, Zenon
  <2>5. f > Len(TCase(pos).tests) => f = Len(TCase(pos).tests) + 1 /\ pos'.i = 0
    <3>1. ASSUME f > Len(TCase(pos).tests) PROVE pos'.i = 0
      <4>1. PICK i : i = IF f <= Len(TCase(pos).tests) THEN TCase(pos).tests[f].lo ELSE 0
        BY Zenon
      <4>2. i = 0
        BY <2>2, <3>1, <4>1
      <4>3. pos' = [pos EXCEPT !.f = f, !.x = 0, !.i = i]
        BY <2>1, <4>1, Zenon DEF AtTest
      <4> QED BY <1>0, <4>2, <4>3, Zenon DEF Positions
    <3> QED BY <2>1, <2>2, <3>1
  <2>6. FixtureInv'
    BY <2>1, <2>3, <2>4, <2>5, Zenon DEF FixtureInv, Kinds
  <2> QED BY <1>s, <2>3, <2>6, Zenon
<1>6. CASE start_test
  <2>1. pc = "tfun" /\ pc' = "csetup" /\ pos' = NextFixture(pos)
    BY <1>6, Zenon DEF start_test
  <2>2. FixtureInv'
    BY <1>0, <1>m, <2>1, GroupStarts, Zenon
  <2> QED BY <1>p, <1>s, <2>1, <2>2, Zenon
<1>7. CASE tfuns_done
  <2>1. pc = "tfun" /\ pc' = "uteardown" /\ pos' = NextFixture(pos)
        /\ pos.f > Len(TCase(pos).tests)
    BY <1>7, Zenon DEF tfuns_done
  <2>2. pos.f = Len(TCase(pos).tests) + 1 /\ pos.i = 0
    BY <1>0, <2>1, Zenon DEF FixtureInv
  <2>3. FixtureInv'
    BY <1>0, <1>m, <2>1, <2>2, GroupStarts, Zenon
  <2> QED BY <1>p, <1>s, <2>1, <2>3, Zenon
<1>8. CASE checked_setup_done
  <2>1. pc = "csetup" /\ pos.x > TCase(pos).csetup /\ pc' = "test" /\ pos' = pos
    BY <1>8, Zenon DEF checked_setup_done
  <2>2. TCase(pos).csetup \in Nat
    BY <2>1, CaseNumbers, Zenon DEF InCase
  <2>3. /\ pos.x = TCase(pos).csetup + 1
        /\ Fixtures("test", TCase(pos)) = TCase(pos).csetup + 1
        /\ Place("test", TCase(pos), pos.x) = Place("csetup", TCase(pos), pos.x)
    BY <1>0, <2>1, <2>2 DEF FixtureInv, Fixtures, Kinds, Place
  <2>4. FixtureInv'
    BY <1>0, <1>m, <2>1, <2>2, <2>3, SMTT(30) DEF FixtureInv, Kinds
  <2> QED BY <1>s, <2>1, <2>4, Zenon
<1>9. CASE checked_teardown_done
  <2>1. pc = "cteardown" /\ pos.x > TCase(pos).cteardown /\ pc' \in {"receive", "reap"}
        /\ pos' = pos
    BY <1>9, Zenon DEF checked_teardown_done
  <2>2. /\ TCase(pos).csetup \in Nat /\ TCase(pos).cteardown \in Nat
    BY <2>1, CaseNumbers, Zenon DEF InCase
  <2>3. /\ pos.x = TCase(pos).cteardown + 1
        /\ CallsIn(calls, Label(pos)) =
             Len(calls) - (TCase(pos).csetup + 1 + pos.x) + 2 .. Len(calls)
    BY <1>0, <2>1, <2>2 DEF FixtureInv, Fixtures, Kinds, Place
  <2>4. Len(Expected(Label(pos))) = TCase(pos).csetup + 1 + TCase(pos).cteardown
    BY <2>1, ExpectedOfTest, Zenon DEF InTest
  <2>5. Len(calls) - (TCase(pos).csetup + 1 + pos.x) + 2 =
          Len(calls) - Len(Expected(Label(pos))) + 1
    <3>1. PICK a \in Nat, b \in Nat, k \in Nat, x \in Nat :
            /\ a = TCase(pos).csetup /\ b = TCase(pos).cteardown
            /\ k = Len(calls) /\ x = pos.x
      BY <1>0, <2>2, Zenon
    <3>2. x = b + 1 /\ Len(Expected(Label(pos))) = a + 1 + b
      BY <2>3, <2>4, <3>1, Zenon
    <3>3. k - (a + 1 + x) + 2 = k - (a + 1 + b) + 1
      BY <3>2
    <3> QED BY <3>1, <3>2, <3>3, Zenon
  <2>6. FixtureInv'
    BY <1>m, <2>1, <2>3, <2>5, Zenon DEF FixtureInv, Kinds
  <2> QED BY <1>s, <2>1, <2>6
<1> QED BY <1>1, <1>2, <1>3, <1>4, <1>5, <1>6, <1>7, <1>8, <1>9, Zenon

(* A step that calls a user function in its place *)
LEMMA PlacedStep ==
  ASSUME OrderInv, PosInv, Disciplined, pc \in InCase, pc' # "idle", UNCHANGED <<run, sel>>,
         NEW how, CallPlaced(how), FixtureInv',
         \/ UNCHANGED resultlst
         \/ \E tr : Complete(tr, calls') /\ resultlst' = Append(resultlst, tr),
         \/ pos'.s = pos.s /\ pos'.c = pos.c
         \/ /\ pos' = NextTCase(pos)
            /\ NoTeardownFailed' => TornDown(calls', pos.s, pos.c)
  PROVE  Disciplined'
<1>1. /\ AllComplete /\ AllTornDown /\ CallsStep /\ AllInPlace(calls') /\ pc # "idle"
      /\ pos \in Positions /\ pos.s \in Nat /\ pos.c \in Nat
  BY Zenon DEF Disciplined, CallPlaced, InCase, PosInv, Positions
<1>2. AllComplete'
  BY <1>1, CompleteKept, Zenon
<1>3. ASSUME NoTeardownFailed', NEW s \in Nat, NEW c \in Nat,
             s < pos'.s \/ (s = pos'.s /\ c < pos'.c)
      PROVE  s < pos.s \/ (s = pos.s /\ c < pos.c) \/ TornDown(calls', s, c)
  <2>1. CASE pos'.s = pos.s /\ pos'.c = pos.c
    BY <1>3, <2>1, Zenon
  <2>2. CASE /\ pos' = NextTCase(pos)
             /\ NoTeardownFailed' => TornDown(calls', pos.s, pos.c)
    <3>1. pos'.s = pos.s /\ pos'.c = pos.c + 1
      BY <1>1, <2>2, PositionsMove, Zenon
    <3>2. s < pos.s \/ (s = pos.s /\ c < pos.c) \/ (s = pos.s /\ c = pos.c)
      BY <1>1, <1>3, <3>1
    <3> QED BY <1>3, <2>2, <3>2, Zenon
  <2> QED BY <2>1, <2>2, Zenon
<1>4. AllTornDown'
  BY <1>1, <1>3, TornDownKept, Zenon
<1> QED BY <1>1, <1>2, <1>4, Zenon DEF Disciplined

(* The group goes on with its next function *)
LEMMA GroupGoesOn ==
  ASSUME PosInv, PosInv', FixtureInv, NEW how, CallPlaced(how), how = "ok",
         pc \in {"usetup", "csetup", "cteardown", "uteardown"},
         pos.x <= Fixtures(pc, TCase(pos)), pos' = NextFixture(pos), pc' = pc
  PROVE  FixtureInv'
<1>1. /\ pc \in InCase /\ pc \in Kinds
  BY Zenon DEF InCase, Kinds
<1>2. /\ pos \in Positions /\ pos.x \in Nat /\ pos' \in Positions
      /\ TCase(pos).usetup \in Nat /\ TCase(pos).uteardown \in Nat
      /\ TCase(pos).csetup \in Nat /\ TCase(pos).cteardown \in Nat
  BY <1>1, CaseNumbers, Zenon DEF PosInv
<1>3. /\ NextFixture(pos).x = pos.x + 1
      /\ NextFixture(pos).s = pos.s /\ NextFixture(pos).c = pos.c
      /\ NextFixture(pos).f = pos.f /\ NextFixture(pos).i = pos.i
  BY <1>2, PositionsMove, FixtureNumbers, Zenon
<1>4. Label(pos') = Label(pos) /\ TCase(pos') = TCase(pos)
  BY <1>2, <1>3, LabelsForward, SameCasePos, Zenon
<1>5. /\ Fixtures(pc, TCase(pos)) \in Nat
      /\ Place(pc, TCase(pos), pos.x) \in Nat
      /\ Place(pc, TCase(pos), pos.x + 1) = Place(pc, TCase(pos), pos.x) + 1
  BY <1>2 DEF Fixtures, Place
<1>6. /\ CallsIn(calls', Label(pos)) =
           Len(calls') - Place(pc, TCase(pos), pos.x) + 1 .. Len(calls')
      /\ \A j \in CallsIn(calls', Label(pos)) : Excused(calls'[j])
      /\ Len(calls') \in Nat
  BY Zenon DEF CallPlaced
<1>7. Len(calls') - Place(pc, TCase(pos), pos.x) + 1 =
        Len(calls') - Place(pc, TCase(pos), pos.x + 1) + 2
  <2>1. PICK k \in Nat, n \in Nat : k = Len(calls') /\ n = Place(pc, TCase(pos), pos.x)
    BY <1>5, <1>6, Zenon
  <2>2. k - n + 1 = k - (n + 1) + 2
    OBVIOUS
  <2> QED BY <1>5, <2>1, <2>2, Zenon
<1>8. /\ pos'.x >= 1 /\ pos'.x <= Fixtures(pc', TCase(pos')) + 1
  BY <1>2, <1>3, <1>4, <1>5
<1>9. /\ CallsIn(calls', Label(pos')) =
           Len(calls') - Place(pc', TCase(pos'), pos'.x) + 2 .. Len(calls')
      /\ \A j \in CallsIn(calls', Label(pos')) : Excused(calls'[j])
  BY <1>3, <1>4, <1>6, <1>7, Zenon
<1>10. pc' = "uteardown" => pos'.f = Len(TCase(pos').tests) + 1 /\ pos'.i = 0
  BY <1>3, <1>4, Zenon DEF FixtureInv
<1> QED BY <1>1, <1>8, <1>9, <1>10 DEF FixtureInv

(* The unchecked fixtures *)
LEMMA UncheckedDisciplined ==
  ASSUME Reported, PosInv, PosInv', FstatInv, Disciplined,
         \/ \E how \in Hows("usetup") : unchecked_setup_fixture(how)
         \/ \E how \in Hows("uteardown") : unchecked_teardown_fixture(how)
  PROVE  Disciplined'
<1>0. /\ pos \in Positions /\ pos' \in Positions /\ OrderInv /\ ReportInv
      /\ FixtureInv /\ AllInPlace(calls) /\ calls \in Seq(CallRecs)
  BY Zenon DEF PosInv, Reported, Disciplined, OrderInv
<1>p. /\ NextFixture(pos).s = pos.s /\ NextFixture(pos).c = pos.c /\ NextTCase(pos).x = 0
  BY <1>0, PositionsMove, FixtureNumbers
<1>k. /\ "usetup" \in Kinds /\ "uteardown" \in Kinds
      /\ "usetup" \in InCase /\ "uteardown" \in InCase
      /\ Fixtures("usetup", TCase(pos)) = TCase(pos).usetup
      /\ Fixtures("uteardown", TCase(pos)) = TCase(pos).uteardown
  BY Zenon DEF Kinds, InCase, Fixtures
<1>1. ASSUME NEW how \in Hows("usetup"), unchecked_setup_fixture(how) PROVE Disciplined'
  <2>1. /\ pc = "usetup" /\ jmp' = "usetup" /\ Called("usetup", how) /\ UNCHANGED <<run, sel>>
        /\ pos.x <= TCase(pos).usetup
    BY <1>1, Zenon DEF unchecked_setup_fixture, setjmp, setting
  <2>2. PICK msgs : msgs = pipe \o <<CtxMsg("CK_CTX_SETUP")>> \o UserMsgs("usetup", how)
    BY Zenon
  <2>3. PICK tr : tr = receive_result_info_nofork(msgs, "unchecked_setup")
    OBVIOUS
  <2>4. SetupReported("usetup", how, tr)
    <3>1. "usetup" \in {"usetup", "csetup"}
      BY Zenon
    <3> QED BY <1>0, <1>1, <2>1, <2>2, <2>3, <3>1, SetupCall, Zenon
  <2>5. IF tr.rtype = "CK_PASS"
        THEN pos' = NextFixture(pos) /\ UNCHANGED <<pc, resultlst>>
        ELSE srunner_add_failure(tr) /\ pos' = NextTCase(pos) /\ pc' = "tcase"
    <3>1. Outcome("usetup", how) \in {"returned", "jumped"}
      BY <2>4, Zenon DEF SetupReported
    <3> QED BY <1>1, <2>2, <2>3, <3>1, Zenon DEF unchecked_setup_fixture, results
  <2>6. CallPlaced(how)
    <3>1. how \in {"ok", "fail", "crash"}
      BY <1>1, <1>k, <2>1, WhereCallsLead, Zenon
    <3> QED BY <1>0, <1>k, <2>1, <3>1, CallInPlace, Zenon
  <2>7. CASE tr.rtype = "CK_PASS"
    <3>1. how = "ok" /\ pos' = NextFixture(pos) /\ UNCHANGED <<pc, resultlst>>
      BY <2>4, <2>5, <2>7, Zenon DEF SetupReported
    <3>2. FixtureInv'
      BY <1>0, <1>k, <2>1, <2>6, <3>1, GroupGoesOn, Zenon
    <3> QED BY <1>0, <1>k, <1>p, <2>1, <2>6, <3>1, <3>2, PlacedStep
  <2>8. CASE tr.rtype # "CK_PASS"
    <3>1. /\ resultlst' = Append(resultlst, tr) /\ pos' = NextTCase(pos) /\ pc' = "tcase"
      BY <2>5, <2>8, Zenon DEF srunner_add_failure
    <3>2. FixtureInv'
      BY <1>p, <3>1, Zenon DEF FixtureInv, Kinds
    <3>3. Label(pos) = <<pos.s, pos.c, 0, 0>>
      BY <2>1, Zenon DEF Label, PosInv
    <3>4. NoTeardownFailed' => TornDown(calls', pos.s, pos.c)
      <4>1. NoTeardownFailed' => BadIn(calls', Label(pos)) # {}
        BY <2>4, <2>8, Zenon DEF SetupReported, Attributed
      <4> QED BY <3>3, <4>1, Zenon DEF TornDown
    <3>5. Complete(tr, calls')
      BY <2>8, Zenon DEF Complete
    <3> QED BY <1>0, <1>k, <2>1, <2>6, <3>1, <3>2, <3>4, <3>5, PlacedStep
  <2> QED BY <2>7, <2>8, Zenon
<1>2. ASSUME NEW how \in Hows("uteardown"), unchecked_teardown_fixture(how) PROVE Disciplined'
  <2>1. /\ pc = "uteardown" /\ Called("uteardown", how) /\ UNCHANGED <<run, sel, resultlst>>
        /\ ~Forks => jmp' = "uteardown"
        /\ pos.x <= TCase(pos).uteardown
    BY <1>2, Zenon DEF unchecked_teardown_fixture, setjmp, setting, results
  <2>2. /\ CASE Outcome("uteardown", how) = "returned" ->
                  pos' = NextFixture(pos) /\ UNCHANGED pc
             [] Outcome("uteardown", how) = "jumped" ->
                  pos' = NextTCase(pos) /\ pc' = "tcase"
             [] OTHER -> pc' = Outcome("uteardown", how) /\ UNCHANGED pos
    BY <1>2, Zenon DEF unchecked_teardown_fixture
  <2>3. /\ how \in {"ok", "fail"}
        /\ how = "ok" => Outcome("uteardown", how) = "returned"
        /\ how = "fail" => Outcome("uteardown", how) \in {"jumped", "exited"}
    BY <1>2, <1>k, <2>1, WhereCallsLead
  <2>4. CallPlaced(how)
    <3>1. how \in {"ok", "fail", "crash"}
      BY <2>3, Zenon
    <3> QED BY <1>0, <1>k, <2>1, <3>1, CallInPlace, Zenon
  <2>5. CASE how = "ok"
    <3>1. pos' = NextFixture(pos) /\ UNCHANGED pc
      BY <2>2, <2>3, <2>5, Zenon
    <3>2. FixtureInv'
      BY <1>0, <1>k, <2>1, <2>4, <2>5, <3>1, GroupGoesOn, Zenon
    <3> QED BY <1>0, <1>k, <1>p, <2>1, <2>4, <3>1, <3>2, PlacedStep, Zenon
  <2>6. CASE how = "fail"
    <3>1. \/ pos' = NextTCase(pos) /\ pc' = "tcase"
          \/ pc' = "exited" /\ UNCHANGED pos
      BY <2>2, <2>3, <2>6, Zenon
    <3>2. ~NoTeardownFailed'
      <4>1. how \in {"ok", "fail", "crash"}
        BY <2>3
      <4>2. PICK c \in CallRecs : /\ calls' = Append(calls, c) /\ c.how = how
                                  /\ c.site[3] = "uteardown"
        BY <1>0, <1>k, <2>1, <4>1, CallRecorded, SMTT(30)
      <4> QED BY <1>0, <2>6, <4>2, TeardownsBefore, Zenon
    <3>3. FixtureInv'
      BY <1>p, <3>1, Zenon DEF FixtureInv, Kinds
    <3>4. \/ pos'.s = pos.s /\ pos'.c = pos.c
          \/ /\ pos' = NextTCase(pos)
             /\ NoTeardownFailed' => TornDown(calls', pos.s, pos.c)
      BY <3>1, <3>2, Zenon
    <3>5. pc' # "idle"
      BY <3>1, Zenon
    <3> QED BY <1>0, <1>k, <2>1, <2>4, <3>3, <3>4, <3>5, PlacedStep, Zenon
  <2> QED BY <2>3, <2>5, <2>6, Zenon
<1> QED BY <1>1, <1>2, Zenon

(* The checked teardown starts after the test *)
LEMMA TeardownStarts ==
  ASSUME PosInv, PosInv', FixtureInv, NEW how, CallPlaced(how), how = "ok" \/ ~Forks,
         pc = "test", pos' = [pos EXCEPT !.x = 1], pc' = "cteardown"
  PROVE  FixtureInv'
<1>1. /\ pos \in Positions /\ pos.x \in Nat /\ pos' \in Positions
      /\ TCase(pos).csetup \in Nat /\ TCase(pos).cteardown \in Nat
  BY CaseNumbers, Zenon DEF PosInv, InCase
<1>2. pos'.s = pos.s /\ pos'.c = pos.c /\ pos'.x = 1 /\ 1 \in Nat
  BY <1>1, Zenon DEF Positions
<1>3. Label(pos') = Label(pos) /\ TCase(pos') = TCase(pos)
  BY <1>1, <1>2, LabelsForward, SameCasePos, Zenon
<1>4. pos.x = TCase(pos).csetup + 1 /\ Place("test", TCase(pos), pos.x) = pos.x
  BY Zenon DEF FixtureInv, Place
<1>5. /\ CallsIn(calls', Label(pos)) = Len(calls') - pos.x + 1 .. Len(calls')
      /\ \A j \in CallsIn(calls', Label(pos)) : Excused(calls'[j])
      /\ Len(calls') \in Nat
  BY <1>4, Zenon DEF CallPlaced
<1>6. Place("cteardown", TCase(pos), 1) = TCase(pos).csetup + 1 + 1
  BY Zenon DEF Place
<1>7. Len(calls') - pos.x + 1 = Len(calls') - Place("cteardown", TCase(pos), 1) + 2
  <2>1. PICK k \in Nat, a \in Nat : k = Len(calls') /\ a = TCase(pos).csetup
    BY <1>1, <1>5, Zenon
  <2>2. k - (a + 1) + 1 = k - (a + 1 + 1) + 2
    OBVIOUS
  <2> QED BY <1>4, <1>6, <2>1, <2>2
<1>8. Fixtures("cteardown", TCase(pos)) = TCase(pos).cteardown
  BY Zenon DEF Fixtures
<1>9. /\ CallsIn(calls', Label(pos')) =
           Len(calls') - Place("cteardown", TCase(pos'), pos'.x) + 2 .. Len(calls')
      /\ \A j \in CallsIn(calls', Label(pos')) : Excused(calls'[j])
  BY <1>2, <1>3, <1>5, <1>7, Zenon
<1> QED BY <1>1, <1>2, <1>3, <1>8, <1>9 DEF FixtureInv, Kinds

(* The test is over with a function that failed *)
LEMMA TestEndsBadly ==
  ASSUME NEW how, CallPlaced(how), how # "ok", pos' = pos, pc' \in {"receive", "reap"}
  PROVE  FixtureInv'
<1>1. BadIn(calls', Label(pos)) # {}
  BY Zenon DEF CallPlaced
<1> QED BY <1>1 DEF FixtureInv, Kinds

(* The loop goes on with the next iteration *)
LEMMA IterationEnds ==
  ASSUME PosInv, pc \in InTest, pos' = [pos EXCEPT !.i = @ + 1, !.x = 0], pc' = "tfun"
  PROVE  FixtureInv' /\ pos'.s = pos.s /\ pos'.c = pos.c
<1>1. /\ pos \in Positions /\ pos.f \in Nat /\ Len(TCase(pos).tests) \in Nat
      /\ pos.f \in 1 .. Len(TCase(pos).tests)
  BY CaseNumbers, Zenon DEF PosInv, InTest, InCase
<1>2. pos'.x = 0 /\ pos'.s = pos.s /\ pos'.c = pos.c /\ pos'.f = pos.f
  BY <1>1, FixtureNumbers, Zenon
<1>3. TCase(pos') = TCase(pos)
  BY <1>2, Zenon DEF TCase
<1> QED BY <1>1, <1>2, <1>3 DEF FixtureInv, Kinds

(* The group of a test that has run to its end without failure is complete *)
LEMMA PassIsComplete ==
  ASSUME NEW cs \in Seq(CallRecs), AllInPlace(cs), NEW l, NEW tr, tr.label = l,
         Len(Expected(l)) \in Nat,
         CallsIn(cs, l) = Len(cs) - Len(Expected(l)) + 1 .. Len(cs)
  PROVE  Complete(tr, cs)
<1>1. PICK N \in Nat, k \in Nat : N = Len(Expected(l)) /\ k = Len(cs)
  OBVIOUS
<1>2. CallsIn(cs, l) = k - N + 1 .. k /\ CallsIn(cs, l) \subseteq 1 .. k
  BY <1>1, Zenon DEF CallsIn
<1>3. ASSUME NEW n \in 1 .. N
      PROVE  \E j \in CallsIn(cs, l) : <<cs[j].site[3], cs[j].site[4]>> = Expected(l)[n]
  <2>1. k - N + 1 \in CallsIn(cs, l) /\ k - N + n \in CallsIn(cs, l)
    BY <1>2
  <2>2. k - N + 1 \in Nat /\ k - N + 1 <= k
    <3>1. k - N + 1 \in 1 .. k
      BY <1>2, <2>1, Zenon
    <3> QED BY <3>1
  <2>3. FirstOf(CallsIn(cs, l)) = k - N + 1
    <3>1. FirstOf(k - N + 1 .. k) = k - N + 1
      BY <2>2, FirstOfInterval, Zenon
    <3> QED BY <1>2, <3>1, Zenon
  <2>4. PICK j \in CallsIn(cs, l) : j = k - N + n
    BY <2>1, Zenon
  <2>5. j \in 1 .. Len(cs) /\ cs[j].site[2] = l
    BY <2>4, Zenon DEF CallsIn
  <2>6. InPlace(cs, j)
    BY <2>5, Zenon DEF AllInPlace
  <2>7. j - FirstOf(CallsIn(cs, l)) + 1 = n
    <3>1. j - (k - N + 1) + 1 = n
      BY <2>4
    <3> QED BY <2>3, <3>1, Zenon
  <2>8. <<cs[j].site[3], cs[j].site[4]>> = Expected(l)[j - FirstOf(CallsIn(cs, l)) + 1]
    BY <2>5, <2>6, Zenon DEF InPlace
  <2> QED BY <2>7, <2>8, Zenon
<1> QED BY <1>1, <1>3, Zenon DEF Complete

(* The steps of a test that call its functions, and its result *)
LEMMA TestsDisciplined ==
  ASSUME Reported, PosInv, PosInv', FstatInv, Disciplined,
         \/ \E how \in Hows("csetup") : checked_setup_nofork(how) \/ checked_setup_fork(how)
         \/ \E how \in Hows("test") : run_test(how)
         \/ \E how \in Hows("cteardown") : checked_teardown_fixture(how)
         \/ receive
  PROVE  Disciplined'
<1>0. /\ pos \in Positions /\ pos' \in Positions /\ OrderInv /\ ReportInv
      /\ FixtureInv /\ AllInPlace(calls) /\ calls \in Seq(CallRecs) /\ Len(calls) \in Nat
      /\ AllComplete /\ AllTornDown
  BY SMTT(30) DEF PosInv, Reported, Disciplined, OrderInv
<1>p. /\ NextFixture(pos).s = pos.s /\ NextFixture(pos).c = pos.c
      /\ [pos EXCEPT !.x = 1].s = pos.s /\ [pos EXCEPT !.x = 1].c = pos.c
  BY <1>0, PositionsMove, Zenon DEF Positions
<1>k. /\ {"csetup", "test", "cteardown"} \subseteq Kinds
      /\ {"csetup", "test", "cteardown"} \subseteq InCase
      /\ {"csetup", "test", "cteardown", "receive", "reap"} \subseteq InTest
      /\ Fixtures("csetup", TCase(pos)) = TCase(pos).csetup
      /\ Fixtures("test", TCase(pos)) = TCase(pos).csetup + 1
      /\ Fixtures("cteardown", TCase(pos)) = TCase(pos).cteardown
  BY DEF Kinds, InCase, InTest, Fixtures
<1>c. ASSUME NEW kind \in {"csetup", "test", "cteardown"}, NEW how \in Hows(kind), pc = kind,
             pos.x <= Fixtures(pc, TCase(pos)), Called(kind, how)
      PROVE  CallPlaced(how)
  <2>1. how \in {"ok", "fail", "crash"}
    BY <1>c, <1>k, WhereCallsLead, Zenon
  <2> QED BY <1>0, <1>c, <1>k, <2>1, CallInPlace
<1>f. ASSUME NEW kind \in {"csetup", "test", "cteardown"}, NEW how \in Hows(kind), pc = kind,
             Forks, NEW p, NEW next, ChildGoesOn(kind, how, p, next)
      PROVE  IF how = "ok" THEN pos' = p /\ pc' = next
             ELSE pos' = pos /\ pc' = "reap"
  <2>1. /\ how = "ok" => Outcome(kind, how) = "returned"
        /\ how # "ok" => Outcome(kind, how) = "ended"
    BY <1>f, <1>k, WhereCallsLead, Zenon
  <2> QED BY <1>f, <2>1, Zenon DEF ChildGoesOn
<1>b. ASSUME NEW how, CallPlaced(how), how # "ok", pos' = pos, pc' \in {"receive", "reap"},
             pc \in InCase, UNCHANGED <<run, sel, resultlst>>
      PROVE  Disciplined'
  <2>1. FixtureInv'
    BY <1>b, TestEndsBadly, Zenon
  <2> QED BY <1>0, <1>b, <2>1, PlacedStep, Zenon
<1>1. ASSUME NEW how \in Hows("csetup"), checked_setup_nofork(how) PROVE Disciplined'
  <2>1. /\ pc = "csetup" /\ jmp' = "csetup" /\ Called("csetup", how) /\ ~Forks
        /\ UNCHANGED <<run, sel>> /\ pos.x <= TCase(pos).csetup
    BY <1>1, Zenon DEF checked_setup_nofork, setjmp, setting
  <2>2. PICK msgs : msgs = pipe \o <<CtxMsg("CK_CTX_SETUP")>> \o UserMsgs("csetup", how)
    BY Zenon
  <2>3. PICK tr : tr = receive_result_info_nofork(msgs, "checked_setup")
    OBVIOUS
  <2>4. SetupReported("csetup", how, tr)
    <3>1. "csetup" \in {"usetup", "csetup"}
      BY Zenon
    <3> QED BY <1>0, <1>1, <2>1, <2>2, <2>3, <3>1, SetupCall, Zenon
  <2>5. IF tr.rtype = "CK_PASS"
        THEN pos' = NextFixture(pos) /\ UNCHANGED <<pc, resultlst>>
        ELSE TestDone(tr)
    <3>1. Outcome("csetup", how) \in {"returned", "jumped"}
      BY <2>4, Zenon DEF SetupReported
    <3> QED BY <1>1, <2>2, <2>3, <3>1, Zenon DEF checked_setup_nofork, results
  <2>6. CallPlaced(how)
    BY <1>1, <1>c, <1>k, <2>1, Zenon
  <2>7. CASE tr.rtype = "CK_PASS"
    <3>1. how = "ok" /\ pos' = NextFixture(pos) /\ UNCHANGED <<pc, resultlst>>
      BY <2>4, <2>5, <2>7, Zenon DEF SetupReported
    <3>2. FixtureInv'
      BY <1>0, <1>k, <2>1, <2>6, <3>1, GroupGoesOn
    <3> QED BY <1>0, <1>k, <1>p, <2>1, <2>6, <3>1, <3>2, PlacedStep
  <2>8. CASE tr.rtype # "CK_PASS"
    <3>1. /\ resultlst' = Append(resultlst, tr) /\ pc' = "tfun"
          /\ pos' = [pos EXCEPT !.i = @ + 1, !.x = 0]
      BY <2>5, <2>8, Zenon DEF TestDone, srunner_add_failure
    <3>2. FixtureInv' /\ pos'.s = pos.s /\ pos'.c = pos.c
      BY <1>k, <2>1, <3>1, IterationEnds, Zenon
    <3>3. Complete(tr, calls')
      BY <2>8, Zenon DEF Complete
    <3> QED BY <1>0, <1>k, <2>1, <2>6, <3>1, <3>2, <3>3, PlacedStep
  <2> QED BY <2>7, <2>8, Zenon
<1>2. ASSUME NEW how \in Hows("csetup"), checked_setup_fork(how) PROVE Disciplined'
  <2>1. /\ pc = "csetup" /\ Forks /\ Called("csetup", how) /\ pos.x <= TCase(pos).csetup
        /\ ChildGoesOn("csetup", how, NextFixture(pos), "csetup")
        /\ UNCHANGED <<run, sel, resultlst>>
    BY <1>2, Zenon DEF checked_setup_fork, setting, results
  <2>2. CallPlaced(how)
    BY <1>2, <1>c, <1>k, <2>1, Zenon
  <2>3. IF how = "ok" THEN pos' = NextFixture(pos) /\ pc' = "csetup"
        ELSE pos' = pos /\ pc' = "reap"
    BY <1>2, <1>f, <2>1, Zenon
  <2>4. CASE how = "ok"
    <3>1. FixtureInv'
      BY <1>0, <1>k, <2>1, <2>2, <2>3, <2>4, GroupGoesOn, Zenon
    <3> QED BY <1>0, <1>k, <1>p, <2>1, <2>2, <2>3, <2>4, <3>1, PlacedStep, Zenon
  <2>5. CASE how # "ok"
    BY <1>b, <1>k, <2>1, <2>2, <2>3, <2>5, Zenon
  <2> QED BY <2>4, <2>5, Zenon
<1>3. ASSUME NEW how \in Hows("test"), run_test(how) PROVE Disciplined'
  <2>1. /\ pc = "test" /\ Called("test", how) /\ UNCHANGED <<run, sel, resultlst>>
    BY <1>3, Zenon DEF run_test, setting, results
  <2>2. pos.x <= Fixtures(pc, TCase(pos))
    <3>1. TCase(pos).csetup \in Nat
      BY <1>k, <2>1, CaseNumbers, Zenon
    <3> QED BY <1>0, <1>k, <2>1, <3>1, SMTT(30) DEF FixtureInv
  <2>3. CallPlaced(how)
    BY <1>3, <1>c, <2>1, <2>2, Zenon
  <2>4. \/ (how = "ok" \/ ~Forks) /\ pos' = [pos EXCEPT !.x = 1] /\ pc' = "cteardown"
        \/ how # "ok" /\ pos' = pos /\ pc' = "reap"
    <3>1. CASE Forks
      <4>1. ChildGoesOn("test", how, [pos EXCEPT !.x = 1], "cteardown")
        BY <1>3, <3>1 DEF run_test
      <4>2. IF how = "ok" THEN pos' = [pos EXCEPT !.x = 1] /\ pc' = "cteardown"
            ELSE pos' = pos /\ pc' = "reap"
        BY <1>3, <1>f, <2>1, <3>1, <4>1, Zenon
      <4> QED BY <4>2, Zenon
    <3>2. CASE ~Forks
      <4>1. /\ jmp' = "test"
            /\ Outcome("test", how) \in {"returned", "jumped"} =>
                 pos' = [pos EXCEPT !.x = 1] /\ pc' = "cteardown"
        BY <1>3, <3>2, Zenon DEF run_test, setjmp
      <4>2. Outcome("test", how) \in {"returned", "jumped"}
        BY <1>3, <1>k, <2>1, <3>2, <4>1, WhereCallsLead, Zenon
      <4> QED BY <3>2, <4>1, <4>2
    <3> QED BY <3>1, <3>2, Zenon
  <2>5. CASE (how = "ok" \/ ~Forks) /\ pos' = [pos EXCEPT !.x = 1] /\ pc' = "cteardown"
    <3>1. FixtureInv'
      BY <1>0, <2>1, <2>3, <2>5, TeardownStarts, Zenon
    <3>2. pos'.s = pos.s /\ pos'.c = pos.c /\ pc' # "idle"
      BY <1>p, <2>5, Zenon
    <3> QED BY <1>0, <1>k, <2>1, <2>3, <3>1, <3>2, PlacedStep, Zenon
  <2>6. CASE how # "ok" /\ pos' = pos /\ pc' = "reap"
    BY <1>b, <1>k, <2>1, <2>3, <2>6, Zenon
  <2> QED BY <2>4, <2>5, <2>6
<1>4. ASSUME NEW how \in Hows("cteardown"), checked_teardown_fixture(how) PROVE Disciplined'
  <2>1. /\ pc = "cteardown" /\ Called("cteardown", how) /\ pos.x <= TCase(pos).cteardown
        /\ UNCHANGED <<run, sel, resultlst>>
    BY <1>4, Zenon DEF checked_teardown_fixture, setting, results
  <2>2. CallPlaced(how)
    BY <1>4, <1>c, <1>k, <2>1, Zenon
  <2>3. IF how = "ok" THEN pos' = NextFixture(pos) /\ pc' = "cteardown"
        ELSE pos' = pos /\ pc' \in {"receive", "reap"}
    <3>1. CASE Forks
      <4>1. ChildGoesOn("cteardown", how, NextFixture(pos), "cteardown")
        BY <1>4, <3>1, Zenon DEF checked_teardown_fixture
      <4>2. IF how = "ok" THEN pos' = NextFixture(pos) /\ pc' = "cteardown"
            ELSE pos' = pos /\ pc' = "reap"
        BY <1>4, <1>f, <2>1, <3>1, <4>1, Zenon
      <4> QED BY <4>2, Zenon
    <3>2. CASE ~Forks
      <4>1. jmp' = "cteardown"
        BY <1>4, <3>2 DEF checked_teardown_fixture, setjmp
      <4>2. /\ CASE Outcome("cteardown", how) = "returned" -> pos' = NextFixture(pos) /\ UNCHANGED pc
                 [] Outcome("cteardown", how) = "jumped" -> pc' = "receive" /\ UNCHANGED pos
                 [] OTHER -> pc' = Outcome("cteardown", how) /\ UNCHANGED pos
        BY <1>4, <3>2, Zenon DEF checked_teardown_fixture
      <4>3. /\ how = "ok" => Outcome("cteardown", how) = "returned"
            /\ how \in {"ok", "fail"}
            /\ how = "fail" => Outcome("cteardown", how) = "jumped"
        BY <1>4, <1>k, <2>1, <3>2, <4>1, WhereCallsLead
      <4> QED BY <2>1, <4>2, <4>3, Zenon
    <3> QED BY <3>1, <3>2, Zenon
  <2>4. CASE how = "ok"
    <3>1. FixtureInv'
      BY <1>0, <1>k, <2>1, <2>2, <2>3, <2>4, GroupGoesOn, Zenon
    <3> QED BY <1>0, <1>k, <1>p, <2>1, <2>2, <2>3, <2>4, <3>1, PlacedStep, Zenon
  <2>5. CASE how # "ok"
    BY <1>b, <1>k, <2>1, <2>2, <2>3, <2>5
  <2> QED BY <2>4, <2>5, Zenon
<1>5. ASSUME receive PROVE Disciplined'
  <2>1. PICK tr : /\ tr = IF pc = "reap" THEN receive_result_info_fork
                          ELSE receive_result_info_nofork(pipe, "test")
                  /\ TestDone(tr)
    BY <1>5, Zenon DEF receive
  <2>2. pc \in {"receive", "reap"} /\ UNCHANGED <<run, sel, calls>>
    BY <1>5, Zenon DEF receive, setting
  <2>3. tr.label = Label(pos) /\ (tr.rtype = "CK_PASS" => BadIn(calls, Label(pos)) = {})
    BY <2>1, <2>2, ResultAttributed
  <2>4. /\ resultlst' = Append(resultlst, tr) /\ pc' = "tfun"
        /\ pos' = [pos EXCEPT !.i = @ + 1, !.x = 0]
    BY <2>1, Zenon DEF TestDone, srunner_add_failure
  <2>5. FixtureInv' /\ pos'.s = pos.s /\ pos'.c = pos.c
    BY <1>k, <2>2, <2>4, IterationEnds, Zenon
  <2>6. Complete(tr, calls)
    <3>1. CASE tr.rtype # "CK_PASS"
      BY <3>1, Zenon DEF Complete
    <3>2. CASE tr.rtype = "CK_PASS"
      <4>1. CallsIn(calls, Label(pos)) =
              Len(calls) - Len(Expected(Label(pos))) + 1 .. Len(calls)
        BY <1>0, <2>2, <2>3, <3>2, Zenon DEF FixtureInv
      <4>2. Len(Expected(Label(pos))) \in Nat
        <5>1. /\ TCase(pos).csetup \in Nat /\ TCase(pos).cteardown \in Nat
          BY <2>2, CaseNumbers, Zenon DEF InCase
        <5>2. Len(Expected(Label(pos))) = TCase(pos).csetup + 1 + TCase(pos).cteardown
          BY <1>k, <2>2, ExpectedOfTest, Zenon
        <5> QED BY <5>1, <5>2
      <4> QED BY <1>0, <2>3, <4>1, <4>2, PassIsComplete
    <3> QED BY <3>1, <3>2, Zenon
  <2>7. CallsStep /\ AllInPlace(calls') /\ Complete(tr, calls')
    BY <1>0, <2>2, <2>6, Zenon DEF CallsStep
  <2>8. AllComplete'
    BY <1>0, <2>2, <2>4, <2>7, CompleteKept
  <2>9. AllTornDown'
    <3>1. ASSUME NEW s \in Nat, NEW c \in Nat, s < pos'.s \/ (s = pos'.s /\ c < pos'.c)
          PROVE  s < pos.s \/ (s = pos.s /\ c < pos.c)
      BY <2>5, <3>1, Zenon
    <3>2. pc # "idle" /\ pc' # "idle"
      BY <2>2, <2>4, Zenon
    <3> QED BY <1>0, <2>2, <2>7, <3>1, <3>2, TornDownKept, Zenon
  <2> QED BY <2>5, <2>7, <2>8, <2>9, Zenon DEF Disciplined
<1> QED BY <1>1, <1>2, <1>3, <1>4, <1>5

(* The end of a run, the start of the next, and what happens in between *)
LEMMA RunsDisciplined ==
  ASSUME Reported, PosInv, Disciplined,
         \/ srunner_run_end \/ srunner_run_tagged
         \/ \E fs \in Settings : srunner_set_fork_status(fs)
         \/ UNCHANGED vars
  PROVE  Disciplined'
<1>0. /\ OrderInv /\ FixtureInv /\ AllInPlace(calls) /\ AllComplete /\ AllTornDown
      /\ Len(Program) \in Nat /\ run \in Nat /\ pos \in Positions /\ pos.s \in Nat
  BY ProgramAssumption, Zenon DEF Reported, Disciplined, OrderInv, PosInv, Positions
<1>1. ASSUME UNCHANGED <<run, calls, resultlst>>
      PROVE  /\ AllInPlace(calls)' /\ AllComplete' /\ (NoTeardownFailed' <=> NoTeardownFailed)
  <2>1. AllComplete' /\ (NoTeardownFailed' <=> NoTeardownFailed)
    BY <1>0, <1>1, Zenon DEF AllComplete, NoTeardownFailed
  <2> QED BY <1>0, <1>1, <2>1, Zenon
<1>2. CASE srunner_run_end
  <2>1. /\ pc = "suite" /\ pos.s > Len(Program) /\ pc' = "idle"
        /\ UNCHANGED <<run, sel, pos, calls, resultlst>>
    BY <1>2, Zenon DEF srunner_run_end, setting, results
  <2>2. AllTornDown'
    <3>1. ASSUME NEW s \in Nat, NEW c \in Nat, InPlan(s, c, 0, 0, sel)
          PROVE  Behind(s, c)
      BY <1>0, <2>1, <3>1, SMTT(30) DEF InPlan, Behind
    <3>2. NoTeardownFailed =>
            \A s, c \in Nat : InPlan(s, c, 0, 0, sel) => TornDown(calls, s, c)
      BY <1>0, <3>1, Zenon DEF AllTornDown
    <3>3. NoTeardownFailed' =>
            \A s, c \in Nat : InPlan(s, c, 0, 0, sel') => TornDown(calls', s, c)
      BY <1>1, <2>1, <3>2, Zenon
    <3> QED BY <3>3, Zenon DEF AllTornDown
  <2>3. FixtureInv'
    BY <2>1, Zenon DEF FixtureInv, Kinds
  <2> QED BY <1>1, <2>1, <2>2, <2>3, Zenon DEF Disciplined
<1>3. CASE srunner_run_tagged
  <2>1. /\ run' = run + 1 /\ calls' = << >> /\ pc' = "suite" /\ pos' = AtSuite(1)
        /\ UNCHANGED resultlst /\ Len(<< >>) = 0
    BY <1>3, Zenon DEF srunner_run_tagged, srunner_run_init, results
  <2>2. AllInPlace(calls')
    BY <2>1 DEF AllInPlace
  <2>3. AllComplete'
    <3>1. \A k \in 1 .. Len(resultlst) : resultlst[k].run \in Nat /\ resultlst[k].run <= run
      BY <1>0, Zenon DEF OrderInv
    <3>2. \A k \in 1 .. Len(resultlst) : resultlst[k].run # run'
      BY <1>0, <2>1, <3>1
    <3> QED BY <2>1, <3>2, Zenon DEF AllComplete
  <2>4. AllTornDown'
    <3>1. pos'.s = 1 /\ pos'.c = 0 /\ 1 \in Nat
      BY <2>1, PositionsMove, Zenon
    <3>2. ASSUME NEW s \in Nat, NEW c \in Nat, InPlan(s, c, 0, 0, sel')
          PROVE  ~Behind(s, c)'
      <4>1. s >= 1
        BY <3>2 DEF InPlan
      <4> QED BY <2>1, <3>1, <4>1 DEF Behind
    <3> QED BY <3>2, Zenon DEF AllTornDown
  <2>5. FixtureInv'
    BY <2>1, Zenon DEF FixtureInv, Kinds
  <2> QED BY <2>2, <2>3, <2>4, <2>5, Zenon DEF Disciplined
<1>4. ASSUME UNCHANGED <<pc, pos, sel, run, calls, resultlst>> PROVE Disciplined'
  <2>1. FixtureInv'
    BY <1>0, <1>4, Zenon DEF FixtureInv
  <2>2. \A s, c \in Nat : /\ InPlan(s, c, 0, 0, sel') <=> InPlan(s, c, 0, 0, sel)
                          /\ Behind(s, c)' <=> Behind(s, c)
                          /\ TornDown(calls', s, c) <=> TornDown(calls, s, c)
    BY <1>4, Zenon DEF Behind
  <2>3. AllTornDown'
    BY <1>0, <1>1, <1>4, <2>2, Zenon DEF AllTornDown
  <2> QED BY <1>1, <1>4, <2>1, <2>3 DEF Disciplined
<1>5. CASE \E fs \in Settings : srunner_set_fork_status(fs)
  BY <1>4, <1>5, Zenon DEF srunner_set_fork_status, results
<1>6. CASE UNCHANGED vars
  BY <1>4, <1>6, Zenon DEF vars
<1> QED BY <1>2, <1>3, <1>5, <1>6, Zenon

(* At the end of a run every case of its plan is behind *)
LEMMA TeardownsMeans ==
  ASSUME AllTornDown
  PROVE  UncheckedTeardownsRun
<1> SUFFICES ASSUME pc = "idle", run > 0, NoTeardownFailed,
                    NEW l \in PlanOf(sel), l[3] = 0,
                    \A j \in CallsOf(l) : calls[j].how = "ok"
             PROVE  LET tc == Program[l[1]].tcases[l[2]]
                    IN  tc.uteardown = 0 \/ CallsOf(<<l[1], l[2], Len(tc.tests) + 1, 0>>) # {}
  BY Zenon DEF UncheckedTeardownsRun
<1>1. PICK s, c, f, i \in Int : l = <<s, c, f, i>> /\ InPlan(s, c, f, i, sel)
  BY PlanMembers, Zenon
<1>2. f = 0 /\ i = 0 /\ s \in Nat /\ c \in Nat /\ l[1] = s /\ l[2] = c
  <2>1. s \in 1 .. Len(Program) /\ c \in 1 .. Len(Program[s].tcases)
    BY <1>1, Zenon DEF InPlan
  <2>2. l[1] = s /\ l[2] = c /\ l[3] = f
    BY <1>1, Zenon
  <2>3. f = 0
    BY <2>2, Zenon
  <2>4. i = 0
    BY <1>1, <2>3, SMTT(30) DEF InPlan
  <2> QED BY <2>1, <2>2, <2>3, <2>4
<1>3. TornDown(calls, s, c)
  <2>1. Behind(s, c)
    BY Zenon DEF Behind
  <2> QED BY <1>1, <1>2, <2>1, Zenon DEF AllTornDown
<1>4. \A m : CallsOf(m) = CallsIn(calls, m)
  BY Zenon DEF CallsOf, CallsIn
<1>5. BadIn(calls, <<s, c, 0, 0>>) = {}
  BY <1>1, <1>2, <1>4, Zenon DEF BadIn
<1> QED BY <1>2, <1>3, <1>4, <1>5, Zenon DEF TornDown

(* Whatever the program and the functions that fail: fixtures and tests are *)
(* called in their order and each once, a pass means that all of the group  *)
(* has been called, and a case that was set up is torn down.                *)
THEOREM FixturesAlwaysDisciplined == Spec => []FixtureDiscipline
<1>1. Init => PosInv /\ ContainInv /\ Reported /\ Disciplined
  <2> SUFFICES ASSUME Init PROVE PosInv /\ ContainInv /\ Reported /\ Disciplined
    BY Zenon
  <2>1. PosInv /\ ContainInv /\ Reported
    BY PosInit, ReportedInit, Zenon
  <2>2. /\ pc = "idle" /\ run = 0 /\ resultlst = << >> /\ calls = << >> /\ Len(<< >>) = 0
    BY Zenon DEF Init
  <2>3. FixtureInv /\ AllInPlace(calls) /\ AllComplete
    BY <2>2 DEF FixtureInv, Kinds, AllInPlace, AllComplete
  <2>4. AllTornDown
    BY <2>2 DEF AllTornDown, Behind
  <2> QED BY <2>1, <2>3, <2>4, Zenon DEF Disciplined
<1>2. PosInv /\ ContainInv /\ [Next]_vars => PosInv'
  BY PosStep, Zenon DEF ContainInv
<1>3. Reported /\ PosInv /\ PosInv' /\ ContainInv /\ [Next]_vars => Reported'
  BY NextReported, Zenon DEF ContainInv
<1>4. Disciplined /\ Reported /\ PosInv /\ PosInv' /\ ContainInv /\ [Next]_vars => Disciplined'
  BY LoopsDisciplined, UncheckedDisciplined, TestsDisciplined, RunsDisciplined, Zenon
     DEF ContainInv, Next
<1>5. Disciplined => FixtureDiscipline
  BY DisciplineMeans, TeardownsMeans, Zenon DEF Disciplined
<1> QED BY <1>1, <1>2, <1>3, <1>4, <1>5, NextContained, PTL DEF Spec

-----------------------------------------------------------------------------
(* The counters of the runner and its list of results *)

INSTANCE FiniteSetTheorems

(* The number of elements of a sequence of results that have type t *)
CountOf(s, t) == Cardinality({k \in 1 .. Len(s) : s[k].rtype = t})

(* That number grows by one when such an element is appended *)
LEMMA CountAfterAppend ==
  ASSUME NEW s, IsSequence(s), NEW v, NEW t
  PROVE  /\ CountOf(s, t) \in Nat
         /\ CountOf(Append(s, v), t)
              = CountOf(s, t) + (IF v.rtype = t THEN 1 ELSE 0)
<1> DEFINE old == {k \in 1 .. Len(s) : s[k].rtype = t}
           new == {k \in 1 .. Len(Append(s, v)) : Append(s, v)[k].rtype = t}
<1>1. /\ Len(s) \in Nat /\ Len(Append(s, v)) = Len(s) + 1
      /\ \A k \in 1 .. Len(s) : Append(s, v)[k] = s[k]
      /\ Append(s, v)[Len(s) + 1] = v
  BY AppendAny
<1>2. IsFiniteSet(1 .. Len(s))
  BY <1>1, FS_Interval
<1>3. IsFiniteSet(old)
  BY <1>2, FS_Subset, Zenon
<1>4. Cardinality(old) \in Nat
  BY <1>3, FS_CardinalityType, Zenon
<1>5. new = IF v.rtype = t THEN old \cup {Len(s) + 1} ELSE old
  BY <1>1
<1>6. Len(s) + 1 \notin old
  BY <1>1
<1>7. Cardinality(old \cup {Len(s) + 1}) = Cardinality(old) + 1
  BY <1>3, <1>6, FS_AddElement, Zenon
<1>8. Cardinality(new) = Cardinality(old) + (IF v.rtype = t THEN 1 ELSE 0)
  <2> HIDE DEF old, new
  <2>1. CASE v.rtype = t
    BY <2>1, <1>5, <1>7, Zenon
  <2>2. CASE v.rtype # t
    <3>1. new = old
      BY <2>2, <1>5, Zenon
    <3> QED BY <3>1, <2>2, <1>4
  <2> QED BY <2>1, <2>2, Zenon
<1> QED BY <1>4, <1>8, Zenon DEF CountOf

-----------------------------------------------------------------------------
StatsInv == IsSequence(resultlst) /\ StatsMatchResults

(* srunner_add_failure() keeps the counters in step with the list *)
LEMMA AddFailureStats ==
  ASSUME StatsInv, NEW tr, srunner_add_failure(tr)
  PROVE  StatsInv'
<1>1. resultlst' = Append(resultlst, tr)
  BY Zenon DEF srunner_add_failure
<1>2. /\ IsSequence(Append(resultlst, tr)) /\ Len(resultlst) \in Nat
      /\ Len(Append(resultlst, tr)) = Len(resultlst) + 1
  BY AppendAny, Zenon DEF StatsInv
<1>3. \A t : /\ CountOf(resultlst, t) \in Nat
             /\ CountOf(resultlst', t)
                  = CountOf(resultlst, t) + (IF tr.rtype = t THEN 1 ELSE 0)
  BY <1>1, CountAfterAppend, Zenon DEF StatsInv
<1>4. /\ stats'.n_checked = stats.n_checked + 1
      /\ stats'.n_failed = stats.n_failed + (IF tr.rtype = "CK_FAILURE" THEN 1 ELSE 0)
      /\ stats'.n_errors = stats.n_errors + (IF tr.rtype = "CK_ERROR" THEN 1 ELSE 0)
  BY Zenon DEF srunner_add_failure
<1>5. /\ stats.n_checked = Len(resultlst)
      /\ stats.n_failed = CountOf(resultlst, "CK_FAILURE")
      /\ stats.n_errors = CountOf(resultlst, "CK_ERROR")
  BY Zenon DEF StatsInv, StatsMatchResults, ResultsOf, CountOf
<1>6. /\ stats'.n_checked = Len(resultlst')
      /\ stats'.n_failed = CountOf(resultlst', "CK_FAILURE")
      /\ stats'.n_errors = CountOf(resultlst', "CK_ERROR")
  BY <1>1, <1>2, <1>3, <1>4, <1>5
<1>7. IsSequence(resultlst')
  BY <1>1, <1>2, Zenon
<1> QED BY <1>6, <1>7, Zenon DEF StatsInv, StatsMatchResults, ResultsOf, CountOf

(* At first there is nothing to count *)
LEMMA StatsInit == Init => StatsInv
<1> SUFFICES ASSUME Init PROVE StatsInv
  BY Zenon
<1>1. resultlst = << >> /\ Len(resultlst) = 0
  BY Zenon DEF Init
<1>2. \A t : ResultsOf(t) = {}
  BY <1>1 DEF ResultsOf
<1>3. IsSequence(resultlst)
  <2>1. << >> \in Seq({})
    OBVIOUS
  <2> QED BY <1>1, <2>1, Zenon DEF IsSequence
<1>4. stats.n_checked = 0 /\ stats.n_failed = 0 /\ stats.n_errors = 0
  BY Zenon DEF Init
<1> QED BY <1>1, <1>2, <1>3, <1>4, FS_EmptySet, Zenon DEF StatsInv, StatsMatchResults

(* Each step keeps the counters in step with the list *)
LEMMA StatsStep == StatsInv /\ [Next]_vars => StatsInv'
<1> SUFFICES ASSUME StatsInv, [Next]_vars PROVE StatsInv'
  BY Zenon
<1>1. ASSUME NEW tr, srunner_add_failure(tr) PROVE StatsInv'
  BY <1>1, AddFailureStats, Zenon
<1>2. ASSUME UNCHANGED results PROVE StatsInv'
  BY <1>2, Zenon DEF results, StatsInv, StatsMatchResults, ResultsOf
<1> QED BY <1>1, <1>2, ResultsStep, Zenon

(* The counters the user reads always match the list of results, whatever   *)
(* is run, however often: srunner_ntests_run() and srunner_ntests_failed()  *)
(* are the sizes srunner_results() and srunner_failures() need.             *)
THEOREM StatsAlwaysMatch == Spec => []StatsMatchResults
<1>1. StatsInv => StatsMatchResults
  BY DEF StatsInv
<1> QED BY <1>1, StatsInit, StatsStep, PTL DEF Spec
=============================================================================
