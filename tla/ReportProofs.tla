--------------------------- MODULE ReportProofs -----------------------------
(***************************************************************************)
(* For every program, fork status and failing function: a result says what *)
(* happened to the functions it is about.  Along each group of functions   *)
(* the proof relates what has been sent to the pipe, received with         *)
(* punpack(), to the calls that were made.                                 *)
(***************************************************************************)
EXTENDS SRunnerProofs

-----------------------------------------------------------------------------
(* What the messages of a call add to what is received *)

Clean(r) == r.msg = NULL /\ r.failctx = CK_CTX_INVALID

(* The texts and locations of a run *)
LEMMA RunReceived ==
  ASSUME NEW p \in Seq(RunMsgs)
  PROVE  Received(p) \in RcvMsgs(Sites \cup Labels, Sites)
BY ReceivedType, SRunnerAssumption, Zenon DEF RunMsgs

(* send_ctx_info() announces a context and forgets no failure *)
LEMMA CtxReceived ==
  ASSUME NEW p \in Seq(RunMsgs), NEW c \in Ctx
  PROVE  LET q == p \o <<CtxMsg(c)>>
         IN  /\ q \in Seq(RunMsgs)
             /\ Received(q).lastctx = c
             /\ Received(q).msg = Received(p).msg
             /\ Received(q).failctx = Received(p).failctx
             /\ Received(q).test_loc = Received(p).test_loc
<1>1. CtxMsg(c) \in RunMsgs
  BY Zenon DEF RunMsgs, Messages
<1>2. p \o <<CtxMsg(c)>> \in Seq(RunMsgs)
  BY <1>1
<1>3. Received(p \o <<CtxMsg(c)>>) = get_result(Received(p), CtxMsg(c))
  BY <1>1, ReceivedOneMore, Zenon
<1> QED BY <1>2, <1>3, RunReceived, GetResultCtx, GetResultAfterFailure

(* tcase_fn_start() announces the context and the place of the test *)
LEMMA TestReceived ==
  ASSUME NEW p \in Seq(RunMsgs), NEW l \in Labels
  PROVE  LET q == p \o <<CtxMsg("CK_CTX_TEST"), LocMsg(l)>>
         IN  /\ q \in Seq(RunMsgs)
             /\ Received(q).lastctx = "CK_CTX_TEST"
             /\ Received(q).msg = Received(p).msg
             /\ Received(q).failctx = Received(p).failctx
<1>1. CtxMsg("CK_CTX_TEST") \in RunMsgs /\ LocMsg(l) \in RunMsgs /\ "CK_CTX_TEST" \in Ctx
  BY Zenon DEF RunMsgs, Messages, Ctx
<1> DEFINE r == get_result(Received(p), CtxMsg("CK_CTX_TEST"))
<1>2. /\ p \o <<CtxMsg("CK_CTX_TEST"), LocMsg(l)>> \in Seq(RunMsgs)
      /\ Received(p \o <<CtxMsg("CK_CTX_TEST"), LocMsg(l)>>) = get_result(r, LocMsg(l))
  BY <1>1, ReceivedTwoMore
<1>3. Received(p) \in RcvMsgs(Sites \cup Labels, Sites)
  BY RunReceived, Zenon
<1>4. /\ r \in RcvMsgs(Sites \cup Labels, Sites)
      /\ r.lastctx = "CK_CTX_TEST" /\ r.msg = Received(p).msg
      /\ r.failctx = Received(p).failctx
  BY <1>1, <1>3, GetResultKeeps, GetResultCtx, SRunnerAssumption DEF RunMsgs
<1> HIDE DEF r
<1> QED BY <1>2, <1>4, GetResultLoc

(* A failed assertion sends its location and its text: the first failure   *)
(* is kept, and nothing after it changes what is known of it.              *)
LEMMA FailReceived ==
  ASSUME NEW p \in Seq(RunMsgs), NEW t \in Sites
  PROVE  LET q == p \o <<LocMsg(t), FailMsg(t)>>
         IN  /\ q \in Seq(RunMsgs)
             /\ Received(q).lastctx = Received(p).lastctx
             /\ Received(q).msg # NULL
             /\ Clean(Received(p)) => /\ Received(q).msg = t
                                      /\ Received(q).failctx = Received(p).lastctx
                                      /\ LocByCtx(Received(q), Received(p).lastctx) = t
             /\ Received(p).msg # NULL /\ Received(p).failctx # CK_CTX_INVALID
                  => Received(q) = Received(p)
<1>1. LocMsg(t) \in RunMsgs /\ FailMsg(t) \in RunMsgs
  BY DEF RunMsgs, Messages
<1> DEFINE q == p \o <<LocMsg(t), FailMsg(t)>>
           r0 == Received(p)
           r1 == get_result(r0, LocMsg(t))
           r2 == get_result(r1, FailMsg(t))
<1>2. q \in Seq(RunMsgs) /\ Received(q) = r2
  BY <1>1, ReceivedTwoMore
<1>3. r0 \in RcvMsgs(Sites \cup Labels, Sites)
  BY RunReceived, Zenon
<1> HIDE DEF r0, q
<1>4. /\ r1.lastctx = r0.lastctx /\ r1.msg = r0.msg /\ r1.failctx = r0.failctx
      /\ r0.failctx = CK_CTX_INVALID => LocByCtx(r1, r0.lastctx) = t
      /\ r0.failctx # CK_CTX_INVALID => r1 = r0
  BY <1>3, GetResultLoc, GetResultAfterFailure
<1>5. r1 \in RcvMsgs(Sites \cup Labels, Sites)
  BY <1>1, <1>3, GetResultKeeps, SRunnerAssumption DEF RunMsgs
<1> HIDE DEF r1
<1>6. /\ r2.lastctx = r1.lastctx
      /\ r1.msg = NULL => r2.msg = t /\ r2.failctx = r1.lastctx
      /\ \A c : LocByCtx(r2, c) = LocByCtx(r1, c)
      /\ r1.msg # NULL => r2 = r1
  BY <1>5, GetResultFail, GetResultAfterFailure
<1>7. t # NULL
  BY SRunnerAssumption, Zenon
<1> HIDE DEF r2
<1>8. /\ r2.lastctx = r0.lastctx /\ r2.msg # NULL
      /\ Clean(r0) => /\ r2.msg = t /\ r2.failctx = r0.lastctx
                      /\ LocByCtx(r2, r0.lastctx) = t
      /\ r0.msg # NULL /\ r0.failctx # CK_CTX_INVALID => r2 = r0
  BY <1>4, <1>6, <1>7, Zenon DEF Clean
<1> QED BY <1>2, <1>8, Zenon DEF q, r0

(* send_duration_info() changes nothing that is known of a failure *)
LEMMA DurationReceived ==
  ASSUME NEW p \in Seq(RunMsgs)
  PROVE  LET q == Append(p, DurationMsg(0))
         IN  /\ q \in Seq(RunMsgs)
             /\ Received(q).lastctx = Received(p).lastctx
             /\ Received(q).msg = Received(p).msg
             /\ Received(q).failctx = Received(p).failctx
             /\ \A c : LocByCtx(Received(q), c) = LocByCtx(Received(p), c)
<1>1. DurationMsg(0) \in RunMsgs
  BY DEF RunMsgs, Messages
<1>2. Append(p, DurationMsg(0)) \in Seq(RunMsgs) /\ Append(p, DurationMsg(0)) = p \o <<DurationMsg(0)>>
  BY <1>1, OneMore, Zenon
<1>3. Received(p \o <<DurationMsg(0)>>) = get_result(Received(p), DurationMsg(0))
  BY <1>1, ReceivedOneMore, Zenon
<1> DEFINE r0 == Received(p)
           r == get_result(r0, DurationMsg(0))
<1>4. r0 \in RcvMsgs(Sites \cup Labels, Sites)
  BY RunReceived, Zenon
<1> HIDE DEF r0
<1>5. /\ r.lastctx = r0.lastctx /\ r.msg = r0.msg /\ r.failctx = r0.failctx
      /\ \A c : LocByCtx(r, c) = LocByCtx(r0, c)
  BY <1>4, GetResultAfterFailure, Zenon
<1>6. Received(Append(p, DurationMsg(0))) = r
  BY <1>2, <1>3, Zenon DEF r0
<1> HIDE DEF r
<1> QED BY <1>2, <1>5, <1>6, Zenon DEF r0

(* Nothing is received from an empty file *)
LEMMA EmptyReceived == << >> \in Seq(RunMsgs) /\ Clean(Received(<< >>))
BY ReceivedNothing DEF rcvmsg_create, Clean

(* What the messages of a user function change *)
UserEffect(r, q, how, t) ==
  /\ q.lastctx = r.lastctx
  /\ how # "fail" => q = r
  /\ how = "fail" => q.msg # NULL
  /\ how = "fail" /\ Clean(r) => /\ q.msg = t /\ q.failctx = r.lastctx
                                 /\ LocByCtx(q, r.lastctx) = t
  /\ r.msg # NULL => q.msg # NULL
  /\ r.msg # NULL /\ r.failctx # CK_CTX_INVALID => q = r

(* The messages of a user function *)
LEMMA UserReceived ==
  ASSUME NEW p \in Seq(RunMsgs), NEW kind, NEW how, Site(kind) \in Sites
  PROVE  /\ p \o UserMsgs(kind, how) \in Seq(RunMsgs)
         /\ UserEffect(Received(p), Received(p \o UserMsgs(kind, how)), how, Site(kind))
<1>1. CASE how = "fail"
  <2>1. UserMsgs(kind, how) = <<LocMsg(Site(kind)), FailMsg(Site(kind))>>
    BY <1>1 DEF UserMsgs
  <2>2. PICK t \in Sites : t = Site(kind)
    OBVIOUS
  <2>3. PICK q : q = p \o <<LocMsg(t), FailMsg(t)>>
    BY Zenon
  <2>4. p \o UserMsgs(kind, how) = q
    BY <2>1, <2>2, <2>3
  <2>5. /\ q \in Seq(RunMsgs)
        /\ Received(q).lastctx = Received(p).lastctx
        /\ Received(q).msg # NULL
        /\ Clean(Received(p)) => /\ Received(q).msg = t
                                 /\ Received(q).failctx = Received(p).lastctx
                                 /\ LocByCtx(Received(q), Received(p).lastctx) = t
        /\ Received(p).msg # NULL /\ Received(p).failctx # CK_CTX_INVALID
             => Received(q) = Received(p)
    BY <2>3, FailReceived
  <2> QED BY <1>1, <2>2, <2>4, <2>5, Zenon DEF UserEffect
<1>2. CASE how # "fail"
  <2>1. p \o UserMsgs(kind, how) = p
    BY <1>2, Joined DEF UserMsgs
  <2> QED BY <1>2, <2>1 DEF UserEffect
<1> QED BY <1>1, <1>2

-----------------------------------------------------------------------------
(* The verdict of receive_result_info_nofork() on what was received *)
LEMMA NoforkVerdict ==
  ASSUME NEW msgs, NEW tname, Received(msgs).lastctx \in Ctx
  PROVE  LET tr == receive_result_info_nofork(msgs, tname)
             r == Received(msgs)
         IN  /\ tr.run = run /\ tr.label = Label(pos)
             /\ r.msg = NULL => tr.rtype = "CK_PASS"
             /\ r.msg # NULL => tr.rtype = "CK_FAILURE" /\ tr.msg = r.msg
             /\ r.msg # NULL /\ r.failctx # CK_CTX_INVALID =>
                  tr.ctx = r.failctx /\ tr.loc = LocByCtx(r, r.failctx)
<1> DEFINE r == Received(msgs)
           t == construct_test_result(r, FALSE)
           v == set_nofork_info(t.msg)
           tr == receive_result_info_nofork(msgs, tname)
<1>1. punpack(msgs) = r
  BY PunpackReceived, Zenon DEF Ctx, CK_CTX_INVALID
<1>2. tr = [run |-> run, label |-> Label(pos), tname |-> tname, rtype |-> v.rtype,
            msg |-> v.msg, ctx |-> t.ctx, loc |-> t.loc]
  BY <1>1, Zenon DEF receive_result_info_nofork
<1> HIDE DEF r, tr
<1>3. /\ t.msg = r.msg
      /\ r.msg # NULL /\ r.failctx # CK_CTX_INVALID =>
           t.ctx = r.failctx /\ t.loc = LocByCtx(r, r.failctx)
  BY Zenon DEF construct_test_result
<1> HIDE DEF t
<1>4. /\ t.msg = NULL => v.rtype = "CK_PASS"
      /\ t.msg # NULL => v.rtype = "CK_FAILURE" /\ v.msg = t.msg
  BY Zenon DEF set_nofork_info, verdict
<1> HIDE DEF v
<1>5. /\ tr.run = run /\ tr.label = Label(pos) /\ tr.rtype = v.rtype /\ tr.msg = v.msg
      /\ tr.ctx = t.ctx /\ tr.loc = t.loc
  BY <1>2, Zenon
<1>6. /\ tr.run = run /\ tr.label = Label(pos)
      /\ r.msg = NULL => tr.rtype = "CK_PASS"
      /\ r.msg # NULL => tr.rtype = "CK_FAILURE" /\ tr.msg = r.msg
      /\ r.msg # NULL /\ r.failctx # CK_CTX_INVALID =>
           tr.ctx = r.failctx /\ tr.loc = LocByCtx(r, r.failctx)
  BY <1>3, <1>4, <1>5, Zenon
<1> QED BY <1>6 DEF r, tr

(* The verdict of receive_result_info_fork() on a child *)
LEMMA ForkVerdict ==
  ASSUME Received(pipe).lastctx \in Ctx
  PROVE  LET tr == receive_result_info_fork
             r == Received(pipe)
         IN  /\ tr.run = run /\ tr.label = Label(pos)
             /\ status = Exited(0) => tr.rtype = "CK_PASS"
             /\ status = Exited(1) /\ r.msg # NULL =>
                  tr.rtype = "CK_FAILURE" /\ tr.msg = r.msg
             /\ status = Exited(1) /\ r.msg # NULL /\ r.failctx # CK_CTX_INVALID =>
                  tr.ctx = r.failctx /\ tr.loc = LocByCtx(r, r.failctx)
             /\ status = Signaled("SIGSEGV") => tr.rtype = "CK_ERROR"
             /\ status = Signaled("SIGSEGV") /\ r.failctx = CK_CTX_INVALID =>
                  tr.ctx = r.lastctx
<1> DEFINE r == Received(pipe)
           w == waserror(status, NoSignal)
           t == construct_test_result(r, w)
           v == set_fork_info(t.msg, status, NoSignal, 0, FALSE)
           tr == receive_result_info_fork
<1>1. punpack(pipe) = r
  BY PunpackReceived, Zenon DEF Ctx, CK_CTX_INVALID
<1>2. tr = [run |-> run, label |-> Label(pos), tname |-> "test", rtype |-> v.rtype,
            msg |-> v.msg, ctx |-> t.ctx, loc |-> t.loc]
  BY <1>1, Zenon DEF receive_result_info_fork
<1>w. status = Signaled("SIGSEGV") => w
  BY DEF waserror, Signaled, NoSignal
<1> HIDE DEF r, tr, w
<1>3. /\ t.msg = r.msg
      /\ r.msg # NULL /\ r.failctx # CK_CTX_INVALID =>
           t.ctx = r.failctx /\ t.loc = LocByCtx(r, r.failctx)
      /\ w /\ r.failctx = CK_CTX_INVALID => t.ctx = r.lastctx
  BY Zenon DEF construct_test_result
<1> HIDE DEF t
<1>4. status = Exited(0) => v.rtype = "CK_PASS"
  BY DEF set_fork_info, Exited, SignalMissing, NoSignal, verdict, SChar
<1>5. status = Exited(1) /\ t.msg # NULL => v.rtype = "CK_FAILURE" /\ v.msg = t.msg
  <2> SUFFICES ASSUME status = Exited(1), t.msg # NULL
               PROVE  v.rtype = "CK_FAILURE" /\ v.msg = t.msg
    BY Zenon
  <2>1. SChar(status.val) # SChar(0) /\ status.how = "exit" /\ ~SignalMissing(NoSignal)
    BY DEF Exited, SChar, SignalMissing
  <2>2. v = verdict("CK_FAILURE", t.msg)
    BY <2>1, Zenon DEF set_fork_info
  <2> HIDE DEF v
  <2> QED BY <2>2, Zenon DEF verdict
<1>6. status = Signaled("SIGSEGV") => v.rtype = "CK_ERROR"
  <2> SUFFICES ASSUME status = Signaled("SIGSEGV") PROVE v.rtype = "CK_ERROR"
    BY Zenon
  <2>1. status.how = "signal" /\ status.val # NoSignal
    BY DEF Signaled, NoSignal
  <2>2. v = verdict("CK_ERROR", "received signal")
    BY <2>1, Zenon DEF set_fork_info
  <2> HIDE DEF v
  <2> QED BY <2>2, Zenon DEF verdict
<1> HIDE DEF v
<1>7. /\ tr.run = run /\ tr.label = Label(pos) /\ tr.rtype = v.rtype /\ tr.msg = v.msg
      /\ tr.ctx = t.ctx /\ tr.loc = t.loc
  BY <1>2
<1> QED BY <1>w, <1>3, <1>4, <1>5, <1>6, <1>7, Zenon DEF r, tr

-----------------------------------------------------------------------------
(* What is known, while a group of functions is being called at point p,    *)
(* whether one of them was bad, of the first that was and of what has been  *)
(* received: a child ends at the first failure, and its status tells; in    *)
(* CK_NOFORK mode only a test is followed by more calls.                    *)
GroupState(p, fk, st, bad, first, r) ==
  /\ p \in {"usetup", "csetup", "test"} => bad = {}
  /\ p \in {"csetup", "test"} /\ fk => r.lastctx = "CK_CTX_SETUP"
  /\ p \in {"cteardown", "receive", "reap"} => r.lastctx \in Ctx
  /\ p = "receive" => ~fk
  /\ p = "reap" => fk /\ (bad = {} => st = Exited(0))
  /\ p = "cteardown" /\ bad # {} => ~fk
  /\ p \in InTest /\ bad # {} =>
       /\ first.how \in {"fail", "crash"}
       /\ first.how = "fail" => r.msg # NULL /\ (p = "reap" => st = Exited(1))
       /\ first.how = "crash" => p = "reap" /\ st = Signaled("SIGSEGV")

(* Unless an unchecked teardown failed, no message of an earlier group is   *)
(* left, and what has been received is about the first that was bad.        *)
AttrState(p, bad, first, r) ==
  /\ p \in {"suite", "tcase", "usetup", "tfun", "uteardown"} => Clean(r)
  /\ p \in InTest /\ bad = {} => Clean(r)
  /\ p \in InTest /\ bad # {} =>
       /\ p = "cteardown" => first.site[3] = "test"
       /\ first.how = "fail" => /\ r.msg = first.site
                                /\ r.failctx = KindCtx(first.site[3])
                                /\ LocByCtx(r, r.failctx) = first.site
       /\ first.how = "crash" => Clean(r) /\ r.lastctx = KindCtx(first.site[3])

Report(p, fk, st, bad, first, r, clear) ==
  GroupState(p, fk, st, bad, first, r) /\ (clear => AttrState(p, bad, first, r))

ReportInv ==
  Report(pc, Forks, status, BadIn(calls, Label(pos)), FirstIn(calls, Label(pos)),
         Received(pipe), NoTeardownFailed)

(* Result r is about the calls of history cs under its label *)
Attributed(r, cs) ==
  LET first == FirstIn(cs, r.label)
  IN  IF BadIn(cs, r.label) = {} THEN r.rtype = "CK_PASS"
      ELSE /\ r.ctx = KindCtx(first.site[3])
           /\ first.how = "crash" => r.rtype = "CK_ERROR"
           /\ first.how = "fail" => /\ r.rtype = "CK_FAILURE"
                                    /\ r.msg = first.site
                                    /\ r.loc = first.site

AllAttributed == \A k \in 1 .. Len(resultlst) :
                   resultlst[k].run = run => Attributed(resultlst[k], calls)

(* The property in these terms *)
LEMMA AttributedMeans ==
  FailureAttributed <=> (NoTeardownFailed => AllAttributed)
BY Zenon DEF FailureAttributed, AllAttributed, Attributed, BadIn, FirstIn, CallsIn, CallsOf

(* A call under another label does not change what a result is about *)
LEMMA AttributedStays ==
  ASSUME NEW cs \in Seq(CallRecs), NEW c \in CallRecs, NEW r, c.site[2] # r.label,
         Attributed(r, cs)
  PROVE  Attributed(r, Append(cs, c))
<1> DEFINE l == r.label
           ds == Append(cs, c)
<1>1. BadIn(ds, l) = BadIn(cs, l)
  BY BadGrows, Zenon
<1>2. BadIn(cs, l) # {} => FirstIn(ds, l) = FirstIn(cs, l)
  BY BadGrows, Zenon
<1> HIDE DEF ds
<1> QED BY <1>1, <1>2 DEF Attributed, ds

(* Results stay attributed when the new ones are *)
LEMMA AttributedKept ==
  ASSUME OrderInv, pc # "idle", run' = run, pos \in Positions,
         AllAttributed, CallsStep,
         \/ UNCHANGED resultlst
         \/ \E tr : Attributed(tr, calls') /\ resultlst' = Append(resultlst, tr)
  PROVE  AllAttributed'
<1> DEFINE l == Label(pos)
<1>1. l \in Labels /\ calls \in Seq(CallRecs) /\ IsSequence(resultlst)
  BY LabelOfPosition, Zenon DEF OrderInv
<1>2. \A k \in 1 .. Len(resultlst) : resultlst[k].run = run => resultlst[k].label # l
  BY <1>1, LabelsOrdered, Zenon DEF OrderInv
<1>3. ASSUME NEW k \in 1 .. Len(resultlst), resultlst[k].run = run
      PROVE  Attributed(resultlst[k], calls')
  <2>1. Attributed(resultlst[k], calls) /\ resultlst[k].label # l
    BY <1>2, <1>3, Zenon DEF AllAttributed
  <2>2. CASE UNCHANGED calls
    BY <2>1, <2>2, Zenon
  <2>3. ASSUME NEW c \in CallRecs, c.site[2] = l, calls' = Append(calls, c)
        PROVE  Attributed(resultlst[k], calls')
    <3>1. c.site[2] # resultlst[k].label
      BY <2>1, <2>3, Zenon
    <3> QED BY <1>1, <2>1, <2>3, <3>1, AttributedStays, Zenon
  <2> QED BY <2>2, <2>3, Zenon DEF CallsStep
<1>4. CASE UNCHANGED resultlst
  BY <1>3, <1>4, Zenon DEF AllAttributed
<1>5. ASSUME NEW tr, Attributed(tr, calls'), resultlst' = Append(resultlst, tr)
      PROVE  AllAttributed'
  <2>1. /\ Len(resultlst) \in Nat /\ Len(resultlst') = Len(resultlst) + 1
        /\ \A k \in 1 .. Len(resultlst) : resultlst'[k] = resultlst[k]
        /\ resultlst'[Len(resultlst) + 1] = tr
    BY <1>1, <1>5, AppendAny
  <2>2. ASSUME NEW k \in 1 .. Len(resultlst'), resultlst'[k].run = run'
        PROVE  Attributed(resultlst'[k], calls')
    <3>1. k \in 1 .. Len(resultlst) \/ k = Len(resultlst) + 1
      BY <2>1
    <3> QED BY <1>3, <1>5, <2>1, <2>2, <3>1, Zenon
  <2> QED BY <2>2, Zenon DEF AllAttributed
<1> QED BY <1>4, <1>5, Zenon

SetupReported(kind, how, tr) ==
  /\ Outcome(kind, how) \in {"returned", "jumped"}
  /\ tr.run = run /\ tr.label = Label(pos)
  /\ CallsStep
  /\ tr.rtype = "CK_PASS" => BadIn(calls', Label(pos)) = {} /\ how = "ok"
  /\ NoTeardownFailed => Attributed(tr, calls')
  /\ NoTeardownFailed' => NoTeardownFailed

(* A setup fixture under setjmp(): its result is a pass only if it passed,  *)
(* and says what happened unless a message of an earlier case was left.     *)
LEMMA SetupCall ==
  ASSUME OrderInv, ReportInv, pos \in Positions, FstatInv,
         NEW kind \in {"usetup", "csetup"}, NEW how \in Hows(kind), pc = kind,
         ~Forks \/ kind = "usetup", jmp' = kind, Called(kind, how),
         NEW tname, NEW msgs, NEW tr,
         msgs = pipe \o <<CtxMsg("CK_CTX_SETUP")>> \o UserMsgs(kind, how),
         tr = receive_result_info_nofork(msgs, tname)
  PROVE  SetupReported(kind, how, tr)
<1> DEFINE l == Label(pos)
           r == Received(msgs)
<1>0. kind \in Kinds /\ pc \in InCase /\ pc \in InGroup /\ "CK_CTX_SETUP" \in Ctx
  BY Zenon DEF Kinds, InCase, InGroup, InTest, Ctx
<1>1. /\ how \in {"ok", "fail"}
      /\ Outcome(kind, how) \in {"returned", "jumped"}
  BY <1>0, WhereCallsLead, Zenon
<1>2. PICK c \in CallRecs : /\ calls' = Append(calls, c) /\ c.how = how
                            /\ c.site = Site(kind) /\ c.site[2] = l /\ c.site[3] = kind
  BY <1>0, <1>1, CallRecorded
<1>3. Site(kind) \in Sites /\ calls \in Seq(CallRecs) /\ pipe \in Seq(RunMsgs)
  BY <1>0, <1>1, CallRecorded, Zenon DEF OrderInv
<1>4. PICK p : p = pipe \o <<CtxMsg("CK_CTX_SETUP")>>
  BY Zenon
<1>5. /\ p \in Seq(RunMsgs) /\ Received(p).lastctx = "CK_CTX_SETUP"
      /\ Received(p).msg = Received(pipe).msg /\ Received(p).failctx = Received(pipe).failctx
  BY <1>0, <1>3, <1>4, CtxReceived
<1>6. msgs = p \o UserMsgs(kind, how)
  BY <1>4
<1>7. /\ r.lastctx = "CK_CTX_SETUP"
      /\ how = "ok" => r = Received(p)
      /\ how = "fail" => r.msg # NULL
      /\ how = "fail" /\ Clean(Received(p)) =>
           /\ r.msg = Site(kind) /\ r.failctx = "CK_CTX_SETUP"
           /\ LocByCtx(r, "CK_CTX_SETUP") = Site(kind)
  <2>1. UserEffect(Received(p), r, how, Site(kind))
    BY <1>3, <1>5, <1>6, UserReceived, Zenon
  <2> HIDE DEF r
  <2> QED BY <1>1, <1>5, <2>1 DEF UserEffect
<1>8. /\ tr.run = run /\ tr.label = l
      /\ r.msg = NULL => tr.rtype = "CK_PASS"
      /\ r.msg # NULL => tr.rtype = "CK_FAILURE" /\ tr.msg = r.msg
      /\ r.msg # NULL /\ r.failctx # CK_CTX_INVALID =>
           tr.ctx = r.failctx /\ tr.loc = LocByCtx(r, r.failctx)
  BY <1>0, <1>7, NoforkVerdict, Zenon
<1>9. BadIn(calls, l) = {}
  BY Zenon DEF ReportInv, Report, GroupState
<1>10. /\ how = "ok" => BadIn(calls', l) = {}
       /\ how = "fail" => BadIn(calls', l) # {} /\ FirstIn(calls', l) = c
  BY <1>2, <1>3, <1>9, BadGrows, Zenon
<1>11. NoTeardownFailed => Clean(Received(p))
  <2>1. Received(pipe).msg = Received(p).msg /\ Received(pipe).failctx = Received(p).failctx
    BY <1>5
  <2>2. NoTeardownFailed => Clean(Received(pipe))
    BY <1>9 DEF ReportInv, Report, AttrState, InTest
  <2> QED BY <2>1, <2>2 DEF Clean
<1> HIDE DEF l, r
<1>12. ASSUME NoTeardownFailed PROVE Attributed(tr, calls')
  <2>1. CASE how = "ok"
    <3>1. tr.rtype = "CK_PASS"
      BY <2>1, <1>7, <1>8, <1>11, <1>12, Zenon DEF Clean
    <3> QED BY <2>1, <3>1, <1>8, <1>10, Zenon DEF Attributed
  <2>2. CASE how = "fail"
    <3>1. /\ tr.rtype = "CK_FAILURE" /\ tr.msg = c.site /\ tr.loc = c.site
          /\ tr.ctx = "CK_CTX_SETUP"
      BY <2>2, <1>2, <1>7, <1>8, <1>11, <1>12 DEF CK_CTX_INVALID
    <3>2. KindCtx(c.site[3]) = "CK_CTX_SETUP" /\ c.how = "fail"
      BY <1>2, <2>2, Zenon DEF KindCtx
    <3> QED BY <2>2, <3>1, <3>2, <1>8, <1>10, Zenon DEF Attributed
  <2> QED BY <1>1, <2>1, <2>2, Zenon
<1>13. tr.rtype = "CK_PASS" => how = "ok"
  BY <1>1, <1>7, <1>8, Zenon
<1>14. NoTeardownFailed' => NoTeardownFailed
  BY <1>2, <1>3, TeardownsBefore, Zenon
<1>15. CallsStep
  BY <1>0, <1>2, Zenon DEF CallsStep, l
<1> QED BY <1>1, <1>8, <1>10, <1>12, <1>13, <1>14, <1>15, Zenon DEF l, SetupReported

(* A call c was added: whether one is bad now, and the first that is *)
Grown(bad, first, bad2, first2, c) ==
  /\ c.how = "ok" => bad2 = bad
  /\ c.how # "ok" => bad2 # {}
  /\ bad # {} => bad2 # {} /\ first2 = first
  /\ bad = {} /\ bad2 # {} => first2 = c

(* A function of a test is called in a child, in its context: the child     *)
(* goes on or is over.                                                      *)
ChildStep(kind, how, st2, p2, c, r, rp, r2) ==
  /\ rp.msg = r.msg /\ rp.failctx = r.failctx /\ rp.lastctx = KindCtx(kind)
  /\ UserEffect(rp, r2, how, c.site) /\ c.how = how /\ c.site[3] = kind
  /\ how = "ok" => p2 = (IF kind = "csetup" THEN kind ELSE "cteardown")
  /\ how # "ok" => p2 = "reap"
  /\ how = "fail" => st2 = Exited(1)
  /\ how = "crash" => st2 = Signaled("SIGSEGV")

(* What is known of the child stays true *)
LEMMA ChildCall ==
  ASSUME NEW kind \in {"csetup", "test", "cteardown"}, NEW how \in {"ok", "fail", "crash"},
         NEW st, NEW st2, NEW p2, NEW c, NEW r, NEW rp, NEW r2,
         NEW bad, NEW bad2, NEW first, NEW first2,
         GroupState(kind, TRUE, st, bad, first, r),
         ChildStep(kind, how, st2, p2, c, r, rp, r2),
         Grown(bad, first, bad2, first2, c)
  PROVE  /\ GroupState(p2, TRUE, st2, bad2, first2, r2)
         /\ AttrState(kind, bad, first, r) => AttrState(p2, bad2, first2, r2)
<1> USE DEF InTest, ChildStep
<1>0. rp.lastctx \in Ctx /\ (kind = "csetup" => rp.lastctx = "CK_CTX_SETUP")
  BY DEF KindCtx, Ctx
<1>1. bad = {}
  BY DEF GroupState
<1>2. AttrState(kind, bad, first, r) => Clean(rp)
  BY <1>1 DEF AttrState, Clean
<1>3. CASE how = "ok"
  <2>1. bad2 = {} /\ r2 = rp
    BY <1>1, <1>3, Zenon DEF Grown, UserEffect
  <2> QED BY <1>0, <1>2, <1>3, <2>1, Zenon DEF GroupState, AttrState
<1>4. CASE how = "fail"
  <2>1. bad2 # {} /\ first2 = c
    BY <1>1, <1>4 DEF Grown
  <2>2. /\ r2.lastctx = rp.lastctx /\ r2.msg # NULL
        /\ AttrState(kind, bad, first, r) =>
             /\ r2.msg = c.site /\ r2.failctx = rp.lastctx
             /\ LocByCtx(r2, rp.lastctx) = c.site
    BY <1>2, <1>4 DEF UserEffect
  <2>3. p2 = "reap" /\ st2 = Exited(1) /\ c.how = "fail" /\ rp.lastctx = KindCtx(c.site[3])
    BY <1>4, Zenon
  <2>4. GroupState(p2, TRUE, st2, bad2, first2, r2)
    BY <1>0, <2>1, <2>2, <2>3, Zenon DEF GroupState
  <2>5. AttrState(kind, bad, first, r) => AttrState(p2, bad2, first2, r2)
    <3> HIDE DEF ChildStep
    <3> SUFFICES ASSUME AttrState(kind, bad, first, r) PROVE AttrState(p2, bad2, first2, r2)
      BY Zenon
    <3>1. /\ r2.msg = c.site /\ r2.failctx = KindCtx(c.site[3])
          /\ LocByCtx(r2, r2.failctx) = c.site
      BY <2>2, <2>3, Zenon
    <3> QED BY <2>1, <2>3, <3>1, Zenon DEF AttrState
  <2> QED BY <2>4, <2>5, Zenon
<1>5. CASE how = "crash"
  <2>1. bad2 # {} /\ first2 = c /\ r2 = rp
    BY <1>1, <1>5, Zenon DEF Grown, UserEffect
  <2> QED BY <1>0, <1>2, <1>5, <2>1, Zenon DEF GroupState, AttrState
<1> QED BY <1>3, <1>4, <1>5, Zenon

(* The same for a test or a checked teardown in CK_NOFORK mode, where the   *)
(* teardown follows a test that failed.                                     *)
NoforkStep(kind, how, p2, c, r, rp, r2) ==
  /\ rp.msg = r.msg /\ rp.failctx = r.failctx /\ rp.lastctx = KindCtx(kind)
  /\ kind = "cteardown" => rp.test_loc = r.test_loc
  /\ UserEffect(rp, r2, how, c.site) /\ c.how = how /\ c.site[3] = kind
  /\ p2 = (IF kind = "test" \/ how = "ok" THEN "cteardown" ELSE "receive")

(* What is known of the test stays true *)
LEMMA NoforkCall ==
  ASSUME NEW kind \in {"test", "cteardown"}, NEW how \in {"ok", "fail"},
         NEW st, NEW p2, NEW c, NEW r, NEW rp, NEW r2,
         NEW bad, NEW bad2, NEW first, NEW first2,
         GroupState(kind, FALSE, st, bad, first, r),
         NoforkStep(kind, how, p2, c, r, rp, r2),
         Grown(bad, first, bad2, first2, c)
  PROVE  /\ GroupState(p2, FALSE, st, bad2, first2, r2)
         /\ AttrState(kind, bad, first, r) => AttrState(p2, bad2, first2, r2)
<1> USE DEF InTest, NoforkStep
<1> DEFINE clear == AttrState(kind, bad, first, r)
<1>0. rp.lastctx \in Ctx /\ r2.lastctx = rp.lastctx
  BY DEF KindCtx, Ctx, UserEffect
<1>1. CASE bad = {}
  <2>1. clear => Clean(rp)
    BY <1>1 DEF AttrState, Clean
  <2>2. CASE how = "ok"
    <3>1. bad2 = {} /\ r2 = rp
      BY <1>1, <2>2, Zenon DEF Grown, UserEffect
    <3> QED BY <1>0, <2>1, <2>2, <3>1, Zenon DEF GroupState, AttrState
  <2>3. CASE how = "fail"
    <3>1. bad2 # {} /\ first2 = c /\ c.how = "fail"
      BY <1>1, <2>3 DEF Grown
    <3>2. /\ r2.msg # NULL
          /\ clear => /\ r2.msg = c.site /\ r2.failctx = KindCtx(c.site[3])
                      /\ LocByCtx(r2, r2.failctx) = c.site
      BY <2>1, <2>3 DEF UserEffect
    <3>3. GroupState(p2, FALSE, st, bad2, first2, r2)
      BY <1>0, <2>3, <3>1, <3>2, Zenon DEF GroupState
    <3>4. /\ p2 \in {"cteardown", "receive"}
          /\ p2 = "cteardown" => c.site[3] = "test"
      BY <2>3, Zenon
    <3>5. clear => AttrState(p2, bad2, first2, r2)
      <4> HIDE DEF NoforkStep
      <4> SUFFICES ASSUME clear PROVE AttrState(p2, bad2, first2, r2)
        BY Zenon
      <4> QED BY <3>1, <3>2, <3>4, Zenon DEF AttrState
    <3> QED BY <3>3, <3>5, Zenon
  <2> QED BY <2>2, <2>3, Zenon
<1>2. CASE bad # {}
  <2>1. /\ kind = "cteardown" /\ first.how = "fail" /\ r.msg # NULL
        /\ clear => /\ first.site[3] = "test" /\ r.msg = first.site
                    /\ r.failctx = KindCtx("test")
                    /\ LocByCtx(r, r.failctx) = first.site
    BY <1>2, Zenon DEF GroupState, AttrState
  <2>2. bad2 # {} /\ first2 = first /\ r2.msg # NULL
    BY <1>2, <2>1, Zenon DEF Grown, UserEffect
  <2>3. KindCtx("test") = "CK_CTX_TEST"
    BY Zenon DEF KindCtx
  <2>4. ASSUME clear
        PROVE  /\ r2.msg = first.site /\ r2.failctx = KindCtx("test")
               /\ LocByCtx(r2, r2.failctx) = first.site
    <3>1. r2 = rp
      BY <2>1, <2>3, <2>4, Zenon DEF UserEffect, CK_CTX_INVALID
    <3>2. rp.test_loc = first.site
      BY <2>1, <2>3, <2>4, Zenon DEF LocByCtx
    <3> QED BY <2>1, <2>3, <2>4, <3>1, <3>2, Zenon DEF LocByCtx
  <2>5. p2 \in {"cteardown", "receive"}
    BY Zenon
  <2>6. GroupState(p2, FALSE, st, bad2, first2, r2)
    BY <1>0, <2>1, <2>2, <2>5, Zenon DEF GroupState
  <2>7. clear => AttrState(p2, bad2, first2, r2)
    <3> HIDE DEF NoforkStep
    <3> SUFFICES ASSUME clear PROVE AttrState(p2, bad2, first2, r2)
      OBVIOUS
    <3> QED BY <2>1, <2>2, <2>4, <2>5, Zenon DEF AttrState
  <2> QED BY <2>6, <2>7, Zenon
<1> QED BY <1>1, <1>2, Zenon

CallReported(kind, how, p) ==
  /\ pipe' \in Seq(RunMsgs) /\ CallsStep
  /\ \E c \in CallRecs :
       /\ c.how = how /\ c.site[3] = kind
       /\ UserEffect(Received(p), Received(pipe'), how, c.site)
       /\ Grown(BadIn(calls, Label(pos)), FirstIn(calls, Label(pos)),
                BadIn(calls', Label(pos)), FirstIn(calls', Label(pos)), c)
  /\ NoTeardownFailed' => NoTeardownFailed /\ (kind = "uteardown" => how = "ok")

(* The facts about a call that the steps above need *)
LEMMA CallFacts ==
  ASSUME OrderInv, pos \in Positions, NEW kind \in Kinds,
         NEW how \in {"ok", "fail", "crash"}, Called(kind, how), pc \in InGroup,
         NEW p \in Seq(RunMsgs), pipe' = p \o UserMsgs(kind, how)
  PROVE  CallReported(kind, how, p)
<1> DEFINE l == Label(pos)
<1>1. Site(kind) \in Sites /\ calls \in Seq(CallRecs)
  BY CallRecorded, Zenon DEF OrderInv
<1>2. PICK c \in CallRecs : /\ calls' = Append(calls, c) /\ c.how = how
                            /\ c.site = Site(kind) /\ c.site[2] = l /\ c.site[3] = kind
  BY CallRecorded
<1>3. /\ pipe' \in Seq(RunMsgs)
      /\ UserEffect(Received(p), Received(pipe'), how, c.site)
  BY <1>1, <1>2, UserReceived, Zenon
<1>4. CallsStep
  BY <1>2, Zenon DEF CallsStep
<1> HIDE DEF l
<1>5. Grown(BadIn(calls, l), FirstIn(calls, l), BadIn(calls', l), FirstIn(calls', l), c)
  BY <1>1, <1>2, BadGrows, Zenon DEF Grown
<1>6. NoTeardownFailed' => NoTeardownFailed /\ (kind = "uteardown" => how = "ok")
  BY <1>1, <1>2, TeardownsBefore, Zenon
<1> QED BY <1>2, <1>3, <1>4, <1>5, <1>6, Zenon DEF l, CallReported

(* Between groups, and after the runner has ended, little is claimed *)
LEMMA NeutralReport ==
  ASSUME NEW p, NEW fk, NEW st, NEW bad, NEW first, NEW r, NEW clear \in BOOLEAN,
         \/ p \in {"suite", "tcase", "tfun", "uteardown"} /\ (clear => Clean(r))
         \/ p \in {"tcase", "exited"} /\ ~clear
         \/ p = "idle"
  PROVE  Report(p, fk, st, bad, first, r, clear)
BY Zenon DEF Report, GroupState, AttrState, InTest

(* The three invariants *)
Reported == OrderInv /\ ReportInv /\ FailureAttributed

(* A step that calls no user function and adds no result *)
LEMMA QuietStep ==
  ASSUME OrderInv, FailureAttributed, pc # "idle", pos \in Positions, pos' \in Positions,
         UNCHANGED <<run, calls, resultlst>>, pipe' \in Seq(RunMsgs), LabelStep
  PROVE  OrderInv' /\ FailureAttributed' /\ (NoTeardownFailed' <=> NoTeardownFailed)
<1>1. OrderInv'
  BY OrderKept, Zenon DEF CallsStep, ResultStep
<1>2. NoTeardownFailed' <=> NoTeardownFailed
  BY Zenon DEF NoTeardownFailed
<1>3. AllAttributed' <=> AllAttributed
  BY Zenon DEF AllAttributed
<1>4. FailureAttributed' <=> (NoTeardownFailed' => AllAttributed')
  BY AttributedMeans, PTL
<1> QED BY <1>1, <1>2, <1>3, <1>4, AttributedMeans, Zenon

(* A step that calls a user function and may add a result about its label   *)
LEMMA LoudStep ==
  ASSUME OrderInv, FailureAttributed, pc # "idle", pos \in Positions, pos' \in Positions,
         run' = run, pipe' \in Seq(RunMsgs), CallsStep, LabelStep,
         NoTeardownFailed' => NoTeardownFailed,
         \/ UNCHANGED resultlst
         \/ /\ LabelBefore(Label(pos), Label(pos')) /\ pc' # "idle"
            /\ \E tr : /\ tr.run = run /\ tr.label = Label(pos)
                       /\ resultlst' = Append(resultlst, tr)
                       /\ NoTeardownFailed' => Attributed(tr, calls')
  PROVE  OrderInv' /\ FailureAttributed'
<1>1. ResultStep
  BY Zenon DEF ResultStep
<1>2. OrderInv'
  BY <1>1, OrderKept, Zenon
<1>3. FailureAttributed' <=> (NoTeardownFailed' => AllAttributed')
  BY AttributedMeans, PTL
<1>4. ASSUME NoTeardownFailed' PROVE AllAttributed'
  <2>1. AllAttributed
    BY <1>4, AttributedMeans, Zenon
  <2>2. \/ UNCHANGED resultlst
        \/ \E tr : Attributed(tr, calls') /\ resultlst' = Append(resultlst, tr)
    BY <1>4, Zenon
  <2> QED BY <2>1, <2>2, AttributedKept, Zenon
<1> QED BY <1>2, <1>3, <1>4, Zenon

(* The steps of the loops *)
LEMMA LoopsReported ==
  ASSUME Reported, PosInv, PosInv',
         \/ next_suite \/ next_tcase \/ suite_end \/ srunner_run_end
         \/ unchecked_setup_done \/ start_test \/ next_tfun \/ tfuns_done
         \/ unchecked_teardown_done
  PROVE  Reported'
<1>0. /\ pos \in Positions /\ pos' \in Positions /\ pipe \in Seq(RunMsgs)
      /\ OrderInv /\ ReportInv /\ FailureAttributed
  BY Zenon DEF PosInv, Reported, OrderInv
<1>l. /\ LabelBefore(Label(pos), Label(AtSuite(pos.s + 1)))
      /\ LabelBefore(Label(pos), Label(NextTCase(pos)))
      /\ Label(NextFixture(pos)) = Label(pos)
  BY <1>0, LabelsForward, Zenon
<1>e. << >> \in Seq(RunMsgs) /\ NoTeardownFailed \in BOOLEAN /\ NoTeardownFailed' \in BOOLEAN
  BY EmptyReceived, Zenon DEF NoTeardownFailed
<1>1. ASSUME pc \in {"suite", "tcase", "usetup", "tfun", "uteardown"},
             pc' \in {"suite", "tcase", "tfun", "uteardown"}, LabelStep,
             UNCHANGED <<run, pipe, calls, resultlst>>
      PROVE  Reported'
  <2>1. OrderInv' /\ FailureAttributed' /\ (NoTeardownFailed' <=> NoTeardownFailed)
    BY <1>0, <1>1, QuietStep, Zenon
  <2>2. NoTeardownFailed => Clean(Received(pipe'))
    BY <1>0, <1>1, Zenon DEF ReportInv, Report, AttrState
  <2>3. ReportInv'
    BY <1>1, <1>e, <2>1, <2>2, NeutralReport, Zenon DEF ReportInv
  <2> QED BY <2>1, <2>3, Zenon DEF Reported
<1>2. ASSUME \/ next_suite \/ suite_end \/ unchecked_teardown_done
             \/ next_tcase /\ ~TCaseSelected(TCase(pos), sel)
      PROVE  Reported'
  <2>1. /\ pc \in {"suite", "tcase", "uteardown"} /\ pc' \in {"suite", "tcase"}
        /\ UNCHANGED <<run, pipe, calls, resultlst>>
        /\ pos' = AtSuite(pos.s + 1) \/ pos' = NextTCase(pos)
    BY <1>2, Zenon DEF next_suite, suite_end, unchecked_teardown_done, next_tcase, setting, results
  <2>2. LabelStep
    BY <2>1, <1>l, Zenon DEF LabelStep
  <2> QED BY <1>1, <2>1, <2>2, Zenon
<1>3. ASSUME unchecked_setup_done \/ next_tfun PROVE Reported'
  <2>1. /\ pc \in {"usetup", "tfun"} /\ pc' = "tfun"
        /\ UNCHANGED <<run, pipe, calls, resultlst>>
        /\ \/ pc = "usetup" /\ pos' = AtTest(pos, 1)
           \/ pc = "tfun" /\ pos' = AtTest(pos, pos.f + 1)
    BY <1>3, Zenon DEF unchecked_setup_done, next_tfun, setting, results
  <2>2. /\ pos.s \in 1 .. Len(Program) /\ pos.c >= 1 /\ pos.c <= Len(Suite(pos).tcases)
        /\ pc = "usetup" => pos.f = 0
    BY <2>1, Zenon DEF PosInv, InCase
  <2>3. pos.f \in Nat /\ pos.f + 1 \in Nat /\ 1 \in Nat /\ pos.c \in Nat
        /\ Len(Suite(pos).tcases) \in Nat
    BY <1>0, <2>2, ProgramAssumption, SMTT(30) DEF Positions, Suite
  <2>4. pos.c \in 1 .. Len(Suite(pos).tcases)
    BY <2>2, <2>3
  <2>5. LabelBefore(Label(pos), Label(pos'))
    <3>1. \A f \in Nat : f > pos.f => LabelBefore(Label(pos), Label(AtTest(pos, f)))
      BY <1>0, <2>2, <2>4, LabelsForward, Zenon
    <3>2. CASE pc = "usetup" /\ pos' = AtTest(pos, 1)
      BY <2>2, <3>1, <3>2
    <3>3. CASE pc = "tfun" /\ pos' = AtTest(pos, pos.f + 1)
      BY <2>3, <3>1, <3>3
    <3> QED BY <2>1, <3>2, <3>3, Zenon
  <2>6. LabelStep
    BY <2>5, Zenon DEF LabelStep
  <2> QED BY <1>1, <2>1, <2>6, Zenon
<1>4. ASSUME tfuns_done PROVE Reported'
  <2>1. /\ pc = "tfun" /\ pc' = "uteardown" /\ pos' = NextFixture(pos)
        /\ UNCHANGED <<run, pipe, calls, resultlst>>
    BY <1>4, Zenon DEF tfuns_done, setting, results
  <2>2. LabelStep
    BY <2>1, <1>l, Zenon DEF LabelStep, InGroup
  <2> QED BY <1>1, <2>1, <2>2, Zenon
<1>5. ASSUME srunner_run_end PROVE Reported'
  <2>1. /\ pc = "suite" /\ pc' = "idle" /\ pipe' = << >>
        /\ UNCHANGED <<run, calls, resultlst>>
    BY <1>5, Zenon DEF srunner_run_end, setting, results
  <2>2. LabelStep
    BY <2>1, Zenon DEF LabelStep
  <2>3. OrderInv' /\ FailureAttributed'
    BY <1>0, <1>e, <2>1, <2>2, QuietStep
  <2>4. ReportInv'
    BY <1>e, <2>1, NeutralReport, Zenon DEF ReportInv
  <2> QED BY <2>3, <2>4, Zenon DEF Reported
<1>6. ASSUME next_tcase, TCaseSelected(TCase(pos), sel) PROVE Reported'
  <2>1. /\ pc = "tcase" /\ pc' = "usetup" /\ pos' = NextFixture(pos)
        /\ UNCHANGED <<run, pipe, calls, resultlst>>
    BY <1>6, Zenon DEF next_tcase, setting, results
  <2>2. LabelStep
    BY <2>1, <1>l, Zenon DEF LabelStep, InGroup
  <2>3. OrderInv' /\ FailureAttributed' /\ (NoTeardownFailed' <=> NoTeardownFailed)
    BY <1>0, <2>1, <2>2, QuietStep, Zenon
  <2>4. BadIn(calls', Label(pos')) = {}
    BY <1>0, <1>l, <2>1, FreshLabel, Zenon DEF InGroup, InTest
  <2>5. NoTeardownFailed => Clean(Received(pipe'))
    BY <1>0, <2>1, Zenon DEF ReportInv, Report, AttrState
  <2>6. ReportInv'
    BY <2>1, <2>3, <2>4, <2>5, Zenon DEF ReportInv, Report, GroupState, AttrState, InTest
  <2> QED BY <2>3, <2>6 DEF Reported
<1>7. ASSUME start_test PROVE Reported'
  <2>1. /\ pc = "tfun" /\ pc' = "csetup" /\ pos' = NextFixture(pos)
        /\ UNCHANGED <<run, calls, resultlst, sr_fstat>>
        /\ pipe' = IF Forks THEN pipe \o <<CtxMsg("CK_CTX_SETUP")>> ELSE pipe
    BY <1>7, Zenon DEF start_test, setting, results
  <2>2. LabelStep
    BY <2>1, <1>l, Zenon DEF LabelStep, InGroup, InTest
  <2>3. /\ pipe' \in Seq(RunMsgs)
        /\ Forks => Received(pipe').lastctx = "CK_CTX_SETUP"
        /\ Received(pipe').msg = Received(pipe).msg
        /\ Received(pipe').failctx = Received(pipe).failctx
    <3>1. "CK_CTX_SETUP" \in Ctx
      BY Zenon DEF Ctx
    <3>2. CASE Forks
      BY <1>0, <2>1, <3>1, <3>2, CtxReceived, Zenon
    <3>3. CASE ~Forks
      BY <1>0, <2>1, <3>3, Zenon
    <3> QED BY <3>2, <3>3, Zenon
  <2>4. OrderInv' /\ FailureAttributed' /\ (NoTeardownFailed' <=> NoTeardownFailed)
    BY <1>0, <2>1, <2>2, <2>3, QuietStep, Zenon
  <2>5. BadIn(calls', Label(pos')) = {}
    BY <1>0, <1>l, <2>1, FreshLabel, Zenon DEF InGroup, InTest
  <2>6. Forks' = Forks
    BY <2>1, Zenon DEF Forks, srunner_fork_status
  <2>7. NoTeardownFailed => Clean(Received(pipe'))
    <3>1. NoTeardownFailed => Clean(Received(pipe))
      BY <1>0, <2>1, Zenon DEF ReportInv, Report, AttrState
    <3> QED BY <2>3, <3>1, Zenon DEF Clean
  <2>8. ReportInv'
    BY <2>1, <2>3, <2>4, <2>5, <2>6, <2>7, Zenon
       DEF ReportInv, Report, GroupState, AttrState, InTest
  <2> QED BY <2>4, <2>8 DEF Reported
<1> QED BY <1>2, <1>3, <1>4, <1>5, <1>6, <1>7, Zenon

(* The unchecked fixtures *)
LEMMA UncheckedReported ==
  ASSUME Reported, PosInv, PosInv', FstatInv,
         \/ \E how \in Hows("usetup") : unchecked_setup_fixture(how)
         \/ \E how \in Hows("uteardown") : unchecked_teardown_fixture(how)
  PROVE  Reported'
<1>0. /\ pos \in Positions /\ pos' \in Positions /\ pipe \in Seq(RunMsgs)
      /\ OrderInv /\ ReportInv /\ FailureAttributed
  BY Zenon DEF PosInv, Reported, OrderInv
<1>l. /\ LabelBefore(Label(pos), Label(NextTCase(pos)))
      /\ Label(NextFixture(pos)) = Label(pos)
  BY <1>0, LabelsForward, Zenon
<1>e. /\ << >> \in Seq(RunMsgs) /\ Clean(Received(<< >>))
      /\ NoTeardownFailed \in BOOLEAN /\ NoTeardownFailed' \in BOOLEAN
  BY EmptyReceived, Zenon DEF NoTeardownFailed
<1>1. ASSUME NEW how \in Hows("usetup"), unchecked_setup_fixture(how) PROVE Reported'
  <2>1. pc = "usetup" /\ jmp' = "usetup" /\ Called("usetup", how) /\ run' = run
    BY <1>1, Zenon DEF unchecked_setup_fixture, setjmp, setting
  <2>2. PICK msgs : msgs = pipe \o <<CtxMsg("CK_CTX_SETUP")>> \o UserMsgs("usetup", how)
    BY Zenon
  <2>3. PICK tr : tr = receive_result_info_nofork(msgs, "unchecked_setup")
    OBVIOUS
  <2>4. /\ Outcome("usetup", how) \in {"returned", "jumped"}
        /\ tr.run = run /\ tr.label = Label(pos) /\ CallsStep
        /\ tr.rtype = "CK_PASS" => BadIn(calls', Label(pos)) = {}
        /\ NoTeardownFailed => Attributed(tr, calls')
        /\ NoTeardownFailed' => NoTeardownFailed
    <3>1. "usetup" \in {"usetup", "csetup"}
      OBVIOUS
    <3>2. SetupReported("usetup", how, tr)
      BY <1>0, <1>1, <2>1, <2>2, <2>3, <3>1, SetupCall, Zenon
    <3> QED BY <3>2 DEF SetupReported
  <2>5. /\ pipe' = << >>
        /\ IF tr.rtype = "CK_PASS"
           THEN pos' = NextFixture(pos) /\ UNCHANGED <<pc, resultlst>>
           ELSE srunner_add_failure(tr) /\ pos' = NextTCase(pos) /\ pc' = "tcase"
    BY <1>1, <2>2, <2>3, <2>4, Zenon DEF unchecked_setup_fixture, results
  <2>6. CASE tr.rtype = "CK_PASS"
    <3>1. LabelStep /\ UNCHANGED <<pc, resultlst>> /\ pos' = NextFixture(pos)
      BY <1>l, <2>1, <2>5, <2>6 DEF LabelStep, InGroup
    <3>2. OrderInv' /\ FailureAttributed'
      BY <1>0, <1>e, <2>1, <2>4, <2>5, <3>1, LoudStep, Zenon
    <3>3. BadIn(calls', Label(pos')) = {}
      BY <1>l, <2>4, <2>6, <3>1, Zenon
    <3>4. ReportInv'
      BY <1>e, <2>1, <2>5, <3>1, <3>3, Zenon DEF ReportInv, Report, GroupState, AttrState, InTest
    <3> QED BY <3>2, <3>4, Zenon DEF Reported
  <2>7. CASE tr.rtype # "CK_PASS"
    <3>1. /\ LabelStep /\ pc' = "tcase" /\ LabelBefore(Label(pos), Label(pos'))
          /\ resultlst' = Append(resultlst, tr)
      BY <1>l, <2>5, <2>7, Zenon DEF LabelStep, srunner_add_failure
    <3>2. OrderInv' /\ FailureAttributed'
      BY <1>0, <1>e, <2>1, <2>4, <2>5, <3>1, LoudStep, Zenon
    <3>3. ReportInv'
      BY <1>e, <2>5, <3>1, NeutralReport DEF ReportInv
    <3> QED BY <3>2, <3>3 DEF Reported
  <2> QED BY <2>6, <2>7, Zenon
<1>2. ASSUME NEW how \in Hows("uteardown"), unchecked_teardown_fixture(how) PROVE Reported'
  <2>1. /\ pc = "uteardown" /\ Called("uteardown", how) /\ UNCHANGED <<run, resultlst>>
        /\ ~Forks => jmp' = "uteardown"
        /\ pipe' = pipe \o <<CtxMsg("CK_CTX_TEARDOWN")>> \o UserMsgs("uteardown", how)
    BY <1>2, Zenon DEF unchecked_teardown_fixture, setjmp, setting, results
  <2>2. /\ CASE Outcome("uteardown", how) = "returned" ->
                  pos' = NextFixture(pos) /\ UNCHANGED pc
             [] Outcome("uteardown", how) = "jumped" ->
                  pos' = NextTCase(pos) /\ pc' = "tcase"
             [] OTHER -> pc' = Outcome("uteardown", how) /\ UNCHANGED pos
    BY <1>2, Zenon DEF unchecked_teardown_fixture
  <2>3. /\ "uteardown" \in Kinds /\ pc \in InCase /\ pc \in InGroup
        /\ "CK_CTX_TEARDOWN" \in Ctx
    BY <2>1, Zenon DEF Kinds, InCase, InGroup, Ctx
  <2>4. /\ how \in {"ok", "fail"}
        /\ how = "ok" => Outcome("uteardown", how) = "returned"
        /\ how = "fail" => Outcome("uteardown", how) \in {"jumped", "exited"}
    BY <1>2, <2>1, <2>3, WhereCallsLead
  <2>5. PICK p : p = pipe \o <<CtxMsg("CK_CTX_TEARDOWN")>>
    BY Zenon
  <2>6. /\ p \in Seq(RunMsgs)
        /\ Received(p).msg = Received(pipe).msg /\ Received(p).failctx = Received(pipe).failctx
    BY <1>0, <2>3, <2>5, CtxReceived
  <2>7. pipe' = p \o UserMsgs("uteardown", how)
    BY <2>1, <2>5
  <2>8. /\ pipe' \in Seq(RunMsgs) /\ CallsStep
        /\ NoTeardownFailed' => NoTeardownFailed /\ how = "ok"
        /\ \E c \in CallRecs : UserEffect(Received(p), Received(pipe'), how, c.site)
    <3>1. how \in {"ok", "fail", "crash"}
      BY <2>4, Zenon
    <3>2. CallReported("uteardown", how, p)
      BY <1>0, <2>1, <2>3, <2>6, <2>7, <3>1, CallFacts, Zenon
    <3> QED BY <3>2 DEF CallReported
  <2>9. CASE how = "ok"
    <3>1. LabelStep /\ pc' = "uteardown"
      BY <1>l, <2>1, <2>2, <2>4, <2>9, Zenon DEF LabelStep, InGroup
    <3>2. OrderInv' /\ FailureAttributed'
      BY <1>0, <2>1, <2>8, <3>1, LoudStep, Zenon
    <3>3. NoTeardownFailed' => Clean(Received(pipe'))
      <4>1. Received(pipe') = Received(p)
        BY <2>8, <2>9, Zenon DEF UserEffect
      <4>2. NoTeardownFailed => Clean(Received(pipe))
        BY <1>0, <2>1, Zenon DEF ReportInv, Report, AttrState
      <4> QED BY <2>6, <2>8, <4>1, <4>2, Zenon DEF Clean
    <3>4. ReportInv'
      BY <1>e, <3>1, <3>3, NeutralReport, Zenon DEF ReportInv
    <3> QED BY <3>2, <3>4, Zenon DEF Reported
  <2>10. CASE how = "fail"
    <3>1. LabelStep /\ pc' \in {"tcase", "exited"} /\ ~NoTeardownFailed'
      BY <1>l, <2>2, <2>4, <2>8, <2>10, Zenon DEF LabelStep, InGroup
    <3>2. OrderInv' /\ FailureAttributed'
      BY <1>0, <2>1, <2>8, <3>1, LoudStep, Zenon
    <3>3. ReportInv'
      BY <1>e, <3>1, NeutralReport, Zenon DEF ReportInv
    <3> QED BY <3>2, <3>3 DEF Reported
  <2> QED BY <2>4, <2>9, <2>10, Zenon
<1> QED BY <1>1, <1>2, Zenon

(* The functions of a test, called in a child *)
LEMMA ChildReported ==
  ASSUME Reported, PosInv, PosInv', FstatInv, Forks, NEW kind \in {"csetup", "test", "cteardown"},
         NEW how \in Hows(kind), pc = kind, Called(kind, how),
         NEW p \in Seq(RunMsgs), pipe' = p \o UserMsgs(kind, how),
         Received(p).msg = Received(pipe).msg, Received(p).failctx = Received(pipe).failctx,
         Received(p).lastctx = KindCtx(kind),
         NEW n \in Nat,
         ChildGoesOn(kind, how, [pos EXCEPT !.x = n], IF kind = "csetup" THEN kind ELSE "cteardown"),
         UNCHANGED <<run, resultlst, sr_fstat>>
  PROVE  Reported'
<1> DEFINE l == Label(pos)
<1>0. /\ pos \in Positions /\ pos' \in Positions
      /\ OrderInv /\ ReportInv /\ FailureAttributed
      /\ kind \in Kinds /\ pc \in InCase /\ pc \in InGroup /\ pc # "idle"
      /\ NoTeardownFailed \in BOOLEAN /\ NoTeardownFailed' \in BOOLEAN
  BY Zenon DEF PosInv, Reported, Kinds, InCase, InGroup, InTest, NoTeardownFailed
<1>1. /\ how \in {"ok", "fail", "crash"}
      /\ how = "ok" => Outcome(kind, how) # "ended"
      /\ how # "ok" => Outcome(kind, how) = "ended"
  BY <1>0, WhereCallsLead, Zenon
<1>2. CallReported(kind, how, p)
  BY <1>0, <1>1, CallFacts, Zenon
<1>3. /\ how = "ok" => /\ pc' = (IF kind = "csetup" THEN kind ELSE "cteardown")
                       /\ pos' = [pos EXCEPT !.x = n]
      /\ how # "ok" => pc' = "reap" /\ pos' = pos
      /\ how = "fail" => status' = Exited(1)
      /\ how = "crash" => status' = Signaled("SIGSEGV")
  BY <1>1, Zenon DEF ChildGoesOn
<1>4. Label(pos') = l
  BY <1>0, <1>1, <1>3, LabelsForward, Zenon
<1>5. LabelStep
  BY <1>3, <1>4, Zenon DEF LabelStep, InGroup, InTest
<1>6. OrderInv' /\ FailureAttributed'
  BY <1>0, <1>2, <1>5, LoudStep, Zenon DEF CallReported
<1>7. Forks' /\ (NoTeardownFailed' => NoTeardownFailed)
  BY <1>2, Zenon DEF Forks, srunner_fork_status, CallReported
<1> HIDE DEF l
<1>8. PICK c : /\ c.how = how /\ c.site[3] = kind
               /\ UserEffect(Received(p), Received(pipe'), how, c.site)
               /\ Grown(BadIn(calls, l), FirstIn(calls, l),
                        BadIn(calls', l), FirstIn(calls', l), c)
  BY <1>2, Zenon DEF CallReported, l
<1>9. /\ GroupState(kind, TRUE, status, BadIn(calls, l), FirstIn(calls, l), Received(pipe))
      /\ NoTeardownFailed =>
           AttrState(kind, BadIn(calls, l), FirstIn(calls, l), Received(pipe))
  BY <1>0, <1>7, Zenon DEF ReportInv, Report, l
<1>10. /\ GroupState(pc', TRUE, status', BadIn(calls', l), FirstIn(calls', l), Received(pipe'))
       /\ NoTeardownFailed =>
            AttrState(pc', BadIn(calls', l), FirstIn(calls', l), Received(pipe'))
  <2>1. ChildStep(kind, how, status', pc', c, Received(pipe), Received(p), Received(pipe'))
    BY <1>3, <1>8 DEF ChildStep
  <2>0. /\ how \in {"ok", "fail", "crash"}
        /\ GroupState(kind, TRUE, status, BadIn(calls, l), FirstIn(calls, l), Received(pipe))
        /\ Grown(BadIn(calls, l), FirstIn(calls, l), BadIn(calls', l), FirstIn(calls', l), c)
    BY <1>1, <1>8, <1>9, Zenon
  <2>2. /\ GroupState(pc', TRUE, status', BadIn(calls', l), FirstIn(calls', l), Received(pipe'))
        /\ AttrState(kind, BadIn(calls, l), FirstIn(calls, l), Received(pipe)) =>
             AttrState(pc', BadIn(calls', l), FirstIn(calls', l), Received(pipe'))
    BY <2>0, <2>1, ChildCall, ZenonT(40)
  <2> QED BY <1>9, <2>2, Zenon
<1>11. ReportInv'
  BY <1>4, <1>7, <1>10, Zenon DEF ReportInv, Report
<1> QED BY <1>6, <1>11, Zenon DEF Reported

(* A test or a checked teardown, called in CK_NOFORK mode *)
LEMMA NoforkReported ==
  ASSUME Reported, PosInv, PosInv', FstatInv, ~Forks, NEW kind \in {"test", "cteardown"},
         NEW how \in Hows(kind), pc = kind, Called(kind, how), jmp' = kind,
         NEW p \in Seq(RunMsgs), pipe' = p \o UserMsgs(kind, how),
         Received(p).msg = Received(pipe).msg, Received(p).failctx = Received(pipe).failctx,
         Received(p).lastctx = KindCtx(kind),
         kind = "cteardown" => Received(p).test_loc = Received(pipe).test_loc,
         UNCHANGED <<run, resultlst, sr_fstat, status>>,
         Outcome(kind, how) \in {"returned", "jumped"} =>
           /\ pc' = (IF kind = "test" \/ how = "ok" THEN "cteardown" ELSE "receive")
           /\ \E n \in Nat : pos' = [pos EXCEPT !.x = n]
  PROVE  Reported'
<1> DEFINE l == Label(pos)
<1>0. /\ pos \in Positions /\ pos' \in Positions
      /\ OrderInv /\ ReportInv /\ FailureAttributed
      /\ kind \in Kinds /\ pc \in InCase /\ pc \in InGroup /\ pc # "idle"
      /\ NoTeardownFailed \in BOOLEAN /\ NoTeardownFailed' \in BOOLEAN
  BY DEF PosInv, Reported, Kinds, InCase, InGroup, InTest, NoTeardownFailed
<1>1. how \in {"ok", "fail"} /\ Outcome(kind, how) \in {"returned", "jumped"}
  BY <1>0, WhereCallsLead
<1>2. CallReported(kind, how, p)
  <2>1. how \in {"ok", "fail", "crash"}
    BY <1>1, Zenon
  <2> QED BY <1>0, <2>1, CallFacts, Zenon
<1>3. /\ pc' = (IF kind = "test" \/ how = "ok" THEN "cteardown" ELSE "receive")
      /\ \E n \in Nat : pos' = [pos EXCEPT !.x = n]
  BY <1>1, Zenon
<1>4. Label(pos') = l
  BY <1>0, <1>3, LabelsForward, Zenon
<1>5. LabelStep
  BY <1>3, <1>4, Zenon DEF LabelStep, InGroup, InTest
<1>6. OrderInv' /\ FailureAttributed'
  BY <1>0, <1>2, <1>5, LoudStep, Zenon DEF CallReported
<1>7. Forks' = FALSE /\ Forks = FALSE /\ (NoTeardownFailed' => NoTeardownFailed)
  BY <1>2, Zenon DEF Forks, srunner_fork_status, CallReported
<1> HIDE DEF l
<1>8. PICK c : /\ c.how = how /\ c.site[3] = kind
               /\ UserEffect(Received(p), Received(pipe'), how, c.site)
               /\ Grown(BadIn(calls, l), FirstIn(calls, l),
                        BadIn(calls', l), FirstIn(calls', l), c)
  BY <1>2, Zenon DEF CallReported, l
<1>9. /\ GroupState(kind, FALSE, status, BadIn(calls, l), FirstIn(calls, l), Received(pipe))
      /\ NoTeardownFailed =>
           AttrState(kind, BadIn(calls, l), FirstIn(calls, l), Received(pipe))
  BY <1>0, <1>7, Zenon DEF ReportInv, Report, l
<1>10. /\ GroupState(pc', FALSE, status', BadIn(calls', l), FirstIn(calls', l), Received(pipe'))
       /\ NoTeardownFailed =>
            AttrState(pc', BadIn(calls', l), FirstIn(calls', l), Received(pipe'))
  <2>1. NoforkStep(kind, how, pc', c, Received(pipe), Received(p), Received(pipe'))
    BY <1>3, <1>8 DEF NoforkStep
  <2>2. /\ GroupState(pc', FALSE, status, BadIn(calls', l), FirstIn(calls', l), Received(pipe'))
        /\ AttrState(kind, BadIn(calls, l), FirstIn(calls, l), Received(pipe)) =>
             AttrState(pc', BadIn(calls', l), FirstIn(calls', l), Received(pipe'))
    BY <1>1, <1>8, <1>9, <2>1, NoforkCall, Zenon
  <2> QED BY <1>9, <2>2, Zenon
<1>11. ReportInv'
  BY <1>4, <1>7, <1>10, Zenon DEF ReportInv, Report
<1> QED BY <1>6, <1>11 DEF Reported

(* The result of a test says what happened to its functions *)
LEMMA ResultAttributed ==
  ASSUME Reported, PosInv, pc \in {"receive", "reap"}, NEW tr,
         tr = IF pc = "reap" THEN receive_result_info_fork
              ELSE receive_result_info_nofork(pipe, "test")
  PROVE  /\ tr.run = run /\ tr.label = Label(pos)
         /\ NoTeardownFailed => Attributed(tr, calls)
         /\ tr.rtype = "CK_PASS" => BadIn(calls, Label(pos)) = {}
<1> DEFINE l == Label(pos)
           r == Received(pipe)
           bad == BadIn(calls, l)
           first == FirstIn(calls, l)
<1>1. Report(pc, Forks, status, bad, first, r, NoTeardownFailed)
  BY Zenon DEF Reported, ReportInv
<1>2. r.lastctx \in Ctx
  BY <1>1, Zenon DEF Report, GroupState
<1>3. /\ tr.run = run /\ tr.label = l
      /\ pc = "receive" =>
           /\ r.msg = NULL => tr.rtype = "CK_PASS"
           /\ r.msg # NULL => tr.rtype = "CK_FAILURE" /\ tr.msg = r.msg
           /\ r.msg # NULL /\ r.failctx # CK_CTX_INVALID =>
                tr.ctx = r.failctx /\ tr.loc = LocByCtx(r, r.failctx)
      /\ pc = "reap" =>
           /\ status = Exited(0) => tr.rtype = "CK_PASS"
           /\ status = Exited(1) /\ r.msg # NULL => tr.rtype = "CK_FAILURE" /\ tr.msg = r.msg
           /\ status = Exited(1) /\ r.msg # NULL /\ r.failctx # CK_CTX_INVALID =>
                tr.ctx = r.failctx /\ tr.loc = LocByCtx(r, r.failctx)
           /\ status = Signaled("SIGSEGV") => tr.rtype = "CK_ERROR"
           /\ status = Signaled("SIGSEGV") /\ r.failctx = CK_CTX_INVALID => tr.ctx = r.lastctx
  <2>1. CASE pc = "reap"
    <3>1. tr = receive_result_info_fork
      BY <2>1, Zenon
    <3> QED BY <2>1, <3>1, <1>2, ForkVerdict, Zenon
  <2>2. CASE pc = "receive"
    <3>1. tr = receive_result_info_nofork(pipe, "test")
      BY <2>2, Zenon
    <3>2. /\ tr.run = run /\ tr.label = l
          /\ r.msg = NULL => tr.rtype = "CK_PASS"
          /\ r.msg # NULL => tr.rtype = "CK_FAILURE" /\ tr.msg = r.msg
          /\ r.msg # NULL /\ r.failctx # CK_CTX_INVALID =>
               tr.ctx = r.failctx /\ tr.loc = LocByCtx(r, r.failctx)
      BY <3>1, <1>2, NoforkVerdict, Zenon
    <3> HIDE DEF l, r
    <3> QED BY <2>2, <3>2, Zenon
  <2> QED BY <2>1, <2>2, Zenon
<1> HIDE DEF l, r, first, bad
<1>4. ASSUME bad = {}, NoTeardownFailed PROVE tr.rtype = "CK_PASS"
  BY <1>1, <1>3, <1>4, Zenon DEF Report, GroupState, AttrState, InTest, Clean
<1>5. ASSUME bad # {} PROVE tr.rtype # "CK_PASS"
  BY <1>1, <1>3, <1>5, Zenon DEF Report, GroupState, InTest
<1>6. ASSUME bad # {}, NoTeardownFailed, first.how = "fail"
      PROVE  /\ tr.rtype = "CK_FAILURE" /\ tr.msg = first.site /\ tr.loc = first.site
             /\ tr.ctx = KindCtx(first.site[3])
  <2>1. /\ r.msg # NULL /\ r.msg = first.site /\ r.failctx = KindCtx(first.site[3])
        /\ LocByCtx(r, r.failctx) = first.site
        /\ pc = "reap" => status = Exited(1)
    BY <1>1, <1>6, Zenon DEF Report, GroupState, AttrState, InTest
  <2>2. r.failctx # CK_CTX_INVALID
    <3>1. first \in CallRecs
      <4>1. calls \in Seq(CallRecs) /\ BadIn(calls, l) # {}
        BY <1>6, Zenon DEF Reported, OrderInv, bad
      <4>2. Len(calls) \in Nat /\ BadIn(calls, l) \subseteq 1 .. Len(calls)
        BY <4>1 DEF BadIn, CallsIn
      <4>3. FirstOf(BadIn(calls, l)) \in BadIn(calls, l)
        <5>1. BadIn(calls, l) \subseteq Nat
          BY <4>2
        <5> QED BY <4>1, <5>1, FirstOfSet, Zenon
      <4> QED BY <4>1, <4>2, <4>3 DEF first, FirstIn
    <3>2. first.site[3] \in Kinds
      BY <3>1, Zenon DEF CallRecs, Sites
    <3> QED BY <2>1, <3>2, Zenon DEF KindCtx, Kinds, CK_CTX_INVALID
  <2> QED BY <1>3, <2>1, <2>2, Zenon
<1>7. ASSUME bad # {}, NoTeardownFailed, first.how = "crash"
      PROVE  tr.rtype = "CK_ERROR" /\ tr.ctx = KindCtx(first.site[3])
  BY <1>1, <1>3, <1>7, Zenon DEF Report, GroupState, AttrState, InTest, Clean
<1>8. bad # {} => first.how \in {"fail", "crash"}
  BY <1>1, Zenon DEF Report, GroupState, InTest
<1>9. NoTeardownFailed => Attributed(tr, calls)
  BY <1>3, <1>4, <1>6, <1>7, <1>8, Zenon DEF Attributed, bad, first
<1> QED BY <1>3, <1>5, <1>9, Zenon DEF l, bad

(* The steps of a test *)
LEMMA TestsReported ==
  ASSUME Reported, PosInv, PosInv', FstatInv,
         \/ \E how \in Hows("csetup") : checked_setup_nofork(how) \/ checked_setup_fork(how)
         \/ checked_setup_done
         \/ \E how \in Hows("test") : run_test(how)
         \/ \E how \in Hows("cteardown") : checked_teardown_fixture(how)
         \/ checked_teardown_done \/ receive
  PROVE  Reported'
<1>0. /\ pos \in Positions /\ pos' \in Positions /\ pipe \in Seq(RunMsgs)
      /\ OrderInv /\ ReportInv /\ FailureAttributed
      /\ NextFixture(pos) = [pos EXCEPT !.x = pos.x + 1] /\ pos.x + 1 \in Nat
      /\ pos.x \in Nat /\ pos = [pos EXCEPT !.x = pos.x]
  BY DEF PosInv, Reported, OrderInv, Positions, NextFixture
<1>c. /\ "CK_CTX_SETUP" \in Ctx /\ "CK_CTX_TEARDOWN" \in Ctx
      /\ KindCtx("csetup") = "CK_CTX_SETUP" /\ KindCtx("test") = "CK_CTX_TEST"
      /\ KindCtx("cteardown") = "CK_CTX_TEARDOWN" /\ 1 \in Nat
  BY DEF Ctx, KindCtx
<1>l. /\ Label(NextFixture(pos)) = Label(pos)
      /\ LabelBefore(Label(pos), Label([pos EXCEPT !.i = @ + 1, !.x = 0]))
  BY <1>0, LabelsForward, Zenon
<1>e. /\ << >> \in Seq(RunMsgs) /\ Clean(Received(<< >>))
      /\ NoTeardownFailed \in BOOLEAN /\ NoTeardownFailed' \in BOOLEAN
  BY EmptyReceived, Zenon DEF NoTeardownFailed
<1>1. ASSUME NEW how \in Hows("csetup"), checked_setup_nofork(how) PROVE Reported'
  <2>1. /\ pc = "csetup" /\ jmp' = "csetup" /\ Called("csetup", how) /\ run' = run /\ ~Forks
        /\ sr_fstat' = sr_fstat
    BY <1>1, Zenon DEF checked_setup_nofork, setjmp, setting
  <2>2. PICK msgs : msgs = pipe \o <<CtxMsg("CK_CTX_SETUP")>> \o UserMsgs("csetup", how)
    BY Zenon
  <2>3. PICK tr : tr = receive_result_info_nofork(msgs, "checked_setup")
    OBVIOUS
  <2>4. SetupReported("csetup", how, tr)
    <3>1. "csetup" \in {"usetup", "csetup"}
      BY Zenon
    <3> QED BY <1>0, <1>1, <2>1, <2>2, <2>3, <3>1, SetupCall, Zenon
  <2>5. /\ pipe' = << >>
        /\ IF tr.rtype = "CK_PASS"
           THEN pos' = NextFixture(pos) /\ UNCHANGED <<pc, resultlst>>
           ELSE TestDone(tr)
    <3>1. Outcome("csetup", how) \in {"returned", "jumped"}
      BY <2>4, Zenon DEF SetupReported
    <3> QED BY <1>1, <2>2, <2>3, <3>1, Zenon DEF checked_setup_nofork, results
  <2>6. CASE tr.rtype = "CK_PASS"
    <3>1. LabelStep /\ UNCHANGED <<pc, resultlst>> /\ pos' = NextFixture(pos)
      BY <1>l, <2>1, <2>5, <2>6, Zenon DEF LabelStep, InGroup, InTest
    <3>2. OrderInv' /\ FailureAttributed'
      BY <1>0, <1>e, <2>1, <2>4, <2>5, <3>1, LoudStep, Zenon DEF SetupReported
    <3>3. BadIn(calls', Label(pos')) = {}
      BY <1>l, <2>4, <2>6, <3>1, Zenon DEF SetupReported
    <3>4. Forks' = Forks
      BY <2>1, Zenon DEF Forks, srunner_fork_status
    <3>5. ReportInv'
      BY <1>e, <2>1, <2>5, <3>1, <3>3, <3>4, Zenon
         DEF ReportInv, Report, GroupState, AttrState, InTest
    <3> QED BY <3>2, <3>5, Zenon DEF Reported
  <2>7. CASE tr.rtype # "CK_PASS"
    <3>1. /\ LabelStep /\ pc' = "tfun" /\ LabelBefore(Label(pos), Label(pos'))
          /\ resultlst' = Append(resultlst, tr)
      BY <1>l, <2>5, <2>7, Zenon DEF LabelStep, TestDone, srunner_add_failure
    <3>2. OrderInv' /\ FailureAttributed'
      BY <1>0, <1>e, <2>1, <2>4, <2>5, <3>1, LoudStep DEF SetupReported
    <3>3. ReportInv'
      BY <1>e, <2>5, <3>1, NeutralReport, Zenon DEF ReportInv
    <3> QED BY <3>2, <3>3 DEF Reported
  <2> QED BY <2>6, <2>7, Zenon
<1>2. ASSUME NEW how \in Hows("csetup"), checked_setup_fork(how) PROVE Reported'
  <2>1. /\ pc = "csetup" /\ Forks /\ Called("csetup", how)
        /\ pipe' = pipe \o UserMsgs("csetup", how)
        /\ ChildGoesOn("csetup", how, [pos EXCEPT !.x = pos.x + 1], "csetup")
        /\ UNCHANGED <<run, resultlst, sr_fstat>>
    BY <1>0, <1>2, Zenon DEF checked_setup_fork, setting, results
  <2>2. Received(pipe).lastctx = KindCtx("csetup")
    BY <1>0, <1>c, <2>1, Zenon DEF ReportInv, Report, GroupState
  <2>3. "csetup" \in {"csetup", "test", "cteardown"}
    BY Zenon
  <2>4. ChildGoesOn("csetup", how, [pos EXCEPT !.x = pos.x + 1],
                    IF "csetup" = "csetup" THEN "csetup" ELSE "cteardown")
    BY <2>1, Zenon
  <2> QED BY <1>0, <1>2, <2>1, <2>2, <2>3, <2>4, ChildReported, Zenon
<1>3. ASSUME checked_setup_done PROVE Reported'
  <2>1. /\ pc = "csetup" /\ pc' = "test"
        /\ UNCHANGED <<pos, run, sr_fstat, pipe, resultlst, calls>>
    BY <1>3, Zenon DEF checked_setup_done, setting, results
  <2>2. LabelStep
    BY <2>1, Zenon DEF LabelStep, InGroup, InTest
  <2>3. OrderInv' /\ FailureAttributed' /\ (NoTeardownFailed' <=> NoTeardownFailed)
    BY <1>0, <2>1, <2>2, QuietStep
  <2>4. Forks' = Forks
    BY <2>1, Zenon DEF Forks, srunner_fork_status
  <2>5. ReportInv'
    BY <1>0, <2>1, <2>3, <2>4 DEF ReportInv, Report, GroupState, AttrState, InTest
  <2> QED BY <2>3, <2>5, Zenon DEF Reported
<1>4. ASSUME NEW how \in Hows("test"), run_test(how) PROVE Reported'
  <2>1. /\ pc = "test" /\ Called("test", how)
        /\ pipe' = pipe \o <<CtxMsg("CK_CTX_TEST"), LocMsg(Label(pos))>> \o UserMsgs("test", how)
        /\ UNCHANGED <<run, resultlst, sr_fstat>>
    BY <1>4, Zenon DEF run_test, setting, results
  <2>2. PICK p : p = pipe \o <<CtxMsg("CK_CTX_TEST"), LocMsg(Label(pos))>>
    BY Zenon
  <2>3. /\ p \in Seq(RunMsgs) /\ Received(p).lastctx = KindCtx("test")
        /\ Received(p).msg = Received(pipe).msg /\ Received(p).failctx = Received(pipe).failctx
    <3>1. PICK l \in Labels : l = Label(pos)
      BY <1>0, LabelOfPosition
    <3>2. p = pipe \o <<CtxMsg("CK_CTX_TEST"), LocMsg(l)>>
      BY <2>2, <3>1, Zenon
    <3> QED BY <1>0, <1>c, <3>2, TestReceived
  <2>4. pipe' = p \o UserMsgs("test", how)
    BY <2>1, <2>2, Zenon
  <2>5. CASE Forks
    <3>1. ChildGoesOn("test", how, [pos EXCEPT !.x = 1],
                      IF "test" = "csetup" THEN "test" ELSE "cteardown")
      BY <1>4, <2>5, Zenon DEF run_test
    <3>2. "test" \in {"csetup", "test", "cteardown"}
      BY Zenon
    <3> QED BY <1>c, <1>4, <2>1, <2>3, <2>4, <2>5, <3>1, <3>2, ChildReported, Zenon
  <2>6. CASE ~Forks
    <3>1. /\ jmp' = "test" /\ status' = status
          /\ Outcome("test", how) \in {"returned", "jumped"} =>
               pos' = [pos EXCEPT !.x = 1] /\ pc' = "cteardown"
      BY <1>4, <2>6, Zenon DEF run_test, setjmp
    <3>2. Outcome("test", how) \in {"returned", "jumped"} =>
            /\ pc' = (IF "test" = "test" \/ how = "ok" THEN "cteardown" ELSE "receive")
            /\ \E n \in Nat : pos' = [pos EXCEPT !.x = n]
      BY <1>c, <3>1, Zenon
    <3>3. /\ "test" \in {"test", "cteardown"}
          /\ "test" = "cteardown" => Received(p).test_loc = Received(pipe).test_loc
      BY Zenon
    <3>4. UNCHANGED <<run, resultlst, sr_fstat, status>>
      BY <2>1, <3>1, Zenon
    <3> QED BY <1>4, <2>1, <2>3, <2>4, <2>6, <3>1, <3>2, <3>3, <3>4, NoforkReported, Zenon
  <2> QED BY <2>5, <2>6, Zenon
<1>5. ASSUME NEW how \in Hows("cteardown"), checked_teardown_fixture(how) PROVE Reported'
  <2>1. /\ pc = "cteardown" /\ Called("cteardown", how)
        /\ pipe' = pipe \o <<CtxMsg("CK_CTX_TEARDOWN")>> \o UserMsgs("cteardown", how)
        /\ UNCHANGED <<run, resultlst, sr_fstat>>
    BY <1>5, Zenon DEF checked_teardown_fixture, setting, results
  <2>2. PICK p : p = pipe \o <<CtxMsg("CK_CTX_TEARDOWN")>>
    BY Zenon
  <2>3. /\ p \in Seq(RunMsgs) /\ Received(p).lastctx = KindCtx("cteardown")
        /\ Received(p).msg = Received(pipe).msg /\ Received(p).failctx = Received(pipe).failctx
        /\ Received(p).test_loc = Received(pipe).test_loc
    BY <1>0, <1>c, <2>2, CtxReceived
  <2>4. pipe' = p \o UserMsgs("cteardown", how)
    BY <2>1, <2>2
  <2>5. CASE Forks
    <3>1. ChildGoesOn("cteardown", how, [pos EXCEPT !.x = pos.x + 1],
                      IF "cteardown" = "csetup" THEN "cteardown" ELSE "cteardown")
      BY <1>0, <1>5, <2>5, Zenon DEF checked_teardown_fixture
    <3>2. "cteardown" \in {"csetup", "test", "cteardown"}
      BY Zenon
    <3> QED BY <1>0, <1>5, <2>1, <2>3, <2>4, <2>5, <3>1, <3>2, ChildReported, Zenon
  <2>6. CASE ~Forks
    <3>1. jmp' = "cteardown" /\ status' = status
      BY <1>5, <2>6, Zenon DEF checked_teardown_fixture, setjmp
    <3>2. /\ CASE Outcome("cteardown", how) = "returned" -> pos' = NextFixture(pos) /\ UNCHANGED pc
               [] Outcome("cteardown", how) = "jumped" -> pc' = "receive" /\ UNCHANGED pos
               [] OTHER -> pc' = Outcome("cteardown", how) /\ UNCHANGED pos
      BY <1>5, <2>6, Zenon DEF checked_teardown_fixture
    <3>3. /\ how = "ok" => Outcome("cteardown", how) = "returned"
          /\ how \in {"ok", "fail"}
          /\ how = "fail" => Outcome("cteardown", how) = "jumped"
      <4>1. "cteardown" \in Kinds /\ pc \in InCase
        BY <2>1, Zenon DEF Kinds, InCase
      <4> QED BY <1>5, <2>1, <2>6, <3>1, <4>1, WhereCallsLead
    <3>4. Outcome("cteardown", how) \in {"returned", "jumped"} =>
            /\ pc' = (IF "cteardown" = "test" \/ how = "ok" THEN "cteardown" ELSE "receive")
            /\ \E n \in Nat : pos' = [pos EXCEPT !.x = n]
      BY <1>0, <2>1, <3>2, <3>3, Zenon
    <3>5. /\ "cteardown" \in {"test", "cteardown"}
          /\ UNCHANGED <<run, resultlst, sr_fstat, status>>
      BY <2>1, <3>1, Zenon
    <3> QED BY <1>5, <2>1, <2>3, <2>4, <2>6, <3>1, <3>4, <3>5, NoforkReported, Zenon
  <2> QED BY <2>5, <2>6, Zenon
<1>6. ASSUME checked_teardown_done PROVE Reported'
  <2>1. /\ pc = "cteardown" /\ UNCHANGED <<pos, run, sr_fstat, resultlst, calls>>
        /\ Forks => /\ pipe' = Append(pipe, DurationMsg(0))
                    /\ status' = Exited(0) /\ pc' = "reap"
        /\ ~Forks => pc' = "receive" /\ UNCHANGED <<pipe, status>>
    BY <1>6, Zenon DEF checked_teardown_done, setting, results
  <2>2. LabelStep
    BY <2>1, Zenon DEF LabelStep, InGroup, InTest
  <2>3. /\ pipe' \in Seq(RunMsgs)
        /\ Received(pipe').lastctx = Received(pipe).lastctx
        /\ Received(pipe').msg = Received(pipe).msg
        /\ Received(pipe').failctx = Received(pipe).failctx
        /\ \A c : LocByCtx(Received(pipe'), c) = LocByCtx(Received(pipe), c)
    <3>1. CASE Forks
      BY <1>0, <2>1, <3>1, DurationReceived, Zenon
    <3>2. CASE ~Forks
      BY <1>0, <2>1, <3>2
    <3> QED BY <3>1, <3>2, Zenon
  <2>4. OrderInv' /\ FailureAttributed' /\ (NoTeardownFailed' <=> NoTeardownFailed)
    BY <1>0, <2>1, <2>2, <2>3, QuietStep
  <2>5. Forks' = Forks
    BY <2>1, Zenon DEF Forks, srunner_fork_status
  <2> DEFINE bad == BadIn(calls, Label(pos))
             first == FirstIn(calls, Label(pos))
             r == Received(pipe)
             r2 == Received(pipe')
  <2>6. /\ GroupState(pc, Forks, status, bad, first, r)
        /\ NoTeardownFailed => AttrState(pc, bad, first, r)
    BY <1>0, Zenon DEF ReportInv, Report
  <2>7. Report(pc', Forks, status', bad, first, r2, NoTeardownFailed)
    <3> HIDE DEF bad, first
    <3>1. GroupState(pc', Forks, status', bad, first, r2)
      BY <2>1, <2>3, <2>6, Zenon DEF GroupState, InTest
    <3>2. NoTeardownFailed => AttrState(pc', bad, first, r2)
      BY <2>1, <2>3, <2>6, Zenon DEF GroupState, AttrState, InTest, Clean
    <3> QED BY <3>1, <3>2, Zenon DEF Report
  <2>8. ReportInv'
    BY <2>1, <2>4, <2>5, <2>7, Zenon DEF ReportInv, Report
  <2> QED BY <2>4, <2>8 DEF Reported
<1>7. ASSUME receive PROVE Reported'
  <2>1. PICK tr : /\ tr = IF pc = "reap" THEN receive_result_info_fork
                          ELSE receive_result_info_nofork(pipe, "test")
                  /\ TestDone(tr)
    BY <1>7, Zenon DEF receive
  <2>2. pc \in {"receive", "reap"} /\ pipe' = << >> /\ UNCHANGED <<run, calls>>
    BY <1>7, Zenon DEF receive, setting
  <2>3. /\ tr.run = run /\ tr.label = Label(pos)
        /\ NoTeardownFailed => Attributed(tr, calls)
    BY <2>1, <2>2, ResultAttributed, Zenon
  <2>4. /\ LabelStep /\ pc' = "tfun" /\ LabelBefore(Label(pos), Label(pos'))
        /\ resultlst' = Append(resultlst, tr)
    BY <1>l, <2>1, Zenon DEF LabelStep, TestDone, srunner_add_failure
  <2>5. CallsStep /\ (NoTeardownFailed' <=> NoTeardownFailed)
    BY <2>2, Zenon DEF CallsStep, NoTeardownFailed
  <2>6. NoTeardownFailed' => Attributed(tr, calls')
    BY <2>2, <2>3, <2>5, Zenon
  <2>7. OrderInv' /\ FailureAttributed'
    BY <1>0, <1>e, <2>2, <2>3, <2>4, <2>5, <2>6, LoudStep
  <2>8. ReportInv'
    BY <1>e, <2>2, <2>4, NeutralReport, Zenon DEF ReportInv
  <2> QED BY <2>7, <2>8, Zenon DEF Reported
<1> QED BY <1>1, <1>2, <1>3, <1>4, <1>5, <1>6, <1>7

(* Each step reports what happened, and about whom *)
LEMMA NextReported ==
  ASSUME Reported, PosInv, PosInv', FstatInv, [Next]_vars
  PROVE  Reported'
<1>e. /\ << >> \in Seq(RunMsgs) /\ Clean(Received(<< >>)) /\ << >> \in Seq(CallRecs)
      /\ NoTeardownFailed' \in BOOLEAN
  BY EmptyReceived DEF NoTeardownFailed
<1>q. ASSUME UNCHANGED <<run, resultlst, calls>> PROVE FailureAttributed'
  <2>1. (NoTeardownFailed' <=> NoTeardownFailed) /\ (AllAttributed' <=> AllAttributed)
    BY <1>q, Zenon DEF NoTeardownFailed, AllAttributed
  <2>2. FailureAttributed' <=> (NoTeardownFailed' => AllAttributed')
    BY AttributedMeans, PTL
  <2> QED BY <2>1, <2>2, AttributedMeans, Zenon DEF Reported
<1>1. ASSUME NEW fs \in Settings, srunner_set_fork_status(fs) PROVE Reported'
  <2>1. pc = "idle" /\ UNCHANGED <<pc, run, pipe, resultlst, calls>>
    BY <1>1, Zenon DEF srunner_set_fork_status, results
  <2>2. OrderInv' /\ FailureAttributed'
    BY <1>q, <2>1, Zenon DEF Reported, OrderInv
  <2>3. ReportInv'
    BY <1>e, <2>1, NeutralReport, Zenon DEF ReportInv
  <2> QED BY <2>2, <2>3, Zenon DEF Reported
<1>2. ASSUME srunner_run_tagged PROVE Reported'
  <2>1. /\ run' = run + 1 /\ pipe' = << >> /\ calls' = << >> /\ pc' = "suite"
        /\ UNCHANGED resultlst
    BY <1>2, Zenon DEF srunner_run_tagged, srunner_run_init, results
  <2>2. run \in Nat /\ \A k \in 1 .. Len(resultlst) : resultlst[k].run \in Nat /\ resultlst[k].run <= run
    BY Zenon DEF Reported, OrderInv
  <2>3. \A k \in 1 .. Len(resultlst) : resultlst[k].run # run' /\ resultlst[k].run <= run'
    BY <2>1, <2>2
  <2>4. OrderInv'
    <3>1. /\ run' \in Nat /\ pipe' \in Seq(RunMsgs) /\ calls' \in Seq(CallRecs)
          /\ IsSequence(resultlst') /\ Len(calls') = 0
      BY <1>e, <2>1, <2>2 DEF Reported, OrderInv
    <3>2. \A k \in 1 .. Len(resultlst') :
            resultlst'[k].run \in Nat /\ resultlst'[k].run <= run' /\ resultlst'[k].run # run'
      BY <2>1, <2>2, <2>3, Zenon
    <3> QED BY <3>1, <3>2 DEF OrderInv
  <2>5. FailureAttributed'
    BY <2>1, <2>3, Zenon DEF FailureAttributed
  <2>6. ReportInv'
    BY <1>e, <2>1, NeutralReport, Zenon DEF ReportInv
  <2> QED BY <2>4, <2>5, <2>6, Zenon DEF Reported
<1>3. ASSUME UNCHANGED vars PROVE Reported'
  <2>1. UNCHANGED <<pc, pos, run, sr_fstat, status, pipe, resultlst, calls>>
    BY <1>3, Zenon DEF vars
  <2>2. OrderInv'
    BY <2>1, Zenon DEF Reported, OrderInv
  <2>3. (NoTeardownFailed' <=> NoTeardownFailed) /\ Forks' = Forks
    BY <2>1, Zenon DEF NoTeardownFailed, Forks, srunner_fork_status
  <2>4. ReportInv'
    BY <2>1, <2>3, Zenon DEF Reported, ReportInv, Report
  <2> QED BY <1>q, <2>1, <2>2, <2>4, Zenon DEF Reported
<1> QED BY <1>1, <1>2, <1>3, LoopsReported, UncheckedReported, TestsReported DEF Next

(* Nothing is reported yet when a runner has been created *)
LEMMA ReportedInit == Init => Reported
<1> SUFFICES ASSUME Init PROVE Reported
  BY Zenon
<1>1. /\ << >> \in Seq(RunMsgs) /\ << >> \in Seq(CallRecs) /\ IsSequence(<< >>)
      /\ Len(<< >>) = 0 /\ NoTeardownFailed \in BOOLEAN
  BY DEF IsSequence, NoTeardownFailed
<1>2. pc = "idle" /\ run = 0 /\ pipe = << >> /\ resultlst = << >> /\ calls = << >>
  BY Zenon DEF Init
<1>3. OrderInv
  BY <1>1, <1>2 DEF OrderInv
<1>4. FailureAttributed
  BY <1>1, <1>2 DEF FailureAttributed
<1>5. ReportInv
  BY <1>1, <1>2, NeutralReport, Zenon DEF ReportInv
<1> QED BY <1>3, <1>4, <1>5, Zenon DEF Reported

(* Whatever the program, the fork status and the functions that fail: a     *)
(* result says what happened to the functions of its test or of its setup,  *)
(* unless an unchecked teardown of the run failed.                          *)
THEOREM FailureAlwaysAttributed == Spec => []FailureAttributed
<1>1. Init => PosInv /\ ContainInv /\ Reported
  BY PosInit, ReportedInit, Zenon
<1>2. PosInv /\ ContainInv /\ [Next]_vars => PosInv'
  BY PosStep, Zenon DEF ContainInv
<1>3. Reported /\ PosInv /\ PosInv' /\ ContainInv /\ [Next]_vars => Reported'
  BY NextReported, Zenon DEF ContainInv
<1>4. Reported => FailureAttributed
  BY DEF Reported
<1> QED BY <1>1, <1>2, <1>3, <1>4, NextContained, PTL DEF Spec
=============================================================================
