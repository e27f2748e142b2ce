------------------------------ MODULE CheckLog ------------------------------
(***************************************************************************)
(* The loggers of a suite runner: which are registered for a run, what     *)
(* each writes for each event, and what reaches the files.                 *)
(*                                                                         *)
(* A stream is a FILE with a buffer; "-" is stdout, which is not closed.   *)
(* A forked child has a copy of the buffers, and writes them again if it   *)
(* leaves by exit().  A line is a tuple that says which line it is and     *)
(* of which result; its wording is left out.  The runner that sends the    *)
(* events is SRunner's, reduced to suites of tests and failed setups.      *)
(*                                                                         *)
(* Two loggers are not given the same file, other than "-".                *)
(***************************************************************************)
EXTENDS Integers, SequencesExt

CONSTANTS
  Env,         \* [Kinds -> name or NoName]: CK_LOG_FILE_NAME and the like
  EnvMode,     \* get_env_printmode(): CK_VERBOSITY
  SetNames,    \* [Kinds -> set of the names the program may set]
  PrintModes,  \* the print modes it may run with
  MaxRuns, MaxResults, MaxPrints, MaxSets, MaxSuites \* bounds on what is explored

Kinds == {"log", "xml", "tap"}
NoName == "NULL"
Names == (UNION {SetNames[k] : k \in Kinds} \cup {Env[k] : k \in Kinds} \cup {"-"}) \ {NoName}

CK_SILENT == 0
CK_MINIMAL == 1
CK_NORMAL == 2
CK_VERBOSE == 3
CK_ENV == 4
CK_SUBUNIT == 5

NamesOf(k) == (SetNames[k] \cup {Env[k]}) \ {NoName, "-"}

ASSUME LogAssumption ==
  /\ EnvMode \in CK_SILENT .. CK_VERBOSE
  /\ PrintModes \subseteq CK_SILENT .. CK_SUBUNIT
  /\ \A k \in Kinds : NoName \notin SetNames[k]
  /\ \A j, k \in Kinds : j # k => NamesOf(j) \cap NamesOf(k) = {}

VARIABLES
  fname,    \* sr->log_fname, sr->xml_fname, sr->tap_fname
  loglst,   \* sr->loglst; NULL is <<>>
  logs,     \* history: the loggers of the current or the last run
  io,       \* what is on disk and in the runner's buffers, per stream
  open,     \* the streams the runner has open
  static,   \* tap_lfun's num_tests_run; xml_lfun's ts_start, as the run it was taken in
  results,  \* sr->resultlst, with the run of each result and whether it is a test's
  pc,       \* where the runner is
  run,      \* the number of the current or the last run
  suites,   \* the number of suites started in this run
  fstat,    \* cur_fork_status()
  child,    \* the buffers of the test's process, <<>> when there is none
  sets,     \* the number of calls of srunner_set_log() and the like
  printed,  \* history: the number of lines user code printed
  byRunner  \* history: those it printed in the runner's process

vars == <<fname, loglst, logs, io, open, static, results, pc, run, suites, fstat,
          child, sets, printed, byRunner>>

-----------------------------------------------------------------------------
(* stdio *)

fputs(bufs, f, lines) == [bufs EXCEPT ![f] = @ \o lines]

fflush(o, f) ==
  [disk |-> [o.disk EXCEPT ![f] = @ \o o.buf[f]],
   buf |-> [o.buf EXCEPT ![f] = <<>>]]

fwrite(o, f, lines) == [o EXCEPT !.buf = fputs(@, f, lines)]

(* exit() writes the buffers of all streams; the disk is shared *)
ExitFlush(disk, bufs) == [f \in Names |-> disk[f] \o bufs[f]]

NoBuf == [f \in Names |-> <<>>]

-----------------------------------------------------------------------------
(* What the loggers write *)

tr_fprint(i, tr, mode) ==
  IF \/ mode >= CK_VERBOSE /\ tr.rtype = "CK_PASS"
     \/ mode >= CK_NORMAL /\ tr.rtype # "CK_PASS"
  THEN <<<<"result", i>>>> ELSE <<>>

srunner_fprint_summary(rs, mode) ==
  IF mode >= CK_MINIMAL
  THEN <<<<"summary", Len(rs), Len(SelectSeq(rs, LAMBDA r : r.rtype = "CK_FAILURE")),
                      Len(SelectSeq(rs, LAMBDA r : r.rtype = "CK_ERROR"))>>>>
  ELSE <<>>

srunner_fprint_results(rs, mode) ==
  FlattenSeq([i \in DOMAIN rs |-> tr_fprint(i, rs[i], mode)])

get_env_printmode == EnvMode

ResolvedMode(mode) == IF mode = CK_ENV THEN get_env_printmode ELSE mode

srunner_fprint(rs, print_mode) ==
  LET mode == ResolvedMode(print_mode)
  IN  IF mode = CK_SUBUNIT THEN <<>>
      ELSE srunner_fprint_summary(rs, mode) \o srunner_fprint_results(rs, mode)

stdout_lfun(rs, mode, evt) ==
  CASE evt = "CLSTART_SR" /\ mode > CK_SILENT -> <<<<"Running suite(s)">>>>
    [] evt = "CLSTART_S" /\ mode > CK_SILENT -> <<<<"suite">>>>
    [] evt = "CLEND_SR" /\ mode > CK_SILENT -> srunner_fprint(rs, mode)
    [] OTHER -> <<>>

lfile_lfun(rs, evt) ==
  CASE evt = "CLSTART_S" -> <<<<"Running suite">>>>
    [] evt = "CLEND_SR" -> <<<<"Results for all suites run">>>> \o srunner_fprint(rs, CK_MINIMAL)
    [] evt = "CLEND_T" -> tr_fprint(Len(rs), Last(rs), CK_VERBOSE)
    [] OTHER -> <<>>

(* Variant that ends the suite with the run *)
xml_lfun_late(rs, st, evt) ==
  CASE evt = "CLINITLOG_SR" -> <<<<"<testsuites>", st.ts_start>>>>
    [] evt = "CLENDLOG_SR" -> <<<<"</testsuites>", st.ts_start>>>>
    [] evt = "CLSTART_S" -> <<<<"<suite>">>>>
    [] evt = "CLEND_SR" -> <<<<"</suite>">>>>
    [] evt = "CLEND_T" -> <<<<"<test>", Len(rs), Last(rs).rtype>>>>
    [] OTHER -> <<>>

xml_lfun(rs, st, evt) ==
  CASE evt = "CLINITLOG_SR" -> <<<<"<testsuites>", st.ts_start>>>>
    [] evt = "CLENDLOG_SR" -> <<<<"</testsuites>", st.ts_start>>>>
    [] evt = "CLSTART_S" -> <<<<"<suite>">>>>
    [] evt = "CLEND_S" -> <<<<"</suite>">>>>
    [] evt = "CLEND_T" -> <<<<"<test>", Len(rs), Last(rs).rtype>>>>
    [] OTHER -> <<>>

tap_lfun(rs, st, evt) ==
  CASE evt = "CLENDLOG_SR" -> <<<<"plan", st.num_tests_run>>>>
    [] evt = "CLEND_T" -> <<<<IF Last(rs).rtype = "CK_PASS" THEN "ok" ELSE "not ok",
                             st.num_tests_run, Len(rs)>>>>
    [] OTHER -> <<>>

(* The result lines are libsubunit's *)
subunit_lfun(rs, mode, evt) ==
  CASE evt = "CLSTART_T" -> <<<<"test:">>>>
    [] evt = "CLEND_T" -> <<<<"subunit", Len(rs), Last(rs).rtype>>>>
    [] evt = "CLEND_SR" -> <<<<"newline">>>> \o srunner_fprint(rs, mode)
    [] OTHER -> <<>>

lfun(l, rs, st, evt) ==
  CASE l.lfun = "stdout" -> stdout_lfun(rs, l.mode, evt)
    [] l.lfun = "subunit" -> subunit_lfun(rs, l.mode, evt)
    [] l.lfun = "log" -> lfile_lfun(rs, evt)
    [] l.lfun = "xml" -> xml_lfun(rs, st, evt)
    [] l.lfun = "tap" -> tap_lfun(rs, st, evt)

Registered(ls, f) == \E i \in DOMAIN ls : ls[i].lfun = f

(* Variant in which a new log does not reset the number of tests *)
tap_count_kept(ls, n, evt) ==
  IF Registered(ls, "tap") /\ evt = "CLEND_T" THEN n + 1 ELSE n

(* num_tests_run when tap_lfun has seen evt *)
tap_count(ls, n, evt) ==
  CASE Registered(ls, "tap") /\ evt = "CLINITLOG_SR" -> 0
    [] Registered(ls, "tap") /\ evt = "CLEND_T" -> n + 1
    [] OTHER -> n

(* ts_start when xml_lfun has been called in run r: taken once per process *)
xml_start(ls, t, r) == IF Registered(ls, "xml") /\ t = 0 THEN r ELSE t

statics(ls, st, evt, r) ==
  [num_tests_run |-> tap_count(ls, st.num_tests_run, evt),
   ts_start |-> xml_start(ls, st.ts_start, r)]

(* Variant that leaves the lines in the buffer *)
log_event_unflushed(o, l, lines) == fwrite(fflush(o, l.lfile), l.lfile, lines)

(* Variant that never flushes *)
log_event_buffered(o, l, lines) == fwrite(o, l.lfile, lines)

log_event(o, l, lines) == fflush(fwrite(fflush(o, l.lfile), l.lfile, lines), l.lfile)

(* The loggers in ls, in order, handle evt; rs is the result list *)
srunner_send_evt(o, ls, rs, st, evt) ==
  FoldLeft(LAMBDA acc, l : log_event(acc, l, lfun(l, rs, st, evt)), o, ls)

(* The events evts, one after the other, from what the process holds now *)
Sent(w, ls, rs, evts, r) ==
  FoldLeft(LAMBDA acc, evt :
             LET st == statics(ls, acc.static, evt, r)
             IN  [io |-> srunner_send_evt(acc.io, ls, rs, st, evt), static |-> st],
           w, evts)

Now == [io |-> io, static |-> static]

Log(rs, evts) ==
  LET w == Sent(Now, loglst, rs, evts, run)
  IN  io' = w.io /\ static' = w.static

-----------------------------------------------------------------------------
(* Registration *)

(* srunner_log_fname(), srunner_xml_fname(), srunner_tap_fname() *)
log_fname(k) == IF fname[k] # NoName THEN fname[k] ELSE Env[k]

(* srunner_open_lfile() and the like, in the order of srunner_init_logging() *)
Opened == SelectSeq(<<"log", "xml", "tap">>, LAMBDA k : log_fname(k) # NoName)

srunner_register_lfun(f, close, fun, mode) ==
  [lfile |-> f, close |-> close, lfun |-> fun, mode |-> ResolvedMode(mode)]

register_log(k, mode) == srunner_register_lfun(log_fname(k), log_fname(k) # "-", k, mode)

Loggers(ks, mode) ==
  <<srunner_register_lfun("-", FALSE, IF mode = CK_SUBUNIT THEN "subunit" ELSE "stdout", mode)>>
    \o [i \in DOMAIN ks |-> register_log(ks[i], mode)]

FilesOf(ls) == {ls[i].lfile : i \in DOMAIN ls} \ {"-"}

(* fopen(.., "w") empties a file *)
Truncated(o, fs) == [o EXCEPT !.disk = [f \in Names |-> IF f \in fs THEN <<>> ELSE @[f]]]

-----------------------------------------------------------------------------
Init ==
  /\ fname = [k \in Kinds |-> NoName]
  /\ loglst = <<>> /\ logs = <<>>
  /\ io = [disk |-> NoBuf, buf |-> NoBuf]
  /\ open = {"-"}
  /\ static = [num_tests_run |-> 0, ts_start |-> 0]
  /\ results = <<>>
  /\ pc = "idle" /\ run = 0 /\ suites = 0 /\ fstat = "CK_FORK"
  /\ child = <<>>
  /\ sets = 0 /\ printed = 0 /\ byRunner = <<>>

users == <<sets, printed, byRunner>>

(* srunner_set_log(), srunner_set_xml(), srunner_set_tap(): the first name stays *)
srunner_set_log(k, name) ==
  /\ pc = "idle" /\ sets < MaxSets
  /\ fname' = [fname EXCEPT ![k] = IF @ = NoName THEN name ELSE @]
  /\ sets' = sets + 1
  /\ UNCHANGED <<loglst, logs, io, open, static, results, pc, run, suites, fstat, child,
                 printed, byRunner>>

(* srunner_run_init() with srunner_init_logging() *)
srunner_run_init(mode, fs) ==
  LET ls == Loggers(Opened, mode)
      o == Truncated(io, FilesOf(ls))
      w == Sent([io |-> o, static |-> static], ls, results,
                <<"CLINITLOG_SR", "CLSTART_SR">>, run + 1)
  IN  /\ pc = "idle" /\ run < MaxRuns
      /\ loglst' = ls /\ logs' = ls
      /\ open' = open \cup FilesOf(ls)
      /\ io' = w.io /\ static' = w.static
      /\ pc' = "run" /\ run' = run + 1 /\ suites' = 0 /\ fstat' = fs
      /\ UNCHANGED <<fname, results, child, users>>

(* fopen() of the n-th log fails: eprintf() leaves by exit(2) *)
fopen_fails(mode, fs, n) ==
  LET ls == Loggers(SubSeq(Opened, 1, n - 1), mode)
      o == Truncated(io, FilesOf(ls))
  IN  /\ pc = "idle" /\ run < MaxRuns
      /\ log_fname(Opened[n]) # "-"
      /\ loglst' = ls /\ logs' = ls
      /\ open' = open \cup FilesOf(ls)
      /\ io' = [disk |-> ExitFlush(o.disk, o.buf), buf |-> NoBuf]
      /\ pc' = "exited" /\ run' = run + 1 /\ suites' = 0 /\ fstat' = fs
      /\ UNCHANGED <<fname, static, results, child, users>>

-----------------------------------------------------------------------------
(* The events of a run, in the order SRunner sends them *)

log_suite_start ==
  /\ pc = "run" /\ suites < MaxSuites
  /\ Log(results, <<"CLSTART_S">>)
  /\ pc' = "suite" /\ suites' = suites + 1
  /\ UNCHANGED <<fname, loglst, logs, open, results, run, fstat, child, users>>

(* A failed unchecked setup is a result without an event *)
setup_fails ==
  /\ pc = "suite" /\ Len(results) < MaxResults
  /\ results' = Append(results, [rtype |-> "CK_FAILURE", run |-> run, test |-> FALSE])
  /\ UNCHANGED <<fname, loglst, logs, io, open, static, pc, run, suites, fstat, child, users>>

(* In CK_FORK mode fork() follows, and the child has the runner's buffers *)
log_test_start ==
  /\ pc = "suite" /\ Len(results) < MaxResults
  /\ Log(results, <<"CLSTART_T">>)
  /\ child' = IF fstat = "CK_FORK" THEN io'.buf ELSE <<>>
  /\ pc' = "test"
  /\ UNCHANGED <<fname, loglst, logs, open, results, run, suites, fstat, users>>

log_test_end(rtype) ==
  LET rs == Append(results, [rtype |-> rtype, run |-> run, test |-> TRUE])
  IN  /\ pc = "test" /\ child = <<>>
      /\ fstat = "CK_NOFORK" => rtype # "CK_ERROR"
      /\ results' = rs
      /\ Log(rs, <<"CLEND_T">>)
      /\ pc' = "suite"
      /\ UNCHANGED <<fname, loglst, logs, open, run, suites, fstat, child, users>>

log_suite_end ==
  /\ pc = "suite"
  /\ Log(results, <<"CLEND_S">>)
  /\ pc' = "run"
  /\ UNCHANGED <<fname, loglst, logs, open, results, run, suites, fstat, child, users>>

(* log_srunner_end() and the first half of srunner_end_logging() *)
log_srunner_end ==
  /\ pc = "run"
  /\ Log(results, <<"CLEND_SR", "CLENDLOG_SR">>)
  /\ pc' = "closing"
  /\ UNCHANGED <<fname, loglst, logs, open, results, run, suites, fstat, child, users>>

(* The loggers whose stream srunner_end_logging() closes *)
Closing == SelectSeq(loglst, LAMBDA l : l.close)

(* The second half of srunner_end_logging(); srunner_run_end() resets _fstat *)
srunner_end_logging ==
  /\ pc = "closing"
  /\ io' = FoldLeft(LAMBDA o, l : fflush(o, l.lfile), io, Closing)
  /\ open' = open \ {Closing[i].lfile : i \in DOMAIN Closing}
  /\ loglst' = <<>>
  /\ pc' = "idle" /\ fstat' = "CK_FORK"
  /\ UNCHANGED <<fname, logs, static, results, run, suites, child, users>>

(* fclose() of a log fails: eprintf() leaves by exit(2) *)
fclose_fails ==
  /\ pc = "closing" /\ Closing # <<>>
  /\ io' = [disk |-> ExitFlush(io.disk, io.buf), buf |-> NoBuf]
  /\ pc' = "close_failed"
  /\ UNCHANGED <<fname, loglst, logs, open, static, results, run, suites, fstat, child, users>>

-----------------------------------------------------------------------------
(* User code *)

(* An unchecked fixture, or a test in CK_NOFORK mode, runs in the runner's process *)
UserInRunner == pc = "suite" \/ (pc = "test" /\ fstat = "CK_NOFORK")

(* main() between runs, or user code of a run *)
user_prints ==
  /\ pc = "idle" \/ UserInRunner
  /\ printed < MaxPrints
  /\ printed' = printed + 1
  /\ byRunner' = Append(byRunner, <<"user", printed'>>)
  /\ io' = fwrite(io, "-", <<<<"user", printed'>>>>)
  /\ UNCHANGED <<fname, loglst, logs, open, static, results, pc, run, suites, fstat, child, sets>>

(* main() prints the results *)
srunner_print(mode) ==
  /\ pc = "idle" /\ printed < MaxPrints
  /\ printed' = printed + 1
  /\ io' = fwrite(io, "-", srunner_fprint(results, mode))
  /\ UNCHANGED <<fname, loglst, logs, open, static, results, pc, run, suites, fstat, child,
                 sets, byRunner>>

child_prints ==
  /\ child # <<>> /\ printed < MaxPrints
  /\ printed' = printed + 1
  /\ child' = fputs(child, "-", <<<<"user", printed'>>>>)
  /\ UNCHANGED <<fname, loglst, logs, io, open, static, results, pc, run, suites, fstat,
                 sets, byRunner>>

(* The test's process leaves by exit(), which writes its buffers *)
child_exits ==
  /\ child # <<>>
  /\ io' = [io EXCEPT !.disk = ExitFlush(@, child)]
  /\ child' = <<>>
  /\ UNCHANGED <<fname, loglst, logs, open, static, results, pc, run, suites, fstat, users>>

(* It is killed, or a failed assertion calls _exit(1): its buffers are lost *)
child_dies ==
  /\ child # <<>>
  /\ child' = <<>>
  /\ UNCHANGED <<fname, loglst, logs, io, open, static, results, pc, run, suites, fstat, users>>

(* User code in the runner's process calls exit() *)
user_exits ==
  /\ UserInRunner
  /\ io' = [disk |-> ExitFlush(io.disk, io.buf), buf |-> NoBuf]
  /\ pc' = "exited"
  /\ UNCHANGED <<fname, loglst, logs, open, static, results, run, suites, fstat, child, users>>

(* User code in the runner's process crashes it, or _exit(1) of an unchecked teardown does *)
runner_dies ==
  /\ UserInRunner
  /\ io' = [io EXCEPT !.buf = NoBuf]
  /\ pc' = "exited"
  /\ UNCHANGED <<fname, loglst, logs, open, static, results, run, suites, fstat, child, users>>

Rtypes == {"CK_PASS", "CK_FAILURE", "CK_ERROR"}
Forks == {"CK_FORK", "CK_NOFORK"}

Next ==
  \/ \E k \in Kinds : \E name \in SetNames[k] : srunner_set_log(k, name)
  \/ \E mode \in PrintModes, fs \in Forks :
       srunner_run_init(mode, fs) \/ \E n \in DOMAIN Opened : fopen_fails(mode, fs, n)
  \/ log_suite_start \/ setup_fails \/ log_test_start \/ log_suite_end
  \/ \E rtype \in Rtypes : log_test_end(rtype)
  \/ log_srunner_end \/ srunner_end_logging \/ fclose_fails
  \/ user_prints \/ child_prints \/ child_exits \/ child_dies
  \/ \E mode \in PrintModes : srunner_print(mode)
  \/ user_exits \/ runner_dies

Spec == Init /\ [][Next]_vars

-----------------------------------------------------------------------------
(* Properties *)

(* The stream of the logger f in the current or the last run *)
StreamsOf(f) == {logs[i].lfile : i \in {j \in DOMAIN logs : logs[j].lfun = f}}

(* The results of the tests of the current or the last run, as indices in results *)
TestsOfRun ==
  SelectSeq([i \in DOMAIN results |-> i], LAMBDA i : results[i].test /\ results[i].run = run)

Written(f, tags) == SelectSeq(io.disk[f], LAMBDA line : line[1] \in tags)

Ended == pc \in {"closing", "idle", "close_failed"}

ExpectedTap ==
  [n \in DOMAIN TestsOfRun |->
     <<IF results[TestsOfRun[n]].rtype = "CK_PASS" THEN "ok" ELSE "not ok", n, TestsOfRun[n]>>]
  \o IF Ended THEN <<<<"plan", Len(TestsOfRun)>>>> ELSE <<>>

(* At every moment, also when the runner has died, the TAP log on disk has
   one line for each test that ended in this run, numbered from 1, with its
   verdict, and the plan with their number exactly when the run came to its
   end: num_tests_run starts anew with each log, and every event is flushed.
   (On stdout the logs of earlier runs stand before it.) *)
TapFollows ==
  \A f \in StreamsOf("tap") :
    LET tap == Written(f, {"ok", "not ok", "plan"})
    IN  IF f = "-" THEN IsSuffix(ExpectedTap, tap) ELSE tap = ExpectedTap

Count(s, tag) == Len(SelectSeq(s, LAMBDA line : line[1] = tag))

Depth(s, n) == Count(SubSeq(s, 1, n), "<suite>") - Count(SubSeq(s, 1, n), "</suite>")

(* The XML log on disk is at every moment a prefix of a well-formed document:
   one root, suites that do not nest, tests only within a suite; and it is
   complete exactly when the run came to its end.  A process that inherited
   the stream adds nothing to it. *)
XmlNested ==
  \A f \in StreamsOf("xml") \ {"-"} :
    LET xml == io.disk[f]
    IN  pc # "exited" \/ xml # <<>> =>
          /\ \A n \in DOMAIN xml :
               /\ Depth(xml, n) \in {0, 1}
               /\ xml[n][1] = "<testsuites>" <=> n = 1
               /\ xml[n][1] = "<test>" => Depth(xml, n) = 1
               /\ xml[n][1] = "</testsuites>" => n = Len(xml) /\ Depth(xml, n) = 0
          /\ Last(xml)[1] = "</testsuites>" <=> Ended

(* The XML log and the text log report the same tests in the same order as
   the list of results, none of them twice, at every moment of a run and
   whatever other logs are written. *)
LogsAgree ==
  /\ \A f \in StreamsOf("xml") \ {"-"} :
       LET xml == Written(f, {"<test>"})
       IN  [n \in DOMAIN xml |-> xml[n][2]] = TestsOfRun
  /\ \A f \in StreamsOf("log") \ {"-"} :
       LET log == Written(f, {"result"})
       IN  [n \in DOMAIN log |-> log[n][2]] = TestsOfRun

(* What user code prints in the runner's process reaches stdout once and in
   order, although the tests' processes inherit the buffer of stdout: the
   event before each fork() flushes it.  What a test's process prints reaches
   stdout at most once. *)
OutputOnce ==
  LET seen == SelectSeq(io.disk["-"] \o io.buf["-"], LAMBDA line : line[1] = "user")
      own == SelectSeq(seen, LAMBDA line : Contains(byRunner, line))
  IN  /\ IsPrefix(own, byRunner)
      /\ pc # "exited" => own = byRunner
      /\ \A i, j \in DOMAIN seen : seen[i] = seen[j] => i = j

=============================================================================
