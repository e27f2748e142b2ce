------------------------------ MODULE NestedRuns ------------------------------
(***************************************************************************)
(* Runs inside runs: a test function or a fixture may itself call          *)
(* srunner_run().  The module has what such runs share in a process: the   *)
(* two pipe files of src/check_msg.c, the fork status of src/check.c, the  *)
(* jump buffer, and the saved signal actions of src/check_run.c.           *)
(*                                                                         *)
(* A process is its memory and the stack of the runs it is in.  A process  *)
(* that forks for a test waits for it, so that only the last one of procs  *)
(* is active; the child begins with a copy of everything.  Each run has an *)
(* unchecked setup, Tests test functions and an unchecked teardown, and    *)
(* user code in them may fail an assertion, call a run, ignore SIGCHLD or  *)
(* return.                                                                 *)
(***************************************************************************)
EXTENDS Naturals, FiniteSets, Sequences

CONSTANTS
  Modes,     \* the fork statuses of runs, of CK_FORK and CK_NOFORK
  Tests,     \* the number of test functions of a run
  MaxRuns,   \* bound on the number of runs of a behaviour
  MaxFiles,  \* bound on the temporary files that exist at one time
  TmpFile    \* what becomes of a new file: "unlinked", "named" (it could not
             \* be unlinked yet), "failed"

ASSUME NestedRunsAssumption ==
  /\ Modes \subseteq {"CK_FORK", "CK_NOFORK"}
  /\ Tests \in Nat /\ MaxRuns \in Nat /\ MaxFiles \in Nat
  /\ TmpFile \subseteq {"unlinked", "named", "failed"}

VARIABLES
  procs,   \* the processes, each the parent of the next
  files,   \* the messages in each temporary file
  names,   \* the temporary files that have a name in the file system
  status,  \* the exit status of the child that ended last
  nruns,   \* history: the number of runs begun
  failed,  \* history: the <<run, item>> in which an assertion failed
  got,     \* history: the last result
  left     \* history: files whose process ended with them

vars == <<procs, files, names, status, nruns, failed, got, left>>

NoFile == 0
NoJump == <<0, "none">>
NoResult == [item |-> <<0, 0>>, msgs |-> << >>, pass |-> TRUE, failed |-> FALSE]

Init ==
  /\ procs = <<[runs |-> << >>, send_file |-> <<NoFile, NoFile>>,
                named |-> <<FALSE, FALSE>>, fstat |-> "CK_FORK", error_jmp |-> NoJump,
                action |-> "user", old_action |-> "user", sigchld |-> "default",
                end |-> "no", nested |-> FALSE]>>
  /\ files = [f \in 1 .. MaxFiles |-> << >>]
  /\ names = {}
  /\ status = 0
  /\ nruns = 0
  /\ failed = {}
  /\ got = NoResult
  /\ left = {}

(* Of SequencesExt only these are needed, and the proofs about this module  *)
(* are several times faster without the rest of it.                         *)
Last(s) == s[Len(s)]
Front(s) == SubSeq(s, 1, Len(s) - 1)
ToSet(s) == {s[i] : i \in DOMAIN s}

(* The active process, the others, and the innermost run *)
Mem == Last(procs)
Parents == Front(procs)
Top == Last(Mem.runs)
At(step) == procs # << >> /\ Mem.runs # << >> /\ Top.step = step

(* User code: of main(), of a fixture, or of a test function *)
InUserCode ==
  procs # << >> /\ (Mem.runs # << >> => Top.step \in {"setup", "fn", "child", "teardown"})

WithTop(m, frame) == [m EXCEPT !.runs = Append(Front(@), frame)]
Item == <<Top.id, Top.item>>

-----------------------------------------------------------------------------
(* The pipe files.  The operators map a world, a process's memory with the *)
(* file system, to the one after the call.                                 *)
World(m) == [m |-> m, files |-> files, names |-> names]

OpenFiles(m) == {f \in ToSet(m.send_file) : f # NoFile}

(* The files no process has open and whose name is not in use *)
FreeFiles == (1 .. MaxFiles) \ (names \cup UNION {OpenFiles(p) : p \in ToSet(procs)})
NewFile == CHOOSE f \in FreeFiles : TRUE

(* open_tmp_file() and the part of setup_pipe() for one of the two *)
open_tmp_file(w, slot, how) ==
  LET f == NewFile
  IN  IF how = "failed" \/ FreeFiles = {} THEN [w EXCEPT !.m.end = "eprintf"]
      ELSE [w EXCEPT !.m.send_file[slot] = f,
                     !.m.named[slot] = (how = "named"),
                     !.files[f] = << >>,
                     !.names = IF how = "named" THEN @ \cup {f} ELSE @]

setup_pipe(w, how) ==
  IF w.m.send_file[1] = NoFile THEN open_tmp_file(w, 1, how)
  ELSE IF w.m.send_file[2] = NoFile THEN open_tmp_file(w, 2, how)
  ELSE [w EXCEPT !.m.end = "eprintf"]

(* fclose(), and unlink() when the file has a name *)
close_tmp_file(w, slot) ==
  [w EXCEPT !.m.send_file[slot] = NoFile,
            !.m.named[slot] = FALSE,
            !.names = IF w.m.named[slot] THEN @ \ {w.m.send_file[slot]} ELSE @]

(* Variant: the outer file first *)
close_outer(w) ==
  IF w.m.send_file[1] # NoFile THEN close_tmp_file(w, 1)
  ELSE close_tmp_file(w, 2)

teardown_pipe(w) ==
  IF w.m.send_file[2] # NoFile THEN close_tmp_file(w, 2)
  ELSE IF w.m.send_file[1] # NoFile THEN close_tmp_file(w, 1)
  ELSE [w EXCEPT !.m.end = "eprintf"]

(* Variant: the outer file, when there is one *)
get_outer_pipe(m) == IF m.send_file[1] # NoFile THEN m.send_file[1] ELSE m.send_file[2]

get_pipe(m) == IF m.send_file[2] # NoFile THEN m.send_file[2] ELSE m.send_file[1]

(* send_ctx_info(), send_loc_info(), send_failure_info(): a message of a   *)
(* kind about an item of a run                                             *)
send(w, item, kind) ==
  IF get_pipe(w.m) = NoFile THEN [w EXCEPT !.m.end = "eprintf"]
  ELSE [w EXCEPT !.files[get_pipe(w.m)] = Append(@, [item |-> item, kind |-> kind])]

-----------------------------------------------------------------------------
(* The world after a step; a process with an end is no more *)
EndStatus(m) ==
  CASE m.end = "exit" -> 0 [] m.end = "_exit" -> 1 [] m.end = "eprintf" -> 2 [] OTHER -> 3

Becomes(world) ==
  \E w \in {world} :
    /\ files' = w.files
    /\ names' = w.names
    /\ IF w.m.end = "no"
       THEN procs' = Append(Parents, w.m) /\ UNCHANGED <<status, left>>
       ELSE /\ procs' = Parents
            /\ status' = EndStatus(w.m)
            /\ left' = left \cup (OpenFiles(w.m) \ UNION {OpenFiles(p) : p \in ToSet(Parents)})

(* receive_test_result() for the item of the innermost run; a failure      *)
(* message, or the status of a child, makes it a failure.                  *)
Verdict(msgs, st) == st = 0 /\ \A i \in DOMAIN msgs : msgs[i].kind # "fail"

receive_test_result(w, how) == setup_pipe(teardown_pipe(w), how)

Received(st) ==
  LET msgs == files[get_pipe(Mem)]
  IN  /\ got' = [item |-> Item, msgs |-> msgs, pass |-> Verdict(msgs, st),
                 failed |-> Item \in failed]
      /\ failed' = failed \ {Item}

-----------------------------------------------------------------------------
(* srunner_run_tagged(): the signal actions, then srunner_run_init() *)
srunner_run_init(mode, how) ==
  LET m == [Mem EXCEPT !.old_action = Mem.action, !.action = "sig_handler",
                       !.fstat = mode,
                       !.nested = @ \/ Mem.runs # << >>]
      w == setup_pipe(World(m), how)
      frame == [id |-> nruns + 1, mode |-> mode, item |-> 0, step |-> "start", ran |-> FALSE]
  IN  /\ InUserCode /\ nruns < MaxRuns
      /\ Becomes([w EXCEPT !.m.runs = Append(@, frame)])
      /\ nruns' = nruns + 1
      /\ UNCHANGED <<failed, got>>

(* srunner_run_unchecked_setup(), up to the fixture *)
srunner_run_unchecked_setup ==
  LET m == [WithTop(Mem, [Top EXCEPT !.step = "setup"]) EXCEPT
              !.fstat = "CK_NOFORK", !.error_jmp = <<Top.id, "setup">>]
  IN  /\ At("start")
      /\ Becomes(send(World(m), Item, "ctx"))
      /\ UNCHANGED <<nruns, failed, got>>

(* and from its end; a failure skips the tests and the teardown *)
unchecked_setup_done(how) ==
  LET pass == Verdict(files[get_pipe(Mem)], 0)
      m == [WithTop(Mem, [Top EXCEPT !.step = IF pass THEN "tests" ELSE "end",
                                     !.item = 1, !.ran = FALSE])
            EXCEPT !.fstat = Top.mode]
  IN  /\ At("setup_done")
      /\ Becomes(receive_test_result(World(m), how))
      /\ Received(0)
      /\ UNCHANGED nruns

(* tcase_run_tfun_nofork(), up to the test function *)
tcase_run_tfun_nofork ==
  LET m == [WithTop(Mem, [Top EXCEPT !.step = "fn"]) EXCEPT
              !.error_jmp = <<Top.id, "fn">>]
  IN  /\ At("tests") /\ Top.item <= Tests /\ Top.mode = "CK_NOFORK"
      /\ Becomes(send(World(m), Item, "ctx"))
      /\ UNCHANGED <<nruns, failed, got>>

(* Variant: the loop does not go on *)
tfun_nofork_again(how) ==
  LET m == WithTop(Mem, [Top EXCEPT !.step = "tests"])
  IN  /\ At("fn_done")
      /\ Becomes(receive_test_result(World(m), how))
      /\ Received(0)
      /\ UNCHANGED nruns

tfun_nofork_done(how) ==
  LET m == WithTop(Mem, [Top EXCEPT !.step = "tests", !.item = @ + 1])
  IN  /\ At("fn_done")
      /\ Becomes(receive_test_result(World(m), how))
      /\ Received(0)
      /\ UNCHANGED nruns

(* tcase_run_tfun_fork(): the child has the runs of its parent on its      *)
(* stack, but comes back to none                                           *)
tcase_run_tfun_fork ==
  LET parent == WithTop(Mem, [Top EXCEPT !.step = "wait"])
      child == WithTop(Mem, [Top EXCEPT !.step = "child"])
  IN  /\ At("tests") /\ Top.item <= Tests /\ Top.mode = "CK_FORK"
      /\ procs' = Append(Parents, parent) \o <<child>>
      /\ files' = [files EXCEPT ![get_pipe(Mem)] = Append(@, [item |-> Item, kind |-> "ctx"])]
      /\ UNCHANGED <<names, status, nruns, failed, got, left>>

(* The child's function returns: send_duration_info() and exit() *)
child_done ==
  /\ At("child_done")
  /\ Becomes([send(World(Mem), Item, "duration") EXCEPT !.m.end = "exit"])
  /\ UNCHANGED <<nruns, failed, got>>

(* waitpid(), which fails for ever when SIGCHLD is ignored, and the result *)
tfun_fork_done(how) ==
  LET m == WithTop(Mem, [Top EXCEPT !.step = "tests", !.item = @ + 1])
  IN  /\ At("wait") /\ Mem.sigchld = "default"
      /\ Becomes(receive_test_result(World(m), how))
      /\ Received(status)
      /\ UNCHANGED nruns

(* srunner_run_unchecked_teardown(), which has a jump buffer in CK_NOFORK  *)
srunner_run_unchecked_teardown ==
  LET m == [WithTop(Mem, [Top EXCEPT !.step = "teardown"]) EXCEPT
              !.error_jmp = IF Top.mode = "CK_NOFORK" THEN <<Top.id, "teardown">> ELSE @]
  IN  /\ At("tests") /\ Top.item > Tests
      /\ Becomes(send(World(m), Item, "ctx"))
      /\ UNCHANGED <<nruns, failed, got>>

(* The stack after the innermost run: the user code that called it goes on *)
Popped(runs) ==
  IF Len(runs) = 1 THEN << >>
  ELSE LET outer == Front(runs) IN Append(Front(outer), [Last(outer) EXCEPT !.ran = TRUE])

(* Variant: the fork status stays what it was *)
srunner_run_end_keeps_status ==
  LET w == teardown_pipe(World(Mem))
  IN  /\ At("end")
      /\ Becomes([w EXCEPT !.m.action = Mem.old_action, !.m.runs = Popped(@)])
      /\ UNCHANGED <<nruns, failed, got>>

(* Variant: the signal actions stay *)
srunner_run_end_keeps_actions ==
  LET w == teardown_pipe(World(Mem))
  IN  /\ At("end")
      /\ Becomes([w EXCEPT !.m.fstat = "CK_FORK", !.m.runs = Popped(@)])
      /\ UNCHANGED <<nruns, failed, got>>

(* srunner_run_end(), and the signal actions as they were *)
srunner_run_end ==
  LET w == teardown_pipe(World(Mem))
  IN  /\ At("end")
      /\ Becomes([w EXCEPT !.m.fstat = "CK_FORK", !.m.action = Mem.old_action,
                           !.m.runs = Popped(@)])
      /\ UNCHANGED <<nruns, failed, got>>

-----------------------------------------------------------------------------
(* User code *)

AfterUserCode == [setup |-> "setup_done", fn |-> "fn_done", child |-> "child_done",
                  teardown |-> "end"]

(* A fixture or a test function returns; main() exits *)
user_returns ==
  /\ InUserCode
  /\ IF Mem.runs = << >> THEN Becomes([World(Mem) EXCEPT !.m.end = "exit"])
     ELSE Becomes(World(WithTop(Mem, [Top EXCEPT !.step = AfterUserCode[@]])))
  /\ UNCHANGED <<nruns, failed, got>>

(* The frames of this process that the jump buffer may still point to *)
JumpTargets(m) == {i \in DOMAIN m.runs : <<m.runs[i].id, m.runs[i].step>> = m.error_jmp}

longjmp(m) ==
  IF JumpTargets(m) = {} THEN [m EXCEPT !.end = "stale jump"]
  ELSE LET i == CHOOSE j \in JumpTargets(m) : TRUE
           frame == [m.runs[i] EXCEPT !.step = AfterUserCode[@]]
       IN  [m EXCEPT !.runs = Append(SubSeq(@, 1, i - 1), frame)]

(* _ck_assert_failed(): send, then leave by way of the fork status *)
ck_assert_failed ==
  LET item == IF Mem.runs = << >> THEN <<0, 0>> ELSE Item
      w == send(World(Mem), item, "fail")
  IN  /\ InUserCode
      /\ IF w.m.end # "no" THEN Becomes(w)
         ELSE IF Mem.fstat = "CK_FORK" THEN Becomes([w EXCEPT !.m.end = "_exit"])
         ELSE Becomes([w EXCEPT !.m = longjmp(@)])
      /\ failed' = failed \cup {item}
      /\ UNCHANGED <<nruns, got>>

ignore_sigchld ==
  /\ InUserCode /\ Mem.sigchld = "default"
  /\ Becomes(World([Mem EXCEPT !.sigchld = "ignored"]))
  /\ UNCHANGED <<nruns, failed, got>>

-----------------------------------------------------------------------------
LibraryStep ==
  \/ srunner_run_unchecked_setup \/ tcase_run_tfun_nofork \/ tcase_run_tfun_fork
  \/ child_done \/ srunner_run_unchecked_teardown \/ srunner_run_end
  \/ \E how \in TmpFile :
       unchecked_setup_done(how) \/ tfun_nofork_done(how) \/ tfun_fork_done(how)

Next ==
  \/ LibraryStep
  \/ \E mode \in Modes, how \in TmpFile : srunner_run_init(mode, how)
  \/ user_returns \/ ck_assert_failed \/ ignore_sigchld

(* The library's code runs on, and user code comes to an end *)
Spec == Init /\ [][Next]_vars /\ WF_vars(LibraryStep) /\ WF_vars(user_returns)

-----------------------------------------------------------------------------
(* Properties.                                                             *)

(* In every process as many pipe files are open as runs are active, the    *)
(* inner one second: setup_pipe() and teardown_pipe() stay in step also    *)
(* when assertions jump out of code and when a third run is refused.       *)
PipesFollowRuns ==
  \A p \in ToSet(procs) :
    /\ Cardinality(OpenFiles(p)) = Len(p.runs)
    /\ p.send_file[2] # NoFile => p.send_file[1] # NoFile

(* What a run receives for an item was sent by that item: nothing from an  *)
(* inner or an outer run, from an earlier run, or from an earlier item.    *)
(* An item in which an assertion failed is not taken for a pass by the run *)
(* it belongs to, and only such an item has a failure message.             *)
OwnResults ==
  /\ \A m \in ToSet(got.msgs) : m.item = got.item
  /\ got.failed => ~got.pass
  /\ \A m \in ToSet(got.msgs) : m.kind = "fail" => got.failed

(* A failed assertion in a fixture or in a test that runs in the runner's  *)
(* process comes back to the setjmp() made for it, unless an inner run was *)
(* completed since the fork status was set: then, in this and in all later *)
(* tests of the case, the status srunner_run_end() left behind makes it    *)
(* end the process.  It never jumps to a frame that is gone, and a test's  *)
(* own process never jumps at all.                                         *)
JumpsHome ==
  InUserCode /\ Mem.runs # << >> =>
    /\ Mem.fstat = "CK_NOFORK" => Mem.error_jmp = <<Top.id, Top.step>>
    /\ Top.step \in {"setup", "fn"} /\ ~Top.ran => Mem.fstat = "CK_NOFORK"
    /\ Top.step = "child" => Mem.fstat = "CK_FORK"

(* A run leaves the program's signal actions as they were, and sig_handler *)
(* has the program's own action to go back to, as long as no run was begun *)
(* inside another one: that overwrites the saved actions.  A temporary     *)
(* file that could not be unlinked when it was opened is gone when its run *)
(* has ended, except when the process ended first.                         *)
RunsLeaveNothing ==
  /\ \A p \in ToSet(procs) :
       ~p.nested => /\ p.old_action = "user"
                    /\ p.runs = << >> => p.action = "user"
  /\ names \subseteq left \cup UNION {OpenFiles(p) : p \in ToSet(procs)}

(* Everything comes to an end, at whatever depth assertions fail or files  *)
(* cannot be opened, unless user code has SIGCHLD ignored.                 *)
AllEnds == <>(procs = << >> \/ \E p \in ToSet(procs) : p.sigchld = "ignored")
=============================================================================
