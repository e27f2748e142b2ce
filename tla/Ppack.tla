-------------------------------- MODULE Ppack --------------------------------
(***************************************************************************)
(* Sending: ppack() (src/check_pack.c) called by the threads of a test and *)
(* by a process one of them forks.  The threads of a process share its     *)
(* mutex and the buffer of its FILE; the processes share the open file.    *)
(*                                                                         *)
(* stdio is not assumed to lock: fwrite() puts its bytes into the buffer   *)
(* in pieces, and calls write(2) when the buffer is full; write(2) is      *)
(* atomic.  Cancellation is deferred, the default, and acted on in         *)
(* write(2); a cancelled or failed write(2) leaves the buffer as it is.    *)
(***************************************************************************)
EXTENDS Pack, SequencesExt, FiniteSets

CONSTANTS
  Threads,    \* the threads of the test's process
  Forked,     \* the one thread of the process that one of them may fork
  Msgs,       \* for each of these, the messages it may send, all distinct
  Cancelled,  \* the threads that may be cancelled
  BufSize,    \* setvbuf()'s size: what the buffer of the FILE holds
  MaxSends,   \* bound on the calls of ppack() of each of them
  Limits,     \* what CK_MAX_MSG_SIZE and check_set_max_msg_size() may give
  DEFAULT_MAX_MSG_SIZE,
  WriteFails  \* TRUE when write(2) may fail, for want of space

Actors == Threads \cup {Forked}
Procs == {"test", "child"}
ProcOf(a) == IF a = Forked THEN "child" ELSE "test"
ThreadsOf(p) == {a \in Actors : ProcOf(a) = p}
Free == NULL

ASSUME PpackAssumption ==
  /\ Forked \notin Threads /\ NULL \notin Actors
  /\ Cancelled \subseteq Threads
  /\ BufSize \in Nat \ {0} /\ MaxSends \in [Actors -> Nat]
  /\ Limits \subseteq Nat /\ DEFAULT_MAX_MSG_SIZE \in Nat \ {0}
  /\ WriteFails \in BOOLEAN

VARIABLES
  limit,   \* get_max_msg_size()
  proc,    \* "none", "running", "exited"
  mutex,   \* the thread that holds ck_mutex_lock in a process, or Free
  buf,     \* the bytes in the buffer of a process's FILE
  file,    \* the bytes written to the file
  pc,      \* where in ppack() an actor is; "idle" is user code
  out,     \* the bytes fwrite() has still to take
  cancel,  \* a request to cancel the thread is pending
  sent,    \* history: the messages ppack() was called with and packed
  done,    \* history: how many of those calls have returned
  hist     \* history: what happened to the processes

shared == <<mutex, buf, file>>
local == <<pc, out, cancel, sent, done>>
vars == <<limit, proc, shared, local, hist>>

Inside == {"fwrite", "fflush", "unlock", "cleanup"}
InPpack == {"lock", "eprintf"} \cup Inside

NoHist == [forkInside |-> FALSE, forkPending |-> FALSE, exitInside |-> FALSE,
           split |-> FALSE, failed |-> FALSE]

Init ==
  /\ \E env, set \in Limits : limit = get_max_msg_size(env, set, DEFAULT_MAX_MSG_SIZE)
  /\ proc = [p \in Procs |-> IF p = "test" THEN "running" ELSE "none"]
  /\ mutex = [p \in Procs |-> Free]
  /\ buf = [p \in Procs |-> << >>]
  /\ file = << >>
  /\ pc = [a \in Actors |-> IF a = Forked THEN "none" ELSE "idle"]
  /\ out = [a \in Actors |-> << >>]
  /\ cancel = [a \in Actors |-> FALSE]
  /\ sent = [a \in Actors |-> << >>]
  /\ done = [a \in Actors |-> 0]
  /\ hist = NoHist

At(a, where) == proc[ProcOf(a)] = "running" /\ pc[a] = where
Goes(a, where) == pc' = [pc EXCEPT ![a] = where]

-----------------------------------------------------------------------------
(* The end of a process: its threads and its memory are gone; exit()       *)
(* writes the buffer, _exit() and a fatal signal do not.                   *)
Ends(p) ==
  /\ proc' = [proc EXCEPT ![p] = "exited"]
  /\ pc' = [a \in Actors |-> IF ProcOf(a) = p THEN "dead" ELSE pc[a]]
  /\ out' = [a \in Actors |-> IF ProcOf(a) = p THEN << >> ELSE out[a]]
  /\ cancel' = [a \in Actors |-> ProcOf(a) # p /\ cancel[a]]
  /\ mutex' = [mutex EXCEPT ![p] = Free]
  /\ buf' = [buf EXCEPT ![p] = << >>]

exit(p) ==
  /\ Ends(p)
  /\ file' = file \o buf[p]
  /\ hist' = [hist EXCEPT !.exitInside = @ \/ \E a \in ThreadsOf(p) : pc[a] = "fwrite"]

(* The test function returns, or user code calls exit() *)
user_exit(a) ==
  /\ At(a, "idle")
  /\ exit(ProcOf(a))
  /\ UNCHANGED <<limit, sent, done>>

(* _exit(1) after a failed assertion, and SIGKILL at any time *)
killed(p) ==
  /\ proc[p] = "running"
  /\ Ends(p)
  /\ UNCHANGED <<limit, file, sent, done, hist>>

(* fork() in user code: the child has a copy of the mutex and of the buffer *)
fork(a) ==
  /\ At(a, "idle") /\ ProcOf(a) = "test" /\ proc["child"] = "none"
  /\ proc' = [proc EXCEPT !["child"] = "running"]
  /\ Goes(Forked, "idle")
  /\ mutex' = [mutex EXCEPT !["child"] = mutex["test"]]
  /\ buf' = [buf EXCEPT !["child"] = buf["test"]]
  /\ hist' = [hist EXCEPT !.forkInside = mutex["test"] # Free,
                          !.forkPending = buf["test"] # << >>]
  /\ UNCHANGED <<limit, file, out, cancel, sent, done>>

-----------------------------------------------------------------------------
(* ppack(): pack, compare with the limit, and push the handler; a message  *)
(* that cannot be packed or is too long ends the process with eprintf().   *)
ppack(a, m) ==
  /\ At(a, "idle") /\ Len(sent[a]) < MaxSends[a]
  /\ IF pack(m) = Refused \/ Len(pack(m)) > limit
     THEN /\ exit(ProcOf(a))
          /\ UNCHANGED sent
     ELSE /\ Goes(a, "lock")
          /\ out' = [out EXCEPT ![a] = pack(m)]
          /\ sent' = [sent EXCEPT ![a] = Append(@, m)]
          /\ UNCHANGED <<proc, shared, cancel, hist>>
  /\ UNCHANGED <<limit, done>>

(* Variant: the mutex is not waited for *)
lock_no_wait(a) ==
  /\ At(a, "lock")
  /\ mutex' = [mutex EXCEPT ![ProcOf(a)] = a]
  /\ Goes(a, "fwrite")
  /\ UNCHANGED <<limit, proc, buf, file, out, cancel, sent, done, hist>>

pthread_mutex_lock(a) ==
  /\ At(a, "lock") /\ mutex[ProcOf(a)] = Free
  /\ mutex' = [mutex EXCEPT ![ProcOf(a)] = a]
  /\ Goes(a, "fwrite")
  /\ UNCHANGED <<limit, proc, buf, file, out, cancel, sent, done, hist>>

(* fwrite() takes all the bytes that fit into the buffer, or, to begin     *)
(* with, only one ...                                                      *)
fwrite(a) ==
  LET p == ProcOf(a)
      room == BufSize - Len(buf[p])
      fits == IF Len(out[a]) <= room THEN Len(out[a]) ELSE room
  IN  /\ At(a, "fwrite") /\ room > 0
      /\ \E k \in {fits} \cup {j \in {1} : out[a] = pack(Last(sent[a]))} :
           LET rest == SubSeq(out[a], k + 1, Len(out[a]))
           IN  /\ buf' = [buf EXCEPT ![p] = @ \o SubSeq(out[a], 1, k)]
               /\ out' = [out EXCEPT ![a] = rest]
               /\ hist' = [hist EXCEPT !.split = @ \/ (k = room /\ rest # << >>)]
               /\ Goes(a, IF rest = << >> THEN "fflush" ELSE "fwrite")
      /\ UNCHANGED <<limit, proc, mutex, file, cancel, sent, done>>

(* write(2) of the buffer of process p, which may fail *)
write(p) ==
  \/ /\ file' = file \o buf[p]
     /\ buf' = [buf EXCEPT ![p] = << >>]
     /\ UNCHANGED hist
  \/ /\ WriteFails
     /\ hist' = [hist EXCEPT !.failed = TRUE]
     /\ UNCHANGED <<file, buf>>

(* ... writes a full buffer out, and comes back short when that fails *)
fwrite_full(a) ==
  /\ At(a, "fwrite") /\ Len(buf[ProcOf(a)]) = BufSize
  /\ write(ProcOf(a))
  /\ Goes(a, IF buf' = buf THEN "fflush" ELSE "fwrite")
  /\ UNCHANGED <<limit, proc, mutex, out, cancel, sent, done>>

(* Variant: no flush *)
no_fflush(a) ==
  /\ At(a, "fflush")
  /\ Goes(a, "unlock")
  /\ UNCHANGED <<limit, proc, shared, out, cancel, sent, done, hist>>

(* fflush(), the result of which nobody looks at *)
fflush(a) ==
  /\ At(a, "fflush")
  /\ write(ProcOf(a))
  /\ Goes(a, "unlock")
  /\ UNCHANGED <<limit, proc, mutex, out, cancel, sent, done>>

(* pthread_mutex_unlock(), pthread_cleanup_pop(0), and the return *)
pthread_mutex_unlock(a) ==
  /\ At(a, "unlock") /\ out[a] = << >>
  /\ mutex' = [mutex EXCEPT ![ProcOf(a)] = Free]
  /\ done' = [done EXCEPT ![a] = @ + 1]
  /\ Goes(a, "idle")
  /\ UNCHANGED <<limit, proc, buf, file, out, cancel, sent, hist>>

(* The same, when fwrite() came back short: r # n, and eprintf() *)
unlock_short(a) ==
  /\ At(a, "unlock") /\ out[a] # << >>
  /\ mutex' = [mutex EXCEPT ![ProcOf(a)] = Free]
  /\ Goes(a, "eprintf")
  /\ UNCHANGED <<limit, proc, buf, file, out, cancel, sent, done, hist>>

ppack_eprintf(a) ==
  /\ At(a, "eprintf")
  /\ exit(ProcOf(a))
  /\ UNCHANGED <<limit, sent, done>>

-----------------------------------------------------------------------------
(* Cancellation *)

pthread_cancel(a) ==
  /\ a \in Cancelled /\ ~cancel[a] /\ pc[a] \notin {"cancelled", "dead"}
  /\ cancel' = [cancel EXCEPT ![a] = TRUE]
  /\ UNCHANGED <<limit, proc, shared, pc, out, sent, done, hist>>

(* Acted on in write(2), where the handler has to run, or in user code *)
act_on_cancel(a) ==
  /\ cancel[a]
  /\ \/ /\ At(a, "fflush") \/ (At(a, "fwrite") /\ Len(buf[ProcOf(a)]) = BufSize)
        /\ Goes(a, "cleanup")
     \/ At(a, "idle") /\ Goes(a, "cancelled")
  /\ UNCHANGED <<limit, proc, shared, out, cancel, sent, done, hist>>

(* Variant: the handler does nothing *)
ppack_cleanup_nothing(a) ==
  /\ At(a, "cleanup")
  /\ Goes(a, "cancelled")
  /\ UNCHANGED <<limit, proc, shared, out, cancel, sent, done, hist>>

ppack_cleanup(a) ==
  /\ At(a, "cleanup")
  /\ mutex' = [mutex EXCEPT ![ProcOf(a)] = Free]
  /\ Goes(a, "cancelled")
  /\ UNCHANGED <<limit, proc, buf, file, out, cancel, sent, done, hist>>

-----------------------------------------------------------------------------
(* The steps of ppack() after it has packed *)
Sending(a) == \/ pthread_mutex_lock(a) \/ fwrite(a) \/ fwrite_full(a) \/ fflush(a)
              \/ pthread_mutex_unlock(a) \/ unlock_short(a) \/ ppack_eprintf(a)
              \/ ppack_cleanup(a)

User(a) == \/ \E m \in Msgs[a] : ppack(a, m)
           \/ user_exit(a) \/ fork(a)
           \/ pthread_cancel(a) \/ act_on_cancel(a)

Next == \/ \E a \in Actors : Sending(a) \/ User(a)
        \/ \E p \in Procs : killed(p)

(* A thread that can run does; the user promises nothing *)
Spec == Init /\ [][Next]_vars /\ \A a \in Actors : WF_vars(Sending(a))

-----------------------------------------------------------------------------
(* Properties.                                                             *)

(* A thread between pthread_mutex_lock() and the unlocking in ppack(), or  *)
(* in the handler that a cancellation runs, holds the mutex: there is one  *)
(* such thread in a process, and ppack_cleanup(), pushed before the lock,  *)
(* never unlocks for somebody else.                                        *)
MutexHeld ==
  \A a \in Actors : pc[a] \in Inside => mutex[ProcOf(a)] = a

(* Nothing interfered with the writing of a message that the mutex cannot  *)
(* prevent: an exit() of the process or a fork() during an fwrite(), or a  *)
(* message that did not fit into the buffer.                               *)
Undisturbed == ~(hist.exitInside \/ hist.forkInside \/ hist.split)

(* Whenever the file is read it is a sequence of whole messages, whoever   *)
(* is sending, cancelled or killed at that moment, and none of them makes  *)
(* the runner stop in upack_loc() or upack_duration(): a value that does   *)
(* not fit an int has ended the sender.                                    *)
WholeMessages ==
  Undisturbed => ToSet(Decoded(file)) \cap {Garbled, RefusedMsg} = {}

(* As upack_str() gives it: a null pointer comes back as an empty string *)
Received(m) ==
  CASE m.type = "CK_MSG_FAIL" /\ m.msg = NULL -> [m EXCEPT !.msg = << >>]
    [] m.type = "CK_MSG_LOC" /\ m.file = NULL -> [m EXCEPT !.file = << >>]
    [] OTHER -> m

(* What a sender sent is in the file once, unchanged and in order, and is  *)
(* there when ppack() returns, so that an _exit() or a crash right after   *)
(* loses nothing; except for failed writes, and for a fork() that copies   *)
(* what a cancelled or failed send left in the buffer.                     *)
SentInOrder ==
  Undisturbed /\ ~hist.forkPending =>
    \A a \in Actors :
      LET mine == {Received(m) : m \in Msgs[a]}
          got == SelectSeq(Decoded(file), LAMBDA m : m \in mine)
      IN  /\ IsPrefix(got, [i \in DOMAIN sent[a] |-> Received(sent[a][i])])
          /\ hist.failed \/ Len(got) >= done[a]

(* Every ppack() ends, also when other senders are cancelled or killed     *)
(* while they hold the mutex; except in a process that was forked while    *)
(* another thread held it.                                                 *)
SendsEnd ==
  \A a \in Actors :
    (pc[a] \in InPpack /\ ~(a = Forked /\ hist.forkInside)) ~> (pc[a] \notin InPpack)
=============================================================================
