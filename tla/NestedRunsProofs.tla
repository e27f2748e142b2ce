--------------------------- MODULE NestedRunsProofs ---------------------------
(***************************************************************************)
(* What NestedRuns keeps for any number of tests and of runs, and whatever *)
(* becomes of the temporary files.                                         *)
(***************************************************************************)
EXTENDS NestedRuns, TLAPS

(* The type of the memory of a process *)
UserCode == {"setup", "fn", "child", "teardown"}
Steps == UserCode \cup {"start", "setup_done", "tests", "fn_done", "child_done", "wait", "end"}
Statuses == {"CK_FORK", "CK_NOFORK"}
FileNos == 0 .. MaxFiles
Msgs == [item : Nat \X Nat, kind : {"ctx", "fail", "duration"}]

Frames == [id : Nat, mode : Statuses, item : Nat, step : Steps, ran : BOOLEAN]

Memories ==
  [runs : Seq(Frames), send_file : FileNos \X FileNos, named : BOOLEAN \X BOOLEAN,
   fstat : Statuses, error_jmp : Nat \X (Steps \cup {"none"}),
   action : {"user", "sig_handler"}, old_action : {"user", "sig_handler"},
   sigchld : {"default", "ignored"}, end : {"no"}, nested : BOOLEAN]

(* The files of a process are those of its runs *)
FilesOfRuns(p) ==
  /\ Len(p.runs) <= 2
  /\ p.send_file[1] = NoFile <=> Len(p.runs) = 0
  /\ p.send_file[2] = NoFile <=> Len(p.runs) < 2
  /\ Len(p.runs) = 2 => p.send_file[1] # p.send_file[2]

(* The fork status of a step of test functions, the item before them, and  *)
(* the jump buffer of the innermost run                                    *)
ModeOfStep(frame) ==
  /\ frame.step \in {"start", "setup", "setup_done"} => frame.item = 0
  /\ frame.step \in {"fn", "fn_done"} => frame.mode = "CK_NOFORK"
  /\ frame.step \in {"child", "child_done", "wait"} => frame.mode = "CK_FORK"

Jumps(p, top) ==
  /\ p.fstat = "CK_NOFORK" /\ top.step \in UserCode => p.error_jmp = <<top.id, top.step>>
  /\ top.step \in {"setup", "fn"} /\ ~top.ran => p.fstat = "CK_NOFORK"
  /\ top.step \in {"tests", "fn", "fn_done", "child", "child_done", "wait", "teardown"} =>
       /\ ~top.ran => p.fstat = top.mode
       /\ p.fstat = "CK_NOFORK" => top.mode = "CK_NOFORK"

Stack(p) ==
  /\ \A k \in 1 .. Len(p.runs) : ModeOfStep(p.runs[k])
  /\ Len(p.runs) = 2 => p.runs[1].id < p.runs[2].id /\ p.runs[1].step \in UserCode
  /\ p.runs # << >> => Jumps(p, p.runs[Len(p.runs)])

Actions(p) ==
  ~p.nested => /\ Len(p.runs) <= 1
               /\ p.old_action = "user"
               /\ p.runs = << >> => p.action = "user"

ProcOK(p) == p \in Memories /\ FilesOfRuns(p) /\ Stack(p) /\ Actions(p)

(* A process waits for the next one, whose stack begins with its own *)
Link(p, q) ==
  /\ Len(p.runs) >= 1 /\ Len(p.runs) <= Len(q.runs)
  /\ p.runs[Len(p.runs)].step = "wait"
  /\ q.runs[Len(p.runs)].step \in {"child", "child_done"}
  /\ \A k \in 1 .. Len(p.runs) :
       /\ p.runs[k].id = q.runs[k].id /\ p.runs[k].item = q.runs[k].item
       /\ p.send_file[k] = q.send_file[k]

ProcsInv ==
  /\ \A i \in 1 .. Len(procs) : ProcOK(procs[i])
  /\ \A i, j \in 1 .. Len(procs) : i < j => Link(procs[i], procs[j])

(* What a file holds, and what is known of the files and of the names *)
Holds(msgs, item, fl) ==
  /\ \A i \in 1 .. Len(msgs) : msgs[i].item = item
  /\ (\E i \in 1 .. Len(msgs) : msgs[i].kind = "fail") <=> item \in fl

Sent(p, fs, fl, n) ==
  \A k \in 1 .. Len(p.runs) :
    /\ p.runs[k].id <= n
    /\ Holds(fs[p.send_file[k]], <<p.runs[k].id, p.runs[k].item>>, fl)
    /\ \A i \in Nat : <<p.runs[k].id, i>> \in fl => i <= p.runs[k].item

Named(p, ns) ==
  \A k \in 1 .. 2 : p.send_file[k] # NoFile /\ ~p.named[k] => p.send_file[k] \notin ns

NestedInv ==
  /\ procs \in Seq(Memories) /\ files \in [1 .. MaxFiles -> Seq(Msgs)]
  /\ names \subseteq 1 .. MaxFiles /\ status \in Nat /\ nruns \in Nat
  /\ failed \subseteq Nat \X Nat
  /\ \A r, i \in Nat : <<r, i>> \in failed => r <= nruns
  /\ ProcsInv
  /\ \A i \in 1 .. Len(procs) : Sent(procs[i], files, failed, nruns) /\ Named(procs[i], names)
  /\ OwnResults
  /\ RunsLeaveNothing

-----------------------------------------------------------------------------
(* The end of a stack *)
LEMMA TopOf ==
  ASSUME NEW S, NEW s \in Seq(S), s # << >>
  PROVE  /\ Len(s) \in Nat /\ Len(s) >= 1 /\ Len(s) \in 1 .. Len(s)
         /\ Last(s) = s[Len(s)] /\ Last(s) \in S
         /\ Front(s) \in Seq(S) /\ Len(Front(s)) = Len(s) - 1
         /\ \A i \in 1 .. Len(s) - 1 : Front(s)[i] = s[i]
<1>1. PICK n \in Nat : Len(s) = n + 1
  <2>1. Len(s) \in Nat /\ Len(s) >= 1
    OBVIOUS
  <2>2. Len(s) - 1 \in Nat /\ Len(s) = (Len(s) - 1) + 1
    BY <2>1
  <2> QED BY <2>2, Zenon
<1>2. /\ SubSeq(s, 1, n) \in Seq(S) /\ Len(SubSeq(s, 1, n)) = n
      /\ \A i \in 1 .. n : SubSeq(s, 1, n)[i] = s[i]
  BY <1>1
<1>3. Front(s) = SubSeq(s, 1, n) /\ Len(s) - 1 = n
  BY <1>1 DEF Front
<1> QED BY <1>1, <1>2, <1>3 DEF Last

(* and with another one in its place *)
LEMMA Replaced ==
  ASSUME NEW S, NEW s \in Seq(S), s # << >>, NEW e \in S
  PROVE  /\ Append(Front(s), e) \in Seq(S) /\ Len(Append(Front(s), e)) = Len(s)
         /\ Append(Front(s), e)[Len(s)] = e
         /\ \A i \in 1 .. Len(s) - 1 : Append(Front(s), e)[i] = s[i]
<1>1. PICK n \in Nat : n = Len(s) /\ n >= 1
  OBVIOUS
<1>2. PICK f \in Seq(S) : f = Front(s) /\ Len(f) = n - 1 /\ \A i \in 1 .. n - 1 : f[i] = s[i]
  BY <1>1, TopOf
<1>3. /\ Append(f, e) \in Seq(S) /\ Len(Append(f, e)) = n /\ Append(f, e)[n] = e
      /\ \A i \in 1 .. n - 1 : Append(f, e)[i] = s[i]
  BY <1>1, <1>2
<1> QED BY <1>1, <1>2, <1>3

(* Two memories with the same runs at the same items and the same files *)
SameItems(p, q) ==
  /\ Len(p.runs) = Len(q.runs) /\ p.send_file = q.send_file
  /\ \A k \in 1 .. Len(p.runs) : p.runs[k].id = q.runs[k].id /\ p.runs[k].item = q.runs[k].item

TopFrame(p) == p.runs[Len(p.runs)]

(* The innermost run goes to another step of the same item *)
LEMMA TopChanges ==
  ASSUME NEW m, ProcOK(m), Len(m.runs) >= 1, NEW m2 \in Memories, NEW frame \in Frames,
         m2.runs = Append(Front(m.runs), frame), m2.send_file = m.send_file,
         m2.old_action = m.old_action, m2.nested = m.nested,
         frame.id = TopFrame(m).id, frame.item = TopFrame(m).item,
         ModeOfStep(frame), Jumps(m2, frame)
  PROVE  /\ ProcOK(m2) /\ SameItems(m, m2) /\ TopFrame(m2) = frame
         /\ \A k \in 1 .. Len(m.runs) - 1 : m2.runs[k] = m.runs[k]
<1>1. m.runs \in Seq(Frames) /\ m.runs # << >> /\ FilesOfRuns(m) /\ Stack(m) /\ Actions(m)
  BY DEF ProcOK, Memories
<1>2. PICK n \in Nat : n = Len(m.runs) /\ n >= 1 /\ n <= 2
  BY <1>1 DEF FilesOfRuns
<1>3. /\ Len(m2.runs) = n /\ m2.runs[n] = frame /\ \A i \in 1 .. n - 1 : m2.runs[i] = m.runs[i]
  BY <1>1, <1>2, Replaced
<1>4. m2.runs # << >> /\ m.runs # << >>
  BY <1>1, <1>2, <1>3
<1>5. FilesOfRuns(m2)
  BY <1>1, <1>2, <1>3, Zenon DEF FilesOfRuns
<1>6. Stack(m2)
  <2>1. \A k \in 1 .. n : ModeOfStep(m2.runs[k])
    <3>1. \A k \in 1 .. n : k = n \/ k \in 1 .. n - 1
      BY <1>2
    <3>2. \A k \in 1 .. n : ModeOfStep(m.runs[k])
      BY <1>1, <1>2, Zenon DEF Stack
    <3> QED BY <1>2, <1>3, <3>1, <3>2
  <2>2. n = 2 => m2.runs[1].id < m2.runs[2].id /\ m2.runs[1].step \in UserCode
    BY <1>1, <1>2, <1>3 DEF Stack, TopFrame
  <2> QED BY <1>3, <2>1, <2>2 DEF Stack
<1>7. Actions(m2)
  BY <1>1, <1>2, <1>3, <1>4, Zenon DEF Actions
<1>8. SameItems(m, m2)
  <2>1. \A k \in 1 .. n : k = n \/ k \in 1 .. n - 1
    BY <1>2
  <2> QED BY <1>2, <1>3, <2>1, Zenon DEF SameItems, TopFrame
<1> QED BY <1>2, <1>3, <1>5, <1>6, <1>7, <1>8 DEF ProcOK, TopFrame

-----------------------------------------------------------------------------
(* What a step of the innermost run within its item leaves alone: the runs *)
(* below it, and that it is the test for which the parent waits            *)
KeepsPlace(p, q) ==
  /\ \A k \in 1 .. Len(p.runs) - 1 : q.runs[k] = p.runs[k]
  /\ Len(p.runs) >= 1 /\ TopFrame(p).step \in {"child", "child_done"} =>
       TopFrame(q).step \in {"child", "child_done"}

(* A step within an item leaves the runs of a parent as they were for it *)
LEMMA LinkKept ==
  ASSUME NEW p \in Memories, NEW q \in Memories, NEW m \in Memories,
         Link(p, q), SameItems(q, m), KeepsPlace(q, m)
  PROVE  Link(p, m)
<1>1. PICK n, l \in Nat : n = Len(p.runs) /\ l = Len(q.runs) /\ n >= 1 /\ n <= l /\ l = Len(m.runs)
  BY DEF Link, SameItems, Memories
<1>2. m.runs[n].step \in {"child", "child_done"}
  <2>1. q.runs[n].step \in {"child", "child_done"}
    BY <1>1 DEF Link
  <2>2. CASE n = l
    BY <1>1, <2>1, <2>2 DEF KeepsPlace, TopFrame
  <2>3. CASE n # l
    <3>1. n \in 1 .. l - 1
      BY <1>1, <2>3
    <3> QED BY <1>1, <2>1, <3>1, Zenon DEF KeepsPlace
  <2> QED BY <2>2, <2>3
<1>3. \A k \in 1 .. n : k \in 1 .. l
  BY <1>1
<1> QED BY <1>1, <1>2, <1>3, Zenon DEF Link, SameItems

(* What was sent is about the items, wherever their runs are in them *)
LEMMA SentSame ==
  ASSUME NEW p, NEW m, NEW fs, NEW fl, NEW n, Sent(p, fs, fl, n), SameItems(p, m)
  PROVE  Sent(m, fs, fl, n)
<1>1. Len(m.runs) = Len(p.runs) /\ m.send_file = p.send_file
  BY DEF SameItems
<1>2. \A k \in 1 .. Len(p.runs) : m.runs[k].id = p.runs[k].id /\ m.runs[k].item = p.runs[k].item
  BY DEF SameItems
<1> QED BY <1>1, <1>2, Zenon DEF Sent

(* Of two runs, the one below the innermost is the first *)
LEMMA BelowTop ==
  ASSUME NEW l \in Nat, l <= 2, NEW k \in 1 .. l, k # l
  PROVE  k = 1 /\ l = 2
  OBVIOUS

(* A process is in at most two runs *)
LEMMA SmallNumber ==
  ASSUME NEW l \in {0, 1, 2}
  PROVE  l \in Nat /\ l <= 2
  OBVIOUS

(* The files and the failed items after the innermost run has sent a message *)
Sends(q, msg, fs, fl, fs2, fl2) ==
  /\ msg.item = <<TopFrame(q).id, TopFrame(q).item>>
  /\ fs2 = [fs EXCEPT ![q.send_file[Len(q.runs)]] = Append(@, msg)]
  /\ fl2 = IF msg.kind = "fail" THEN fl \cup {msg.item} ELSE fl

(* A message of the innermost run is in its file, and in no other one that *)
(* the process or one of those that wait for it has open                   *)
LEMMA SendKeeps ==
  ASSUME NEW p, NEW q, ProcOK(p), ProcOK(q), p = q \/ Link(p, q), Len(q.runs) >= 1,
         NEW fs \in [1 .. MaxFiles -> Seq(Msgs)], NEW fl \in SUBSET (Nat \X Nat), NEW n \in Nat,
         NEW msg \in Msgs, NEW fs2, NEW fl2, Sends(q, msg, fs, fl, fs2, fl2), Sent(p, fs, fl, n)
  PROVE  Sent(p, fs2, fl2, n)
<1>1. /\ p \in Memories /\ q \in Memories /\ FilesOfRuns(q) /\ Stack(q)
  BY DEF ProcOK
<1>2. PICK l \in Nat : l = Len(q.runs) /\ l >= 1 /\ l <= 2
  BY <1>1 DEF FilesOfRuns, Memories
<1>3. PICK g : g = q.send_file[l] /\ g \in 1 .. MaxFiles
  <2>1. q.send_file[1] \in FileNos /\ q.send_file[2] \in FileNos
    BY <1>1 DEF Memories
  <2>2. q.send_file[l] # NoFile /\ q.send_file[l] \in FileNos
    BY <1>1, <1>2, <2>1 DEF FilesOfRuns
  <2> QED BY <2>2, NestedRunsAssumption DEF FileNos, NoFile
<1>4. PICK old : old = fs[g] /\ old \in Seq(Msgs)
  BY <1>3
<1>5. fs2[g] = Append(old, msg) /\ \A f \in 1 .. MaxFiles : f # g => fs2[f] = fs[f]
  BY <1>2, <1>3, <1>4, Zenon DEF Sends
<1> SUFFICES ASSUME NEW k \in 1 .. Len(p.runs)
             PROVE  /\ p.runs[k].id <= n
                    /\ Holds(fs2[p.send_file[k]], <<p.runs[k].id, p.runs[k].item>>, fl2)
                    /\ \A i \in Nat : <<p.runs[k].id, i>> \in fl2 => i <= p.runs[k].item
  BY Zenon DEF Sent
<1>6. /\ p.runs[k].id <= n
      /\ Holds(fs[p.send_file[k]], <<p.runs[k].id, p.runs[k].item>>, fl)
      /\ \A i \in Nat : <<p.runs[k].id, i>> \in fl => i <= p.runs[k].item
  BY Zenon DEF Sent
<1>7. /\ k \in 1 .. l /\ p.runs[k].id = q.runs[k].id /\ p.runs[k].item = q.runs[k].item
      /\ p.send_file[k] = q.send_file[k]
  <2>1. CASE p = q
    BY <1>2, <2>1, Zenon
  <2>2. CASE Link(p, q)
    <3>1. Len(p.runs) \in Nat /\ Len(p.runs) <= l
      BY <1>1, <1>2, <2>2 DEF Link, Memories
    <3> QED BY <1>2, <2>2, <3>1 DEF Link
  <2> QED BY <2>1, <2>2
<1>8. q.runs[k].id \in Nat /\ q.runs[k].item \in Nat /\ q.runs[l].id \in Nat /\ q.runs[l].item \in Nat
  <2>1. q.runs[k] \in Frames /\ q.runs[l] \in Frames
    BY <1>1, <1>2, <1>7 DEF Memories
  <2> QED BY <2>1, Zenon DEF Frames
<1>9. PICK it : it = <<p.runs[k].id, p.runs[k].item>>
  BY Zenon
<1>10. CASE k = l
  <2>1. msg.item = it /\ p.send_file[k] = g
    BY <1>2, <1>3, <1>7, <1>9, <1>10, Zenon DEF TopFrame, Sends
  <2>2. Holds(old, it, fl)
    BY <1>4, <1>6, <1>9, <2>1, Zenon
  <2>3. Holds(Append(old, msg), it, fl2)
    <3>1. PICK c \in Nat : c = Len(old)
      BY <1>4
    <3>2. /\ Len(Append(old, msg)) = c + 1 /\ Append(old, msg)[c + 1] = msg
          /\ \A i \in 1 .. c : Append(old, msg)[i] = old[i]
      BY <1>4, <3>1
    <3>3. \A i \in 1 .. c + 1 : i \in 1 .. c \/ i = c + 1
      BY <3>1
    <3>4. \A i \in 1 .. c : i \in 1 .. c + 1
      BY <3>1
    <3>5. c + 1 \in 1 .. c + 1
      BY <3>1
    <3>6. \A i \in 1 .. c + 1 : Append(old, msg)[i].item = it
      BY <2>1, <2>2, <3>1, <3>2, <3>3 DEF Holds
    <3>7. (\E i \in 1 .. c + 1 : Append(old, msg)[i].kind = "fail") <=> it \in fl2
      BY <2>1, <2>2, <3>1, <3>2, <3>3, <3>4, <3>5, Zenon DEF Holds, Sends
    <3> QED BY <3>2, <3>6, <3>7, Zenon DEF Holds
  <2>4. \A i \in Nat : <<p.runs[k].id, i>> \in fl2 => i <= p.runs[k].item
    <3>1. ASSUME NEW i \in Nat, <<p.runs[k].id, i>> = it PROVE i <= p.runs[k].item
      BY <1>7, <1>8, <1>9, <3>1
    <3> QED BY <1>6, <2>1, <3>1, Zenon DEF Sends
  <2> QED BY <1>5, <1>6, <1>9, <2>1, <2>3, <2>4, Zenon
<1>11. CASE k # l
  <2>1. k = 1 /\ l = 2
    BY <1>2, <1>7, <1>11, BelowTop, Zenon
  <2>2. q.runs[k].id # q.runs[l].id /\ q.send_file[k] # g
    BY <1>1, <1>2, <1>3, <1>8, <2>1 DEF Stack, FilesOfRuns
  <2>3. q.send_file[k] \in 1 .. MaxFiles
    <3>1. q.send_file[1] \in FileNos /\ q.send_file[1] # NoFile
      BY <1>1, <1>2 DEF Memories, FilesOfRuns
    <3> QED BY <2>1, <3>1, NestedRunsAssumption DEF FileNos, NoFile
  <2>4. fs2[p.send_file[k]] = fs[p.send_file[k]]
    BY <1>5, <1>7, <2>2, <2>3, Zenon
  <2>5. \A i \in Nat : msg.item # <<p.runs[k].id, i>>
    BY <1>2, <1>7, <1>8, <2>2 DEF TopFrame, Sends
  <2>6. \A i \in Nat : <<p.runs[k].id, i>> \in fl2 <=> <<p.runs[k].id, i>> \in fl
    BY <2>5, Zenon DEF Sends
  <2>7. it \in fl2 <=> it \in fl
    BY <1>7, <1>8, <1>9, <2>6, Zenon
  <2>8. Holds(fs2[p.send_file[k]], it, fl2)
    BY <1>6, <1>9, <2>4, <2>7, Zenon DEF Holds
  <2> QED BY <1>6, <1>9, <2>6, <2>8
<1> QED BY <1>10, <1>11

-----------------------------------------------------------------------------
(* The active process and those that wait for it *)
LEMMA MemFacts ==
  ASSUME NestedInv, procs # << >>
  PROVE  /\ Len(procs) \in Nat /\ Len(procs) >= 1
         /\ Mem = procs[Len(procs)] /\ ProcOK(Mem)
         /\ Sent(Mem, files, failed, nruns) /\ Named(Mem, names)
         /\ Parents \in Seq(Memories) /\ Len(Parents) = Len(procs) - 1
         /\ \A i \in 1 .. Len(procs) - 1 :
              /\ Parents[i] = procs[i] /\ ProcOK(procs[i]) /\ Link(procs[i], Mem)
              /\ Sent(procs[i], files, failed, nruns) /\ Named(procs[i], names)
<1>1. procs \in Seq(Memories)
  BY DEF NestedInv
<1>2. PICK n \in Nat : n = Len(procs) /\ n >= 1 /\ n \in 1 .. n
  BY <1>1, TopOf
<1>3. /\ Mem = procs[n] /\ Parents \in Seq(Memories) /\ Len(Parents) = n - 1
      /\ \A i \in 1 .. n - 1 : Parents[i] = procs[i]
  BY <1>1, <1>2, TopOf DEF Mem, Parents
<1>4. \A i \in 1 .. n - 1 : i \in 1 .. n /\ i < n
  BY <1>2
<1>5. \A i \in 1 .. n : /\ ProcOK(procs[i]) /\ Sent(procs[i], files, failed, nruns)
                        /\ Named(procs[i], names)
  BY <1>2 DEF NestedInv, ProcsInv
<1>6. \A i \in 1 .. n - 1 : Link(procs[i], procs[n])
  BY <1>2, <1>4, Zenon DEF NestedInv, ProcsInv
<1> QED BY <1>2, <1>3, <1>4, <1>5, <1>6

(* The files that a process has open are those of its runs *)
LEMMA OpenMeans ==
  ASSUME NEW m, ProcOK(m)
  PROVE  /\ Len(m.runs) \in {0, 1, 2}
         /\ \A k \in 1 .. Len(m.runs) : m.send_file[k] \in 1 .. MaxFiles
         /\ OpenFiles(m) = {m.send_file[k] : k \in 1 .. Len(m.runs)}
<1>1. m.send_file \in FileNos \X FileNos /\ Len(m.runs) \in Nat /\ FilesOfRuns(m)
  BY DEF ProcOK, Memories
<1>2. ToSet(m.send_file) = {m.send_file[1], m.send_file[2]}
  <2>1. DOMAIN m.send_file = 1 .. 2
    BY <1>1
  <2> QED BY <2>1 DEF ToSet
<1>3. Len(m.runs) \in {0, 1, 2}
  <2>1. PICK l \in Nat : l = Len(m.runs)
    BY <1>1
  <2>2. l <= 2
    BY <1>1, <2>1 DEF FilesOfRuns
  <2>3. l \in {0, 1, 2}
    BY <2>2
  <2> QED BY <2>1, <2>3
<1>4. \A f \in FileNos : f # NoFile => f \in 1 .. MaxFiles
  BY NestedRunsAssumption DEF FileNos, NoFile
<1>5. CASE Len(m.runs) = 0
  <2>1. {m.send_file[k] : k \in 1 .. Len(m.runs)} = {}
    BY <1>5
  <2>2. OpenFiles(m) = {}
    BY <1>1, <1>2, <1>5 DEF OpenFiles, FilesOfRuns
  <2> QED BY <1>5, <2>1, <2>2
<1>6. CASE Len(m.runs) = 1
  <2>1. 1 .. Len(m.runs) = {1}
    BY <1>6
  <2>2. m.send_file[1] # NoFile /\ m.send_file[2] = NoFile
    BY <1>1, <1>6 DEF FilesOfRuns
  <2>3. OpenFiles(m) = {m.send_file[1]}
    BY <1>2, <2>2, Zenon DEF OpenFiles
  <2> QED BY <1>1, <1>4, <1>6, <2>1, <2>2, <2>3, Zenon
<1>7. CASE Len(m.runs) = 2
  <2>1. 1 .. Len(m.runs) = {1, 2}
    BY <1>7
  <2>2. m.send_file[1] # NoFile /\ m.send_file[2] # NoFile
    BY <1>1, <1>7 DEF FilesOfRuns
  <2>3. OpenFiles(m) = {m.send_file[1], m.send_file[2]}
    BY <1>2, <2>2, Zenon DEF OpenFiles
  <2> QED BY <1>1, <1>4, <1>7, <2>1, <2>2, <2>3, Zenon
<1> QED BY <1>3, <1>5, <1>6, <1>7, Zenon

-----------------------------------------------------------------------------
(* The processes that wait, as the files become fs and the names ns, and a *)
(* memory that may take the place of the active one                        *)
Kept(fs, fl, n, ns) ==
  \A i \in 1 .. Len(procs) - 1 : Sent(procs[i], fs, fl, n) /\ Named(procs[i], ns)

Joins(m, fs, fl, n, ns) ==
  /\ ProcOK(m) /\ Sent(m, fs, fl, n) /\ Named(m, ns)
  /\ \A i \in 1 .. Len(procs) - 1 : Link(procs[i], m)

ParentFiles == UNION {OpenFiles(p) : p \in ToSet(Parents)}

Histories(fs, ns, fl, n) ==
  /\ fs \in [1 .. MaxFiles -> Seq(Msgs)] /\ ns \subseteq 1 .. MaxFiles
  /\ fl \subseteq Nat \X Nat /\ n \in Nat
  /\ \A r, i \in Nat : <<r, i>> \in fl => r <= n

(* A step of the active process keeps the invariant if its world does *)
LEMMA WorldStep ==
  ASSUME NestedInv, procs # << >>, NEW w, Becomes(w),
         Histories(w.files, w.names, failed', nruns'),
         Kept(w.files, failed', nruns', w.names),
         w.m.end = "no" => Joins(w.m, w.files, failed', nruns', w.names),
         w.names \subseteq left \cup OpenFiles(w.m) \cup ParentFiles,
         OwnResults'
  PROVE  NestedInv'
<1>1. PICK n \in Nat : n = Len(procs) - 1 /\ Len(Parents) = n /\ Parents \in Seq(Memories)
  BY MemFacts
<1>2. \A i \in 1 .. n : Parents[i] = procs[i] /\ ProcOK(Parents[i])
  BY <1>1, MemFacts, Zenon
<1>3. \A i, j \in 1 .. n : i < j => Link(Parents[i], Parents[j])
  <2>1. \A i \in 1 .. n : i \in 1 .. Len(procs)
    BY <1>1, MemFacts
  <2> QED BY <1>2, <2>1, Zenon DEF NestedInv, ProcsInv
<1>4. files' = w.files /\ names' = w.names
  BY Zenon DEF Becomes
<1>5. /\ files' \in [1 .. MaxFiles -> Seq(Msgs)] /\ names' \subseteq 1 .. MaxFiles
      /\ nruns' \in Nat /\ failed' \subseteq Nat \X Nat
      /\ \A r, i \in Nat : <<r, i>> \in failed' => r <= nruns'
  BY <1>4, Zenon DEF Histories
<1>6. \A i \in 1 .. n : Sent(Parents[i], files', failed', nruns') /\ Named(Parents[i], names')
  BY <1>1, <1>2, <1>4, Zenon DEF Kept
<1>7. CASE w.m.end = "no"
  <2>1. procs' = Append(Parents, w.m) /\ status' = status /\ left' = left
    BY <1>7, Zenon DEF Becomes
  <2>2. /\ ProcOK(w.m) /\ Sent(w.m, files', failed', nruns') /\ Named(w.m, names')
        /\ \A i \in 1 .. n : Link(Parents[i], w.m)
    BY <1>1, <1>2, <1>4, <1>7, Zenon DEF Joins
  <2>3. w.m \in Memories
    BY <2>2, Zenon DEF ProcOK
  <2>4. /\ procs' \in Seq(Memories) /\ Len(procs') = n + 1 /\ procs'[n + 1] = w.m
        /\ \A i \in 1 .. n : procs'[i] = Parents[i]
    BY <1>1, <2>1, <2>3
  <2>5. \A i \in 1 .. n + 1 : i \in 1 .. n \/ i = n + 1
    BY <1>1
  <2>6. /\ \A i \in 1 .. n + 1 : ProcOK(procs'[i])
        /\ \A i \in 1 .. n + 1 : /\ Sent(procs'[i], files', failed', nruns')
                                /\ Named(procs'[i], names')
    BY <1>2, <1>6, <2>2, <2>4, <2>5, Zenon
  <2>7. ASSUME NEW i \in 1 .. n + 1, NEW j \in 1 .. n + 1, i < j
        PROVE  Link(procs'[i], procs'[j])
    <3>1. i \in 1 .. n
      BY <1>1, <2>7
    <3>2. CASE j \in 1 .. n
      BY <1>3, <2>4, <2>7, <3>1, <3>2, Zenon
    <3>3. CASE j = n + 1
      BY <2>2, <2>4, <3>1, <3>3, Zenon
    <3> QED BY <2>5, <3>2, <3>3, Zenon
  <2>8. ProcsInv'
    BY <2>4, <2>6, <2>7, Zenon DEF ProcsInv
  <2>9. status' \in Nat
    BY <2>1, Zenon DEF NestedInv
  <2>10. RunsLeaveNothing'
    <3>1. \A p \in ToSet(procs') : ProcOK(p)
      <4>1. DOMAIN procs' = 1 .. n + 1
        BY <2>4
      <4> QED BY <2>6, <4>1, Zenon DEF ToSet
    <3>2. OpenFiles(w.m) \subseteq UNION {OpenFiles(p) : p \in ToSet(procs')}
      <4>1. w.m \in ToSet(procs')
        <5>1. DOMAIN procs' = 1 .. n + 1 /\ n + 1 \in 1 .. n + 1
          BY <1>1, <2>4
        <5> QED BY <2>4, <5>1, Zenon DEF ToSet
      <4> QED BY <4>1, Zenon
    <3>3. ParentFiles \subseteq UNION {OpenFiles(p) : p \in ToSet(procs')}
      <4>1. ToSet(Parents) \subseteq ToSet(procs')
        <5>1. DOMAIN procs' = 1 .. n + 1 /\ DOMAIN Parents = 1 .. n
          BY <1>1, <2>4
        <5>2. \A i \in 1 .. n : i \in 1 .. n + 1
          BY <1>1
        <5> QED BY <2>4, <5>1, <5>2, Zenon DEF ToSet
      <4> QED BY <4>1, Zenon DEF ParentFiles
    <3>4. names' \subseteq left' \cup UNION {OpenFiles(p) : p \in ToSet(procs')}
      BY <1>4, <2>1, <3>2, <3>3, Zenon
    <3>5. \A p \in ToSet(procs') :
            ~p.nested => p.old_action = "user" /\ (p.runs = << >> => p.action = "user")
      BY <3>1, Zenon DEF ProcOK, Actions
    <3> QED BY <3>4, <3>5, Zenon DEF RunsLeaveNothing
  <2> QED BY <1>5, <2>4, <2>6, <2>8, <2>9, <2>10, Zenon DEF NestedInv
<1>8. CASE w.m.end # "no"
  <2>1. /\ procs' = Parents /\ status' = EndStatus(w.m)
        /\ left' = left \cup (OpenFiles(w.m) \ ParentFiles)
    BY <1>8 DEF Becomes, ParentFiles
  <2>2. status' \in Nat
    BY <2>1 DEF EndStatus
  <2>3. ProcsInv'
    BY <1>1, <1>2, <1>3, <2>1, Zenon DEF ProcsInv
  <2>4. RunsLeaveNothing'
    <3>1. \A p \in ToSet(Parents) : ProcOK(p)
      <4>1. DOMAIN Parents = 1 .. n
        BY <1>1
      <4> QED BY <1>2, <4>1, Zenon DEF ToSet
    <3>2. names' \subseteq left' \cup ParentFiles
      BY <1>4, <2>1, Zenon
    <3>3. \A p \in ToSet(Parents) :
            ~p.nested => p.old_action = "user" /\ (p.runs = << >> => p.action = "user")
      BY <3>1 DEF ProcOK, Actions
    <3> QED BY <2>1, <3>2, <3>3, Zenon DEF RunsLeaveNothing, ParentFiles
  <2> QED BY <1>1, <1>5, <1>6, <2>1, <2>2, <2>3, <2>4, Zenon DEF NestedInv
<1> QED BY <1>7, <1>8, Zenon

(* The open files are those of the active process and of the others *)
LEMMA AllFiles ==
  ASSUME NestedInv, procs # << >>
  PROVE  /\ UNION {OpenFiles(p) : p \in ToSet(procs)} = OpenFiles(Mem) \cup ParentFiles
         /\ names \subseteq left \cup OpenFiles(Mem) \cup ParentFiles
         /\ \A i \in 1 .. Len(procs) - 1 : OpenFiles(procs[i]) \subseteq ParentFiles
<1>1. PICK n \in Nat : n = Len(procs) - 1 /\ Len(Parents) = n /\ Len(procs) = n + 1
  BY MemFacts
<1>2. DOMAIN procs = 1 .. n + 1 /\ DOMAIN Parents = 1 .. n
  <2>1. procs \in Seq(Memories) /\ Parents \in Seq(Memories)
    BY MemFacts DEF NestedInv
  <2> QED BY <1>1, <2>1
<1>3. \A i \in 1 .. n + 1 : i \in 1 .. n \/ i = n + 1
  BY <1>1
<1>4. (\A i \in 1 .. n : i \in 1 .. n + 1) /\ n + 1 \in 1 .. n + 1
  BY <1>1
<1>5. procs[n + 1] = Mem /\ \A i \in 1 .. n : Parents[i] = procs[i]
  BY <1>1, MemFacts, Zenon
<1>6. ToSet(procs) = ToSet(Parents) \cup {Mem}
  BY <1>2, <1>3, <1>4, <1>5 DEF ToSet
<1>7. UNION {OpenFiles(p) : p \in ToSet(procs)} = OpenFiles(Mem) \cup ParentFiles
  BY <1>6, Zenon DEF ParentFiles
<1>8. names \subseteq left \cup UNION {OpenFiles(p) : p \in ToSet(procs)}
  BY Zenon DEF NestedInv, RunsLeaveNothing
<1>9. \A i \in 1 .. n : procs[i] \in ToSet(Parents)
  BY <1>2, <1>5 DEF ToSet
<1> QED BY <1>1, <1>7, <1>8, <1>9, Zenon DEF ParentFiles

-----------------------------------------------------------------------------
(* A step within the item of the innermost run: the runs and their files   *)
(* stay, and at most a message is sent                                     *)
LEMMA ItemStep ==
  ASSUME NestedInv, procs # << >>, NEW w, Becomes(w), UNCHANGED <<nruns, got>>,
         w.names = names, w.m.send_file = Mem.send_file,
         w.m.end = "no" => /\ ProcOK(w.m) /\ SameItems(Mem, w.m) /\ KeepsPlace(Mem, w.m)
                           /\ w.m.named = Mem.named,
         \/ w.files = files /\ failed' = failed
         \/ /\ Len(Mem.runs) >= 1
            /\ \E msg \in Msgs : Sends(Mem, msg, files, failed, w.files, failed')
  PROVE  NestedInv'
<1>1. /\ ProcOK(Mem) /\ Sent(Mem, files, failed, nruns) /\ Named(Mem, names)
      /\ \A i \in 1 .. Len(procs) - 1 :
           /\ ProcOK(procs[i]) /\ Link(procs[i], Mem)
           /\ Sent(procs[i], files, failed, nruns) /\ Named(procs[i], names)
  BY MemFacts, Zenon
<1>2. /\ files \in [1 .. MaxFiles -> Seq(Msgs)] /\ names \subseteq 1 .. MaxFiles
      /\ nruns \in Nat /\ failed \in SUBSET (Nat \X Nat)
      /\ \A r, i \in Nat : <<r, i>> \in failed => r <= nruns
  BY Zenon DEF NestedInv
<1>3. nruns' = nruns /\ got' = got
  BY Zenon
<1>4. /\ Sent(Mem, w.files, failed', nruns)
      /\ \A i \in 1 .. Len(procs) - 1 : Sent(procs[i], w.files, failed', nruns)
      /\ Histories(w.files, w.names, failed', nruns)
  <2>1. CASE w.files = files /\ failed' = failed
    BY <1>1, <1>2, <2>1, Zenon DEF Histories
  <2>2. CASE /\ Len(Mem.runs) >= 1
             /\ \E msg \in Msgs : Sends(Mem, msg, files, failed, w.files, failed')
    <3>1. PICK msg \in Msgs : Sends(Mem, msg, files, failed, w.files, failed')
      BY <2>2
    <3>2. Sent(Mem, w.files, failed', nruns)
      BY <1>1, <1>2, <2>2, <3>1, SendKeeps, Zenon
    <3>3. ASSUME NEW i \in 1 .. Len(procs) - 1
          PROVE  Sent(procs[i], w.files, failed', nruns)
      <4>1. /\ ProcOK(procs[i]) /\ Link(procs[i], Mem)
            /\ Sent(procs[i], files, failed, nruns)
        BY <1>1, Zenon
      <4>2. PICK p : p = procs[i]
        BY Zenon
      <4> QED BY <1>1, <1>2, <2>2, <3>1, <4>1, <4>2, SendKeeps, Zenon
    <3>4. PICK g \in 1 .. MaxFiles : g = Mem.send_file[Len(Mem.runs)]
      <4>1. Len(Mem.runs) \in 1 .. Len(Mem.runs)
        BY <1>1, <2>2, OpenMeans
      <4> QED BY <1>1, <4>1, OpenMeans, Zenon
    <3>5. w.files \in [1 .. MaxFiles -> Seq(Msgs)]
      <4>1. w.files = [files EXCEPT ![g] = Append(files[g], msg)]
        BY <3>1, <3>4, Zenon DEF Sends
      <4>2. Append(files[g], msg) \in Seq(Msgs)
        BY <1>2, <3>4
      <4> QED BY <1>2, <4>1, <4>2, Zenon
    <3>6. failed' \subseteq failed \cup {msg.item} /\ msg.item \in Nat \X Nat
      BY <3>1, Zenon DEF Sends, Msgs
    <3>7. \A r, i \in Nat : <<r, i>> = msg.item => r <= nruns
      <4>1. msg.item = <<TopFrame(Mem).id, TopFrame(Mem).item>> /\ TopFrame(Mem).id <= nruns
        <5>1. Len(Mem.runs) \in 1 .. Len(Mem.runs)
          BY <1>1, <2>2, OpenMeans
        <5> QED BY <1>1, <3>1, <5>1, Zenon DEF Sends, Sent, TopFrame
      <4> QED BY <4>1
    <3>8. \A r, i \in Nat : <<r, i>> \in failed' => r <= nruns
      BY <1>2, <3>6, <3>7, Zenon
    <3>9. Histories(w.files, w.names, failed', nruns)
      BY <1>2, <3>5, <3>6, <3>8, Zenon DEF Histories
    <3> QED BY <3>2, <3>3, <3>9, Zenon
  <2> QED BY <2>1, <2>2, Zenon
<1>5. Kept(w.files, failed', nruns', w.names)
  BY <1>1, <1>3, <1>4, Zenon DEF Kept
<1>6. ASSUME w.m.end = "no" PROVE Joins(w.m, w.files, failed', nruns', w.names)
  <2>1. /\ ProcOK(w.m) /\ SameItems(Mem, w.m) /\ KeepsPlace(Mem, w.m)
        /\ w.m.named = Mem.named
    BY <1>6
  <2>2. Sent(w.m, w.files, failed', nruns)
    BY <1>4, <2>1, SentSame, Zenon
  <2>3. Named(w.m, w.names)
    BY <1>1, <2>1 DEF Named
  <2>4. ASSUME NEW i \in 1 .. Len(procs) - 1 PROVE Link(procs[i], w.m)
    <3>1. procs[i] \in Memories /\ Mem \in Memories /\ w.m \in Memories /\ Link(procs[i], Mem)
      BY <1>1, <2>1, Zenon DEF ProcOK
    <3> QED BY <2>1, <3>1, LinkKept, Zenon
  <2> QED BY <1>3, <2>1, <2>2, <2>3, <2>4, Zenon DEF Joins
<1>7. w.names \subseteq left \cup OpenFiles(w.m) \cup ParentFiles
  <2>1. OpenFiles(w.m) = OpenFiles(Mem)
    BY Zenon DEF OpenFiles
  <2> QED BY <2>1, AllFiles, Zenon
<1>8. OwnResults'
  BY <1>3, Zenon DEF NestedInv, OwnResults
<1> QED BY <1>3, <1>4, <1>5, <1>6, <1>7, <1>8, WorldStep, Zenon

-----------------------------------------------------------------------------
(* The innermost run and its file *)
LEMMA TopFacts ==
  ASSUME NestedInv, procs # << >>, Mem.runs # << >>
  PROVE  /\ Mem \in Memories /\ Mem.runs \in Seq(Frames)
         /\ Len(Mem.runs) \in {1, 2} /\ Len(Mem.runs) \in 1 .. Len(Mem.runs)
         /\ Top = TopFrame(Mem) /\ Top = Mem.runs[Len(Mem.runs)] /\ Top \in Frames
         /\ Top.id \in Nat /\ Top.item \in Nat /\ Top.id <= nruns /\ Item \in Nat \X Nat
         /\ get_pipe(Mem) = Mem.send_file[Len(Mem.runs)] /\ get_pipe(Mem) \in 1 .. MaxFiles
         /\ ModeOfStep(Top) /\ Jumps(Mem, Top)
<1>1. ProcOK(Mem) /\ Sent(Mem, files, failed, nruns)
  BY MemFacts, Zenon
<1>2. Mem \in Memories /\ Mem.runs \in Seq(Frames) /\ FilesOfRuns(Mem) /\ Stack(Mem)
  BY <1>1 DEF ProcOK, Memories
<1>3. Len(Mem.runs) \in {1, 2}
  <2>1. Len(Mem.runs) \in {0, 1, 2} /\ Len(Mem.runs) >= 1
    BY <1>1, <1>2, OpenMeans, TopOf, Zenon
  <2> QED BY <2>1
<1>4. Len(Mem.runs) \in 1 .. Len(Mem.runs)
  BY <1>3
<1>5. Top = Mem.runs[Len(Mem.runs)] /\ Top \in Frames
  BY <1>2, TopOf, Zenon DEF Top
<1>6. Top.id \in Nat /\ Top.item \in Nat
  BY <1>5 DEF Frames
<1>7. Top.id <= nruns
  BY <1>1, <1>4, <1>5, Zenon DEF Sent
<1>8. get_pipe(Mem) = Mem.send_file[Len(Mem.runs)]
  BY <1>2, <1>3 DEF FilesOfRuns, get_pipe
<1>9. get_pipe(Mem) \in 1 .. MaxFiles
  BY <1>1, <1>4, <1>8, OpenMeans, Zenon
<1>10. ModeOfStep(Top) /\ Jumps(Mem, Top)
  BY <1>2, <1>4, <1>5, Zenon DEF Stack
<1> QED BY <1>2, <1>3, <1>4, <1>5, <1>6, <1>7, <1>8, <1>9, <1>10, Zenon DEF Item, TopFrame

(* A message of the innermost run goes to its file *)
LEMMA SendIs ==
  ASSUME NestedInv, procs # << >>, Mem.runs # << >>, NEW m, m.send_file = Mem.send_file,
         NEW kind \in {"ctx", "fail", "duration"}, NEW w, w = send(World(m), Item, kind),
         NEW fl, fl = IF kind = "fail" THEN failed \cup {Item} ELSE failed
  PROVE  /\ w.m = m /\ w.names = names /\ Len(Mem.runs) >= 1
         /\ \E msg \in Msgs : Sends(Mem, msg, files, failed, w.files, fl)
<1>1. get_pipe(m) = Mem.send_file[Len(Mem.runs)] /\ get_pipe(m) # NoFile
  <2>1. get_pipe(m) = get_pipe(Mem)
    BY Zenon DEF get_pipe
  <2> QED BY <2>1, TopFacts DEF NoFile
<1> DEFINE msg == [item |-> Item, kind |-> kind]
           g == Mem.send_file[Len(Mem.runs)]
<1>2. msg \in Msgs /\ msg.item = Item /\ msg.kind = kind
  BY TopFacts DEF Msgs
<1>3. w = [World(m) EXCEPT !.files[g] = Append(@, msg)]
  BY <1>1, Zenon DEF send, World
<1>4. w.m = m /\ w.names = names /\ w.files = [files EXCEPT ![g] = Append(@, msg)]
  BY <1>3, Zenon DEF World
<1>5. Item = <<TopFrame(Mem).id, TopFrame(Mem).item>>
  BY TopFacts, Zenon DEF Item
<1> HIDE DEF msg
<1>6. Sends(Mem, msg, files, failed, w.files, fl)
  BY <1>2, <1>4, <1>5, Zenon DEF Sends
<1>7. Len(Mem.runs) >= 1
  BY TopFacts
<1> QED BY <1>2, <1>4, <1>6, <1>7, Zenon

(* A memory whose innermost run is at another step of its item *)
LEMMA TopStep ==
  ASSUME NestedInv, procs # << >>, Mem.runs # << >>, NEW frame \in Frames, NEW m \in Memories,
         m.runs = Append(Front(Mem.runs), frame), m.send_file = Mem.send_file,
         m.named = Mem.named, m.old_action = Mem.old_action, m.nested = Mem.nested,
         frame.id = Top.id, frame.item = Top.item,
         ModeOfStep(frame), Jumps(m, frame),
         Top.step \in {"child", "child_done"} => frame.step \in {"child", "child_done"}
  PROVE  /\ ProcOK(m) /\ SameItems(Mem, m) /\ KeepsPlace(Mem, m) /\ m.named = Mem.named
         /\ m.send_file = Mem.send_file /\ m.end = "no"
<1>1. /\ ProcOK(Mem) /\ Len(Mem.runs) >= 1 /\ Top = TopFrame(Mem)
  BY MemFacts, TopFacts
<1>2. /\ ProcOK(m) /\ SameItems(Mem, m) /\ TopFrame(m) = frame
      /\ \A k \in 1 .. Len(Mem.runs) - 1 : m.runs[k] = Mem.runs[k]
  BY <1>1, TopChanges, Zenon
<1>3. KeepsPlace(Mem, m)
  BY <1>1, <1>2, Zenon DEF KeepsPlace
<1>4. m.end = "no"
  BY Zenon DEF Memories
<1> QED BY <1>2, <1>3, <1>4, Zenon

(* The library comes to user code: it announces the context in the file *)
LEMMA Announces ==
  ASSUME NestedInv, procs # << >>, Mem.runs # << >>, NEW step \in Steps, NEW m \in Memories,
         m.runs = Append(Front(Mem.runs), [Top EXCEPT !.step = step]),
         m.send_file = Mem.send_file, m.named = Mem.named,
         m.old_action = Mem.old_action, m.nested = Mem.nested,
         ModeOfStep([Top EXCEPT !.step = step]), Jumps(m, [Top EXCEPT !.step = step]),
         Top.step \notin {"child", "child_done"},
         Becomes(send(World(m), Item, "ctx")), UNCHANGED <<nruns, failed, got>>
  PROVE  NestedInv'
<1>1. PICK frame : frame = [Top EXCEPT !.step = step]
  OBVIOUS
<1>2. frame \in Frames /\ frame.id = Top.id /\ frame.item = Top.item
  BY <1>1, TopFacts, Zenon DEF Frames
<1>3. /\ ProcOK(m) /\ SameItems(Mem, m) /\ KeepsPlace(Mem, m) /\ m.named = Mem.named
      /\ m.send_file = Mem.send_file /\ m.end = "no"
  BY <1>1, <1>2, TopStep, Zenon
<1>4. PICK w : w = send(World(m), Item, "ctx")
  OBVIOUS
<1>5. failed' = failed /\ UNCHANGED <<nruns, got>>
  OBVIOUS
<1>6. /\ w.m = m /\ w.names = names /\ Len(Mem.runs) >= 1
      /\ \E msg \in Msgs : Sends(Mem, msg, files, failed, w.files, failed')
  BY <1>3, <1>4, <1>5, SendIs
<1> QED BY <1>3, <1>4, <1>5, <1>6, ItemStep, Zenon

(* srunner_run_unchecked_setup(), tcase_run_tfun_nofork() and               *)
(* srunner_run_unchecked_teardown() up to the user's function               *)
LEMMA FunctionsBegin ==
  ASSUME NestedInv,
         \/ srunner_run_unchecked_setup \/ tcase_run_tfun_nofork
         \/ srunner_run_unchecked_teardown
  PROVE  NestedInv'
<1>0. procs # << >> /\ Mem.runs # << >> /\ Top.step \in {"start", "tests"}
  BY Zenon DEF srunner_run_unchecked_setup, tcase_run_tfun_nofork,
         srunner_run_unchecked_teardown, At
<1>1. /\ Mem \in Memories /\ Mem.runs \in Seq(Frames) /\ Top \in Frames /\ Top.id \in Nat
      /\ Jumps(Mem, Top) /\ ModeOfStep(Top)
  BY <1>0, TopFacts
<1>2. ASSUME NEW step \in Steps
      PROVE  /\ [Top EXCEPT !.step = step] \in Frames
             /\ [Top EXCEPT !.step = step].step = step
             /\ [Top EXCEPT !.step = step].id = Top.id
             /\ [Top EXCEPT !.step = step].mode = Top.mode
             /\ [Top EXCEPT !.step = step].ran = Top.ran
             /\ [Top EXCEPT !.step = step].item = Top.item
             /\ Append(Front(Mem.runs), [Top EXCEPT !.step = step]) \in Seq(Frames)
  <2>1. [Top EXCEPT !.step = step] \in Frames
    BY <1>1, Zenon DEF Frames
  <2> QED BY <1>0, <1>1, <2>1, Replaced, Zenon DEF Frames
<1>3. CASE srunner_run_unchecked_setup
  <2> DEFINE m == [WithTop(Mem, [Top EXCEPT !.step = "setup"]) EXCEPT
                     !.fstat = "CK_NOFORK", !.error_jmp = <<Top.id, "setup">>]
             frame == [Top EXCEPT !.step = "setup"]
  <2>1. "setup" \in Steps
    BY DEF Steps, UserCode
  <2>2. frame.step = "setup" /\ frame.id = Top.id /\ frame.item = Top.item
    BY <1>2, <2>1
  <2>3. /\ m \in Memories /\ m.runs = Append(Front(Mem.runs), frame)
        /\ m.send_file = Mem.send_file /\ m.named = Mem.named
        /\ m.old_action = Mem.old_action /\ m.nested = Mem.nested
        /\ m.fstat = "CK_NOFORK" /\ m.error_jmp = <<Top.id, "setup">>
    BY <1>1, <1>2, <2>1, Zenon DEF Memories, WithTop, Statuses
  <2>4. Becomes(send(World(m), Item, "ctx")) /\ UNCHANGED <<nruns, failed, got>>
    BY <1>3 DEF srunner_run_unchecked_setup
  <2>5. Top.step = "start"
    BY <1>3 DEF srunner_run_unchecked_setup, At
  <2> HIDE DEF m, frame
  <2>6. ModeOfStep(frame) /\ Jumps(m, frame)
    BY <1>1, <2>2, <2>3, <2>5, Zenon DEF ModeOfStep, Jumps
  <2> QED BY <1>0, <2>1, <2>3, <2>4, <2>6, Announces, Zenon DEF frame
<1>4. CASE tcase_run_tfun_nofork
  <2> DEFINE m == [WithTop(Mem, [Top EXCEPT !.step = "fn"]) EXCEPT
                     !.error_jmp = <<Top.id, "fn">>]
             frame == [Top EXCEPT !.step = "fn"]
  <2>1. "fn" \in Steps
    BY DEF Steps, UserCode
  <2>2. frame.step = "fn" /\ frame.id = Top.id /\ frame.mode = Top.mode /\ frame.ran = Top.ran
    BY <1>2, <2>1
  <2>3. /\ m \in Memories /\ m.runs = Append(Front(Mem.runs), frame)
        /\ m.send_file = Mem.send_file /\ m.named = Mem.named
        /\ m.old_action = Mem.old_action /\ m.nested = Mem.nested
        /\ m.fstat = Mem.fstat /\ m.error_jmp = <<Top.id, "fn">>
    BY <1>1, <1>2, <2>1, Zenon DEF Memories, WithTop
  <2>4. Becomes(send(World(m), Item, "ctx")) /\ UNCHANGED <<nruns, failed, got>>
    BY <1>4 DEF tcase_run_tfun_nofork
  <2>5. Top.mode = "CK_NOFORK" /\ Top.step = "tests"
    BY <1>4 DEF tcase_run_tfun_nofork, At
  <2> HIDE DEF m, frame
  <2>6. ModeOfStep(frame) /\ Jumps(m, frame)
    BY <1>1, <2>2, <2>3, <2>5, Zenon DEF ModeOfStep, Jumps
  <2> QED BY <1>0, <2>1, <2>3, <2>4, <2>6, Announces, Zenon DEF frame
<1>5. CASE srunner_run_unchecked_teardown
  <2> DEFINE m == [WithTop(Mem, [Top EXCEPT !.step = "teardown"]) EXCEPT
                     !.error_jmp = IF Top.mode = "CK_NOFORK" THEN <<Top.id, "teardown">> ELSE @]
             frame == [Top EXCEPT !.step = "teardown"]
  <2>1. "teardown" \in Steps
    BY DEF Steps, UserCode
  <2>2. /\ frame.step = "teardown" /\ frame.id = Top.id
        /\ frame.mode = Top.mode /\ frame.ran = Top.ran
    BY <1>2, <2>1
  <2>3. /\ m \in Memories /\ m.runs = Append(Front(Mem.runs), frame)
        /\ m.send_file = Mem.send_file /\ m.named = Mem.named
        /\ m.old_action = Mem.old_action /\ m.nested = Mem.nested
        /\ m.fstat = Mem.fstat
        /\ Top.mode = "CK_NOFORK" => m.error_jmp = <<Top.id, "teardown">>
    BY <1>1, <1>2, <2>1, Zenon DEF Memories, WithTop
  <2>4. Becomes(send(World(m), Item, "ctx")) /\ UNCHANGED <<nruns, failed, got>>
    BY <1>5 DEF srunner_run_unchecked_teardown
  <2>5. Top.step = "tests"
    BY <1>5 DEF srunner_run_unchecked_teardown, At
  <2> HIDE DEF m, frame
  <2>6. ModeOfStep(frame) /\ Jumps(m, frame)
    BY <1>1, <2>2, <2>3, <2>5, Zenon DEF ModeOfStep, Jumps
  <2> QED BY <1>0, <2>1, <2>3, <2>4, <2>6, Announces, Zenon DEF frame
<1> QED BY <1>3, <1>4, <1>5

(* The memory after user code in a run has returned *)
LEMMA AfterUser ==
  ASSUME NestedInv, procs # << >>, Mem.runs # << >>, Top.step \in UserCode,
         NEW m, m = WithTop(Mem, [Top EXCEPT !.step = AfterUserCode[@]])
  PROVE  /\ ProcOK(m) /\ SameItems(Mem, m) /\ KeepsPlace(Mem, m) /\ m.named = Mem.named
         /\ m.send_file = Mem.send_file /\ m.end = "no"
<1>1. /\ Mem \in Memories /\ Mem.runs \in Seq(Frames) /\ Top \in Frames
      /\ ModeOfStep(Top) /\ Jumps(Mem, Top)
  BY TopFacts
<1>2. PICK step : step = AfterUserCode[Top.step]
  OBVIOUS
<1>3. /\ Top.step = "setup" => step = "setup_done"
      /\ Top.step = "fn" => step = "fn_done"
      /\ Top.step = "child" => step = "child_done"
      /\ Top.step = "teardown" => step = "end"
      /\ step \in {"setup_done", "fn_done", "child_done", "end"}
  BY <1>2 DEF AfterUserCode, UserCode
<1>4. step \in Steps
  BY <1>3 DEF Steps
<1>5. PICK frame : frame = [Top EXCEPT !.step = step]
  BY Zenon
<1>6. /\ frame \in Frames /\ frame.id = Top.id /\ frame.item = Top.item /\ frame.step = step
      /\ frame.mode = Top.mode /\ frame.ran = Top.ran
  BY <1>1, <1>4, <1>5, Zenon DEF Frames
<1>7. m = [Mem EXCEPT !.runs = Append(Front(@), frame)]
  BY <1>2, <1>5 DEF WithTop
<1>8. /\ m \in Memories /\ m.runs = Append(Front(Mem.runs), frame)
      /\ m.send_file = Mem.send_file /\ m.named = Mem.named
      /\ m.old_action = Mem.old_action /\ m.nested = Mem.nested /\ m.fstat = Mem.fstat
  <2>1. Append(Front(Mem.runs), frame) \in Seq(Frames)
    BY <1>1, <1>6, Replaced
  <2> QED BY <1>1, <1>7, <2>1, Zenon DEF Memories
<1>9. ModeOfStep(frame)
  BY <1>1, <1>3, <1>6, Zenon DEF ModeOfStep, UserCode
<1>10. Jumps(m, frame)
  BY <1>1, <1>3, <1>6, <1>8, Zenon DEF Jumps, UserCode
<1>11. Top.step \in {"child", "child_done"} => frame.step \in {"child", "child_done"}
  BY <1>3, <1>6, Zenon DEF UserCode
<1> QED BY <1>6, <1>8, <1>9, <1>10, <1>11, TopStep, Zenon

-----------------------------------------------------------------------------
(* The program itself ends outside of any run *)
LEMMA MainEnds ==
  ASSUME NestedInv, procs # << >>, Mem.runs = << >>, NEW w, Becomes(w), w.m.end # "no",
         w.files = files, w.names = names, w.m.send_file = Mem.send_file,
         failed' = failed \/ failed' = failed \cup {<<0, 0>>}, UNCHANGED <<nruns, got>>
  PROVE  NestedInv'
<1>1. /\ files \in [1 .. MaxFiles -> Seq(Msgs)] /\ names \subseteq 1 .. MaxFiles
      /\ nruns \in Nat /\ failed \in SUBSET (Nat \X Nat)
      /\ \A r, i \in Nat : <<r, i>> \in failed => r <= nruns
  BY Zenon DEF NestedInv
<1>2. ASSUME NEW i \in 1 .. Len(procs) - 1 PROVE FALSE
  <2>1. Len(procs[i].runs) >= 1 /\ Len(procs[i].runs) <= 0
    BY MemFacts, Zenon DEF Link
  <2>2. Len(procs[i].runs) \in {0, 1, 2}
    BY MemFacts, OpenMeans, Zenon
  <2> QED BY <2>1, <2>2
<1>3. Kept(w.files, failed', nruns', w.names)
  BY <1>2 DEF Kept
<1>4. Histories(w.files, w.names, failed', nruns')
  <2>1. failed' \subseteq Nat \X Nat
    BY <1>1
  <2>2. \A r, i \in Nat : <<r, i>> \in failed' => r <= nruns
    <3>1. \A r, i \in Nat : <<r, i>> = <<0, 0>> => r <= nruns
      BY <1>1
    <3> QED BY <1>1, <3>1, Zenon
  <2> QED BY <1>1, <2>1, <2>2, Zenon DEF Histories
<1>5. w.names \subseteq left \cup OpenFiles(w.m) \cup ParentFiles
  <2>1. OpenFiles(w.m) = OpenFiles(Mem)
    BY Zenon DEF OpenFiles
  <2> QED BY <2>1, AllFiles, Zenon
<1>6. OwnResults'
  BY DEF NestedInv, OwnResults
<1> QED BY <1>3, <1>4, <1>5, <1>6, WorldStep, Zenon

(* longjmp() comes back behind the user code that has failed *)
LEMMA JumpsBack ==
  ASSUME NestedInv, procs # << >>, Mem.runs # << >>, Top.step \in UserCode,
         Mem.fstat = "CK_NOFORK"
  PROVE  longjmp(Mem) = WithTop(Mem, [Top EXCEPT !.step = AfterUserCode[@]])
<1>1. /\ Mem.runs \in Seq(Frames) /\ Top = Mem.runs[Len(Mem.runs)] /\ Jumps(Mem, Top)
      /\ ProcOK(Mem)
  BY MemFacts, TopFacts, Zenon
<1>2. PICK l \in Nat : l = Len(Mem.runs) /\ l >= 1 /\ l <= 2
  BY TopFacts
<1>3. DOMAIN Mem.runs = 1 .. l /\ l \in 1 .. l
  BY <1>1, <1>2
<1>4. Mem.error_jmp = <<Top.id, Top.step>>
  BY <1>1, Zenon DEF Jumps
<1>5. ASSUME NEW i \in 1 .. l, i # l PROVE Mem.runs[i].id # Top.id
  <2>1. i = 1 /\ l = 2
    BY <1>2, <1>5, BelowTop, Zenon
  <2>2. Mem.runs[1].id < Mem.runs[2].id
    BY <1>1, <1>2, <2>1, Zenon DEF ProcOK, Stack
  <2>3. Mem.runs[1].id \in Nat /\ Mem.runs[2].id \in Nat
    <3>1. 1 \in 1 .. 2 /\ 2 \in 1 .. 2 /\ Len(Mem.runs) = 2
      BY <1>2, <2>1
    <3>2. Mem.runs[1] \in Frames /\ Mem.runs[2] \in Frames
      BY <1>1, <3>1
    <3> QED BY <3>2, Zenon DEF Frames
  <2> QED BY <1>1, <1>2, <2>1, <2>2, <2>3
<1>6. JumpTargets(Mem) = {l}
  <2>1. <<Mem.runs[l].id, Mem.runs[l].step>> = Mem.error_jmp
    BY <1>1, <1>2, <1>4, Zenon
  <2>2. \A i \in 1 .. l : <<Mem.runs[i].id, Mem.runs[i].step>> = Mem.error_jmp => i = l
    BY <1>4, <1>5
  <2> QED BY <1>3, <2>1, <2>2, Zenon DEF JumpTargets
<1>7. (CHOOSE j \in JumpTargets(Mem) : TRUE) = l
  BY <1>6, Zenon
<1>8. SubSeq(Mem.runs, 1, l - 1) = Front(Mem.runs)
  BY <1>2 DEF Front
<1>9. PICK frame : frame = [Top EXCEPT !.step = AfterUserCode[@]]
  BY Zenon
<1>10. longjmp(Mem) = [Mem EXCEPT !.runs = Append(SubSeq(@, 1, l - 1), frame)]
  BY <1>1, <1>2, <1>6, <1>7, <1>9, Zenon DEF longjmp
<1> QED BY <1>8, <1>9, <1>10, Zenon DEF WithTop

(* User code returns, and the program may end *)
LEMMA UserReturns ==
  ASSUME NestedInv, user_returns
  PROVE  NestedInv'
<1>1. procs # << >> /\ UNCHANGED <<nruns, failed, got>>
  BY Zenon DEF user_returns, InUserCode
<1>2. CASE Mem.runs = << >>
  <2>1. PICK w : w = [World(Mem) EXCEPT !.m.end = "exit"]
    BY Zenon
  <2>2. Becomes(w)
    BY <1>2, <2>1 DEF user_returns
  <2>3. /\ w.m.end # "no" /\ w.files = files /\ w.names = names
        /\ w.m.send_file = Mem.send_file
    <3>1. Mem \in Memories
      BY <1>1, MemFacts, Zenon DEF ProcOK
    <3> QED BY <2>1, <3>1, Zenon DEF World, Memories
  <2> QED BY <1>1, <1>2, <2>2, <2>3, MainEnds, Zenon
<1>3. CASE Mem.runs # << >>
  <2>1. Top.step \in UserCode
    BY <1>3 DEF user_returns, InUserCode, UserCode
  <2>2. PICK m : m = WithTop(Mem, [Top EXCEPT !.step = AfterUserCode[@]])
    OBVIOUS
  <2>3. /\ ProcOK(m) /\ SameItems(Mem, m) /\ KeepsPlace(Mem, m) /\ m.named = Mem.named
        /\ m.send_file = Mem.send_file /\ m.end = "no"
    BY <1>1, <1>3, <2>1, <2>2, AfterUser, Zenon
  <2>4. PICK w : w = World(m)
    OBVIOUS
  <2>5. Becomes(w)
    BY <1>3, <2>2, <2>4, Zenon DEF user_returns
  <2>6. w.m = m /\ w.files = files /\ w.names = names
    BY <2>4, Zenon DEF World
  <2> QED BY <1>1, <2>3, <2>5, <2>6, ItemStep, Zenon
<1> QED BY <1>2, <1>3

(* User code has SIGCHLD ignored *)
LEMMA SigchldIgnored ==
  ASSUME NestedInv, ignore_sigchld
  PROVE  NestedInv'
<1>1. procs # << >> /\ UNCHANGED <<nruns, failed, got>>
  BY Zenon DEF ignore_sigchld, InUserCode
<1>2. ProcOK(Mem)
  BY <1>1, MemFacts
<1>3. PICK m : m = [Mem EXCEPT !.sigchld = "ignored"]
  BY Zenon
<1>4. /\ m \in Memories /\ m.runs = Mem.runs /\ m.send_file = Mem.send_file
      /\ m.named = Mem.named /\ m.nested = Mem.nested /\ m.old_action = Mem.old_action
      /\ m.action = Mem.action /\ m.fstat = Mem.fstat /\ m.error_jmp = Mem.error_jmp
      /\ m.end = "no"
  BY <1>2, <1>3, Zenon DEF ProcOK, Memories
<1>5. ProcOK(m)
  <2>1. FilesOfRuns(m) /\ Actions(m)
    BY <1>2, <1>4, Zenon DEF ProcOK, FilesOfRuns, Actions
  <2>2. Stack(m)
    BY <1>2, <1>4, Zenon DEF ProcOK, Stack, Jumps
  <2> QED BY <1>4, <2>1, <2>2, Zenon DEF ProcOK
<1>6. SameItems(Mem, m) /\ KeepsPlace(Mem, m)
  BY <1>4 DEF SameItems, KeepsPlace, TopFrame
<1>7. PICK w : w = World(m)
  OBVIOUS
<1>8. Becomes(w) /\ w.m = m /\ w.files = files /\ w.names = names
  BY <1>3, <1>7, Zenon DEF ignore_sigchld, World
<1> QED BY <1>1, <1>4, <1>5, <1>6, <1>8, ItemStep, Zenon

(* The child of a test ends *)
LEMMA ChildEnds ==
  ASSUME NestedInv, child_done
  PROVE  NestedInv'
<1>1. procs # << >> /\ Mem.runs # << >> /\ UNCHANGED <<nruns, failed, got>>
  BY DEF child_done, At
<1>2. PICK v : v = send(World(Mem), Item, "duration")
  BY Zenon
<1>3. /\ v.m = Mem /\ v.names = names /\ Len(Mem.runs) >= 1
      /\ \E msg \in Msgs : Sends(Mem, msg, files, failed, v.files, failed')
  BY <1>1, <1>2, SendIs, Zenon
<1>4. PICK w : w = [v EXCEPT !.m.end = "exit"]
  BY Zenon
<1>5. Becomes(w)
  BY <1>2, <1>4 DEF child_done
<1>6. /\ w.m.end # "no" /\ w.m.send_file = Mem.send_file
      /\ w.names = v.names /\ w.files = v.files
  <2>1. Mem \in Memories
    BY <1>1, TopFacts, Zenon
  <2>2. v = [World(Mem) EXCEPT !.files[get_pipe(Mem)]
                                 = Append(@, [item |-> Item, kind |-> "duration"])]
    <3>1. get_pipe(Mem) # NoFile /\ World(Mem).m = Mem
      BY <1>1, TopFacts DEF NoFile, World
    <3> QED BY <1>2, <3>1, Zenon DEF send
  <2>3. PICK fs : v = [m |-> Mem, files |-> fs, names |-> names]
    BY <2>2, Zenon DEF World
  <2> QED BY <1>4, <2>1, <2>3, Zenon DEF Memories
<1> QED BY <1>1, <1>3, <1>5, <1>6, ItemStep, Zenon

(* An assertion fails: in main(), in a process of its own, or in a function *)
(* of the runner's process                                                  *)
LEMMA AssertFails ==
  ASSUME NestedInv, ck_assert_failed
  PROVE  NestedInv'
<1>1. procs # << >> /\ UNCHANGED <<nruns, got>>
  BY Zenon DEF ck_assert_failed, InUserCode
<1>2. ProcOK(Mem) /\ Mem \in Memories /\ FilesOfRuns(Mem)
  BY <1>1, MemFacts, Zenon DEF ProcOK
<1>3. CASE Mem.runs = << >>
  <2>1. get_pipe(Mem) = NoFile
    <3>1. Len(Mem.runs) = 0
      BY <1>3
    <3> QED BY <1>2, <3>1 DEF FilesOfRuns, get_pipe
  <2>2. PICK w : w = [World(Mem) EXCEPT !.m.end = "eprintf"]
    BY Zenon
  <2>3. send(World(Mem), <<0, 0>>, "fail") = w
    BY <2>1, <2>2 DEF send, World
  <2>4. /\ w.m.end # "no" /\ w.files = files /\ w.names = names
        /\ w.m.send_file = Mem.send_file
    BY <1>2, <2>2 DEF World, Memories
  <2>5. Becomes(w) /\ failed' = failed \cup {<<0, 0>>}
    BY <1>3, <2>3, <2>4, Zenon DEF ck_assert_failed
  <2> QED BY <1>1, <1>3, <2>4, <2>5, MainEnds, Zenon
<1>4. CASE Mem.runs # << >>
  <2>1. Top.step \in UserCode
    BY <1>4 DEF ck_assert_failed, InUserCode, UserCode
  <2>2. PICK v : v = send(World(Mem), Item, "fail")
    OBVIOUS
  <2>3. failed' = failed \cup {Item}
    BY <1>4 DEF ck_assert_failed
  <2>4. /\ v.m = Mem /\ v.names = names /\ Len(Mem.runs) >= 1
        /\ \E msg \in Msgs : Sends(Mem, msg, files, failed, v.files, failed')
    BY <1>1, <1>4, <2>2, <2>3, SendIs, Zenon
  <2>5. PICK fs : v = [m |-> Mem, files |-> fs, names |-> names]
    <3>1. get_pipe(Mem) # NoFile /\ World(Mem).m = Mem
      BY <1>1, <1>4, TopFacts DEF NoFile, World
    <3>2. v = [World(Mem) EXCEPT !.files[get_pipe(Mem)]
                                   = Append(@, [item |-> Item, kind |-> "fail"])]
      BY <2>2, <3>1 DEF send
    <3> QED BY <3>2, Zenon DEF World
  <2>6. v.m.end = "no"
    BY <1>2, <2>4, Zenon DEF Memories
  <2>7. CASE Mem.fstat = "CK_FORK"
    <3>1. PICK w : w = [v EXCEPT !.m.end = "_exit"]
      BY Zenon
    <3>2. Becomes(w)
      BY <1>4, <2>2, <2>6, <2>7, <3>1, Zenon DEF ck_assert_failed
    <3>3. /\ w.m.end # "no" /\ w.m.send_file = Mem.send_file
          /\ w.names = v.names /\ w.files = v.files
      BY <1>2, <2>5, <3>1, Zenon DEF Memories
    <3> QED BY <1>1, <2>4, <3>2, <3>3, ItemStep, Zenon
  <2>8. CASE Mem.fstat # "CK_FORK"
    <3>1. Mem.fstat = "CK_NOFORK"
      BY <1>2, <2>8, Zenon DEF Memories, Statuses
    <3>2. PICK m : m = WithTop(Mem, [Top EXCEPT !.step = AfterUserCode[@]])
      OBVIOUS
    <3>3. longjmp(Mem) = m
      BY <1>1, <1>4, <2>1, <3>1, <3>2, JumpsBack, Zenon
    <3>4. /\ ProcOK(m) /\ SameItems(Mem, m) /\ KeepsPlace(Mem, m) /\ m.named = Mem.named
          /\ m.send_file = Mem.send_file /\ m.end = "no"
      BY <1>1, <1>4, <2>1, <3>2, AfterUser, Zenon
    <3>5. PICK w : w = [v EXCEPT !.m = m]
      BY Zenon
    <3>6. [v EXCEPT !.m = longjmp(@)] = w
      BY <2>4, <3>3, <3>5, Zenon
    <3>7. Becomes(w)
      BY <1>4, <2>2, <2>6, <2>8, <3>6, Zenon DEF ck_assert_failed
    <3>8. w.m = m /\ w.names = v.names /\ w.files = v.files
      BY <2>5, <3>5
    <3> QED BY <1>1, <2>4, <3>4, <3>7, <3>8, ItemStep, Zenon
  <2> QED BY <2>7, <2>8
<1> QED BY <1>3, <1>4

(* tcase_run_tfun_fork(): the parent waits for a child at the same item *)
LEMMA TestForks ==
  ASSUME NestedInv, tcase_run_tfun_fork
  PROVE  NestedInv'
<1>1. /\ procs # << >> /\ Mem.runs # << >> /\ Top.step = "tests" /\ Top.mode = "CK_FORK"
      /\ UNCHANGED <<names, status, nruns, failed, got, left>>
  BY Zenon DEF tcase_run_tfun_fork, At
<1>2. /\ Mem \in Memories /\ Mem.runs \in Seq(Frames) /\ Top \in Frames /\ Jumps(Mem, Top)
      /\ get_pipe(Mem) = Mem.send_file[Len(Mem.runs)] /\ get_pipe(Mem) \in 1 .. MaxFiles
      /\ Len(Mem.runs) \in 1 .. Len(Mem.runs) /\ Len(Mem.runs) >= 1
      /\ Top = TopFrame(Mem) /\ Top.id <= nruns /\ Item \in Nat \X Nat
  BY <1>1, TopFacts
<1>3. ASSUME NEW step \in {"wait", "child"}, NEW m, m = WithTop(Mem, [Top EXCEPT !.step = step])
      PROVE  /\ ProcOK(m) /\ SameItems(Mem, m) /\ KeepsPlace(Mem, m) /\ m.named = Mem.named
             /\ m.send_file = Mem.send_file /\ TopFrame(m).step = step
  <2>1. step \in Steps
    BY <1>3 DEF Steps, UserCode
  <2>2. PICK frame : frame = [Top EXCEPT !.step = step]
    BY Zenon
  <2>3. /\ frame \in Frames /\ frame.id = Top.id /\ frame.item = Top.item
        /\ frame.step = step /\ frame.mode = "CK_FORK" /\ frame.ran = Top.ran
    BY <1>1, <1>2, <2>1, <2>2, Zenon DEF Frames
  <2>4. /\ Append(Front(Mem.runs), frame) \in Seq(Frames)
        /\ Len(Append(Front(Mem.runs), frame)) = Len(Mem.runs)
        /\ Append(Front(Mem.runs), frame)[Len(Mem.runs)] = frame
    BY <1>1, <1>2, <2>3, Replaced
  <2>5. /\ m \in Memories /\ m.runs = Append(Front(Mem.runs), frame)
        /\ m.send_file = Mem.send_file /\ m.named = Mem.named
        /\ m.old_action = Mem.old_action /\ m.nested = Mem.nested /\ m.fstat = Mem.fstat
    BY <1>2, <1>3, <2>2, <2>4, Zenon DEF Memories, WithTop
  <2>6. ModeOfStep(frame)
    BY <1>3, <2>3 DEF ModeOfStep
  <2>7. Mem.fstat # "CK_NOFORK" /\ (~Top.ran => Mem.fstat = "CK_FORK")
    BY <1>1, <1>2, Zenon DEF Jumps
  <2>8. Jumps(m, frame)
    BY <1>3, <2>3, <2>5, <2>7, Zenon DEF Jumps
  <2>9. /\ ProcOK(m) /\ SameItems(Mem, m) /\ KeepsPlace(Mem, m)
    BY <1>1, <2>3, <2>5, <2>6, <2>8, TopStep, Zenon
  <2> QED BY <2>3, <2>4, <2>5, <2>9, Zenon DEF TopFrame
<1> DEFINE parent == WithTop(Mem, [Top EXCEPT !.step = "wait"])
           child == WithTop(Mem, [Top EXCEPT !.step = "child"])
           msg == [item |-> Item, kind |-> "ctx"]
<1>4. procs' = Append(Parents, parent) \o <<child>>
  BY Zenon DEF tcase_run_tfun_fork
<1>5. files' = [files EXCEPT ![get_pipe(Mem)] = Append(@, msg)]
  BY DEF tcase_run_tfun_fork
<1>6. /\ ProcOK(parent) /\ SameItems(Mem, parent) /\ KeepsPlace(Mem, parent)
      /\ parent.named = Mem.named /\ parent.send_file = Mem.send_file
      /\ TopFrame(parent).step = "wait"
  BY <1>3
<1>7. /\ ProcOK(child) /\ SameItems(Mem, child) /\ KeepsPlace(Mem, child)
      /\ child.named = Mem.named /\ child.send_file = Mem.send_file
      /\ TopFrame(child).step = "child"
  BY <1>3, Zenon
<1>8. msg \in Msgs /\ Sends(Mem, msg, files, failed, files', failed)
  <2>1. msg \in Msgs /\ msg.kind = "ctx" /\ msg.item = <<Top.id, Top.item>>
    BY <1>2, Zenon DEF Msgs, Item
  <2> HIDE DEF msg
  <2> QED BY <1>2, <1>5, <2>1, Zenon DEF Sends
<1> HIDE DEF parent, child, msg
<1>9. PICK n \in Nat : n = Len(procs) - 1 /\ Len(Parents) = n /\ Parents \in Seq(Memories)
  BY <1>1, MemFacts
<1>10. /\ ProcOK(Mem) /\ Sent(Mem, files, failed, nruns) /\ Named(Mem, names)
       /\ \A i \in 1 .. n :
            /\ Parents[i] = procs[i] /\ ProcOK(procs[i]) /\ Link(procs[i], Mem)
            /\ Sent(procs[i], files, failed, nruns) /\ Named(procs[i], names)
  BY <1>1, <1>9, MemFacts, Zenon
<1>11. /\ files \in [1 .. MaxFiles -> Seq(Msgs)] /\ nruns \in Nat
       /\ failed \in SUBSET (Nat \X Nat)
  BY DEF NestedInv
<1>12. files' \in [1 .. MaxFiles -> Seq(Msgs)]
  <2>1. PICK g \in 1 .. MaxFiles : g = get_pipe(Mem)
    BY <1>2, Zenon
  <2>2. Append(files[g], msg) \in Seq(Msgs)
    BY <1>8, <1>11, <2>1
  <2> QED BY <1>5, <1>11, <2>1, <2>2, Zenon
<1>13. Sent(Mem, files', failed, nruns)
  BY <1>2, <1>8, <1>10, <1>11, SendKeeps, Zenon
<1>14. ASSUME NEW i \in 1 .. n PROVE Sent(procs[i], files', failed, nruns)
  <2>1. PICK p : p = procs[i] /\ ProcOK(p) /\ Link(p, Mem) /\ Sent(p, files, failed, nruns)
    BY <1>10, Zenon
  <2> QED BY <1>2, <1>8, <1>10, <1>11, <2>1, SendKeeps, Zenon
<1>15. /\ parent \in Memories /\ child \in Memories
       /\ Sent(parent, files', failed, nruns) /\ Sent(child, files', failed, nruns)
       /\ Named(parent, names) /\ Named(child, names)
  BY <1>6, <1>7, <1>10, <1>13, SentSame, Zenon DEF ProcOK, Named
<1>16. ASSUME NEW i \in 1 .. n PROVE Link(procs[i], parent) /\ Link(procs[i], child)
  <2>1. procs[i] \in Memories /\ Mem \in Memories /\ Link(procs[i], Mem)
    BY <1>10, Zenon DEF ProcOK
  <2> QED BY <1>6, <1>7, <1>15, <2>1, LinkKept, Zenon
<1>17. Link(parent, child)
  <2>1. Len(parent.runs) = Len(Mem.runs) /\ Len(child.runs) = Len(Mem.runs)
    BY <1>6, <1>7, Zenon DEF SameItems
  <2>2. parent.send_file = child.send_file
    BY <1>6, <1>7, Zenon
  <2>3. \A k \in 1 .. Len(Mem.runs) :
          parent.runs[k].id = child.runs[k].id /\ parent.runs[k].item = child.runs[k].item
    BY <1>6, <1>7, <2>1, Zenon DEF SameItems
  <2>4. Len(parent.runs) >= 1 /\ Len(parent.runs) <= Len(child.runs)
    BY <1>2, <2>1
  <2> QED BY <1>6, <1>7, <2>1, <2>2, <2>3, <2>4, Zenon DEF Link, TopFrame
<1>18. /\ procs' \in Seq(Memories) /\ Len(procs') = n + 2
       /\ procs'[n + 1] = parent /\ procs'[n + 2] = child
       /\ \A i \in 1 .. n : procs'[i] = procs[i]
  <2>1. PICK s \in Seq(Memories) : /\ s = Append(Parents, parent) /\ Len(s) = n + 1
                                   /\ s[n + 1] = parent /\ \A i \in 1 .. n : s[i] = Parents[i]
    <3>1. /\ Append(Parents, parent) \in Seq(Memories) /\ Len(Append(Parents, parent)) = n + 1
          /\ Append(Parents, parent)[n + 1] = parent
          /\ \A i \in 1 .. n : Append(Parents, parent)[i] = Parents[i]
      BY <1>9, <1>15
    <3> QED BY <3>1, Zenon
  <2>2. PICK t \in Seq(Memories) : t = <<child>> /\ Len(t) = 1 /\ t[1] = child
    <3>1. <<child>> \in Seq(Memories) /\ Len(<<child>>) = 1 /\ <<child>>[1] = child
      BY <1>15
    <3> QED BY <3>1, Zenon
  <2>3. /\ s \o t \in Seq(Memories) /\ Len(s \o t) = n + 2 /\ (s \o t)[n + 2] = child
        /\ \A i \in 1 .. n + 1 : (s \o t)[i] = s[i]
    BY <1>9, <2>1, <2>2
  <2>4. (\A i \in 1 .. n : i \in 1 .. n + 1) /\ n + 1 \in 1 .. n + 1
    BY <1>9
  <2> QED BY <1>4, <1>10, <2>1, <2>2, <2>3, <2>4, Zenon
<1>19. \A i \in 1 .. n + 2 : i \in 1 .. n \/ i = n + 1 \/ i = n + 2
  BY <1>9
<1>20. \A i \in 1 .. n + 2 : /\ ProcOK(procs'[i]) /\ Sent(procs'[i], files', failed, nruns)
                            /\ Named(procs'[i], names)
  BY <1>6, <1>7, <1>10, <1>14, <1>15, <1>18, <1>19, Zenon
<1>21. ASSUME NEW i \in 1 .. n + 2, NEW j \in 1 .. n + 2, i < j
       PROVE  Link(procs'[i], procs'[j])
  <2>1. CASE j \in 1 .. n
    <3>1. i \in 1 .. n /\ i \in 1 .. Len(procs) /\ j \in 1 .. Len(procs)
      BY <1>9, <1>21, <2>1
    <3> QED BY <1>18, <1>21, <2>1, <3>1, Zenon DEF NestedInv, ProcsInv
  <2>2. CASE j = n + 1
    <3>1. i \in 1 .. n
      BY <1>9, <1>21, <2>2
    <3> QED BY <1>16, <1>18, <2>2, <3>1, Zenon
  <2>3. CASE j = n + 2
    <3>1. i \in 1 .. n \/ i = n + 1
      BY <1>9, <1>21, <2>3
    <3> QED BY <1>16, <1>17, <1>18, <2>3, <3>1, Zenon
  <2> QED BY <1>19, <2>1, <2>2, <2>3, Zenon
<1>22. ProcsInv'
  BY <1>18, <1>20, <1>21, Zenon DEF ProcsInv
<1>23. \A i \in 1 .. Len(procs') : Sent(procs'[i], files', failed', nruns') /\ Named(procs'[i], names')
  BY <1>1, <1>18, <1>20, Zenon
<1>24. RunsLeaveNothing'
  <2>1. DOMAIN procs' = 1 .. n + 2 /\ n + 1 \in 1 .. n + 2
    BY <1>9, <1>18
  <2>2. \A p \in ToSet(procs') :
          ~p.nested => p.old_action = "user" /\ (p.runs = << >> => p.action = "user")
    BY <1>20, <2>1, Zenon DEF ToSet, ProcOK, Actions
  <2>3. OpenFiles(parent) = OpenFiles(Mem)
    BY <1>6, Zenon DEF OpenFiles
  <2>4. parent \in ToSet(procs')
    BY <1>18, <2>1, Zenon DEF ToSet
  <2>5. OpenFiles(Mem) \subseteq UNION {OpenFiles(p) : p \in ToSet(procs')}
    BY <2>3, <2>4, Zenon
  <2>6. ParentFiles \subseteq UNION {OpenFiles(p) : p \in ToSet(procs')}
    <3>1. DOMAIN Parents = 1 .. n /\ \A i \in 1 .. n : i \in 1 .. n + 2
      BY <1>9
    <3>2. ToSet(Parents) \subseteq ToSet(procs')
      BY <1>10, <1>18, <2>1, <3>1, Zenon DEF ToSet
    <3> QED BY <3>2, Zenon DEF ParentFiles
  <2>7. names \subseteq left \cup OpenFiles(Mem) \cup ParentFiles
    BY <1>1, AllFiles, Zenon
  <2>8. names' \subseteq left' \cup UNION {OpenFiles(p) : p \in ToSet(procs')}
    BY <1>1, <2>5, <2>6, <2>7, Zenon
  <2> QED BY <2>2, <2>8, Zenon DEF RunsLeaveNothing
<1>25. OwnResults'
  BY <1>1, Zenon DEF NestedInv, OwnResults
<1>26. /\ names' \subseteq 1 .. MaxFiles /\ status' \in Nat /\ nruns' \in Nat
       /\ failed' \subseteq Nat \X Nat
       /\ \A r, i \in Nat : <<r, i>> \in failed' => r <= nruns'
  BY <1>1, Zenon DEF NestedInv
<1> QED BY <1>12, <1>18, <1>22, <1>23, <1>24, <1>25, <1>26, Zenon DEF NestedInv

-----------------------------------------------------------------------------
(* One component of a pair is replaced *)
LEMMA PairExcept ==
  ASSUME NEW A, NEW x \in A \X A, NEW v \in A
  PROVE  /\ [x EXCEPT ![1] = v] = <<v, x[2]>> /\ [x EXCEPT ![2] = v] = <<x[1], v>>
         /\ \A s \in {1, 2} : /\ [x EXCEPT ![s] = v] \in A \X A
                              /\ [x EXCEPT ![s] = v][s] = v
                              /\ \A t \in {1, 2} : t # s => [x EXCEPT ![s] = v][t] = x[t]
<1>1. DOMAIN x = 1 .. 2 /\ x = <<x[1], x[2]>> /\ x[1] \in A /\ x[2] \in A
  OBVIOUS
<1>2. [x EXCEPT ![1] = v] = <<v, x[2]>>
  BY <1>1
<1>3. [x EXCEPT ![2] = v] = <<x[1], v>>
  BY <1>1
<1> QED BY <1>1, <1>2, <1>3

(* The two slots of pipe files *)
Slots == {1, 2}
Flags == BOOLEAN

(* A memory with another file, or none, in a slot *)
WithFile(m, slot, f, named) ==
  [m EXCEPT !.send_file = [m.send_file EXCEPT ![slot] = f],
            !.named = [m.named EXCEPT ![slot] = named]]

(* q is m with file f in a slot *)
HasFile(q, m, slot, f, b) ==
  /\ q \in Memories /\ q.send_file[slot] = f /\ q.named[slot] = b
  /\ \A t \in {1, 2} : t # slot => /\ q.send_file[t] = m.send_file[t]
                                   /\ q.named[t] = m.named[t]
  /\ q.runs = m.runs /\ q.fstat = m.fstat /\ q.error_jmp = m.error_jmp
  /\ q.action = m.action /\ q.old_action = m.old_action /\ q.nested = m.nested
  /\ q.sigchld = m.sigchld /\ q.end = m.end

(* What open_tmp_file() and close_tmp_file() leave alone of a memory *)
LEMMA WithFileIs ==
  ASSUME NEW m \in Memories, NEW slot \in Slots, NEW f \in FileNos, NEW b \in Flags,
         NEW q, q = WithFile(m, slot, f, b)
  PROVE  /\ HasFile(q, m, slot, f, b)
         /\ \A f2, b2 : WithFile(q, slot, f2, b2) = WithFile(m, slot, f2, b2)
<1> USE DEF Slots, Flags
<1>1. m.send_file \in FileNos \X FileNos /\ m.named \in BOOLEAN \X BOOLEAN
  BY DEF Memories
<1>2. PICK sf : sf = [m.send_file EXCEPT ![slot] = f]
  BY Zenon
<1>3. PICK nm : nm = [m.named EXCEPT ![slot] = b]
  BY Zenon
<1>4. /\ sf \in FileNos \X FileNos /\ sf[slot] = f
      /\ \A t \in {1, 2} : t # slot => sf[t] = m.send_file[t]
  BY <1>1, <1>2, PairExcept
<1>5. /\ nm \in BOOLEAN \X BOOLEAN /\ nm[slot] = b
      /\ \A t \in {1, 2} : t # slot => nm[t] = m.named[t]
  BY <1>1, <1>3, PairExcept
<1>6. q = [m EXCEPT !.send_file = sf, !.named = nm]
  BY <1>2, <1>3 DEF WithFile
<1>7. /\ q \in Memories /\ q.send_file = sf /\ q.named = nm
      /\ q.runs = m.runs /\ q.fstat = m.fstat /\ q.error_jmp = m.error_jmp
      /\ q.action = m.action /\ q.old_action = m.old_action /\ q.nested = m.nested
      /\ q.sigchld = m.sigchld /\ q.end = m.end
  BY <1>4, <1>5, <1>6, Zenon DEF Memories
<1>8. ASSUME NEW f2, NEW b2 PROVE WithFile(q, slot, f2, b2) = WithFile(m, slot, f2, b2)
  <2>1. [sf EXCEPT ![slot] = f2] = [m.send_file EXCEPT ![slot] = f2]
    BY <1>1, <1>2
  <2>2. [nm EXCEPT ![slot] = b2] = [m.named EXCEPT ![slot] = b2]
    BY <1>1, <1>3
  <2> QED BY <1>6, <1>7, <2>1, <2>2, Zenon DEF WithFile, Memories
<1> QED BY <1>4, <1>5, <1>7, <1>8 DEF HasFile

(* A world, and teardown_pipe() in one whose innermost run has a file *)
Worlds(m, fs, ns) == [m |-> m, files |-> fs, names |-> ns]

(* teardown_pipe() closes the file of the innermost run and unlinks it *)
LEMMA Closes ==
  ASSUME NestedInv, procs # << >>, Mem.runs # << >>, NEW m \in Memories,
         m.send_file = Mem.send_file, m.named = Mem.named,
         NEW l \in Slots, l = Len(Mem.runs), NEW v, v = teardown_pipe(World(m))
  PROVE  \E ns : /\ v = Worlds(WithFile(m, l, NoFile, FALSE), files, ns)
                 /\ ns \subseteq names /\ Mem.send_file[l] \notin ns
                 /\ names \subseteq ns \cup {Mem.send_file[l]}
<1> USE DEF Slots, Flags
<1>1. FilesOfRuns(Mem) /\ Named(Mem, names)
  BY MemFacts, Zenon DEF ProcOK
<1>2. m.send_file[l] # NoFile /\ (l = 1 => m.send_file[2] = NoFile)
  BY <1>1 DEF FilesOfRuns
<1>3. v = close_tmp_file(World(m), l)
  <2>1. World(m).m = m
    BY DEF World
  <2>2. CASE l = 1
    BY <1>2, <2>1, <2>2, Zenon DEF teardown_pipe
  <2>3. CASE l = 2
    BY <1>2, <2>1, <2>3 DEF teardown_pipe
  <2> QED BY <2>2, <2>3
<1>4. PICK ns : ns = IF m.named[l] THEN names \ {m.send_file[l]} ELSE names
  BY Zenon
<1>5. v = Worlds(WithFile(m, l, NoFile, FALSE), files, ns)
  BY <1>3, <1>4, Zenon DEF close_tmp_file, World, Worlds, WithFile, Memories
<1>6. ~m.named[l] => m.send_file[l] \notin names
  <2>1. l \in 1 .. 2
    OBVIOUS
  <2> QED BY <1>1, <1>2, <2>1, Zenon DEF Named
<1>7. PICK g : g = m.send_file[l] /\ g = Mem.send_file[l]
  BY Zenon
<1>8. ns \subseteq names /\ g \notin ns /\ names \subseteq ns \cup {g}
  <2>1. CASE m.named[l]
    BY <1>4, <1>7, <2>1, Zenon
  <2>2. CASE ~m.named[l]
    BY <1>4, <1>6, <1>7, <2>2, Zenon
  <2> QED BY <2>1, <2>2, Zenon
<1> QED BY <1>5, <1>7, <1>8, Zenon

(* setup_pipe() in a world with a free slot: it fails, or finds a new file *)
Opened(w, m, slot, ns) ==
  \E f \in FreeFiles, b \in Flags : \E ns2 :
    /\ w = Worlds(WithFile(m, slot, f, b), [files EXCEPT ![f] = << >>], ns2)
    /\ ns2 = IF b THEN ns \cup {f} ELSE ns

(* setup_pipe() opens a file in the next slot, or ends in eprintf() *)
LEMMA Opens ==
  ASSUME NEW m \in Memories, NEW slot \in Slots, m.send_file[slot] = NoFile,
         slot = 2 => m.send_file[1] # NoFile, NEW ns, NEW how,
         NEW w, w = setup_pipe(Worlds(m, files, ns), how)
  PROVE  \/ w = Worlds([m EXCEPT !.end = "eprintf"], files, ns)
         \/ Opened(w, m, slot, ns)
<1> USE DEF Slots, Flags
<1> DEFINE v == Worlds(m, files, ns)
<1>1. v.m = m /\ v.files = files /\ v.names = ns
  BY Zenon DEF Worlds
<1>2. w = open_tmp_file(v, slot, how)
  <2>2. CASE slot = 1
    BY <1>1, <2>2 DEF setup_pipe
  <2>3. CASE slot = 2
    BY <1>1, <2>3 DEF setup_pipe
  <2> QED BY <2>2, <2>3, Zenon
<1>3. CASE how = "failed" \/ FreeFiles = {}
  BY <1>2, <1>3, Zenon DEF open_tmp_file, Worlds, Memories
<1>4. CASE ~(how = "failed" \/ FreeFiles = {})
  <2>1. PICK f \in FreeFiles : f = NewFile
    BY <1>4 DEF NewFile
  <2>2. PICK b \in BOOLEAN : b = (how = "named")
    BY Zenon
  <2>3. PICK ns2 : ns2 = IF how = "named" THEN ns \cup {f} ELSE ns
    BY Zenon
  <2>4. w = [v EXCEPT !.m.send_file[slot] = f, !.m.named[slot] = b,
                      !.files[f] = << >>, !.names = ns2]
    BY <1>1, <1>2, <1>4, <2>1, <2>2, <2>3, Zenon DEF open_tmp_file
  <2>5. w = Worlds(WithFile(m, slot, f, b), [files EXCEPT ![f] = << >>], ns2)
    BY <2>4, Zenon DEF Worlds, WithFile, Memories
  <2> QED BY <2>1, <2>2, <2>3, <2>5, Zenon DEF Opened
<1> QED BY <1>3, <1>4, Zenon

-----------------------------------------------------------------------------
(* What was sent for runs that a step does not touch *)
LEMMA SentKept ==
  ASSUME NEW p, NEW fs, NEW fl, NEW n \in Nat, Sent(p, fs, fl, n), NEW fs2, NEW fl2,
         NEW n2 \in Nat, n <= n2,
         \A k \in 1 .. Len(p.runs) :
           /\ p.runs[k].id \in Nat /\ p.runs[k].item \in Nat
           /\ fs2[p.send_file[k]] = fs[p.send_file[k]]
           /\ \A i \in Nat : <<p.runs[k].id, i>> \in fl2 <=> <<p.runs[k].id, i>> \in fl
  PROVE  Sent(p, fs2, fl2, n2)
<1> SUFFICES ASSUME NEW k \in 1 .. Len(p.runs)
             PROVE  /\ p.runs[k].id <= n2
                    /\ Holds(fs2[p.send_file[k]], <<p.runs[k].id, p.runs[k].item>>, fl2)
                    /\ \A i \in Nat : <<p.runs[k].id, i>> \in fl2 => i <= p.runs[k].item
  BY Zenon DEF Sent
<1>1. /\ p.runs[k].id <= n
      /\ Holds(fs[p.send_file[k]], <<p.runs[k].id, p.runs[k].item>>, fl)
      /\ \A i \in Nat : <<p.runs[k].id, i>> \in fl => i <= p.runs[k].item
  BY Zenon DEF Sent
<1>2. PICK id \in Nat, it \in Nat : id = p.runs[k].id /\ it = p.runs[k].item
  BY Zenon
<1>3. <<id, it>> \in fl2 <=> <<id, it>> \in fl
  BY <1>2, Zenon
<1>4. Holds(fs2[p.send_file[k]], <<id, it>>, fl2)
  BY <1>1, <1>2, <1>3, Zenon DEF Holds
<1>5. id <= n2
  BY <1>1, <1>2
<1> QED BY <1>1, <1>2, <1>4, <1>5, Zenon

(* A process waits in runs below the innermost one of its descendant, when  *)
(* that one is not in a test's own process                                  *)
LEMMA ParentsBelow ==
  ASSUME NestedInv, procs # << >>, Mem.runs # << >>,
         Top.step \notin {"child", "child_done"}, NEW i \in 1 .. Len(procs) - 1
  PROVE  /\ Len(procs[i].runs) = 1 /\ Len(Mem.runs) = 2
         /\ procs[i].runs[1].id = Mem.runs[1].id /\ procs[i].runs[1].item = Mem.runs[1].item
         /\ procs[i].send_file[1] = Mem.send_file[1]
         /\ Mem.runs[1].step \in {"child", "child_done"}
<1>1. Link(procs[i], Mem) /\ ProcOK(procs[i])
  BY MemFacts, Zenon
<1>2. PICK a \in Nat, l \in Nat : /\ a = Len(procs[i].runs) /\ l = Len(Mem.runs)
                                  /\ a >= 1 /\ a <= l /\ l <= 2
  <2>1. Len(procs[i].runs) \in {0, 1, 2} /\ Len(Mem.runs) \in {0, 1, 2}
    BY <1>1, OpenMeans, MemFacts, Zenon
  <2>2. Len(procs[i].runs) >= 1 /\ Len(procs[i].runs) <= Len(Mem.runs)
    BY <1>1 DEF Link
  <2>3. Len(procs[i].runs) \in Nat /\ Len(Mem.runs) \in Nat /\ Len(Mem.runs) <= 2
    BY <2>1, SmallNumber, Zenon
  <2> QED BY <2>2, <2>3, Zenon
<1>3. Mem.runs[a].step \in {"child", "child_done"}
  BY <1>1, <1>2, Zenon DEF Link
<1>4. a # l
  BY <1>2, <1>3, TopFacts, Zenon
<1>5. a = 1 /\ l = 2
  <2>1. a \in 1 .. l
    BY <1>2
  <2> QED BY <1>2, <1>4, <2>1, BelowTop, Zenon
<1>6. 1 \in 1 .. Len(procs[i].runs)
  BY <1>2, <1>5
<1> QED BY <1>1, <1>2, <1>3, <1>5, <1>6, Zenon DEF Link

(* The two runs of a process *)
LEMMA TwoRuns ==
  ASSUME NestedInv, procs # << >>, Len(Mem.runs) = 2
  PROVE  /\ Mem.runs[1] \in Frames /\ Mem.runs[2] = Top /\ Mem.runs[1].id < Top.id
         /\ Mem.runs[1].id \in Nat /\ Mem.runs[1].item \in Nat
         /\ Mem.runs[1].step \in UserCode /\ ModeOfStep(Mem.runs[1])
         /\ Mem.send_file[1] \in 1 .. MaxFiles /\ Mem.send_file[1] \in OpenFiles(Mem)
         /\ Mem.send_file[1] # Mem.send_file[2]
<1>1. ProcOK(Mem) /\ Mem.runs \in Seq(Frames)
  BY MemFacts DEF ProcOK, Memories
<1>2. 1 \in 1 .. Len(Mem.runs) /\ Mem.runs # << >>
  <2>1. 1 \in 1 .. 2 /\ Len(<< >>) # 2
    OBVIOUS
  <2> QED BY <2>1, Zenon
<1>3. Mem.runs[1] \in Frames
  BY <1>1, <1>2
<1>4. Mem.runs[2] = Top
  BY <1>1, <1>2, TopFacts, Zenon
<1>5. /\ Mem.runs[1].id < Top.id /\ Mem.runs[1].step \in UserCode
      /\ Mem.send_file[1] # Mem.send_file[2] /\ ModeOfStep(Mem.runs[1])
  BY <1>1, <1>2, <1>4, Zenon DEF ProcOK, Stack, FilesOfRuns
<1>6. Mem.send_file[1] \in 1 .. MaxFiles /\ Mem.send_file[1] \in OpenFiles(Mem)
  BY <1>1, <1>2, OpenMeans, Zenon
<1>7. Mem.runs[1].id \in Nat /\ Mem.runs[1].item \in Nat
  BY <1>3, Zenon DEF Frames
<1> QED BY <1>3, <1>4, <1>5, <1>6, <1>7, Zenon

(* A new file is one that no process has open and that has no name *)
LEMMA NewFileIs ==
  ASSUME NestedInv, procs # << >>, NEW f \in FreeFiles
  PROVE  /\ f \in 1 .. MaxFiles /\ f \in FileNos /\ f # NoFile /\ f \notin names
         /\ f \notin OpenFiles(Mem) /\ f \notin ParentFiles
<1>1. f \in 1 .. MaxFiles /\ f \notin names
      /\ f \notin UNION {OpenFiles(p) : p \in ToSet(procs)}
  BY Zenon DEF FreeFiles
<1>2. f \in FileNos /\ f # NoFile
  BY <1>1, NestedRunsAssumption DEF FileNos, NoFile
<1> QED BY <1>1, <1>2, AllFiles, Zenon

(* The names that a process has to remove, when a file gets a name *)
LEMMA NamedKept ==
  ASSUME NEW p \in Memories, NEW ns, Named(p, ns), NEW f, f \notin OpenFiles(p),
         NEW ns2, ns2 \subseteq ns \cup {f}
  PROVE  Named(p, ns2)
<1> SUFFICES ASSUME NEW k \in 1 .. 2, p.send_file[k] # NoFile, ~p.named[k]
             PROVE  p.send_file[k] \notin ns2
  BY Zenon DEF Named
<1>1. p.send_file[k] \notin ns
  BY Zenon DEF Named
<1>2. p.send_file[k] \in OpenFiles(p)
  <2>1. DOMAIN p.send_file = 1 .. 2
    BY DEF Memories
  <2> QED BY <2>1, Zenon DEF OpenFiles, ToSet
<1> QED BY <1>1, <1>2, Zenon

(* The open files, when the one in a slot is closed or replaced *)
LEMMA OpenWithFile ==
  ASSUME NEW m \in Memories, NEW slot \in Slots, NEW f \in FileNos, NEW b \in Flags,
         NEW p, p = WithFile(m, slot, f, b), NEW q, q.send_file = p.send_file
  PROVE  /\ OpenFiles(m) \subseteq OpenFiles(q) \cup {m.send_file[slot]}
         /\ f # NoFile => f \in OpenFiles(q)
<1> USE DEF Slots, Flags
<1>1. /\ p \in Memories /\ p.send_file[slot] = f /\ q.send_file = p.send_file
      /\ \A t \in {1, 2} : t # slot => p.send_file[t] = m.send_file[t]
  BY WithFileIs DEF HasFile
<1>2. DOMAIN m.send_file = 1 .. 2 /\ DOMAIN q.send_file = 1 .. 2
  BY <1>1 DEF Memories
<1>3. 1 .. 2 = {1, 2}
  OBVIOUS
<1> QED BY <1>1, <1>2, <1>3, Zenon DEF OpenFiles, ToSet

(* The innermost run in another state, whatever becomes of the files *)
LEMMA NewTop ==
  ASSUME NEW m, ProcOK(m), Len(m.runs) >= 1, NEW q, NEW frame \in Frames,
         q.runs = Append(Front(m.runs), frame), frame.id = TopFrame(m).id,
         ModeOfStep(frame), Jumps(q, frame)
  PROVE  /\ Stack(q) /\ Len(q.runs) = Len(m.runs) /\ q.runs[Len(m.runs)] = frame
         /\ \A k \in 1 .. Len(m.runs) - 1 : q.runs[k] = m.runs[k]
         /\ q.runs # << >>
<1>1. m.runs \in Seq(Frames) /\ m.runs # << >> /\ FilesOfRuns(m) /\ Stack(m)
  BY DEF ProcOK, Memories
<1>2. PICK n \in Nat : n = Len(m.runs) /\ n >= 1 /\ n <= 2
  BY <1>1 DEF FilesOfRuns
<1>3. /\ Len(q.runs) = n /\ q.runs[n] = frame /\ \A i \in 1 .. n - 1 : q.runs[i] = m.runs[i]
      /\ q.runs \in Seq(Frames)
  BY <1>1, <1>2, Replaced
<1>4. \A k \in 1 .. n : ModeOfStep(q.runs[k])
  <2>1. \A k \in 1 .. n : k = n \/ k \in 1 .. n - 1
    BY <1>2
  <2>2. \A k \in 1 .. n : ModeOfStep(m.runs[k])
    BY <1>1, <1>2, Zenon DEF Stack
  <2> QED BY <1>2, <1>3, <2>1, <2>2, Zenon
<1>5. n = 2 => q.runs[1].id < q.runs[2].id /\ q.runs[1].step \in UserCode
  BY <1>1, <1>2, <1>3 DEF Stack, TopFrame
<1>6. q.runs # << >>
  BY <1>2, <1>3
<1> QED BY <1>2, <1>3, <1>4, <1>5, <1>6, Zenon DEF Stack

(* The result that a run receives for its item is of that item *)
LEMMA ReceivedOwn ==
  ASSUME NestedInv, procs # << >>, Mem.runs # << >>, NEW st, Received(st)
  PROVE  OwnResults'
<1>1. PICK msgs : msgs = files[get_pipe(Mem)]
  BY Zenon
<1>2. msgs \in Seq(Msgs) /\ Holds(msgs, Item, failed)
  <2>1. /\ get_pipe(Mem) \in 1 .. MaxFiles /\ get_pipe(Mem) = Mem.send_file[Len(Mem.runs)]
        /\ Len(Mem.runs) \in 1 .. Len(Mem.runs) /\ Top = Mem.runs[Len(Mem.runs)]
    BY TopFacts, Zenon
  <2>2. Sent(Mem, files, failed, nruns) /\ files \in [1 .. MaxFiles -> Seq(Msgs)]
    BY MemFacts, Zenon DEF NestedInv
  <2> QED BY <1>1, <2>1, <2>2, Zenon DEF Sent, Item
<1>3. got' = [item |-> Item, msgs |-> msgs, pass |-> Verdict(msgs, st), failed |-> Item \in failed]
  BY <1>1, Zenon DEF Received
<1>4. /\ got'.item = Item /\ got'.msgs = msgs /\ got'.pass = Verdict(msgs, st)
      /\ got'.failed = (Item \in failed)
  BY <1>3, Zenon
<1>5. DOMAIN msgs = 1 .. Len(msgs)
  BY <1>2
<1>6. \A x \in ToSet(msgs) : x.item = Item /\ (x.kind = "fail" => Item \in failed)
  BY <1>2, <1>5, Zenon DEF ToSet, Holds
<1>7. Item \in failed => ~Verdict(msgs, st)
  BY <1>2, <1>5, Zenon DEF Holds, Verdict
<1> QED BY <1>4, <1>6, <1>7, Zenon DEF OwnResults

(* The processes that wait, when the innermost run's item is over and a    *)
(* new file may take the place of its file                                 *)
LEMMA ParentsKept ==
  ASSUME NestedInv, procs # << >>, Mem.runs # << >>,
         Top.step \notin {"child", "child_done"}, NEW f, f \notin OpenFiles(Mem),
         f \notin ParentFiles, NEW ns, ns \subseteq names \cup {f},
         NEW fs, fs = files \/ fs = [files EXCEPT ![f] = << >>]
  PROVE  Kept(fs, failed \ {Item}, nruns, ns)
<1> SUFFICES ASSUME NEW i \in 1 .. Len(procs) - 1
             PROVE  /\ Sent(procs[i], fs, failed \ {Item}, nruns)
                    /\ Named(procs[i], ns)
  BY Zenon DEF Kept
<1>1. /\ ProcOK(procs[i]) /\ Sent(procs[i], files, failed, nruns) /\ Named(procs[i], names)
      /\ Parents[i] = procs[i] /\ Parents \in Seq(Memories) /\ Len(Parents) = Len(procs) - 1
  BY MemFacts, Zenon
<1>2. /\ Len(procs[i].runs) = 1 /\ Len(Mem.runs) = 2
      /\ procs[i].runs[1].id = Mem.runs[1].id /\ procs[i].runs[1].item = Mem.runs[1].item
      /\ procs[i].send_file[1] = Mem.send_file[1]
  BY ParentsBelow, Zenon
<1>3. /\ Mem.runs[1].id < Top.id /\ Mem.runs[1].id \in Nat /\ Mem.runs[1].item \in Nat
      /\ Mem.send_file[1] \in OpenFiles(Mem) /\ Mem.send_file[1] \in 1 .. MaxFiles
  BY <1>2, TwoRuns, Zenon
<1>4. f \notin OpenFiles(procs[i])
  <2>1. procs[i] \in ToSet(Parents)
    BY <1>1 DEF ToSet
  <2> QED BY <2>1, Zenon DEF ParentFiles
<1>5. Named(procs[i], ns)
  BY <1>1, <1>4, NamedKept, Zenon DEF ProcOK
<1>6. fs[procs[i].send_file[1]] = files[procs[i].send_file[1]]
  <2>1. files \in [1 .. MaxFiles -> Seq(Msgs)]
    BY Zenon DEF NestedInv
  <2> QED BY <1>2, <1>3, <2>1, Zenon
<1>7. \A it \in Nat : <<Mem.runs[1].id, it>> # Item
  BY <1>3, TopFacts DEF Item
<1>8. \A k \in 1 .. Len(procs[i].runs) : k = 1
  BY <1>2
<1>9. \A k \in 1 .. Len(procs[i].runs) :
           /\ procs[i].runs[k].id \in Nat /\ procs[i].runs[k].item \in Nat
           /\ fs[procs[i].send_file[k]] = files[procs[i].send_file[k]]
           /\ \A it \in Nat : <<procs[i].runs[k].id, it>> \in failed \ {Item}
                                <=> <<procs[i].runs[k].id, it>> \in failed
  BY <1>2, <1>3, <1>6, <1>7, <1>8, Zenon
<1>10. nruns \in Nat /\ nruns <= nruns
  BY DEF NestedInv
<1>11. PICK p, fl, fl2 : p = procs[i] /\ fl = failed /\ fl2 = failed \ {Item}
  BY Zenon
<1>12. Sent(p, fs, fl2, nruns)
  <2>1. /\ Sent(p, files, fl, nruns)
        /\ \A k \in 1 .. Len(p.runs) :
             /\ p.runs[k].id \in Nat /\ p.runs[k].item \in Nat
             /\ fs[p.send_file[k]] = files[p.send_file[k]]
             /\ \A it \in Nat : <<p.runs[k].id, it>> \in fl2 <=> <<p.runs[k].id, it>> \in fl
    BY <1>1, <1>9, <1>11, Zenon
  <2> QED BY <1>10, <2>1, SentKept
<1> QED BY <1>5, <1>11, <1>12, Zenon

(* A run with an empty file for its next item *)
LEMMA NextItem ==
  ASSUME NestedInv, procs # << >>, Mem.runs # << >>,
         Top.step \notin {"child", "child_done"},
         NEW frame \in Frames, NEW m \in Memories,
         m.runs = Append(Front(Mem.runs), frame), m.send_file = Mem.send_file,
         m.named = Mem.named, m.old_action = Mem.old_action, m.nested = Mem.nested,
         frame.id = Top.id, frame.item > Top.item, ModeOfStep(frame), Jumps(m, frame),
         NEW l \in Slots, l = Len(Mem.runs), NEW f \in FreeFiles, NEW b \in Flags,
         NEW q, HasFile(q, m, l, f, b), NEW ns, ns \subseteq names,
         NEW ns2, ns2 = IF b THEN ns \cup {f} ELSE ns
  PROVE  Joins(q, [files EXCEPT ![f] = << >>], failed \ {Item}, nruns, ns2)
<1> USE DEF Slots, Flags
<1>1. /\ f \in 1 .. MaxFiles /\ f \in FileNos /\ f # NoFile /\ f \notin names
      /\ f \notin OpenFiles(Mem) /\ f \notin ParentFiles
  BY NewFileIs, Zenon
<1>2. /\ q \in Memories /\ q.send_file[l] = f /\ q.named[l] = b
      /\ \A t \in {1, 2} : t # l => /\ q.send_file[t] = Mem.send_file[t]
                                    /\ q.named[t] = Mem.named[t]
      /\ q.runs = m.runs /\ q.fstat = m.fstat /\ q.error_jmp = m.error_jmp
      /\ q.old_action = Mem.old_action /\ q.nested = Mem.nested
  <2>1. /\ q \in Memories /\ q.send_file[l] = f /\ q.named[l] = b
        /\ \A t \in {1, 2} : t # l => /\ q.send_file[t] = m.send_file[t]
                                      /\ q.named[t] = m.named[t]
        /\ q.runs = m.runs /\ q.fstat = m.fstat /\ q.error_jmp = m.error_jmp
        /\ q.old_action = m.old_action /\ q.nested = m.nested
    BY Zenon DEF HasFile
  <2> QED BY <2>1
<1>3. ProcOK(Mem) /\ Sent(Mem, files, failed, nruns) /\ Named(Mem, names)
  BY MemFacts, Zenon
<1>4. Top = TopFrame(Mem) /\ Len(Mem.runs) >= 1 /\ Top = Mem.runs[l]
  BY TopFacts
<1>5. Jumps(q, frame)
  BY <1>2, Zenon DEF Jumps
<1>6. /\ Stack(q) /\ Len(q.runs) = l /\ q.runs[l] = frame /\ q.runs # << >>
      /\ l = 2 => q.runs[1] = Mem.runs[1]
  <2>1. /\ Stack(q) /\ Len(q.runs) = l /\ q.runs[l] = frame /\ q.runs # << >>
        /\ \A k \in 1 .. l - 1 : q.runs[k] = Mem.runs[k]
    <3>1. /\ q.runs = Append(Front(Mem.runs), frame) /\ frame.id = TopFrame(Mem).id
          /\ ProcOK(Mem) /\ Len(Mem.runs) >= 1
      BY <1>2, <1>3, <1>4, Zenon
    <3>2. /\ Stack(q) /\ Len(q.runs) = Len(Mem.runs) /\ q.runs[Len(Mem.runs)] = frame
          /\ \A k \in 1 .. Len(Mem.runs) - 1 : q.runs[k] = Mem.runs[k]
          /\ q.runs # << >>
      BY <1>5, <3>1, NewTop
    <3> QED BY <3>2, Zenon
  <2>2. l = 2 => 1 \in 1 .. l - 1
    OBVIOUS
  <2> QED BY <2>1, <2>2, Zenon
<1>7. FilesOfRuns(q)
  <2>1. FilesOfRuns(Mem)
    BY <1>3, Zenon DEF ProcOK
  <2>2. CASE l = 1
    BY <1>1, <1>2, <1>6, <2>1, <2>2, Zenon DEF FilesOfRuns
  <2>3. CASE l = 2
    <3>1. q.send_file[1] # NoFile /\ q.send_file[1] # f
      BY <1>1, <1>2, <2>1, <2>3, TwoRuns DEF FilesOfRuns
    <3> QED BY <1>1, <1>2, <1>6, <2>3, <3>1 DEF FilesOfRuns
  <2> QED BY <2>2, <2>3, Zenon
<1>8. Actions(q)
  BY <1>2, <1>3, <1>6, Zenon DEF ProcOK, Actions
<1>9. ProcOK(q)
  BY <1>2, <1>6, <1>7, <1>8, Zenon DEF ProcOK
<1>10. PICK fs : fs = [files EXCEPT ![f] = << >>]
  BY Zenon
<1>11. files \in [1 .. MaxFiles -> Seq(Msgs)]
  BY Zenon DEF NestedInv
<1>12. fs[f] = << >> /\ \A g \in 1 .. MaxFiles : g # f => fs[g] = files[g]
  BY <1>1, <1>10, <1>11, Zenon
<1>13. Sent(q, fs, failed \ {Item}, nruns)
  <2> SUFFICES ASSUME NEW k \in 1 .. Len(q.runs)
               PROVE  /\ q.runs[k].id <= nruns
                      /\ Holds(fs[q.send_file[k]], <<q.runs[k].id, q.runs[k].item>>,
                               failed \ {Item})
                      /\ \A i \in Nat : <<q.runs[k].id, i>> \in failed \ {Item} =>
                                          i <= q.runs[k].item
    BY Zenon DEF Sent
  <2>1. \A i \in Nat : <<Top.id, i>> \in failed => i <= Top.item
    <3>1. l \in 1 .. Len(Mem.runs)
      BY TopFacts, Zenon
    <3> QED BY <1>3, <1>4, <3>1, Zenon DEF Sent
  <2>2. CASE k = l
    <3>1. frame.id = Top.id /\ frame.item \in Nat /\ Top.item \in Nat /\ Top.id <= nruns
      BY TopFacts, Zenon DEF Frames
    <3>2. \A i \in Nat : <<Top.id, i>> \in failed => i <= frame.item /\ i # frame.item
      BY <2>1, <3>1
    <3>3. Holds(<< >>, <<frame.id, frame.item>>, failed \ {Item})
      BY <3>1, <3>2 DEF Holds
    <3> QED BY <1>2, <1>6, <1>12, <2>2, <3>1, <3>2, <3>3, Zenon
  <2>3. CASE k # l
    <3>1. k = 1 /\ l = 2
      BY <1>6, <2>3
    <3>2. /\ Mem.runs[1].id < Top.id /\ Mem.runs[1].id \in Nat /\ Mem.runs[1].item \in Nat
          /\ Mem.send_file[1] \in OpenFiles(Mem) /\ Mem.send_file[1] \in 1 .. MaxFiles
      BY <3>1, TwoRuns, Zenon
    <3>3. q.runs[k] = Mem.runs[1] /\ fs[q.send_file[k]] = files[Mem.send_file[1]]
      BY <1>1, <1>2, <1>6, <1>12, <3>1, <3>2
    <3>4. \A it \in Nat : <<Mem.runs[1].id, it>> # Item
      BY <3>2, TopFacts DEF Item
    <3>5. /\ Mem.runs[1].id <= nruns
          /\ Holds(files[Mem.send_file[1]], <<Mem.runs[1].id, Mem.runs[1].item>>, failed)
          /\ \A i \in Nat : <<Mem.runs[1].id, i>> \in failed => i <= Mem.runs[1].item
      <4>1. 1 \in 1 .. Len(Mem.runs)
        BY <3>1
      <4> QED BY <1>3, <4>1, Zenon DEF Sent
    <3>6. Holds(files[Mem.send_file[1]], <<Mem.runs[1].id, Mem.runs[1].item>>,
                failed \ {Item})
      BY <3>2, <3>4, <3>5, Zenon DEF Holds
    <3> QED BY <3>3, <3>5, <3>6, Zenon
  <2> QED BY <2>2, <2>3, Zenon
<1>14. Named(q, ns2)
  <2> SUFFICES ASSUME NEW k \in 1 .. 2, q.send_file[k] # NoFile, ~q.named[k]
               PROVE  q.send_file[k] \notin ns2
    BY Zenon DEF Named
  <2>1. CASE k = l
    BY <1>1, <1>2, <2>1, Zenon
  <2>2. CASE k # l
    <3>1. k = 1 /\ l = 2
      <4>1. l = 1 => Mem.send_file[2] = NoFile
        BY <1>3 DEF ProcOK, FilesOfRuns
      <4>2. k = 2 => l = 1 /\ q.send_file[2] = Mem.send_file[2]
        BY <1>2, <2>2, Zenon
      <4>3. k # 2
        BY <4>1, <4>2, Zenon
      <4>4. \A x \in 1 .. 2, y \in {1, 2} : x # y /\ x # 2 => x = 1 /\ y = 2
        OBVIOUS
      <4> QED BY <2>2, <4>3, <4>4, Zenon
    <3>2. q.send_file[k] = Mem.send_file[k] /\ Mem.send_file[k] \in OpenFiles(Mem)
      BY <1>2, <3>1, TwoRuns, Zenon
    <3>3. Mem.send_file[k] \notin names
      BY <1>2, <1>3, <2>2, <3>1, <3>2, Zenon DEF Named
    <3> QED BY <1>1, <3>2, <3>3, Zenon
  <2> QED BY <2>1, <2>2, Zenon
<1>15. \A i \in 1 .. Len(procs) - 1 : Link(procs[i], q)
  <2> SUFFICES ASSUME NEW i \in 1 .. Len(procs) - 1
               PROVE  Link(procs[i], q)
    BY Zenon
  <2>1. Len(procs[i].runs) = 1 /\ l = 2
    BY ParentsBelow, Zenon
  <2>2. q.runs[1] = Mem.runs[1] /\ q.send_file[1] = Mem.send_file[1]
    BY <1>2, <1>6, <2>1
  <2>3. Link(procs[i], Mem)
    BY MemFacts, Zenon
  <2>4. \A k \in 1 .. 1 : k = 1
    OBVIOUS
  <2> QED BY <1>6, <2>1, <2>2, <2>3, <2>4 DEF Link
<1> QED BY <1>9, <1>10, <1>13, <1>14, <1>15, Zenon DEF Joins

(* The item of the innermost run is over: receive_test_result(), and the   *)
(* run goes on with its next item                                          *)
LEMMA ReceiveStep ==
  ASSUME NestedInv, procs # << >>, Mem.runs # << >>,
         Top.step \notin {"child", "child_done"},
         NEW frame \in Frames, NEW m \in Memories,
         m.runs = Append(Front(Mem.runs), frame), m.send_file = Mem.send_file,
         m.named = Mem.named, m.old_action = Mem.old_action, m.nested = Mem.nested,
         frame.id = Top.id, frame.item > Top.item, ModeOfStep(frame), Jumps(m, frame),
         NEW how, NEW st, Becomes(receive_test_result(World(m), how)), Received(st),
         UNCHANGED nruns
  PROVE  NestedInv'
<1>1. PICK l \in Slots : l = Len(Mem.runs)
  BY TopFacts, Zenon DEF Slots
<1>2. PICK v, w : /\ v = teardown_pipe(World(m)) /\ w = setup_pipe(v, how)
                  /\ Becomes(w)
  BY Zenon DEF receive_test_result
<1>3. PICK ns : /\ v = Worlds(WithFile(m, l, NoFile, FALSE), files, ns)
                /\ ns \subseteq names /\ Mem.send_file[l] \notin ns
                /\ names \subseteq ns \cup {Mem.send_file[l]}
  BY <1>1, <1>2, Closes, Zenon
<1>4. PICK no \in Flags : no = FALSE
  BY Zenon DEF Flags
<1>z. PICK m2 : m2 = WithFile(m, l, NoFile, no)
  BY Zenon
<1>5. /\ HasFile(m2, m, l, NoFile, no)
      /\ \A f2, b2 : WithFile(m2, l, f2, b2) = WithFile(m, l, f2, b2)
  <2>1. NoFile \in FileNos
    BY NestedRunsAssumption DEF NoFile, FileNos
  <2> QED BY <1>4, <1>z, <2>1, WithFileIs
<1>6. /\ m2 \in Memories /\ m2.send_file[l] = NoFile
      /\ l = 2 => m2.send_file[1] # NoFile
  <2>1. FilesOfRuns(Mem)
    BY MemFacts, Zenon DEF ProcOK
  <2>2. l = 2 => Mem.send_file[1] # NoFile
    BY <1>1, <2>1 DEF FilesOfRuns
  <2> QED BY <1>5, <2>2 DEF HasFile, Slots
<1>7. failed' = failed \ {Item} /\ nruns' = nruns
  BY DEF Received
<1>8. OwnResults'
  BY ReceivedOwn, Zenon
<1>9. \A fs \in [1 .. MaxFiles -> Seq(Msgs)], ns2 \in SUBSET (1 .. MaxFiles) :
        Histories(fs, ns2, failed', nruns')
  BY <1>7, Zenon DEF Histories, NestedInv
<1>10. files \in [1 .. MaxFiles -> Seq(Msgs)] /\ names \subseteq 1 .. MaxFiles
  BY DEF NestedInv
<1>11. names \subseteq left \cup OpenFiles(Mem) \cup ParentFiles
  BY AllFiles, Zenon
<1>12. OpenFiles(m) = OpenFiles(Mem) /\ m.send_file[l] = Mem.send_file[l]
  BY Zenon DEF OpenFiles
<1>13. CASE w = Worlds([m2 EXCEPT !.end = "eprintf"], files, ns)
  <2>1. /\ w.files = files /\ w.names = ns /\ w.m.end = "eprintf"
        /\ w.m.send_file = m2.send_file
    BY <1>6, <1>13, Zenon DEF Worlds, Memories
  <2>2. NoFile \notin OpenFiles(Mem) /\ NoFile \notin ParentFiles
    BY Zenon DEF OpenFiles, ParentFiles
  <2>3. Kept(w.files, failed', nruns', w.names)
    <3>1. ns \subseteq names \cup {NoFile}
      BY <1>3, Zenon
    <3>2. Kept(files, failed \ {Item}, nruns, ns)
      BY <2>2, <3>1, ParentsKept, Zenon
    <3> QED BY <1>7, <2>1, <3>2, Zenon
  <2>4. OpenFiles(m) \subseteq OpenFiles(w.m) \cup {m.send_file[l]}
    <3>1. NoFile \in FileNos
      BY NestedRunsAssumption DEF NoFile, FileNos
    <3> QED BY <1>4, <1>z, <2>1, <3>1, OpenWithFile
  <2>5. w.names \subseteq left \cup OpenFiles(w.m) \cup ParentFiles
    BY <1>3, <1>11, <1>12, <2>1, <2>4, Zenon
  <2>6. Histories(w.files, w.names, failed', nruns')
    BY <1>3, <1>9, <1>10, <2>1, Zenon
  <2> QED BY <1>2, <1>8, <2>1, <2>3, <2>5, <2>6, WorldStep, Zenon
<1>14. ASSUME NEW f \in FreeFiles, NEW b \in Flags, NEW ns2,
              w = Worlds(WithFile(m2, l, f, b), [files EXCEPT ![f] = << >>], ns2),
              ns2 = IF b THEN ns \cup {f} ELSE ns
       PROVE  NestedInv'
  <2>1. /\ f \in 1 .. MaxFiles /\ f \in FileNos /\ f # NoFile /\ f \notin names
        /\ f \notin OpenFiles(Mem) /\ f \notin ParentFiles
    BY NewFileIs, Zenon
  <2>2. PICK q : q = WithFile(m, l, f, b) /\ q = WithFile(m2, l, f, b)
    BY <1>5, Zenon
  <2>3. HasFile(q, m, l, f, b)
    BY <2>1, <2>2, WithFileIs, Zenon
  <2>4. PICK fs : fs = [files EXCEPT ![f] = << >>]
    BY Zenon
  <2>5. w = Worlds(q, fs, ns2) /\ w.m = q /\ w.files = fs /\ w.names = ns2
    BY <1>14, <2>2, <2>4, Zenon DEF Worlds
  <2>6. ns2 \subseteq names \cup {f} /\ ns \subseteq ns2 /\ ns2 \subseteq ns \cup {f}
    BY <1>3, <1>14, Zenon
  <2>7. fs \in [1 .. MaxFiles -> Seq(Msgs)]
    BY <1>10, <2>1, <2>4
  <2>8. Histories(w.files, w.names, failed', nruns')
    <3>1. ns2 \in SUBSET (1 .. MaxFiles)
      BY <1>10, <2>1, <2>6, Zenon
    <3> QED BY <1>9, <2>5, <2>7, <3>1, Zenon
  <2>9. Kept(w.files, failed', nruns', w.names)
    <3>1. Kept(fs, failed \ {Item}, nruns, ns2)
      BY <2>1, <2>4, <2>6, ParentsKept, Zenon
    <3> QED BY <1>7, <2>5, <3>1, Zenon
  <2>10. Joins(w.m, w.files, failed', nruns', w.names)
    <3>1. Joins(q, fs, failed \ {Item}, nruns, ns2)
      BY <1>1, <1>3, <1>14, <2>3, <2>4, NextItem, Zenon
    <3> QED BY <1>7, <2>5, <3>1, Zenon
  <2>11. w.names \subseteq left \cup OpenFiles(w.m) \cup ParentFiles
    <3>1. /\ OpenFiles(m) \subseteq OpenFiles(q) \cup {m.send_file[l]}
          /\ f \in OpenFiles(q)
      <4>1. PICK p : p = WithFile(m, l, f, b) /\ q.send_file = p.send_file
        BY <2>2, Zenon
      <4>2. f \in FileNos /\ f # NoFile
        BY <2>1, Zenon
      <4> QED BY <4>1, <4>2, OpenWithFile
    <3> QED BY <1>3, <1>11, <1>12, <2>5, <2>6, <3>1
  <2> QED BY <1>2, <1>8, <2>8, <2>9, <2>10, <2>11, WorldStep, Zenon
<1>15. \/ w = Worlds([m2 EXCEPT !.end = "eprintf"], files, ns)
       \/ Opened(w, m2, l, ns)
  <2>1. w = setup_pipe(Worlds(m2, files, ns), how)
    BY <1>2, <1>3, <1>4, <1>z, Zenon
  <2> QED BY <1>6, <2>1, Opens, Zenon
<1> QED BY <1>13, <1>14, <1>15, Zenon DEF Opened

(* The unchecked setup, or a test, in this or in a process of its own, is  *)
(* over                                                                    *)
LEMMA ItemsEnd ==
  ASSUME NestedInv, NEW how,
         unchecked_setup_done(how) \/ tfun_nofork_done(how) \/ tfun_fork_done(how)
  PROVE  NestedInv'
<1>0. procs # << >> /\ Mem.runs # << >> /\ Top.step \in {"setup_done", "fn_done", "wait"}
  BY DEF unchecked_setup_done, tfun_nofork_done, tfun_fork_done, At
<1>1. /\ Mem \in Memories /\ Mem.runs \in Seq(Frames) /\ Top \in Frames
      /\ Jumps(Mem, Top) /\ ModeOfStep(Top) /\ Top.item \in Nat /\ Top.mode \in Statuses
  BY <1>0, TopFacts DEF Frames
<1>2. ASSUME NEW frame \in Frames
      PROVE  Append(Front(Mem.runs), frame) \in Seq(Frames)
  BY <1>0, <1>1, Replaced
<1>3. Top.step \notin {"child", "child_done"}
  BY <1>0, Zenon
<1>4. CASE unchecked_setup_done(how)
  <2>1. PICK step \in {"tests", "end"} :
          step = IF Verdict(files[get_pipe(Mem)], 0) THEN "tests" ELSE "end"
    OBVIOUS
  <2>2. PICK frame : frame = [Top EXCEPT !.step = step, !.item = 1, !.ran = FALSE]
    OBVIOUS
  <2>3. /\ frame \in Frames /\ frame.step \in {"tests", "end"} /\ frame.id = Top.id
        /\ frame.mode = Top.mode /\ frame.item = 1 /\ ~frame.ran
    BY <1>1, <2>2, Zenon DEF Frames, Steps
  <2>4. PICK m : m = [WithTop(Mem, frame) EXCEPT !.fstat = Top.mode]
    BY Zenon
  <2>5. /\ m \in Memories /\ m.runs = Append(Front(Mem.runs), frame)
        /\ m.send_file = Mem.send_file /\ m.named = Mem.named
        /\ m.old_action = Mem.old_action /\ m.nested = Mem.nested /\ m.fstat = Top.mode
    BY <1>1, <1>2, <2>3, <2>4, Zenon DEF Memories, WithTop
  <2>6. /\ Becomes(receive_test_result(World(m), how)) /\ Received(0) /\ UNCHANGED nruns
        /\ Top.step = "setup_done"
    BY <1>4, <2>1, <2>2, <2>4, Zenon DEF unchecked_setup_done, At
  <2>7. ModeOfStep(frame) /\ Jumps(m, frame)
    BY <2>3, <2>5, Zenon DEF ModeOfStep, Jumps, UserCode
  <2>8. frame.item > Top.item
    BY <1>1, <2>3, <2>6 DEF ModeOfStep
  <2> QED BY <1>0, <1>3, <2>3, <2>5, <2>6, <2>7, <2>8, ReceiveStep, Zenon
<1>5. CASE tfun_nofork_done(how) \/ tfun_fork_done(how)
  <2>1. PICK next \in Nat : next = Top.item + 1
    BY <1>1
  <2>2. PICK frame : /\ frame = [Top EXCEPT !.step = "tests", !.item = next]
                     /\ frame = [Top EXCEPT !.step = "tests", !.item = @ + 1]
    BY <2>1
  <2>3. /\ frame \in Frames /\ frame.step = "tests" /\ frame.id = Top.id
        /\ frame.mode = Top.mode /\ frame.item = next /\ frame.ran = Top.ran
    <3>1. "tests" \in Steps
      BY Zenon DEF Steps
    <3> QED BY <1>1, <2>2, <3>1, Zenon DEF Frames
  <2>4. PICK m : m = WithTop(Mem, frame)
    OBVIOUS
  <2>5. /\ m \in Memories /\ m.runs = Append(Front(Mem.runs), frame)
        /\ m.send_file = Mem.send_file /\ m.named = Mem.named
        /\ m.old_action = Mem.old_action /\ m.nested = Mem.nested /\ m.fstat = Mem.fstat
    BY <1>1, <1>2, <2>3, <2>4, Zenon DEF Memories, WithTop
  <2>6. /\ Becomes(receive_test_result(World(m), how)) /\ UNCHANGED nruns
        /\ Received(0) \/ Received(status)
        /\ Top.step \in {"fn_done", "wait"}
    BY <1>5, <2>2, <2>4, Zenon DEF tfun_nofork_done, tfun_fork_done, At
  <2>7. ModeOfStep(frame) /\ Jumps(m, frame)
    BY <1>1, <2>3, <2>5, <2>6, Zenon DEF ModeOfStep, Jumps, UserCode
  <2>8. frame.item > Top.item
    BY <1>1, <2>1, <2>3
  <2> QED BY <1>0, <1>3, <2>3, <2>5, <2>6, <2>7, <2>8, ReceiveStep, Zenon
<1> QED BY <1>4, <1>5

-----------------------------------------------------------------------------
(* srunner_run_end(): the stack without its innermost run *)
LEMMA PoppedIs ==
  ASSUME NEW runs \in Seq(Frames), NEW l \in Slots, l = Len(runs)
  PROVE  /\ l = 1 => Popped(runs) = << >>
         /\ l = 2 => Popped(runs) = <<[runs[1] EXCEPT !.ran = TRUE]>>
         /\ Popped(runs) \in Seq(Frames) /\ Len(Popped(runs)) = l - 1
<1>1. CASE l = 1
  BY <1>1 DEF Popped
<1>2. CASE l = 2
  <2>0. 1 \in 1 .. 2 /\ 1 \in 1 .. 2 - 1 /\ 2 - 1 = 1 /\ 1 - 1 = 0 /\ 2 # 1 /\ 2 # 0 /\ 1 # 0
        /\ Len(<< >>) = 0
    OBVIOUS
  <2>1. runs # << >> /\ runs[1] \in Frames
    <3>1. runs # << >>
      BY <1>2, <2>0, Zenon
    <3>2. 1 \in 1 .. Len(runs)
      BY <1>2, <2>0, Zenon
    <3> QED BY <3>1, <3>2
  <2>2. PICK outer : outer = Front(runs)
    OBVIOUS
  <2>3. outer \in Seq(Frames) /\ Len(outer) = 1 /\ outer[1] = runs[1]
    <3>1. /\ Front(runs) \in Seq(Frames) /\ Len(Front(runs)) = Len(runs) - 1
          /\ \A i \in 1 .. Len(runs) - 1 : Front(runs)[i] = runs[i]
      BY <2>1, TopOf, Zenon
    <3> QED BY <1>2, <2>0, <2>2, <3>1, Zenon
  <2>4. outer # << >>
    BY <2>0, <2>3, Zenon
  <2>5. Last(outer) = runs[1] /\ Front(outer) \in Seq(Frames) /\ Len(Front(outer)) = 0
    <3>1. Last(outer) = outer[Len(outer)] /\ Front(outer) \in Seq(Frames)
          /\ Len(Front(outer)) = Len(outer) - 1
      BY <2>3, <2>4, TopOf, Zenon
    <3> QED BY <2>0, <2>3, <3>1, Zenon
  <2>6. Front(outer) = << >>
    BY <2>5
  <2>7. PICK frame \in Frames : frame = [runs[1] EXCEPT !.ran = TRUE]
    BY <2>1, Zenon DEF Frames
  <2>8. Popped(runs) = Append(<< >>, frame)
    <3>1. Len(runs) # 1
      BY <1>2, <2>0, Zenon
    <3>2. [Last(outer) EXCEPT !.ran = TRUE] = frame
      BY <2>5, <2>7, Zenon
    <3> QED BY <2>2, <2>6, <3>1, <3>2, Zenon DEF Popped
  <2> QED BY <1>2, <2>7, <2>8
<1> QED BY <1>1, <1>2, Zenon DEF Slots

(* The memory that srunner_run_end() leaves fits the files and the parents *)
LEMMA EndJoins ==
  ASSUME NestedInv, procs # << >>, Mem.runs # << >>, Top.step = "end",
         NEW l \in Slots, l = Len(Mem.runs), NEW q \in Memories, q.runs = Popped(Mem.runs),
         q.fstat = "CK_FORK", q.action = Mem.old_action, q.old_action = Mem.old_action,
         q.nested = Mem.nested, q.send_file[l] = NoFile,
         \A t \in {1, 2} : t # l => /\ q.send_file[t] = Mem.send_file[t]
                                    /\ q.named[t] = Mem.named[t],
         NEW ns, ns \subseteq names
  PROVE  Joins(q, files, failed, nruns, ns)
<1> USE DEF Slots
<1>1. /\ ProcOK(Mem) /\ Sent(Mem, files, failed, nruns) /\ Named(Mem, names)
      /\ FilesOfRuns(Mem) /\ Actions(Mem) /\ Mem.runs \in Seq(Frames)
  BY MemFacts, Zenon DEF ProcOK, Memories
<1>2. Top.step \notin {"child", "child_done"}
  BY Zenon
<1>3. CASE l = 1
  <2>1. q.runs = << >>
    BY <1>1, <1>3, PoppedIs, Zenon
  <2>2. q.send_file[1] = NoFile /\ q.send_file[2] = NoFile
    BY <1>1, <1>3 DEF FilesOfRuns
  <2>3. FilesOfRuns(q)
    BY <2>1, <2>2 DEF FilesOfRuns
  <2>4. Stack(q)
    BY <2>1 DEF Stack
  <2>5. Actions(q)
    BY <1>1, <2>1 DEF Actions
  <2>6. Sent(q, files, failed, nruns)
    BY <2>1 DEF Sent
  <2>7. Named(q, ns)
    <3>1. \A k \in 1 .. 2 : k = 1 \/ k = 2
      OBVIOUS
    <3> QED BY <2>2, <3>1, Zenon DEF Named
  <2>8. \A i \in 1 .. Len(procs) - 1 : Link(procs[i], q)
    <3>1. ASSUME NEW i \in 1 .. Len(procs) - 1 PROVE FALSE
      <4>1. l = 2
        BY <1>2, ParentsBelow, Zenon
      <4> QED BY <1>3, <4>1
    <3> QED BY <3>1, Zenon
  <2> QED BY <2>3, <2>4, <2>5, <2>6, <2>7, <2>8, Zenon DEF Joins, ProcOK
<1>4. CASE l = 2
  <2>1. /\ Mem.runs[1] \in Frames /\ Mem.runs[1].id \in Nat /\ Mem.runs[1].item \in Nat
        /\ Mem.runs[1].step \in UserCode /\ ModeOfStep(Mem.runs[1])
        /\ Mem.send_file[1] \in 1 .. MaxFiles /\ Mem.send_file[1] # NoFile
    BY <1>1, <1>4, TwoRuns DEF FilesOfRuns
  <2>2. PICK frame : frame = [Mem.runs[1] EXCEPT !.ran = TRUE]
    BY Zenon
  <2>3. /\ frame.id = Mem.runs[1].id /\ frame.item = Mem.runs[1].item /\ frame.ran
        /\ frame.step = Mem.runs[1].step /\ frame.mode = Mem.runs[1].mode
    BY <2>1, <2>2, Zenon DEF Frames
  <2>4. q.runs = <<frame>>
    BY <1>1, <1>4, <2>2, PoppedIs, Zenon
  <2>5. Len(q.runs) = 1 /\ q.runs[1] = frame /\ q.runs # << >>
    BY <2>4
  <2>6. /\ q.send_file[1] = Mem.send_file[1] /\ q.named[1] = Mem.named[1]
        /\ q.send_file[2] = NoFile
    BY <1>4
  <2>7. FilesOfRuns(q)
    BY <2>1, <2>5, <2>6 DEF FilesOfRuns
  <2>8. ModeOfStep(frame) /\ Jumps(q, frame)
    BY <2>1, <2>3, Zenon DEF ModeOfStep, Jumps
  <2>9. \A k \in 1 .. 1 : k = 1
    OBVIOUS
  <2>10. Stack(q)
    BY <2>5, <2>8, <2>9 DEF Stack
  <2>11. Actions(q)
    BY <1>1, <1>4 DEF Actions
  <2>12. /\ Mem.runs[1].id <= nruns
         /\ Holds(files[Mem.send_file[1]], <<Mem.runs[1].id, Mem.runs[1].item>>, failed)
         /\ \A i \in Nat : <<Mem.runs[1].id, i>> \in failed => i <= Mem.runs[1].item
    <3>1. 1 \in 1 .. Len(Mem.runs)
      BY <1>4
    <3> QED BY <1>1, <3>1, Zenon DEF Sent
  <2>13. Sent(q, files, failed, nruns)
    BY <2>3, <2>5, <2>6, <2>9, <2>12, Zenon DEF Sent
  <2>14. Named(q, ns)
    <3>1. \A k \in 1 .. 2 : k = 1 \/ k = 2
      OBVIOUS
    <3>2. 1 \in 1 .. 2
      OBVIOUS
    <3> QED BY <1>1, <2>6, <3>1, <3>2, Zenon DEF Named
  <2>15. ASSUME NEW i \in 1 .. Len(procs) - 1 PROVE Link(procs[i], q)
    <3>1. /\ Len(procs[i].runs) = 1
          /\ procs[i].runs[1].id = Mem.runs[1].id /\ procs[i].runs[1].item = Mem.runs[1].item
          /\ procs[i].send_file[1] = Mem.send_file[1]
          /\ Mem.runs[1].step \in {"child", "child_done"}
      BY <1>2, ParentsBelow, Zenon
    <3>2. procs[i].runs[1].step = "wait"
      BY <3>1, MemFacts, Zenon DEF Link
    <3> QED BY <2>3, <2>5, <2>6, <2>9, <3>1, <3>2 DEF Link
  <2> QED BY <2>7, <2>10, <2>11, <2>13, <2>14, <2>15, Zenon DEF Joins, ProcOK
<1> QED BY <1>3, <1>4, Zenon

(* srunner_run_end() keeps the invariant *)
LEMMA RunEnds ==
  ASSUME NestedInv, srunner_run_end
  PROVE  NestedInv'
<1>1. /\ procs # << >> /\ Mem.runs # << >> /\ Top.step = "end"
      /\ UNCHANGED <<nruns, failed, got>>
  BY Zenon DEF srunner_run_end, At
<1>2. PICK l \in Slots : l = Len(Mem.runs)
  BY <1>1, TopFacts DEF Slots
<1>3. Mem \in Memories /\ Mem.runs \in Seq(Frames)
  BY <1>1, TopFacts, Zenon
<1>4. PICK v, w : /\ v = teardown_pipe(World(Mem)) /\ Becomes(w)
                  /\ w = [v EXCEPT !.m.fstat = "CK_FORK", !.m.action = Mem.old_action,
                                   !.m.runs = Popped(@)]
  BY Zenon DEF srunner_run_end
<1>5. PICK ns : /\ v = Worlds(WithFile(Mem, l, NoFile, FALSE), files, ns)
                /\ ns \subseteq names /\ Mem.send_file[l] \notin ns
                /\ names \subseteq ns \cup {Mem.send_file[l]}
  BY <1>1, <1>2, <1>3, <1>4, Closes, Zenon
<1>6. PICK no \in Flags : no = FALSE
  BY Zenon DEF Flags
<1>z. PICK m2 : m2 = WithFile(Mem, l, NoFile, no)
  BY Zenon
<1>7. NoFile \in FileNos
  BY NestedRunsAssumption DEF NoFile, FileNos
<1>8. HasFile(m2, Mem, l, NoFile, no)
  BY <1>3, <1>6, <1>z, <1>7, WithFileIs, Zenon
<1>9. PICK stack \in Seq(Frames) : stack = Popped(Mem.runs)
  BY <1>2, <1>3, PoppedIs, Zenon
<1>10. PICK q : q = [m2 EXCEPT !.fstat = "CK_FORK", !.action = Mem.old_action, !.runs = stack]
  BY Zenon
<1>11. m2 \in Memories /\ m2.runs = Mem.runs
  BY <1>8, Zenon DEF HasFile
<1>12. w = Worlds(q, files, ns)
  <2>1. v = Worlds(m2, files, ns)
    BY <1>5, <1>6, <1>z, Zenon
  <2>2. PICK act : act = Mem.old_action
    BY Zenon
  <2>3. v.m = m2 /\ v.m.runs = Mem.runs
    BY <1>11, <2>1, Zenon DEF Worlds
  <2>4. w = [v EXCEPT !.m.fstat = "CK_FORK", !.m.action = act, !.m.runs = stack]
    BY <1>4, <1>9, <2>2, <2>3, Zenon
  <2>5. w = [v EXCEPT !.m = q]
    <3>1. q = [m2 EXCEPT !.fstat = "CK_FORK", !.action = act, !.runs = stack]
      BY <1>10, <2>2, Zenon
    <3> QED BY <2>1, <2>4, <3>1, Zenon DEF Worlds
  <2> QED BY <2>1, <2>5, Zenon DEF Worlds
<1>13. w.m = q /\ w.files = files /\ w.names = ns
  BY <1>12, Zenon DEF Worlds
<1>14. /\ q \in Memories /\ q.runs = stack /\ q.fstat = "CK_FORK" /\ q.action = Mem.old_action
       /\ q.old_action = m2.old_action /\ q.nested = m2.nested
       /\ q.send_file = m2.send_file /\ q.named = m2.named
  BY <1>3, <1>9, <1>10, <1>11, Zenon DEF Memories, Statuses
<1>15. Joins(q, files, failed, nruns, ns)
  <2>1. /\ q.old_action = Mem.old_action /\ q.nested = Mem.nested /\ q.send_file[l] = NoFile
        /\ \A t \in {1, 2} : t # l => /\ q.send_file[t] = Mem.send_file[t]
                                      /\ q.named[t] = Mem.named[t]
    BY <1>8, <1>14, Zenon DEF HasFile
  <2> QED BY <1>1, <1>2, <1>5, <1>9, <1>14, <2>1, EndJoins, Zenon
<1>16. Kept(files, failed, nruns, ns)
  <2>1. \A i \in 1 .. Len(procs) - 1 : /\ Sent(procs[i], files, failed, nruns)
                                       /\ Named(procs[i], names)
    BY <1>1, MemFacts, Zenon
  <2> QED BY <1>5, <2>1, Zenon DEF Kept, Named
<1>17. Histories(files, ns, failed, nruns)
  BY <1>5, Zenon DEF Histories, NestedInv
<1>18. ns \subseteq left \cup OpenFiles(q) \cup ParentFiles
  <2>1. names \subseteq left \cup OpenFiles(Mem) \cup ParentFiles
    BY <1>1, AllFiles, Zenon
  <2>2. OpenFiles(Mem) \subseteq OpenFiles(q) \cup {Mem.send_file[l]}
    BY <1>3, <1>6, <1>z, <1>7, <1>14, OpenWithFile
  <2> QED BY <1>5, <2>1, <2>2, Zenon
<1>19. OwnResults'
  BY <1>1, Zenon DEF NestedInv, OwnResults
<1> QED BY <1>1, <1>4, <1>13, <1>15, <1>16, <1>17, <1>18, <1>19, WorldStep, Zenon

-----------------------------------------------------------------------------
(* srunner_run_init(): a run that begins, and the processes that wait *)
LEMMA ParentsOlder ==
  ASSUME NestedInv, procs # << >>, NEW f, f \notin ParentFiles,
         NEW ns, ns \subseteq names \cup {f},
         NEW fs, fs = files \/ fs = [files EXCEPT ![f] = << >>]
  PROVE  Kept(fs, failed, nruns + 1, ns)
<1> SUFFICES ASSUME NEW i \in 1 .. Len(procs) - 1
             PROVE  /\ Sent(procs[i], fs, failed, nruns + 1)
                    /\ Named(procs[i], ns)
  BY Zenon DEF Kept
<1>1. PICK p : p = procs[i]
  BY Zenon
<1>2. /\ ProcOK(p) /\ Sent(p, files, failed, nruns) /\ Named(p, names)
      /\ Parents[i] = p /\ Parents \in Seq(Memories) /\ Len(Parents) = Len(procs) - 1
  BY <1>1, MemFacts, Zenon
<1>3. f \notin OpenFiles(p)
  <2>1. p \in ToSet(Parents)
    BY <1>2 DEF ToSet
  <2> QED BY <2>1, Zenon DEF ParentFiles
<1>4. Named(p, ns)
  BY <1>2, <1>3, NamedKept, Zenon DEF ProcOK
<1>5. files \in [1 .. MaxFiles -> Seq(Msgs)]
  BY Zenon DEF NestedInv
<1>6. ASSUME NEW k \in 1 .. Len(p.runs)
      PROVE  /\ p.runs[k].id \in Nat /\ p.runs[k].item \in Nat
             /\ fs[p.send_file[k]] = files[p.send_file[k]]
  <2>1. p.runs[k].id \in Nat /\ p.runs[k].item \in Nat
    <3>1. p.runs \in Seq(Frames)
      BY <1>2, Zenon DEF ProcOK, Memories
    <3>2. p.runs[k] \in Frames
      BY <3>1
    <3> QED BY <3>2, Zenon DEF Frames
  <2>2. p.send_file[k] \in 1 .. MaxFiles /\ p.send_file[k] \in OpenFiles(p)
    BY <1>2, OpenMeans
  <2> QED BY <1>3, <1>5, <2>1, <2>2, Zenon
<1>7. PICK n \in Nat, n2 \in Nat : n = nruns /\ n2 = nruns + 1 /\ n <= n2
  BY DEF NestedInv
<1>8. Sent(p, fs, failed, n2)
  BY <1>2, <1>6, <1>7, SentKept
<1> QED BY <1>1, <1>4, <1>7, <1>8, Zenon

(* The slot setup_pipe() fills *)
NextSlot(slot) ==
  \/ slot = 1 /\ Len(Mem.runs) = 0
  \/ slot = 2 /\ Len(Mem.runs) = 1

(* q is the memory of a process that has just begun run n *)
Begun(q, frame, slot, f, b, n, ns) ==
  /\ n = nruns + 1 /\ frame.id = n /\ frame.item = 0 /\ frame.step = "start"
  /\ ns = IF b THEN names \cup {f} ELSE names
  /\ q \in Memories /\ q.runs = Append(Mem.runs, frame) /\ q.old_action = Mem.action
  /\ q.nested = (Mem.nested \/ Mem.runs # << >>)
  /\ q.send_file[slot] = f /\ q.named[slot] = b
  /\ \A t \in {1, 2} : t # slot => /\ q.send_file[t] = Mem.send_file[t]
                                   /\ q.named[t] = Mem.named[t]

(* The memory that srunner_run_init() leaves fits the files and the parents *)
LEMMA InitJoins ==
  ASSUME NestedInv, procs # << >>, Mem.runs # << >> => Top.step \in UserCode,
         NEW slot \in Slots, NextSlot(slot), NEW n \in Nat, NEW frame \in Frames,
         NEW f \in FreeFiles, NEW b \in Flags, NEW q, NEW ns,
         Begun(q, frame, slot, f, b, n, ns)
  PROVE  Joins(q, [files EXCEPT ![f] = << >>], failed, n, ns)
<1> USE DEF Slots, Flags
<1>0. PICK l \in {0, 1} : l = Len(Mem.runs) /\ slot = l + 1
  BY DEF NextSlot
<1>q. /\ n = nruns + 1 /\ frame.id = n /\ frame.item = 0 /\ frame.step = "start"
      /\ ns = IF b THEN names \cup {f} ELSE names
      /\ q \in Memories /\ q.runs = Append(Mem.runs, frame) /\ q.old_action = Mem.action
      /\ q.nested = (Mem.nested \/ Mem.runs # << >>)
      /\ q.send_file[slot] = f /\ q.named[slot] = b
      /\ \A t \in {1, 2} : t # slot => /\ q.send_file[t] = Mem.send_file[t]
                                       /\ q.named[t] = Mem.named[t]
  BY Zenon DEF Begun
<1> USE <1>0, <1>q
<1>1. /\ ProcOK(Mem) /\ Sent(Mem, files, failed, nruns) /\ Named(Mem, names)
      /\ FilesOfRuns(Mem) /\ Actions(Mem) /\ Stack(Mem) /\ Mem.runs \in Seq(Frames)
  BY MemFacts, Zenon DEF ProcOK, Memories
<1>2. /\ f \in 1 .. MaxFiles /\ f # NoFile /\ f \notin names /\ f \notin OpenFiles(Mem)
  BY NewFileIs, Zenon
<1>3. /\ Len(q.runs) = slot /\ q.runs[slot] = frame /\ q.runs # << >>
      /\ \A k \in 1 .. l : q.runs[k] = Mem.runs[k]
  <2>1. ASSUME NEW s \in Seq(Frames), NEW c \in Nat, c = Len(s)
        PROVE  /\ Len(Append(s, frame)) = c + 1 /\ Append(s, frame)[c + 1] = frame
               /\ Append(s, frame) # << >> /\ \A k \in 1 .. c : Append(s, frame)[k] = s[k]
    BY <2>1
  <2>2. l \in Nat
    OBVIOUS
  <2>3. PICK s \in Seq(Frames) : s = Mem.runs /\ l = Len(s) /\ q.runs = Append(s, frame)
    BY <1>1, Zenon
  <2>4. /\ Len(Append(s, frame)) = l + 1 /\ Append(s, frame)[l + 1] = frame
        /\ Append(s, frame) # << >> /\ \A k \in 1 .. l : Append(s, frame)[k] = s[k]
    BY <2>1, <2>2, <2>3, Zenon
  <2>5. slot = l + 1
    BY Zenon
  <2> QED BY <2>3, <2>4, <2>5, Zenon
<1>4. /\ \A k \in 1 .. slot : k \in 1 .. l \/ k = slot
      /\ \A k \in 1 .. l : k \in 1 .. slot /\ k # slot /\ k = 1 /\ l = 1 /\ slot = 2
  OBVIOUS
<1>5. ASSUME l = 1
      PROVE  /\ 1 \in 1 .. Len(Mem.runs) /\ Mem.runs # << >> /\ Mem.runs[1] = Top
             /\ Top.id \in Nat /\ Top.item \in Nat /\ Top.id <= nruns
             /\ Mem.send_file[1] \in OpenFiles(Mem) /\ Mem.send_file[1] \in 1 .. MaxFiles
  <2>1. 1 \in 1 .. 1 /\ Len(<< >>) # 1
    OBVIOUS
  <2>2. 1 \in 1 .. Len(Mem.runs) /\ Mem.runs # << >>
    BY <1>5, <2>1, Zenon
  <2>3. Mem.send_file[1] \in OpenFiles(Mem) /\ Mem.send_file[1] \in 1 .. MaxFiles
    BY <1>1, <2>2, OpenMeans, Zenon
  <2>4. Mem.runs[1] = Top /\ Top.id \in Nat /\ Top.item \in Nat /\ Top.id <= nruns
    BY <1>5, <2>2, TopFacts, Zenon
  <2> QED BY <2>2, <2>3, <2>4, Zenon
<1>6. FilesOfRuns(q)
  <2>1. CASE l = 0
    BY <1>1, <1>2, <1>3, <2>1 DEF FilesOfRuns
  <2>2. CASE l = 1
    <3>1. q.send_file[1] = Mem.send_file[1] /\ q.send_file[2] = f /\ Len(q.runs) = 2
      BY <1>3, <2>2
    <3>2. q.send_file[1] # f /\ q.send_file[1] # NoFile
      BY <1>1, <1>2, <1>5, <2>2, <3>1, Zenon DEF FilesOfRuns
    <3> QED BY <1>2, <3>1, <3>2 DEF FilesOfRuns
  <2> QED BY <2>1, <2>2, Zenon
<1>7. Stack(q)
  <2>1. ModeOfStep(frame) /\ Jumps(q, frame)
    BY Zenon DEF ModeOfStep, Jumps, UserCode
  <2>2. \A k \in 1 .. l : ModeOfStep(Mem.runs[k])
    BY <1>1, Zenon DEF Stack
  <2>3. \A k \in 1 .. slot : ModeOfStep(q.runs[k])
    BY <1>3, <1>4, <2>1, <2>2, Zenon
  <2>4. ASSUME slot = 2 PROVE q.runs[1].id < q.runs[2].id /\ q.runs[1].step \in UserCode
    <3>1. l = 1
      BY <2>4
    <3>2. q.runs[1] = Top /\ q.runs[2] = frame /\ Top.step \in UserCode
      BY <1>3, <1>5, <2>4, <3>1, Zenon
    <3>3. Top.id < frame.id
      BY <1>5, <3>1 DEF NestedInv
    <3> QED BY <3>2, <3>3, Zenon
  <2> QED BY <1>3, <2>1, <2>3, <2>4, Zenon DEF Stack
<1>8. Actions(q)
  <2>1. ASSUME ~q.nested PROVE Len(q.runs) <= 1 /\ q.old_action = "user"
    <3>1. ~Mem.nested /\ Mem.runs = << >>
      BY <2>1, Zenon
    <3>2. l = 0
      BY <3>1, Zenon
    <3> QED BY <1>1, <1>3, <3>1, <3>2 DEF Actions
  <2> QED BY <1>3, <2>1, Zenon DEF Actions
<1>9. PICK fs : fs = [files EXCEPT ![f] = << >>]
  BY Zenon
<1>10. fs[f] = << >> /\ \A g \in 1 .. MaxFiles : g # f => fs[g] = files[g]
  <2>1. files \in [1 .. MaxFiles -> Seq(Msgs)]
    BY DEF NestedInv
  <2> QED BY <1>2, <1>9, <2>1
<1>11. Sent(q, fs, failed, n)
  <2> SUFFICES ASSUME NEW k \in 1 .. Len(q.runs)
               PROVE  /\ q.runs[k].id <= n
                      /\ Holds(fs[q.send_file[k]], <<q.runs[k].id, q.runs[k].item>>, failed)
                      /\ \A i \in Nat : <<q.runs[k].id, i>> \in failed => i <= q.runs[k].item
    BY Zenon DEF Sent
  <2>1. CASE k = slot
    <3>1. n \in Nat /\ \A i \in Nat : <<n, i>> \notin failed
      BY DEF NestedInv
    <3>2. Holds(<< >>, <<n, 0>>, failed)
      <4>1. <<n, 0>> \notin failed
        BY <3>1
      <4> QED BY <4>1 DEF Holds
    <3>3. q.runs[k].id = n /\ q.runs[k].item = 0 /\ fs[q.send_file[k]] = << >>
      BY <1>3, <1>10, <2>1, Zenon
    <3> QED BY <3>1, <3>2, <3>3
  <2>2. CASE k # slot
    <3>1. k = 1 /\ l = 1 /\ slot = 2
      BY <1>3, <1>4, <2>2, Zenon
    <3>2. /\ Top.id <= nruns /\ Holds(files[Mem.send_file[1]], <<Top.id, Top.item>>, failed)
          /\ \A i \in Nat : <<Top.id, i>> \in failed => i <= Top.item
      BY <1>1, <1>5, <3>1, Zenon DEF Sent
    <3>3. q.runs[k] = Top /\ q.send_file[k] = Mem.send_file[1]
      BY <1>3, <1>4, <1>5, <3>1, Zenon
    <3>4. fs[q.send_file[k]] = files[Mem.send_file[1]]
      BY <1>2, <1>5, <1>10, <3>1, <3>3, Zenon
    <3>5. Top.id <= n
      BY <1>5, <3>1, <3>2 DEF NestedInv
    <3> QED BY <3>2, <3>3, <3>4, <3>5, Zenon
  <2> QED BY <2>1, <2>2, Zenon
<1>12. Named(q, ns)
  <2> SUFFICES ASSUME NEW k \in 1 .. 2, q.send_file[k] # NoFile, ~q.named[k]
               PROVE  q.send_file[k] \notin ns
    BY Zenon DEF Named
  <2>1. CASE k = slot
    BY <1>2, <2>1, Zenon
  <2>2. CASE k # slot
    <3>1. \A x \in 1 .. 2 : x \in {1, 2}
      OBVIOUS
    <3>2. q.send_file[k] = Mem.send_file[k] /\ q.named[k] = Mem.named[k]
      BY <2>2, <3>1, Zenon
    <3>3. Mem.send_file[k] \notin names
      BY <1>1, <3>2, Zenon DEF Named
    <3>4. Mem.send_file[k] \in OpenFiles(Mem)
      <4>1. DOMAIN Mem.send_file = 1 .. 2
        BY <1>1 DEF ProcOK, Memories
      <4> QED BY <3>2, <4>1, Zenon DEF OpenFiles, ToSet
    <3> QED BY <1>2, <3>2, <3>3, <3>4, Zenon
  <2> QED BY <2>1, <2>2, Zenon
<1>13. ASSUME NEW i \in 1 .. Len(procs) - 1 PROVE Link(procs[i], q)
  <2>1. PICK p : p = procs[i]
    BY Zenon
  <2>2. Link(p, Mem) /\ ProcOK(p)
    BY <2>1, MemFacts, Zenon
  <2>3. Len(p.runs) = 1 /\ l = 1
    <3>1. Len(p.runs) \in {0, 1, 2} /\ Len(p.runs) >= 1 /\ Len(p.runs) <= l
      BY <2>2, OpenMeans, Zenon DEF Link
    <3> QED BY <3>1
  <2>4. slot = 2 /\ Len(q.runs) = 2 /\ q.runs[1] = Mem.runs[1] /\ q.send_file[1] = Mem.send_file[1]
    BY <1>3, <1>4, <2>3
  <2>5. \A k \in 1 .. 1 : k = 1
    OBVIOUS
  <2>6. Link(p, q)
    BY <2>2, <2>3, <2>4, <2>5 DEF Link
  <2> QED BY <2>1, <2>6, Zenon
<1> QED BY <1>6, <1>7, <1>8, <1>9, <1>11, <1>12, <1>13, Zenon DEF Joins, ProcOK

(* srunner_run_init() keeps the invariant *)
LEMMA RunBegins ==
  ASSUME NestedInv, NEW mode \in Modes, NEW how, srunner_run_init(mode, how)
  PROVE  NestedInv'
<1>1. /\ procs # << >>
      /\ Mem.runs # << >> => Top.step \in UserCode
      /\ nruns' = nruns + 1 /\ UNCHANGED <<failed, got>>
  BY Zenon DEF srunner_run_init, InUserCode, UserCode
<1>2. /\ ProcOK(Mem) /\ Mem \in Memories /\ FilesOfRuns(Mem) /\ Mem.runs \in Seq(Frames)
  BY <1>1, MemFacts, Zenon DEF ProcOK, Memories
<1>3. mode \in Statuses
  BY NestedRunsAssumption DEF Statuses
<1>4. PICK deeper \in BOOLEAN : deeper = (Mem.nested \/ Mem.runs # << >>)
  BY Zenon
<1>5. PICK m : m = [Mem EXCEPT !.old_action = Mem.action, !.action = "sig_handler",
                               !.fstat = mode, !.nested = deeper]
  OBVIOUS
<1>6. /\ m \in Memories /\ m.runs = Mem.runs /\ m.send_file = Mem.send_file
      /\ m.named = Mem.named /\ m.old_action = Mem.action /\ m.nested = deeper
  BY <1>2, <1>3, <1>5, Zenon DEF Memories
<1>7. PICK n \in Nat : n = nruns + 1
  BY DEF NestedInv
<1>8. PICK frame \in Frames :
        /\ frame = [id |-> n, mode |-> mode, item |-> 0, step |-> "start", ran |-> FALSE]
        /\ frame.id = n /\ frame.item = 0 /\ frame.step = "start"
  <2>1. [id |-> n, mode |-> mode, item |-> 0, step |-> "start", ran |-> FALSE] \in Frames
    BY <1>3, Zenon DEF Frames, Steps
  <2> QED BY <2>1, Zenon
<1>9. PICK v, w : /\ v = setup_pipe(World(m), how) /\ Becomes(w)
                  /\ w = [v EXCEPT !.m.runs = Append(@, frame)]
  <2>1. m = [Mem EXCEPT !.old_action = Mem.action, !.action = "sig_handler",
                        !.fstat = mode, !.nested = @ \/ Mem.runs # << >>]
    BY <1>2, <1>4, <1>5, Zenon DEF Memories
  <2> QED BY <1>7, <1>8, <2>1, Zenon DEF srunner_run_init
<1>10. World(m) = Worlds(m, files, names)
  BY Zenon DEF World, Worlds
<1>11. files \in [1 .. MaxFiles -> Seq(Msgs)] /\ names \subseteq 1 .. MaxFiles
  BY Zenon DEF NestedInv
<1>12. \A fs \in [1 .. MaxFiles -> Seq(Msgs)], ns \in SUBSET (1 .. MaxFiles) :
         Histories(fs, ns, failed', nruns')
  BY <1>1 DEF Histories, NestedInv
<1>13. names \subseteq left \cup OpenFiles(Mem) \cup ParentFiles
  BY <1>1, AllFiles, Zenon
<1>14. OwnResults'
  BY <1>1, Zenon DEF NestedInv, OwnResults
<1>15. OpenFiles(m) = OpenFiles(Mem)
  BY <1>6, Zenon DEF OpenFiles
<1>16. ASSUME NEW slot, NextSlot(slot)
       PROVE  Mem.send_file[slot] = NoFile /\ (slot = 2 => Mem.send_file[1] # NoFile)
  <2>1. CASE slot = 1 /\ Len(Mem.runs) = 0
    BY <1>2, <2>1 DEF FilesOfRuns
  <2>2. CASE slot = 2 /\ Len(Mem.runs) = 1
    BY <1>2, <2>2 DEF FilesOfRuns
  <2> QED BY <1>16, <2>1, <2>2, Zenon DEF NextSlot
<1>17. CASE v = Worlds([m EXCEPT !.end = "eprintf"], files, names)
  <2>1. PICK q : q = [m EXCEPT !.end = "eprintf"]
    BY Zenon
  <2>2. q.send_file = m.send_file /\ q.end = "eprintf" /\ q = [q EXCEPT !.runs = @]
    BY <1>6, <2>1, Zenon DEF Memories
  <2>3. PICK q2 : q2 = [q EXCEPT !.runs = Append(@, frame)]
    BY Zenon
  <2>4. q2.send_file = m.send_file /\ q2.end = "eprintf"
    BY <1>6, <2>1, <2>3, Zenon DEF Memories
  <2>5. w = Worlds(q2, files, names)
    <3>1. v = Worlds(q, files, names)
      BY <1>17, <2>1, Zenon
    <3>2. v.m = q
      BY <3>1, Zenon DEF Worlds
    <3>3. w = [v EXCEPT !.m = q2]
      BY <1>9, <2>3, <3>2, Zenon
    <3> QED BY <3>1, <3>3, Zenon DEF Worlds
  <2>6. w.m = q2 /\ w.files = files /\ w.names = names
    BY <2>5, Zenon DEF Worlds
  <2>7. Kept(files, failed, nruns + 1, names)
    <3>1. NoFile \notin ParentFiles
      BY Zenon DEF ParentFiles, OpenFiles
    <3> QED BY <1>1, <3>1, ParentsOlder, Zenon
  <2>8. OpenFiles(q2) = OpenFiles(Mem)
    BY <1>6, <2>4, Zenon DEF OpenFiles
  <2>9. Histories(files, names, failed', nruns')
    BY <1>11, <1>12, Zenon
  <2> QED BY <1>1, <1>9, <1>13, <1>14, <2>4, <2>6, <2>7, <2>8, <2>9, WorldStep, Zenon
<1>18. ASSUME NEW slot \in Slots, NextSlot(slot),
              NEW f \in FreeFiles, NEW b \in Flags, NEW ns,
              v = Worlds(WithFile(m, slot, f, b), [files EXCEPT ![f] = << >>], ns),
              ns = IF b THEN names \cup {f} ELSE names
       PROVE  NestedInv'
  <2>1. /\ f \in 1 .. MaxFiles /\ f \in FileNos /\ f # NoFile /\ f \notin names
        /\ f \notin OpenFiles(Mem) /\ f \notin ParentFiles
    BY <1>1, NewFileIs, Zenon
  <2>2. PICK p : p = WithFile(m, slot, f, b)
    BY Zenon
  <2>3. HasFile(p, m, slot, f, b)
    BY <1>6, <2>1, <2>2, WithFileIs, Zenon
  <2>4. PICK stack \in Seq(Frames) : stack = Append(Mem.runs, frame)
    <3>1. \A s \in Seq(Frames) : Append(s, frame) \in Seq(Frames)
      OBVIOUS
    <3> QED BY <1>2, <3>1, Zenon
  <2>5. PICK q : q = [p EXCEPT !.runs = stack]
    BY Zenon
  <2>6. /\ p \in Memories /\ p.runs = Mem.runs /\ p.old_action = Mem.action
        /\ p.nested = deeper /\ p.send_file[slot] = f /\ p.named[slot] = b
        /\ \A t \in {1, 2} : t # slot => /\ p.send_file[t] = Mem.send_file[t]
                                         /\ p.named[t] = Mem.named[t]
    BY <1>6, <2>3, Zenon DEF HasFile
  <2>7. /\ q \in Memories /\ q.runs = stack /\ q.old_action = p.old_action
        /\ q.nested = p.nested /\ q.send_file = p.send_file /\ q.named = p.named
    BY <2>4, <2>5, <2>6, Zenon DEF Memories
  <2>8. PICK fs : fs = [files EXCEPT ![f] = << >>]
    BY Zenon
  <2>9. w = Worlds(q, fs, ns)
    <3>1. v = Worlds(p, fs, ns)
      BY <1>18, <2>2, <2>8, Zenon
    <3>2. v.m.runs = Mem.runs
      BY <2>6, <3>1, Zenon DEF Worlds
    <3>3. w = [v EXCEPT !.m.runs = stack]
      BY <1>9, <2>4, <3>2, Zenon
    <3> QED BY <2>5, <3>1, <3>3, Zenon DEF Worlds
  <2>10. w.m = q /\ w.files = fs /\ w.names = ns
    BY <2>9, Zenon DEF Worlds
  <2>11. ns \subseteq names \cup {f}
    BY <1>18, Zenon
  <2>12. Histories(fs, ns, failed', nruns')
    <3>1. fs \in [1 .. MaxFiles -> Seq(Msgs)]
      BY <1>11, <2>1, <2>8
    <3>2. ns \in SUBSET (1 .. MaxFiles)
      BY <1>11, <2>1, <2>11, Zenon
    <3> QED BY <1>12, <3>1, <3>2, Zenon
  <2>13. Kept(fs, failed, nruns + 1, ns)
    BY <1>1, <2>1, <2>8, <2>11, ParentsOlder, Zenon
  <2>14. Joins(q, fs, failed, n, ns)
    <3>1. Begun(q, frame, slot, f, b, n, ns)
      BY <1>4, <1>7, <1>8, <1>18, <2>4, <2>6, <2>7, Zenon DEF Begun
    <3> QED BY <1>1, <1>18, <2>8, <3>1, InitJoins, Zenon
  <2>15. ns \subseteq left \cup OpenFiles(q) \cup ParentFiles
    <3>1. /\ OpenFiles(m) \subseteq OpenFiles(q) \cup {m.send_file[slot]}
          /\ f \in OpenFiles(q)
      BY <1>6, <2>1, <2>2, <2>7, OpenWithFile
    <3>2. m.send_file[slot] = NoFile
      BY <1>6, <1>18, <1>16, Zenon
    <3>3. NoFile \notin OpenFiles(m)
      BY DEF OpenFiles
    <3> QED BY <1>13, <1>15, <2>11, <3>1, <3>2, <3>3
  <2> QED BY <1>1, <1>7, <1>9, <1>14, <2>10, <2>12, <2>13, <2>14, <2>15, WorldStep, Zenon
<1>19. CASE Len(Mem.runs) = 2
  <2>1. m.send_file[1] # NoFile /\ m.send_file[2] # NoFile
    BY <1>2, <1>6, <1>19 DEF FilesOfRuns
  <2>2. v = Worlds([m EXCEPT !.end = "eprintf"], files, names)
    BY <1>9, <1>10, <2>1 DEF setup_pipe, Worlds
  <2> QED BY <1>17, <2>2, Zenon
<1>20. CASE Len(Mem.runs) # 2
  <2>1. PICK slot \in Slots : NextSlot(slot)
    <3>1. Len(Mem.runs) \in {0, 1, 2}
      BY <1>2, OpenMeans, Zenon
    <3>2. 1 \in Slots /\ 2 \in Slots
      BY Zenon DEF Slots
    <3>3. Len(Mem.runs) = 0 \/ Len(Mem.runs) = 1
      BY <1>20, <3>1, Zenon
    <3> QED BY <3>2, <3>3, Zenon DEF NextSlot
  <2>2. m.send_file[slot] = NoFile /\ (slot = 2 => m.send_file[1] # NoFile)
    BY <1>6, <1>16, <2>1, Zenon
  <2>3. \/ v = Worlds([m EXCEPT !.end = "eprintf"], files, names)
        \/ Opened(v, m, slot, names)
    BY <1>6, <1>9, <1>10, <2>2, Opens, Zenon
  <2> QED BY <1>17, <1>18, <2>1, <2>3, Zenon DEF Opened
<1> QED BY <1>19, <1>20, Zenon

-----------------------------------------------------------------------------
(* Before the program calls anything *)
LEMMA InitNested ==
  ASSUME Init
  PROVE  NestedInv
<1>1. PICK m : m = [runs |-> << >>, send_file |-> <<NoFile, NoFile>>,
                    named |-> <<FALSE, FALSE>>, fstat |-> "CK_FORK", error_jmp |-> NoJump,
                    action |-> "user", old_action |-> "user", sigchld |-> "default",
                    end |-> "no", nested |-> FALSE]
  BY Zenon
<1>2. procs = <<m>>
  BY <1>1, Zenon DEF Init
<1>3. m \in Memories
  <2>1. NoFile \in FileNos
    BY NestedRunsAssumption DEF NoFile, FileNos
  <2>2. NoJump \in Nat \X (Steps \cup {"none"})
    BY DEF NoJump
  <2>3. PICK sf \in FileNos \X FileNos : sf = <<NoFile, NoFile>>
    BY <2>1, Zenon
  <2>4. PICK nm \in BOOLEAN \X BOOLEAN : nm = <<FALSE, FALSE>>
    BY Zenon
  <2>5. PICK stack \in Seq(Frames) : stack = << >>
    <3>1. << >> \in Seq(Frames)
      OBVIOUS
    <3> QED BY <3>1, Zenon
  <2>6. m = [runs |-> stack, send_file |-> sf, named |-> nm, fstat |-> "CK_FORK",
             error_jmp |-> NoJump, action |-> "user", old_action |-> "user",
             sigchld |-> "default", end |-> "no", nested |-> FALSE]
    BY <1>1, <2>3, <2>4, <2>5, Zenon
  <2> QED BY <2>2, <2>6, Zenon DEF Memories, Statuses
<1>4. /\ m.runs = << >> /\ m.send_file[1] = NoFile /\ m.send_file[2] = NoFile
      /\ ~m.nested /\ m.old_action = "user" /\ m.action = "user"
  BY <1>1, Zenon
<1>5. FilesOfRuns(m) /\ Actions(m)
  BY <1>4 DEF FilesOfRuns, Actions
<1>6. Stack(m) /\ Sent(m, files, failed, nruns)
  BY <1>4 DEF Stack, Sent
<1>7. Named(m, names)
  BY Zenon DEF Named, Init
<1>8. /\ procs \in Seq(Memories) /\ Len(procs) = 1 /\ procs[1] = m
      /\ \A i \in 1 .. Len(procs) : i = 1
  BY <1>2, <1>3
<1>9. ProcsInv
  <2>1. \A i \in 1 .. Len(procs) : ProcOK(procs[i])
    BY <1>3, <1>5, <1>6, <1>8, Zenon DEF ProcOK
  <2>2. \A i, j \in 1 .. Len(procs) : ~ i < j
    BY <1>8
  <2> QED BY <2>1, <2>2, Zenon DEF ProcsInv
<1>10. \A i \in 1 .. Len(procs) : Sent(procs[i], files, failed, nruns) /\ Named(procs[i], names)
  BY <1>6, <1>7, <1>8, Zenon
<1>11. OwnResults
  <2>1. got.msgs = << >> /\ ~got.failed
    BY Zenon DEF Init, NoResult
  <2>2. ToSet(<< >>) = {}
    BY DEF ToSet
  <2> QED BY <2>1, <2>2, Zenon DEF OwnResults
<1>12. RunsLeaveNothing
  <2>1. \A p \in ToSet(procs) : p = m
    BY <1>8 DEF ToSet
  <2> QED BY <1>4, <2>1, Zenon DEF RunsLeaveNothing, Init
<1>13. /\ files \in [1 .. MaxFiles -> Seq(Msgs)] /\ names \subseteq 1 .. MaxFiles
       /\ status \in Nat /\ nruns \in Nat /\ failed \subseteq Nat \X Nat
       /\ \A r, i \in Nat : <<r, i>> \in failed => r <= nruns
  BY DEF Init
<1> QED BY <1>8, <1>9, <1>10, <1>11, <1>12, <1>13, Zenon DEF NestedInv

(* Every step of the library and of user code keeps the invariant *)
LEMMA NextKeeps ==
  ASSUME NestedInv, [Next]_vars
  PROVE  NestedInv'
<1>1. CASE srunner_run_unchecked_setup
  BY <1>1, FunctionsBegin, Zenon
<1>2. CASE tcase_run_tfun_nofork
  BY <1>2, FunctionsBegin, Zenon
<1>3. CASE srunner_run_unchecked_teardown
  BY <1>3, FunctionsBegin, Zenon
<1>4. CASE tcase_run_tfun_fork
  BY <1>4, TestForks, Zenon
<1>5. CASE child_done
  BY <1>5, ChildEnds, Zenon
<1>6. CASE srunner_run_end
  BY <1>6, RunEnds
<1>7. ASSUME NEW how \in TmpFile,
             unchecked_setup_done(how) \/ tfun_nofork_done(how) \/ tfun_fork_done(how)
      PROVE  NestedInv'
  BY <1>7, ItemsEnd, Zenon
<1>8. ASSUME NEW mode \in Modes, NEW how \in TmpFile, srunner_run_init(mode, how)
      PROVE  NestedInv'
  BY <1>8, RunBegins, Zenon
<1>9. CASE user_returns
  BY <1>9, UserReturns
<1>10. CASE ck_assert_failed
  BY <1>10, AssertFails
<1>11. CASE ignore_sigchld
  BY <1>11, SigchldIgnored
<1>12. CASE UNCHANGED vars
  <2>1. /\ procs' = procs /\ files' = files /\ names' = names /\ status' = status
        /\ nruns' = nruns /\ failed' = failed /\ got' = got /\ left' = left
    BY <1>12, Zenon DEF vars
  <2>2. ProcsInv'
    BY <2>1, Zenon DEF NestedInv, ProcsInv
  <2>3. OwnResults' /\ RunsLeaveNothing'
    BY <2>1, Zenon DEF NestedInv, OwnResults, RunsLeaveNothing
  <2> QED BY <2>1, <2>2, <2>3, Zenon DEF NestedInv
<1> QED BY <1>1, <1>2, <1>3, <1>4, <1>5, <1>6, <1>7, <1>8, <1>9, <1>10, <1>11, <1>12, Zenon
        DEF Next, LibraryStep

(* The inductive invariant: each process has a file for each of its runs,  *)
(* its jump buffer leads into its innermost run, a parent waits for the    *)
(* item its child runs, and a file holds messages of its run alone.        *)
THEOREM NestedInvariant == Spec => []NestedInv
<1>1. Init => NestedInv
  BY InitNested, Zenon
<1>2. NestedInv /\ [Next]_vars => NestedInv'
  BY NextKeeps, Zenon
<1> QED BY <1>1, <1>2, PTL DEF Spec

-----------------------------------------------------------------------------
(* What the invariant says of the pipes, the results and the jumps *)

INSTANCE FiniteSetTheorems

(* setup_pipe() and teardown_pipe() stay in step with the runs *)
LEMMA PipesFollow ==
  ASSUME NestedInv
  PROVE  PipesFollowRuns
<1> SUFFICES ASSUME NEW p \in ToSet(procs)
             PROVE  /\ Cardinality(OpenFiles(p)) = Len(p.runs)
                    /\ p.send_file[2] # NoFile => p.send_file[1] # NoFile
  BY Zenon DEF PipesFollowRuns
<1>1. ProcOK(p)
  <2>1. procs \in Seq(Memories) /\ \A i \in 1 .. Len(procs) : ProcOK(procs[i])
    BY Zenon DEF NestedInv, ProcsInv
  <2> QED BY <2>1 DEF ToSet
<1>2. FilesOfRuns(p) /\ Len(p.runs) \in {0, 1, 2}
  BY <1>1, OpenMeans, Zenon DEF ProcOK
<1>3. OpenFiles(p) = {p.send_file[k] : k \in 1 .. Len(p.runs)}
  BY <1>1, OpenMeans, Zenon
<1>4. CASE Len(p.runs) = 0
  <2>1. OpenFiles(p) = {}
    BY <1>3, <1>4
  <2>2. Cardinality(OpenFiles(p)) = 0
    BY <2>1, FS_EmptySet, Zenon
  <2> QED BY <1>2, <1>4, <2>2 DEF FilesOfRuns
<1>5. CASE Len(p.runs) = 1
  <2>1. 1 .. Len(p.runs) = {1}
    BY <1>5
  <2>2. OpenFiles(p) = {p.send_file[1]}
    BY <1>3, <2>1, Zenon
  <2>3. Cardinality(OpenFiles(p)) = 1
    BY <2>2, FS_Singleton, Zenon
  <2> QED BY <1>2, <1>5, <2>3, Zenon DEF FilesOfRuns
<1>6. CASE Len(p.runs) = 2
  <2>1. 1 .. Len(p.runs) = {1, 2}
    BY <1>6
  <2>2. OpenFiles(p) = {p.send_file[1]} \cup {p.send_file[2]}
    BY <1>3, <2>1, Zenon
  <2>3. p.send_file[2] \notin {p.send_file[1]}
    BY <1>2, <1>6, Zenon DEF FilesOfRuns
  <2>4. IsFiniteSet({p.send_file[1]}) /\ Cardinality({p.send_file[1]}) = 1
    BY FS_Singleton, Zenon
  <2>5. Cardinality(OpenFiles(p)) = 1 + 1
    BY <2>2, <2>3, <2>4, FS_AddElement, Zenon
  <2> QED BY <1>2, <1>6, <2>5 DEF FilesOfRuns
<1> QED BY <1>2, <1>4, <1>5, <1>6, Zenon

(* and a failed assertion comes back to the setjmp() made for it *)
LEMMA JumpsAreHome ==
  ASSUME NestedInv
  PROVE  JumpsHome
<1> SUFFICES ASSUME InUserCode, Mem.runs # << >>
             PROVE  /\ Mem.fstat = "CK_NOFORK" => Mem.error_jmp = <<Top.id, Top.step>>
                    /\ Top.step \in {"setup", "fn"} /\ ~Top.ran => Mem.fstat = "CK_NOFORK"
                    /\ Top.step = "child" => Mem.fstat = "CK_FORK"
  BY Zenon DEF JumpsHome
<1>1. procs # << >> /\ Top.step \in UserCode
  BY Zenon DEF InUserCode, UserCode
<1>2. Jumps(Mem, Top) /\ ModeOfStep(Top) /\ Mem \in Memories
  BY <1>1, TopFacts, Zenon
<1>3. Mem.fstat \in Statuses
  BY <1>2, Zenon DEF Memories
<1> QED BY <1>1, <1>2, <1>3, Zenon DEF Jumps, ModeOfStep, Statuses

(* In every process as many pipe files are open as runs are active, the    *)
(* inner one second, whatever assertions fail and files cannot be opened.  *)
THEOREM PipesAlwaysFollow == Spec => []PipesFollowRuns
BY NestedInvariant, PipesFollow, PTL

(* What a run receives for an item was sent by that item, and a failed     *)
(* item is never taken for a pass.                                         *)
THEOREM ResultsAlwaysOwn == Spec => []OwnResults
<1>1. NestedInv => OwnResults
  BY Zenon DEF NestedInv
<1> QED BY <1>1, NestedInvariant, PTL

(* longjmp() of a failed assertion never goes to a frame that is gone, nor *)
(* out of a test's own process.                                            *)
THEOREM JumpsAlwaysHome == Spec => []JumpsHome
BY NestedInvariant, JumpsAreHome, PTL

(* A run that is not inside another leaves the program's signal actions as *)
(* they were, and a file with a name goes with its run or its process.     *)
THEOREM RunsAlwaysLeaveNothing == Spec => []RunsLeaveNothing
<1>1. NestedInv => RunsLeaveNothing
  BY DEF NestedInv
<1> QED BY <1>1, NestedInvariant, PTL
=============================================================================
