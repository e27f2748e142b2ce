------------------------------ MODULE MsgStream ------------------------------
(***************************************************************************)
(* The message stream between a test process and the runner: ppack()       *)
(* appends packed messages to a temporary file, punpack() reads it back    *)
(* through a sliding window of twice the maximal message size              *)
(* (src/check_pack.c).                                                     *)
(*                                                                         *)
(* A message is its packed size, the only thing the window depends on; the *)
(* file is the sequence of the offsets at which its messages end.          *)
(***************************************************************************)
EXTENDS Integers, Sequences

CONSTANTS
  SendMax,   \* get_max_msg_size() in the process that sends
  RecvMax,   \* get_max_msg_size() in the process that receives
  MsgSizes,  \* the sizes pack() may return
  MaxMsgs    \* bound on the number of messages written

ASSUME SizesAssumption ==
  /\ SendMax \in Nat \ {0}
  /\ RecvMax \in Nat \ {0}
  /\ MsgSizes \subseteq Nat \ {0}
  /\ MaxMsgs \in Nat

VARIABLES
  stage,   \* "write", "parse", "done", "garbled"
  sender,  \* "alive", or "exited" after eprintf() in ppack()
  ends,    \* end offset of each message in the file
  fpos,    \* bytes fread() has taken from the file since rewind()
  nread,   \* result of the last read_buf()
  nparse,  \* unparsed bytes in the window
  parsed   \* messages handed to get_result()

stream == <<stage, sender, ends, fpos, nread, nparse, parsed>>

Least(a, b) == IF a <= b THEN a ELSE b

EndOf(i) == IF i = 0 THEN 0 ELSE ends[i]
FileLen == EndOf(Len(ends))

(* The buffer punpack() allocates, and as a defective variant half of it *)
HalfWindow == RecvMax
Window == 2 * RecvMax

(* read_buf(fdes, size, buf): fread() comes back short only at end of file *)
read_buf(pos, size) == Least(size, FileLen - pos)

StreamInit ==
  /\ stage = "write"
  /\ sender = "alive"
  /\ ends = << >>
  /\ fpos = 0 /\ nread = 0 /\ nparse = 0 /\ parsed = 0

(* Variant: ppack() without the comparison with get_max_msg_size() *)
ppack_any_size(n) ==
  /\ stage = "write" /\ sender = "alive"
  /\ Len(ends) < MaxMsgs
  /\ ends' = Append(ends, FileLen + n)
  /\ UNCHANGED <<stage, sender, fpos, nread, nparse, parsed>>

(* ppack() of a message of n bytes: written whole, or eprintf() and exit *)
ppack_of_size(n) ==
  /\ stage = "write" /\ sender = "alive"
  /\ Len(ends) < MaxMsgs
  /\ \/ /\ n <= SendMax
        /\ ends' = Append(ends, FileLen + n)
        /\ UNCHANGED sender
     \/ /\ n > SendMax
        /\ sender' = "exited"
        /\ UNCHANGED ends
  /\ UNCHANGED <<stage, fpos, nread, nparse, parsed>>

(* The start of punpack(), after rewind(): allocate and fill the window *)
punpack_fill ==
  /\ stage = "write"
  /\ nread' = read_buf(0, Window)
  /\ nparse' = nread'
  /\ fpos' = nread'
  /\ stage' = IF nparse' > 0 THEN "parse" ELSE "done"
  /\ UNCHANGED <<sender, ends, parsed>>

(* The bytes read after a message of n bytes was parsed: as many as it     *)
(* freed, unless the last read came back empty.                            *)
Refill(n) == IF nread > 0 THEN read_buf(fpos, n) ELSE nread

(* The loop goes on while bytes are unparsed; the variant, while it reads *)
LoopWhileReading(unparsed, got) == got > 0
LoopGoesOn(unparsed, got) == unparsed > 0

(* One round of punpack()'s loop: parse a message, move the rest to the    *)
(* front of the window and read as many bytes as were freed.  A message    *)
(* that is not wholly in the window is parsed from bytes that are not its. *)
punpack_round ==
  LET n == ends[parsed + 1] - EndOf(parsed)
      more == Refill(n)
  IN  /\ stage = "parse"
      /\ \/ /\ n <= nparse
            /\ parsed' = parsed + 1
            /\ nread' = more
            /\ nparse' = nparse - n + more
            /\ fpos' = fpos + more
            /\ stage' = IF LoopGoesOn(nparse', more) THEN "parse" ELSE "done"
         \/ /\ n > nparse
            /\ stage' = "garbled"
            /\ UNCHANGED <<fpos, nread, nparse, parsed>>
      /\ UNCHANGED <<sender, ends>>

StreamNext ==
  \/ \E n \in MsgSizes : ppack_of_size(n)
  \/ punpack_fill
  \/ punpack_round

StreamSpec == /\ StreamInit /\ [][StreamNext]_stream
              /\ WF_stream(punpack_fill) /\ WF_stream(punpack_round)
-----------------------------------------------------------------------------
(* The type invariant: control points, offsets and counts of bytes.        *)
TypeOK ==
  /\ stage \in {"write", "parse", "done", "garbled"}
  /\ sender \in {"alive", "exited"}
  /\ ends \in Seq(Nat)
  /\ fpos \in Nat /\ nread \in Nat /\ nparse \in Nat
  /\ parsed \in Nat

(* get_result() never parses a message of which punpack() has read only a  *)
(* part: the window of 2 * get_max_msg_size() always holds a whole         *)
(* message, provided no sender's limit is more than twice the receiver's.  *)
WholeMessagesOnly == stage # "garbled"

(* Refilling after each message never writes past the end of the buffer    *)
(* punpack() allocated.                                                    *)
WindowNotOverrun == nparse <= Window

(* When punpack() returns, every message ppack() wrote has been parsed:    *)
(* the loop does not stop early on a short read or at end of file.         *)
EveryMessageReceived == stage = "done" => parsed = Len(ends)

(* punpack() returns once it has started: the loop cannot spin at end of   *)
(* file.                                                                   *)
ReadingEnds == (stage = "parse") ~> (stage = "done")

-----------------------------------------------------------------------------
(* The inductive invariant behind the first three properties: the window   *)
(* holds the bytes between the last parsed message and fpos, and it is     *)
(* either full or the file has been read to its end.                       *)
Increasing ==
  \A i \in 1 .. Len(ends) : EndOf(i - 1) < ends[i] /\ ends[i] <= FileLen

MessagesFit ==
  \A i \in 1 .. Len(ends) : ends[i] - EndOf(i - 1) <= SendMax

WindowInv ==
  /\ parsed <= Len(ends)
  /\ stage = "write" => parsed = 0 /\ fpos = 0 /\ nparse = 0
  /\ stage # "write" =>
       /\ fpos = EndOf(parsed) + nparse
       /\ fpos <= FileLen
       /\ nparse <= Window
       /\ fpos = FileLen \/ nparse = Window
       /\ nread = 0 => fpos = FileLen
       /\ stage = "parse" => nparse > 0
       /\ stage = "done" => nparse = 0

StreamInv == TypeOK /\ Increasing /\ MessagesFit /\ WindowInv /\ WholeMessagesOnly
=============================================================================
