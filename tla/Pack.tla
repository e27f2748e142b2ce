-------------------------------- MODULE Pack ---------------------------------
(***************************************************************************)
(* The encoding of messages: pack() and upack() (src/check_pack.c).        *)
(*                                                                         *)
(* A char buffer is a sequence of bytes, a byte one of 0 .. Byte - 1 (in   *)
(* the code Byte is 256), a C string a sequence of bytes without 0.  An    *)
(* int has four bytes, so that its limits scale with Byte.                 *)
(***************************************************************************)
EXTENDS Integers, Sequences

CONSTANTS
  NULL,       \* the null pointer
  Byte,       \* the number of values of a byte
  SizeTWide   \* TRUE when size_t is wider than the four bytes of an int

ASSUME PackAssumption == Byte \in Nat \ {0, 1} /\ SizeTWide \in BOOLEAN

UINT32_MAX == Byte * Byte * Byte * Byte - 1
INT_MAX == UINT32_MAX \div 2

(* What there is instead of bytes, or of a message, when eprintf() ends the *)
(* process                                                                  *)
Refused == << >>
RefusedMsg == [type |-> "eprintf"]

(* enum ck_msg_type, and the values of enum ck_result_ctx *)
MsgTypes == <<"CK_MSG_CTX", "CK_MSG_FAIL", "CK_MSG_LOC", "CK_MSG_DURATION">>
TypeCode(type) == CHOOSE c \in 0 .. 3 : MsgTypes[c + 1] = type

-----------------------------------------------------------------------------
(* Integers: four bytes, the most significant first.  A negative int is    *)
(* packed as the ck_uint32 it converts to.                                 *)
pack_int(val) ==
  LET uval == val % (UINT32_MAX + 1)
  IN  <<uval \div (Byte * Byte * Byte), (uval \div (Byte * Byte)) % Byte,
        (uval \div Byte) % Byte, uval % Byte>>

upack_int(b) ==
  b[1] * (Byte * Byte * Byte) + b[2] * (Byte * Byte) + b[3] * Byte + b[4]

(* (size_t) val > (size_t) CK_UINT32_MAX, of an int *)
TooBigToPack(val) == SizeTWide /\ val < 0

pack_str(val) ==
  IF val = NULL THEN pack_int(0) ELSE pack_int(Len(val)) \o val

-----------------------------------------------------------------------------
(* Messages, with the fields of CtxMsg, FailMsg, LocMsg and DurationMsg *)
CtxMsg(ctx) == [type |-> "CK_MSG_CTX", ctx |-> ctx]
FailMsg(msg) == [type |-> "CK_MSG_FAIL", msg |-> msg]
LocMsg(file, line) == [type |-> "CK_MSG_LOC", file |-> file, line |-> line]
DurationMsg(d) == [type |-> "CK_MSG_DURATION", duration |-> d]

pack_ctx(m) == pack_int(m.ctx)
pack_fail(m) == pack_str(m.msg)

(* Variant: the line goes before the file *)
pack_loc_swapped(m) ==
  IF TooBigToPack(m.line) THEN Refused
  ELSE pack_int(m.line) \o pack_str(m.file)

pack_loc(m) ==
  IF TooBigToPack(m.line) THEN Refused
  ELSE pack_str(m.file) \o pack_int(m.line)

pack_duration(m) ==
  IF TooBigToPack(m.duration) THEN Refused ELSE pack_int(m.duration)

(* pack(): the type and the fields, by way of pftab *)
pack(m) ==
  LET fields == CASE m.type = "CK_MSG_CTX" -> pack_ctx(m)
                  [] m.type = "CK_MSG_FAIL" -> pack_fail(m)
                  [] m.type = "CK_MSG_LOC" -> pack_loc(m)
                  [] m.type = "CK_MSG_DURATION" -> pack_duration(m)
  IN  IF fields = Refused THEN Refused
      ELSE pack_int(TypeCode(m.type)) \o fields

-----------------------------------------------------------------------------
(* Unpacking at the head of a sequence of bytes.  Fields that are not all  *)
(* there are read from bytes that belong to nobody: Garbled.               *)
Garbled == [type |-> "garbled"]
NoMsg == [msg |-> Garbled, n |-> 0]

(* The string at the head of b, or NULL when b ends before it *)
upack_str(b) ==
  IF Len(b) < 4 \/ Len(b) < 4 + upack_int(b) THEN NULL
  ELSE SubSeq(b, 5, 4 + upack_int(b))

(* upack_duration() and upack_loc() refuse what does not fit an int *)
FitsInt(v) == v <= INT_MAX

upack_fields(type, b) ==
  CASE type = "CK_MSG_FAIL" ->
         IF upack_str(b) = NULL THEN NoMsg
         ELSE [msg |-> FailMsg(upack_str(b)), n |-> 4 + Len(upack_str(b))]
    [] type = "CK_MSG_LOC" ->
         LET file == upack_str(b)
             rest == SubSeq(b, 5 + Len(file), Len(b))
         IN  IF file = NULL THEN NoMsg
             ELSE IF Len(rest) < 4 THEN NoMsg
             ELSE [msg |-> IF FitsInt(upack_int(rest))
                           THEN LocMsg(file, upack_int(rest)) ELSE RefusedMsg,
                   n |-> 8 + Len(file)]
    [] type \in {"CK_MSG_CTX", "CK_MSG_DURATION"} ->
         IF Len(b) < 4 THEN NoMsg
         ELSE [msg |-> IF type = "CK_MSG_CTX" THEN CtxMsg(upack_int(b))
                       ELSE IF FitsInt(upack_int(b)) THEN DurationMsg(upack_int(b))
                       ELSE RefusedMsg,
               n |-> 4]

(* upack(): the type, which check_type() wants to be known, by way of upftab *)
upack(b) ==
  IF Len(b) < 4 THEN NoMsg
  ELSE IF upack_int(b) \notin 0 .. 3 THEN [msg |-> RefusedMsg, n |-> 4]
  ELSE LET f == upack_fields(MsgTypes[upack_int(b) + 1], SubSeq(b, 5, Len(b)))
       IN  IF f = NoMsg THEN f ELSE [f EXCEPT !.n = 4 + @]

(* What a reader of all of b gets, up to the first message that is not whole *)
Decoded(b) ==
  LET from[i \in 1 .. Len(b) + 1] ==
        LET u == upack(SubSeq(b, i, Len(b)))
        IN  IF i > Len(b) THEN << >>
            ELSE IF u.n = 0 \/ u.msg = RefusedMsg THEN <<u.msg>>
            ELSE <<u.msg>> \o from[i + u.n]
  IN  from[1]

-----------------------------------------------------------------------------
(* get_max_msg_size(), of what strtoul() made of CK_MAX_MSG_SIZE (0 when   *)
(* it is unset or no number) and of check_set_max_msg_size(), 0 for no call *)
get_max_msg_size(env, ck_max_msg_size, DEFAULT_MAX_MSG_SIZE) ==
  IF env # 0 THEN env
  ELSE IF ck_max_msg_size # 0 THEN ck_max_msg_size
  ELSE DEFAULT_MAX_MSG_SIZE
=============================================================================
