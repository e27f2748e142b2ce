----------------------------- MODULE PackProofs ------------------------------
(***************************************************************************)
(* What src/check_pack.c promises, in three parts: what pack() makes of a  *)
(* message upack() turns back into it, for every size of a byte (Pack);    *)
(* the mutex of ppack() does its work for every number of threads,         *)
(* messages, buffer size and limit, and whoever is cancelled or killed,    *)
(* exits or forks (Ppack); and for every pair of limits with               *)
(* SendMax <= 2 * RecvMax, every set of sizes and number of messages,      *)
(* punpack() parses whole messages only, stays inside its buffer and       *)
(* parses them all (MsgStream).                                            *)
(***************************************************************************)
EXTENDS Ppack, MsgStream, TLAPS

-----------------------------------------------------------------------------
(* pack() and upack() *)

(* pack_int() and upack_int() divide: the quotient and the remainder *)
LEMMA DivMod ==
  ASSUME NEW u \in Nat, NEW b \in Nat \ {0}
  PROVE  /\ u \div b \in Nat /\ (u % b) \in 0 .. b - 1
         /\ u = b * (u \div b) + (u % b)
OBVIOUS

(* There is only one quotient *)
LEMMA DivUnique ==
  ASSUME NEW u \in Nat, NEW b \in Nat \ {0}, NEW q \in Nat, NEW r \in 0 .. b - 1,
         u = b * q + r
  PROVE  u \div b = q
<1>1. u \div b \in Nat /\ (u % b) \in 0 .. b - 1 /\ u = b * (u \div b) + (u % b)
  BY DivMod, Zenon
<1>2. CASE u \div b > q
  <2>1. PICK k \in Nat : u \div b = q + 1 + k
    <3>1. (u \div b) - q - 1 \in Nat
      BY <1>1, <1>2
    <3> QED BY <1>1, <3>1
  <2>2. b * (q + 1 + k) = b * q + b + b * k /\ b * k \in Nat
    OBVIOUS
  <2> QED BY <1>1, <2>1, <2>2
<1>3. CASE u \div b < q
  <2>1. PICK k \in Nat : q = (u \div b) + 1 + k
    <3>1. q - (u \div b) - 1 \in Nat
      BY <1>1, <1>3
    <3> QED BY <1>1, <3>1
  <2>2. b * ((u \div b) + 1 + k) = b * (u \div b) + b + b * k /\ b * k \in Nat
    BY <1>1
  <2> QED BY <1>1, <2>1, <2>2
<1> QED BY <1>1, <1>2, <1>3

(* Dividing twice is dividing by the product: pack_int() takes a byte, then *)
(* the next                                                               *)
LEMMA DivDiv ==
  ASSUME NEW u \in Nat, NEW b \in Nat \ {0}, NEW c \in Nat \ {0}
  PROVE  u \div (b * c) = (u \div b) \div c
<1> DEFINE q == u \div b
           s == q \div c
<1>1. q \in Nat /\ (u % b) \in 0 .. b - 1 /\ u = b * q + (u % b)
  BY DivMod, Zenon
<1>2. s \in Nat /\ (q % c) \in 0 .. c - 1 /\ q = c * s + (q % c)
  BY <1>1, DivMod, Zenon
<1>3. u = (b * c) * s + (b * (q % c) + (u % b))
  <2>1. \A x, y \in Nat : b * (c * x + y) = (b * c) * x + b * y
    BY SMTT(30)
  <2>2. b * q = (b * c) * s + b * (q % c)
    <3> DEFINE t == q % c
    <3>1. s \in Nat /\ t \in Nat /\ q = c * s + t
      BY <1>2
    <3> HIDE DEF q, s, t
    <3>2. b * (c * s + t) = (b * c) * s + b * t
      BY <2>1, <3>1
    <3>3. b * q = (b * c) * s + b * t
      BY <3>1, <3>2
    <3> QED BY <3>3 DEF t
  <2>3. (b * c) * s \in Nat /\ b * (q % c) \in Nat /\ (u % b) \in Nat
    BY <1>1, <1>2
  <2> HIDE DEF q, s
  <2> QED BY <1>1, <2>2, <2>3
<1>4. b * (q % c) + (u % b) \in 0 .. b * c - 1
  <2>1. PICK k \in Nat : c = (q % c) + 1 + k
    <3>1. c - (q % c) - 1 \in Nat
      BY <1>2
    <3> QED BY <1>2, <3>1
  <2>2. b * ((q % c) + 1 + k) = b * (q % c) + b + b * k /\ b * k \in Nat /\ b * (q % c) \in Nat
    BY <1>2
  <2> QED BY <1>1, <2>1, <2>2
<1>5. b * c \in Nat \ {0}
  OBVIOUS
<1> QED BY <1>2, <1>3, <1>4, <1>5, DivUnique

(* A number below the modulus is its own remainder *)
LEMMA ModSmall ==
  ASSUME NEW m \in Nat \ {0}, NEW u \in 0 .. m - 1
  PROVE  u % m = u
<1>1. u \in Nat /\ u = m * 0 + u
  OBVIOUS
<1>2. u \div m = 0
  BY <1>1, DivUnique
<1>3. (u % m) \in 0 .. m - 1 /\ u = m * (u \div m) + (u % m)
  BY <1>1, DivMod
<1> QED BY <1>1, <1>2, <1>3

(* The four bytes of upack_int() as one sum *)
LEMMA FourDigits ==
  ASSUME NEW b \in Nat, NEW d3 \in Nat, NEW d2 \in Nat, NEW d1 \in Nat, NEW d0 \in Nat
  PROVE  b * (b * (b * d3 + d2) + d1) + d0 = d3 * (b * b * b) + d2 * (b * b) + d1 * b + d0
<1>1. b * (b * d3 + d2) = b * (b * d3) + b * d2
  BY SMTT(30)
<1>2. b * (b * (b * d3) + b * d2 + d1) = b * (b * (b * d3)) + b * (b * d2) + b * d1
  BY SMTT(30)
<1>3. b * (b * (b * d3)) = d3 * (b * b * b) /\ b * (b * d2) = d2 * (b * b) /\ b * d1 = d1 * b
  BY SMTT(30)
<1> QED BY <1>1, <1>2, <1>3

(* The bytes of an int, and the int they stand for *)
LEMMA IntRoundTrip ==
  ASSUME NEW v \in 0 .. UINT32_MAX
  PROVE  /\ pack_int(v) \in Seq(Nat) /\ Len(pack_int(v)) = 4 /\ pack_int(v) # Refused
         /\ upack_int(pack_int(v)) = v
<1> DEFINE B == Byte
           q1 == v \div B
           q2 == q1 \div B
           q3 == q2 \div B
<1>1. B \in Nat \ {0} /\ v \in Nat
  BY PackAssumption DEF UINT32_MAX
<1>2. B * B \in Nat \ {0} /\ B * B * B \in Nat \ {0} /\ B * B * B * B \in Nat \ {0}
  BY <1>1
<1> HIDE DEF B
<1>3. q1 \in Nat /\ (v % B) \in 0 .. B - 1 /\ v = B * q1 + (v % B)
  BY <1>1, DivMod, Zenon
<1>4. q2 \in Nat /\ (q1 % B) \in 0 .. B - 1 /\ q1 = B * q2 + (q1 % B)
  BY <1>1, <1>3, DivMod, Zenon
<1>5. q3 \in Nat /\ (q2 % B) \in 0 .. B - 1 /\ q2 = B * q3 + (q2 % B)
  BY <1>1, <1>4, DivMod, Zenon
<1>6. v \div (B * B) = q2 /\ v \div (B * B * B) = q3
  <2>1. v \div (B * B) = q2
    BY <1>1, DivDiv, Zenon
  <2>2. v \div ((B * B) * B) = (v \div (B * B)) \div B
    BY <1>1, <1>2, DivDiv, Zenon
  <2> QED BY <2>1, <2>2
<1>7. v % (UINT32_MAX + 1) = v
  <2>1. UINT32_MAX + 1 = B * B * B * B
    BY <1>1, <1>2 DEF UINT32_MAX, B
  <2>2. v \in 0 .. B * B * B * B - 1
    BY DEF UINT32_MAX, B
  <2> QED BY <1>2, <2>1, <2>2, ModSmall
<1>8. pack_int(v) = <<q3, q2 % B, q1 % B, v % B>>
  BY <1>6, <1>7 DEF pack_int, B
<1>9. v = q3 * (B * B * B) + (q2 % B) * (B * B) + (q1 % B) * B + (v % B)
  <2>1. v = B * (B * (B * q3 + (q2 % B)) + (q1 % B)) + (v % B)
    BY <1>3, <1>4, <1>5
  <2>2. (q2 % B) \in Nat /\ (q1 % B) \in Nat /\ (v % B) \in Nat
    BY <1>1, <1>3, <1>4, <1>5
  <2> HIDE DEF q1, q2, q3
  <2> QED BY <1>1, <1>5, <2>1, <2>2, FourDigits
<1> QED BY <1>3, <1>4, <1>5, <1>8, <1>9 DEF upack_int, Refused, B

(* The rest of the file stays behind the fields *)
LEMMA Associative ==
  ASSUME NEW h \in Seq(Nat), NEW s \in Seq(Nat), NEW t \in Seq(Nat)
  PROVE  (h \o s) \o t = h \o (s \o t)
BY SMTT(30)

(* What is left when the beginning is taken away, and the beginning        *)
LEMMA HeadAndRest ==
  ASSUME NEW h \in Seq(Nat), NEW s \in Seq(Nat)
  PROVE  /\ h \o s \in Seq(Nat) /\ Len(h \o s) = Len(h) + Len(s)
         /\ \A k \in 1 .. Len(h) : (h \o s)[k] = h[k]
         /\ SubSeq(h \o s, 1, Len(h)) = h
         /\ SubSeq(h \o s, Len(h) + 1, Len(h \o s)) = s
<1>1. Len(h) \in Nat /\ Len(s) \in Nat
  OBVIOUS
<1>2. h \o s \in Seq(Nat) /\ Len(h \o s) = Len(h) + Len(s)
  OBVIOUS
<1>3. \A k \in 1 .. Len(h) + Len(s) :
        (h \o s)[k] = IF k <= Len(h) THEN h[k] ELSE s[k - Len(h)]
  OBVIOUS
<1>4. SubSeq(h \o s, 1, Len(h)) = h
  OBVIOUS
<1>5. SubSeq(h \o s, Len(h) + 1, Len(h \o s)) = s
  OBVIOUS
<1> QED BY <1>1, <1>2, <1>3, <1>4, <1>5

(* Four bytes at the head of others *)
LEMMA IntAtHead ==
  ASSUME NEW v \in 0 .. UINT32_MAX, NEW s \in Seq(Nat)
  PROVE  /\ pack_int(v) \o s \in Seq(Nat)
         /\ Len(pack_int(v) \o s) = 4 + Len(s)
         /\ upack_int(pack_int(v) \o s) = v
         /\ SubSeq(pack_int(v) \o s, 5, Len(pack_int(v) \o s)) = s
<1>1. PICK i \in Seq(Nat) : i = pack_int(v) /\ Len(i) = 4 /\ upack_int(i) = v
  BY IntRoundTrip
<1>2. /\ i \o s \in Seq(Nat) /\ Len(i \o s) = 4 + Len(s)
      /\ \A k \in 1 .. 4 : (i \o s)[k] = i[k]
      /\ SubSeq(i \o s, 5, Len(i \o s)) = s
  <2>1. /\ i \o s \in Seq(Nat) /\ Len(i \o s) = Len(i) + Len(s)
        /\ \A k \in 1 .. Len(i) : (i \o s)[k] = i[k]
        /\ SubSeq(i \o s, Len(i) + 1, Len(i \o s)) = s
    BY HeadAndRest
  <2> QED BY <1>1, <2>1
<1>3. upack_int(i \o s) = v
  BY <1>1, <1>2 DEF upack_int
<1> QED BY <1>1, <1>2, <1>3

(* A string at the head of others *)
Strings == {s \in Seq(Nat) : Len(s) <= UINT32_MAX}

(* upack_str() reads what pack_str() wrote, whatever follows *)
LEMMA StrAtHead ==
  ASSUME NULL \notin Seq(Nat), NEW s \in Strings, NEW rest \in Seq(Nat)
  PROVE  /\ pack_str(s) \in Seq(Nat) /\ Len(pack_str(s)) = 4 + Len(s)
         /\ pack_str(s) \o rest \in Seq(Nat)
         /\ Len(pack_str(s) \o rest) = 4 + Len(s) + Len(rest)
         /\ upack_str(pack_str(s) \o rest) = s
         /\ SubSeq(pack_str(s) \o rest, 5 + Len(s), Len(pack_str(s) \o rest)) = rest
<1>1. s \in Seq(Nat) /\ Len(s) \in 0 .. UINT32_MAX /\ s # NULL
  BY DEF Strings
<1>2. PICK i \in Seq(Nat) : i = pack_int(Len(s)) /\ Len(i) = 4
  BY <1>1, IntRoundTrip
<1>3. pack_str(s) = i \o s /\ i \o s \in Seq(Nat) /\ Len(i \o s) = 4 + Len(s)
  <2>1. i \o s \in Seq(Nat) /\ Len(i \o s) = Len(i) + Len(s)
    BY <1>1, HeadAndRest
  <2>2. pack_str(s) = i \o s
    BY <1>1, <1>2 DEF pack_str
  <2> QED BY <1>2, <2>1, <2>2
<1> DEFINE b == (i \o s) \o rest
<1>4. b \in Seq(Nat) /\ Len(b) = 4 + Len(s) + Len(rest) /\ b = i \o (s \o rest)
  <2>1. b \in Seq(Nat) /\ Len(b) = Len(i \o s) + Len(rest)
    BY <1>3, HeadAndRest, Zenon
  <2>2. b = i \o (s \o rest)
    BY <1>1, Associative, Zenon
  <2> QED BY <1>1, <1>3, <2>1, <2>2
<1>5. upack_int(b) = Len(s)
  <2>1. s \o rest \in Seq(Nat)
    BY <1>1
  <2>2. upack_int(i \o (s \o rest)) = Len(s)
    BY <1>1, <1>2, <2>1, IntAtHead, Zenon
  <2> QED BY <1>4, <2>2
<1>6. SubSeq(b, 5, 4 + Len(s)) = s
  BY <1>1, <1>2, <1>4
<1>7. SubSeq(b, 5 + Len(s), Len(b)) = rest
  BY <1>1, <1>2, <1>3, <1>4
<1>8. upack_str(b) = s
  BY <1>1, <1>4, <1>5, <1>6 DEF upack_str
<1> QED BY <1>3, <1>4, <1>7, <1>8

(* pack_str() writes no string as the empty one *)
LEMMA NullIsEmpty ==
  ASSUME NULL \notin Seq(Nat)
  PROVE  << >> \in Strings /\ pack_str(NULL) = pack_str(<< >>)
<1>1. << >> \in Seq(Nat) /\ Len(<< >>) = 0 /\ 0 \in 0 .. UINT32_MAX
  <2>1. Byte * Byte \in Nat \ {0}
    BY PackAssumption
  <2>2. Byte * Byte * Byte \in Nat \ {0}
    BY <2>1, PackAssumption
  <2>3. Byte * Byte * Byte * Byte \in Nat \ {0}
    BY <2>2, PackAssumption
  <2> QED BY <2>3 DEF UINT32_MAX
<1>2. pack_int(0) \in Seq(Nat) /\ pack_int(0) \o << >> = pack_int(0)
  <2>1. \A s \in Seq(Nat) : s \o << >> = s
    OBVIOUS
  <2>2. pack_int(0) \in Seq(Nat)
    BY <1>1, IntRoundTrip
  <2> QED BY <2>1, <2>2
<1> QED BY <1>1, <1>2 DEF Strings, pack_str

(* The numbers of the types of messages, as in enum ck_msg_type *)
LEMMA TypeCodes ==
  /\ TypeCode("CK_MSG_CTX") = 0 /\ TypeCode("CK_MSG_FAIL") = 1
  /\ TypeCode("CK_MSG_LOC") = 2 /\ TypeCode("CK_MSG_DURATION") = 3
  /\ 0 .. 3 \subseteq 0 .. UINT32_MAX
BY PackAssumption DEF TypeCode, MsgTypes, UINT32_MAX

(* The messages that pack() does not refuse and upack() does not either *)
Sendable ==
  {CtxMsg(c) : c \in 0 .. UINT32_MAX} \cup {FailMsg(msg) : msg \in Strings \cup {NULL}}
  \cup {LocMsg(path, line) : path \in Strings \cup {NULL}, line \in 0 .. INT_MAX}
  \cup {DurationMsg(d) : d \in 0 .. INT_MAX}

(* A duration and a line are written as unsigned *)
LEMMA IntsFit == INT_MAX \in Nat /\ 0 .. INT_MAX \subseteq 0 .. UINT32_MAX
<1>1. Byte * Byte \in Nat \ {0}
  BY PackAssumption
<1>2. Byte * Byte * Byte \in Nat \ {0}
  BY <1>1, PackAssumption
<1>3. Byte * Byte * Byte * Byte \in Nat \ {0}
  BY <1>2, PackAssumption
<1>4. UINT32_MAX \in Nat
  BY <1>3 DEF UINT32_MAX
<1> QED BY <1>4 DEF INT_MAX

(* After the code of the type, the fields are what is left *)
LEMMA TypeThenFields ==
  ASSUME NEW c \in 0 .. 3, NEW f \in Seq(Nat), NEW rest \in Seq(Nat),
         upack_fields(MsgTypes[c + 1], f \o rest) # NoMsg
  PROVE  /\ Len(pack_int(c) \o f) = 4 + Len(f)
         /\ upack((pack_int(c) \o f) \o rest) =
              [upack_fields(MsgTypes[c + 1], f \o rest) EXCEPT !.n = 4 + @]
<1>1. c \in 0 .. UINT32_MAX
  BY TypeCodes
<1>2. PICK i \in Seq(Nat) : i = pack_int(c) /\ Len(i) = 4
  BY <1>1, IntRoundTrip
<1>3. Len(i \o f) = 4 + Len(f) /\ (i \o f) \o rest = i \o (f \o rest)
  <2>1. Len(i \o f) = Len(i) + Len(f)
    BY HeadAndRest
  <2>2. (i \o f) \o rest = i \o (f \o rest)
    BY Associative, Zenon
  <2> QED BY <1>2, <2>1, <2>2
<1>4. f \o rest \in Seq(Nat)
  BY HeadAndRest
<1> DEFINE b == i \o (f \o rest)
<1>5. /\ Len(b) = 4 + Len(f \o rest) /\ upack_int(b) = c
      /\ SubSeq(b, 5, Len(b)) = f \o rest
  BY <1>1, <1>2, <1>4, IntAtHead, Zenon
<1>6. Len(f \o rest) \in Nat
  BY <1>4
<1> HIDE DEF b
<1>7. upack(b) = [upack_fields(MsgTypes[c + 1], f \o rest) EXCEPT !.n = 4 + @]
  <2>1. ~(Len(b) < 4) /\ upack_int(b) \in 0 .. 3
    BY <1>5, <1>6
  <2> QED BY <1>5, <2>1, Zenon DEF upack
<1> QED BY <1>2, <1>3, <1>7 DEF b

(* A message as upack() gives it: a null pointer has become an empty string *)
Delivered(m) ==
  CASE m.type = "CK_MSG_FAIL" -> FailMsg(IF m.msg = NULL THEN << >> ELSE m.msg)
    [] m.type = "CK_MSG_LOC" -> LocMsg(IF m.file = NULL THEN << >> ELSE m.file, m.line)
    [] OTHER -> m

(* A packed field is not a refusal *)
LEMMA NotEmpty ==
  ASSUME NEW f \in Seq(Nat), NEW k \in Nat, Len(f) = 4 + k
  PROVE  f # Refused
BY DEF Refused

(* A context message is read back *)
LEMMA CtxRoundTrip ==
  ASSUME NEW c \in 0 .. UINT32_MAX, NEW rest \in Seq(Nat)
  PROVE  upack(pack(CtxMsg(c)) \o rest) =
           [msg |-> CtxMsg(c), n |-> Len(pack(CtxMsg(c)))]
<1> DEFINE f == pack_int(c)
<1>1. f \in Seq(Nat) /\ Len(f) = 4 /\ f # Refused
  BY IntRoundTrip
<1>2. pack(CtxMsg(c)) = pack_int(0) \o f
  BY <1>1, TypeCodes, Zenon DEF pack, CtxMsg, pack_ctx
<1>3. upack_fields("CK_MSG_CTX", f \o rest) = [msg |-> CtxMsg(c), n |-> 4]
  <2>1. upack_int(f \o rest) = c /\ ~(Len(f \o rest) < 4)
    BY IntAtHead
  <2> QED BY <2>1 DEF upack_fields
<1> HIDE DEF f
<1>4. /\ Len(pack_int(0) \o f) = 4 + Len(f)
      /\ upack((pack_int(0) \o f) \o rest) = [msg |-> CtxMsg(c), n |-> 4 + 4]
  <2> DEFINE r == [msg |-> CtxMsg(c), n |-> 4]
  <2>1. 0 \in 0 .. 3 /\ MsgTypes[0 + 1] = "CK_MSG_CTX"
    BY DEF MsgTypes
  <2>2. r # NoMsg /\ [r EXCEPT !.n = 4 + @] = [msg |-> CtxMsg(c), n |-> 4 + 4]
    BY <1>1 DEF NoMsg
  <2>3. upack_fields(MsgTypes[0 + 1], f \o rest) = r
    BY <1>3, <2>1, Zenon
  <2> HIDE DEF r
  <2>n. 0 \in 0 .. 3 /\ f \in Seq(Nat) /\ upack_fields(MsgTypes[0 + 1], f \o rest) # NoMsg
    BY <1>1, <2>1, <2>2, <2>3, Zenon
  <2>4. /\ Len(pack_int(0) \o f) = 4 + Len(f)
        /\ upack((pack_int(0) \o f) \o rest) =
             [upack_fields(MsgTypes[0 + 1], f \o rest) EXCEPT !.n = 4 + @]
    BY <2>n, TypeThenFields
  <2> QED BY <2>2, <2>3, <2>4, Zenon
<1> QED BY <1>1, <1>2, <1>4

(* A duration message is read back *)
LEMMA DurationRoundTrip ==
  ASSUME NEW d \in 0 .. INT_MAX, NEW rest \in Seq(Nat)
  PROVE  upack(pack(DurationMsg(d)) \o rest) =
           [msg |-> DurationMsg(d), n |-> Len(pack(DurationMsg(d)))]
<1> DEFINE f == pack_int(d)
<1>0. d \in 0 .. UINT32_MAX /\ FitsInt(d) /\ ~TooBigToPack(d)
  BY IntsFit DEF FitsInt, TooBigToPack
<1>1. f \in Seq(Nat) /\ Len(f) = 4 /\ f # Refused
  BY <1>0, IntRoundTrip
<1>2. pack(DurationMsg(d)) = pack_int(3) \o f
  BY <1>0, <1>1, TypeCodes, Zenon DEF pack, DurationMsg, pack_duration
<1>3. upack_fields("CK_MSG_DURATION", f \o rest) = [msg |-> DurationMsg(d), n |-> 4]
  <2>1. upack_int(f \o rest) = d /\ ~(Len(f \o rest) < 4)
    BY <1>0, IntAtHead
  <2> QED BY <1>0, <2>1 DEF upack_fields
<1> HIDE DEF f
<1>4. /\ Len(pack_int(3) \o f) = 4 + Len(f)
      /\ upack((pack_int(3) \o f) \o rest) = [msg |-> DurationMsg(d), n |-> 4 + 4]
  <2> DEFINE r == [msg |-> DurationMsg(d), n |-> 4]
  <2>1. 3 \in 0 .. 3 /\ MsgTypes[3 + 1] = "CK_MSG_DURATION"
    BY DEF MsgTypes
  <2>2. r # NoMsg /\ [r EXCEPT !.n = 4 + @] = [msg |-> DurationMsg(d), n |-> 4 + 4]
    BY <1>1 DEF NoMsg
  <2>3. upack_fields(MsgTypes[3 + 1], f \o rest) = r
    BY <1>3, <2>1, Zenon
  <2> HIDE DEF r
  <2>n. 3 \in 0 .. 3 /\ f \in Seq(Nat) /\ upack_fields(MsgTypes[3 + 1], f \o rest) # NoMsg
    BY <1>1, <2>1, <2>2, <2>3, Zenon
  <2>4. /\ Len(pack_int(3) \o f) = 4 + Len(f)
        /\ upack((pack_int(3) \o f) \o rest) =
             [upack_fields(MsgTypes[3 + 1], f \o rest) EXCEPT !.n = 4 + @]
    BY <2>n, TypeThenFields
  <2> QED BY <2>2, <2>3, <2>4, Zenon
<1> QED BY <1>1, <1>2, <1>4

(* A failure message is read back *)
LEMMA FailRoundTrip ==
  ASSUME NULL \notin Seq(Nat), NEW s \in Strings, NEW rest \in Seq(Nat)
  PROVE  upack(pack(FailMsg(s)) \o rest) = [msg |-> FailMsg(s), n |-> Len(pack(FailMsg(s)))]
<1> DEFINE f == pack_str(s)
<1>1. /\ s \in Seq(Nat) /\ Len(s) \in Nat /\ s # NULL
      /\ f \in Seq(Nat) /\ Len(f) = 4 + Len(s)
      /\ upack_str(f \o rest) = s
  BY StrAtHead DEF Strings
<1>2. pack(FailMsg(s)) = pack_int(1) \o f
  <2>1. f # Refused
    BY <1>1, NotEmpty
  <2> QED BY <2>1, TypeCodes DEF pack, FailMsg, pack_fail
<1>3. upack_fields("CK_MSG_FAIL", f \o rest) = [msg |-> FailMsg(s), n |-> 4 + Len(s)]
  BY <1>1 DEF upack_fields
<1> HIDE DEF f
<1>4. /\ Len(pack_int(1) \o f) = 4 + Len(f)
      /\ upack((pack_int(1) \o f) \o rest) = [msg |-> FailMsg(s), n |-> 4 + (4 + Len(s))]
  <2> DEFINE r == [msg |-> FailMsg(s), n |-> 4 + Len(s)]
  <2>1. 1 \in 0 .. 3 /\ MsgTypes[1 + 1] = "CK_MSG_FAIL"
    BY DEF MsgTypes
  <2>2. r # NoMsg /\ [r EXCEPT !.n = 4 + @] = [msg |-> FailMsg(s), n |-> 4 + (4 + Len(s))]
    BY <1>1 DEF NoMsg
  <2>3. upack_fields(MsgTypes[1 + 1], f \o rest) = r
    BY <1>3, <2>1, Zenon
  <2> HIDE DEF r
  <2>n. 1 \in 0 .. 3 /\ f \in Seq(Nat) /\ upack_fields(MsgTypes[1 + 1], f \o rest) # NoMsg
    BY <1>1, <2>1, <2>2, <2>3, Zenon
  <2>4. /\ Len(pack_int(1) \o f) = 4 + Len(f)
        /\ upack((pack_int(1) \o f) \o rest) =
             [upack_fields(MsgTypes[1 + 1], f \o rest) EXCEPT !.n = 4 + @]
    BY <2>n, TypeThenFields
  <2> QED BY <2>2, <2>3, <2>4, Zenon
<1> QED BY <1>1, <1>2, <1>4

(* A location message is read back *)
LEMMA LocRoundTrip ==
  ASSUME NULL \notin Seq(Nat), NEW s \in Strings, NEW line \in 0 .. INT_MAX,
         NEW rest \in Seq(Nat)
  PROVE  upack(pack(LocMsg(s, line)) \o rest) =
           [msg |-> LocMsg(s, line), n |-> Len(pack(LocMsg(s, line)))]
<1> DEFINE i == pack_int(line)
           f == pack_str(s) \o i
<1>0. line \in 0 .. UINT32_MAX /\ FitsInt(line) /\ ~TooBigToPack(line)
  BY IntsFit DEF FitsInt, TooBigToPack
<1>1. i \in Seq(Nat) /\ Len(i) = 4
  BY <1>0, IntRoundTrip
<1>2. /\ i \o rest \in Seq(Nat) /\ Len(i \o rest) = 4 + Len(rest)
      /\ upack_int(i \o rest) = line
  BY <1>0, IntAtHead
<1> HIDE DEF i
<1>3. /\ s \in Seq(Nat) /\ Len(s) \in Nat /\ s # NULL
      /\ pack_str(s) \in Seq(Nat) /\ Len(pack_str(s)) = 4 + Len(s)
  BY StrAtHead DEF Strings
<1>4. f \in Seq(Nat) /\ Len(f) = 8 + Len(s)
  <2>1. f \in Seq(Nat) /\ Len(f) = Len(pack_str(s)) + Len(i)
    BY <1>1, <1>3, HeadAndRest, Zenon
  <2> QED BY <1>1, <1>3, <2>1
<1>5. pack(LocMsg(s, line)) = pack_int(2) \o f
  <2>1. f # Refused
    <3>1. 4 + Len(s) \in Nat /\ Len(f) = 4 + (4 + Len(s))
      BY <1>3, <1>4
    <3> HIDE DEF f
    <3> QED BY <1>4, <3>1, NotEmpty, Zenon
  <2> QED BY <1>0, <2>1, TypeCodes, Zenon DEF pack, LocMsg, pack_loc, i
<1>6. /\ f \o rest = pack_str(s) \o (i \o rest)
      /\ upack_str(f \o rest) = s
      /\ SubSeq(f \o rest, 5 + Len(s), Len(f \o rest)) = i \o rest
  <2>1. f \o rest = pack_str(s) \o (i \o rest)
    BY <1>1, <1>3, Associative, Zenon
  <2> QED BY <1>2, <2>1, StrAtHead, Zenon
<1> HIDE DEF f
<1>7. upack_fields("CK_MSG_LOC", f \o rest) = [msg |-> LocMsg(s, line), n |-> 8 + Len(s)]
  <2>1. ~(Len(i \o rest) < 4)
    BY <1>2
  <2> QED BY <1>0, <1>2, <1>3, <1>6, <2>1, Zenon DEF upack_fields
<1>8. /\ Len(pack_int(2) \o f) = 4 + Len(f)
      /\ upack((pack_int(2) \o f) \o rest) = [msg |-> LocMsg(s, line), n |-> 4 + (8 + Len(s))]
  <2> DEFINE r == [msg |-> LocMsg(s, line), n |-> 8 + Len(s)]
  <2>1. 2 \in 0 .. 3 /\ MsgTypes[2 + 1] = "CK_MSG_LOC"
    BY DEF MsgTypes
  <2>2. r # NoMsg /\ [r EXCEPT !.n = 4 + @] = [msg |-> LocMsg(s, line), n |-> 4 + (8 + Len(s))]
    BY <1>3 DEF NoMsg
  <2>3. upack_fields(MsgTypes[2 + 1], f \o rest) = r
    BY <1>7, <2>1, Zenon
  <2> HIDE DEF r
  <2>4. 2 \in 0 .. 3 /\ f \in Seq(Nat) /\ upack_fields(MsgTypes[2 + 1], f \o rest) # NoMsg
    BY <1>4, <2>1, <2>2, <2>3, Zenon
  <2>5. /\ Len(pack_int(2) \o f) = 4 + Len(f)
        /\ upack((pack_int(2) \o f) \o rest) =
             [upack_fields(MsgTypes[2 + 1], f \o rest) EXCEPT !.n = 4 + @]
    BY <2>4, TypeThenFields
  <2> QED BY <2>2, <2>3, <2>5, Zenon
<1> QED BY <1>4, <1>5, <1>8

(* upack() gives back what pack() was given, and takes exactly the bytes   *)
(* that pack() made, whatever follows them: for every message of ints that *)
(* are not negative and strings that size_t holds in four bytes, and for   *)
(* every size of a byte.  So a buffer of whole messages is read message by *)
(* message.                                                                *)
THEOREM MessageRoundTrip ==
  ASSUME NULL \notin Seq(Nat), NEW m \in Sendable, NEW rest \in Seq(Nat)
  PROVE  upack(pack(m) \o rest) = [msg |-> Delivered(m), n |-> Len(pack(m))]
<1>1. ASSUME NEW c \in 0 .. UINT32_MAX, m = CtxMsg(c)
      PROVE  upack(pack(m) \o rest) = [msg |-> Delivered(m), n |-> Len(pack(m))]
  <2>1. Delivered(m) = m
    BY <1>1 DEF Delivered, CtxMsg
  <2> QED BY <1>1, <2>1, CtxRoundTrip
<1>2. ASSUME NEW d \in 0 .. INT_MAX, m = DurationMsg(d)
      PROVE  upack(pack(m) \o rest) = [msg |-> Delivered(m), n |-> Len(pack(m))]
  <2>1. Delivered(m) = m
    BY <1>2 DEF Delivered, DurationMsg
  <2> QED BY <1>2, <2>1, DurationRoundTrip
<1>3. ASSUME NEW msg \in Strings \cup {NULL}, m = FailMsg(msg)
      PROVE  upack(pack(m) \o rest) = [msg |-> Delivered(m), n |-> Len(pack(m))]
  <2>1. PICK s \in Strings : s = IF msg = NULL THEN << >> ELSE msg
    BY NullIsEmpty
  <2>2. pack_str(s) = pack_str(msg)
    BY <2>1, NullIsEmpty
  <2>3. pack(m) = pack(FailMsg(s))
    BY <1>3, <2>2 DEF pack, FailMsg, pack_fail
  <2>4. Delivered(m) = FailMsg(s)
    BY <1>3, <2>1 DEF Delivered, FailMsg
  <2> QED BY <2>3, <2>4, FailRoundTrip
<1>4. ASSUME NEW path \in Strings \cup {NULL}, NEW line \in 0 .. INT_MAX, m = LocMsg(path, line)
      PROVE  upack(pack(m) \o rest) = [msg |-> Delivered(m), n |-> Len(pack(m))]
  <2>1. PICK s \in Strings : s = IF path = NULL THEN << >> ELSE path
    BY NullIsEmpty
  <2>2. pack_str(s) = pack_str(path)
    BY <2>1, NullIsEmpty
  <2>3. pack(m) = pack(LocMsg(s, line))
    BY <1>4, <2>2 DEF pack, LocMsg, pack_loc
  <2>4. Delivered(m) = LocMsg(s, line)
    BY <1>4, <2>1 DEF Delivered, LocMsg
  <2> QED BY <2>3, <2>4, LocRoundTrip
<1>5. \/ \E c \in 0 .. UINT32_MAX : m = CtxMsg(c)
      \/ \E msg \in Strings \cup {NULL} : m = FailMsg(msg)
      \/ \E path \in Strings \cup {NULL} : \E line \in 0 .. INT_MAX : m = LocMsg(path, line)
      \/ \E d \in 0 .. INT_MAX : m = DurationMsg(d)
  BY DEF Sendable
<1> QED BY <1>1, <1>2, <1>3, <1>4, <1>5, Zenon

-----------------------------------------------------------------------------
(* The mutex of ppack() *)

(* The control points and the mutexes are functions *)
Shape == DOMAIN pc = Actors /\ DOMAIN mutex = Procs

IInv == Shape /\ MutexHeld

(* An actor is a thread of a process *)
LEMMA ProcOfActor == \A a \in Actors : ProcOf(a) \in Procs
BY DEF ProcOf, Procs

(* A free mutex is held by nobody *)
LEMMA FreeIsNobody == \A a \in Actors : a # Free
BY PpackAssumption DEF Free

(* Nobody is inside ppack() *)
LEMMA InitIInv == Init => IInv
BY DEF Init, IInv, Shape, MutexHeld, Inside

(* A step of one actor that neither takes nor gives back the mutex, and    *)
(* does not bring the actor inside                                         *)
LEMMA StaysPut ==
  ASSUME IInv, NEW a \in Actors, NEW where, Goes(a, where), UNCHANGED mutex,
         where \in Inside => pc[a] \in Inside
  PROVE  IInv'
BY DEF IInv, Shape, MutexHeld, Goes

(* The owner gives the mutex back and leaves *)
LEMMA GivesBack ==
  ASSUME IInv, NEW a \in Actors, NEW where, Goes(a, where), pc[a] \in Inside,
         mutex' = [mutex EXCEPT ![ProcOf(a)] = Free],
         where \notin Inside
  PROVE  IInv'
<1>1. Shape'
  BY DEF IInv, Shape, Goes
<1>2. ASSUME NEW b \in Actors, pc'[b] \in Inside
      PROVE  mutex'[ProcOf(b)] = b
  <2>1. b # a /\ pc[b] \in Inside
    BY <1>2 DEF IInv, Shape, Goes
  <2>2. mutex[ProcOf(a)] = a /\ mutex[ProcOf(b)] = b
    BY <2>1 DEF IInv, MutexHeld
  <2> QED BY <2>1, <2>2, ProcOfActor DEF IInv, Shape
<1> QED BY <1>1, <1>2 DEF IInv, MutexHeld

(* A process that ends takes its threads with it *)
LEMMA EndsSafely ==
  ASSUME IInv, NEW p \in Procs, Ends(p)
  PROVE  IInv'
<1>1. Shape'
  BY DEF IInv, Shape, Ends
<1>2. ASSUME NEW b \in Actors, pc'[b] \in Inside
      PROVE  mutex'[ProcOf(b)] = b
  <2>1. ProcOf(b) # p /\ pc[b] \in Inside
    BY <1>2 DEF Ends, Inside
  <2> QED BY <2>1, ProcOfActor DEF Ends, IInv, Shape, MutexHeld
<1> QED BY <1>1, <1>2 DEF IInv, MutexHeld

(* The steps of ppack() *)
LEMMA SendingKeeps ==
  ASSUME IInv, NEW a \in Actors, Sending(a)
  PROVE  IInv'
<1>1. CASE pthread_mutex_lock(a)
  <2>1. Shape'
    BY <1>1 DEF pthread_mutex_lock, Goes, IInv, Shape
  <2>2. ASSUME NEW b \in Actors, pc'[b] \in Inside
        PROVE  mutex'[ProcOf(b)] = b
    <3>1. CASE b = a
      BY <1>1, <3>1, ProcOfActor DEF pthread_mutex_lock, IInv, Shape
    <3>2. CASE b # a
      <4>1. pc[b] \in Inside
        BY <1>1, <2>2, <3>2 DEF pthread_mutex_lock, Goes, IInv, Shape
      <4>2. mutex[ProcOf(b)] = b /\ mutex[ProcOf(a)] = Free
        BY <1>1, <4>1 DEF pthread_mutex_lock, IInv, MutexHeld
      <4>3. ProcOf(b) # ProcOf(a)
        BY <4>2, FreeIsNobody
      <4> QED BY <1>1, <4>2, <4>3, ProcOfActor DEF pthread_mutex_lock, IInv, Shape
    <3> QED BY <3>1, <3>2
  <2> QED BY <2>1, <2>2 DEF IInv, MutexHeld
<1>2. CASE fwrite(a)
  <2>1. PICK where \in {"fwrite", "fflush"} : Goes(a, where)
    BY <1>2 DEF fwrite
  <2> QED BY <1>2, <2>1, StaysPut DEF fwrite, At, Inside
<1>3. CASE fwrite_full(a)
  <2>1. PICK where \in {"fwrite", "fflush"} : Goes(a, where)
    BY <1>3 DEF fwrite_full
  <2> QED BY <1>3, <2>1, StaysPut DEF fwrite_full, At, Inside
<1>4. CASE fflush(a)
  BY <1>4, StaysPut DEF fflush, At, Inside
<1>5. CASE pthread_mutex_unlock(a)
  BY <1>5, GivesBack, Zenon DEF pthread_mutex_unlock, At, Inside
<1>6. CASE unlock_short(a)
  BY <1>6, GivesBack, Zenon DEF unlock_short, At, Inside
<1>7. CASE ppack_eprintf(a)
  BY <1>7, EndsSafely, ProcOfActor DEF ppack_eprintf, exit
<1>8. CASE ppack_cleanup(a)
  BY <1>8, GivesBack, Zenon DEF ppack_cleanup, At, Inside
<1> QED BY <1>1, <1>2, <1>3, <1>4, <1>5, <1>6, <1>7, <1>8 DEF Sending

(* The steps of user code.  A fork() copies the mutex into a process whose *)
(* only thread is outside ppack().                                         *)
LEMMA UserKeeps ==
  ASSUME IInv, NEW a \in Actors, User(a)
  PROVE  IInv'
<1>1. ASSUME NEW m \in Msgs[a], ppack(a, m) PROVE IInv'
  <2>1. CASE exit(ProcOf(a))
    BY <2>1, EndsSafely, ProcOfActor DEF exit
  <2>2. CASE Goes(a, "lock") /\ UNCHANGED mutex
    BY <2>2, StaysPut DEF Inside
  <2> QED BY <1>1, <2>1, <2>2 DEF ppack, shared
<1>2. CASE user_exit(a)
  BY <1>2, EndsSafely, ProcOfActor DEF user_exit, exit
<1>3. CASE fork(a)
  <2>1. Shape'
    BY <1>3 DEF fork, Goes, IInv, Shape
  <2>2. ASSUME NEW b \in Actors, pc'[b] \in Inside
        PROVE  mutex'[ProcOf(b)] = b
    <3>1. Forked \in Actors
      BY DEF Actors
    <3>2. b # Forked /\ pc[b] \in Inside
      BY <1>3, <2>2, <3>1 DEF fork, Goes, IInv, Shape, Inside
    <3>3. ProcOf(b) = "test"
      BY <3>2 DEF ProcOf
    <3> QED BY <1>3, <3>2, <3>3 DEF fork, IInv, Shape, MutexHeld
  <2> QED BY <2>1, <2>2 DEF IInv, MutexHeld
<1>4. CASE pthread_cancel(a)
  BY <1>4 DEF pthread_cancel, shared, IInv, Shape, MutexHeld
<1>5. CASE act_on_cancel(a)
  <2>1. CASE pc[a] \in {"fflush", "fwrite"} /\ Goes(a, "cleanup")
    BY <1>5, <2>1, StaysPut DEF act_on_cancel, shared, Inside
  <2>2. CASE Goes(a, "cancelled")
    BY <1>5, <2>2, StaysPut DEF act_on_cancel, shared, Inside
  <2> QED BY <1>5, <2>1, <2>2 DEF act_on_cancel, At
<1> QED BY <1>1, <1>2, <1>3, <1>4, <1>5 DEF User

(* Every step keeps the invariant of the mutex *)
LEMMA NextKeeps == IInv /\ [Next]_vars => IInv'
<1> SUFFICES ASSUME IInv, [Next]_vars PROVE IInv'
  OBVIOUS
<1>1. ASSUME NEW a \in Actors, Sending(a) \/ User(a) PROVE IInv'
  BY <1>1, SendingKeeps, UserKeeps
<1>2. ASSUME NEW p \in Procs, killed(p) PROVE IInv'
  BY <1>2, EndsSafely DEF killed
<1>3. CASE UNCHANGED vars
  BY <1>3 DEF vars, shared, local, IInv, Shape, MutexHeld
<1> QED BY <1>1, <1>2, <1>3 DEF Next

(* A thread inside ppack() or in its cancellation handler holds the mutex  *)
(* of its process, whatever the number of threads and wherever they are    *)
(* cancelled, killed, exit or fork.                                        *)
THEOREM MutexAlwaysHeld == Spec => []MutexHeld
<1>1. IInv => MutexHeld
  BY DEF IInv
<1> QED BY <1>1, InitIInv, NextKeeps, PTL DEF Spec

(* Two threads of one process are never both between the locking and the   *)
(* unlocking in ppack(), where the buffer of the FILE is touched.          *)
THEOREM OneInside ==
  Spec => [](\A a, b \in Actors :
               pc[a] \in Inside /\ pc[b] \in Inside /\ ProcOf(a) = ProcOf(b) => a = b)
<1>1. MutexHeld => \A a, b \in Actors :
               pc[a] \in Inside /\ pc[b] \in Inside /\ ProcOf(a) = ProcOf(b) => a = b
  BY DEF MutexHeld
<1> QED BY <1>1, MutexAlwaysHeld, PTL

-----------------------------------------------------------------------------
(* The window of punpack() *)

(* Facts about the offsets: EndOf is a natural number, never beyond the    *)
(* end of the file.                                                        *)
LEMMA EndOfFacts ==
  ASSUME TypeOK, Increasing
  PROVE  /\ FileLen \in Nat
         /\ \A i \in 0 .. Len(ends) : EndOf(i) \in Nat /\ EndOf(i) <= FileLen
<1>1. Len(ends) \in Nat
  BY DEF TypeOK
<1>2. FileLen \in Nat
  BY <1>1 DEF TypeOK, FileLen, EndOf
<1>3. ASSUME NEW i \in 0 .. Len(ends)
      PROVE  EndOf(i) \in Nat /\ EndOf(i) <= FileLen
  BY <1>1, <1>2, <1>3 DEF TypeOK, Increasing, EndOf
<1>. QED
  BY <1>2, <1>3

(* A message appended by ppack() leaves the earlier offsets alone.         *)
LEMMA AppendFacts ==
  ASSUME TypeOK, NEW e \in Nat, ends' = Append(ends, e)
  PROVE  /\ ends' \in Seq(Nat)
         /\ Len(ends') = Len(ends) + 1
         /\ \A i \in 1 .. Len(ends) : ends'[i] = ends[i]
         /\ \A i \in 0 .. Len(ends) : EndOf(i)' = EndOf(i)
         /\ FileLen' = e
         /\ ends'[Len(ends) + 1] = e
<1>1. /\ ends' \in Seq(Nat)
      /\ Len(ends') = Len(ends) + 1
      /\ \A i \in 1 .. Len(ends) : ends'[i] = ends[i]
      /\ ends'[Len(ends) + 1] = e
      /\ Len(ends) \in Nat
  BY DEF TypeOK
<1>2. \A i \in 0 .. Len(ends) : EndOf(i)' = EndOf(i)
  BY <1>1 DEF EndOf
<1>3. FileLen' = e
  BY <1>1 DEF FileLen, EndOf
<1>. QED
  BY <1>1, <1>2, <1>3

(* The empty file satisfies the invariant *)
LEMMA InitStream == StreamInit => StreamInv
  BY SizesAssumption
  DEF StreamInit, StreamInv, TypeOK, Increasing, MessagesFit, WindowInv,
      WholeMessagesOnly, EndOf, FileLen

(* ppack() of one more message preserves the invariant *)
LEMMA PpackStream ==
  ASSUME StreamInv, NEW n \in MsgSizes, ppack_of_size(n)
  PROVE  StreamInv'
<1>0. n \in Nat /\ n > 0 /\ FileLen \in Nat /\ Len(ends) \in Nat
  BY SizesAssumption, EndOfFacts DEF StreamInv, TypeOK
<1>1. CASE n <= SendMax /\ ends' = Append(ends, FileLen + n) /\ UNCHANGED sender
  <2>1. FileLen + n \in Nat
    BY <1>0
  <2>2. /\ ends' \in Seq(Nat)
        /\ Len(ends') = Len(ends) + 1
        /\ \A i \in 1 .. Len(ends) : ends'[i] = ends[i]
        /\ \A i \in 0 .. Len(ends) : EndOf(i)' = EndOf(i)
        /\ FileLen' = FileLen + n
        /\ ends'[Len(ends) + 1] = FileLen + n
    BY <1>1, <2>1, AppendFacts DEF StreamInv
  <2>3. TypeOK'
    BY <2>2 DEF StreamInv, TypeOK, ppack_of_size
  <2>4. Increasing' /\ MessagesFit'
    <3> SUFFICES ASSUME NEW i \in 1 .. Len(ends')
                 PROVE  /\ EndOf(i - 1)' < ends'[i] /\ ends'[i] <= FileLen'
                        /\ ends'[i] - EndOf(i - 1)' <= SendMax
      BY DEF Increasing, MessagesFit
    <3>1. CASE i = Len(ends) + 1
      BY <1>0, <1>1, <2>2, <3>1, SizesAssumption DEF FileLen
    <3>2. CASE i \in 1 .. Len(ends)
      <4>1. EndOf(i - 1)' = EndOf(i - 1) /\ ends'[i] = ends[i]
        BY <1>0, <2>2, <3>2
      <4>2. ends[i] \in Nat /\ EndOf(i - 1) \in Nat
        BY <3>2, EndOfFacts DEF StreamInv, TypeOK
      <4>. QED
        BY <1>0, <2>2, <3>2, <4>1, <4>2, SizesAssumption
        DEF StreamInv, Increasing, MessagesFit
    <3>. QED
      BY <1>0, <2>2, <3>1, <3>2
  <2>5. WindowInv' /\ WholeMessagesOnly'
    BY <1>0, <2>2 DEF StreamInv, TypeOK, WindowInv, WholeMessagesOnly, ppack_of_size
  <2>. QED
    BY <2>3, <2>4, <2>5 DEF StreamInv
<1>2. CASE sender' = "exited" /\ UNCHANGED ends
  BY <1>2 DEF StreamInv, TypeOK, Increasing, MessagesFit, WindowInv,
              WholeMessagesOnly, EndOf, FileLen, ppack_of_size
<1>. QED
  BY <1>1, <1>2 DEF ppack_of_size

(* The first read of punpack() preserves the invariant *)
LEMMA FillStream ==
  ASSUME StreamInv, punpack_fill
  PROVE  StreamInv'
<1>1. FileLen \in Nat /\ FileLen' = FileLen /\ Window \in Nat /\ Window > 0
  BY SizesAssumption, EndOfFacts DEF StreamInv, punpack_fill, FileLen, EndOf, Window
<1>2. /\ nread' \in Nat /\ nread' <= FileLen /\ nread' <= Window
      /\ nread' = FileLen \/ nread' = Window
      /\ nparse' = nread' /\ fpos' = nread' /\ parsed' = 0 /\ parsed = 0
      /\ UNCHANGED <<sender, ends>>
  BY <1>1 DEF punpack_fill, read_buf, Least, StreamInv, WindowInv
<1>3. TypeOK'
  BY <1>2 DEF StreamInv, TypeOK, punpack_fill
<1>4. Increasing' /\ MessagesFit'
  BY <1>1, <1>2 DEF StreamInv, Increasing, MessagesFit, EndOf
<1>5. WindowInv'
  BY <1>1, <1>2 DEF punpack_fill, WindowInv, EndOf, StreamInv, TypeOK, Window
<1>. QED
  BY <1>3, <1>4, <1>5 DEF StreamInv, WholeMessagesOnly, punpack_fill

(* The heart of the argument: while the loop runs, the next message lies   *)
(* wholly inside the window.                                               *)
LEMMA NextMessageInWindow ==
  ASSUME SendMax <= 2 * RecvMax, StreamInv, stage = "parse"
  PROVE  /\ parsed < Len(ends)
         /\ ends[parsed + 1] \in Nat /\ EndOf(parsed) \in Nat
         /\ EndOf(parsed) < ends[parsed + 1]
         /\ ends[parsed + 1] <= FileLen
         /\ ends[parsed + 1] - EndOf(parsed) <= nparse
<1>1. /\ FileLen \in Nat /\ EndOf(parsed) \in Nat /\ EndOf(parsed) <= FileLen
      /\ parsed \in Nat /\ nparse \in Nat /\ fpos \in Nat /\ Len(ends) \in Nat
      /\ parsed <= Len(ends)
  BY EndOfFacts DEF StreamInv, TypeOK, WindowInv
<1>2. /\ fpos = EndOf(parsed) + nparse /\ fpos <= FileLen /\ nparse > 0
      /\ fpos = FileLen \/ nparse = Window
  BY DEF StreamInv, WindowInv
<1>3. parsed < Len(ends)
  BY <1>1, <1>2 DEF FileLen
<1>4. /\ ends[parsed + 1] \in Nat
      /\ EndOf(parsed) < ends[parsed + 1]
      /\ ends[parsed + 1] <= FileLen
      /\ ends[parsed + 1] - EndOf(parsed) <= SendMax
  <2>1. parsed + 1 \in 1 .. Len(ends) /\ (parsed + 1) - 1 = parsed
    BY <1>1, <1>3
  <2>. QED
    BY <2>1 DEF StreamInv, TypeOK, Increasing, MessagesFit
<1>. QED
  BY <1>1, <1>2, <1>3, <1>4, SizesAssumption DEF Window

(* A round of punpack()'s loop preserves the invariant *)
LEMMA RoundStream ==
  ASSUME SendMax <= 2 * RecvMax, StreamInv, punpack_round
  PROVE  StreamInv'
<1>0. stage = "parse" /\ UNCHANGED <<sender, ends>>
  BY DEF punpack_round, Refill, LoopGoesOn
<1>1. /\ parsed \in Nat /\ nparse \in Nat /\ fpos \in Nat /\ nread \in Nat
      /\ Len(ends) \in Nat
  BY DEF StreamInv, TypeOK
<1>2. PICK e \in Nat, b \in Nat, fl \in Nat, w \in Nat :
        /\ e = ends[parsed + 1] /\ b = EndOf(parsed)
        /\ fl = FileLen /\ w = Window
  BY <1>0, NextMessageInWindow, EndOfFacts, SizesAssumption DEF StreamInv, Window
<1>3. parsed < Len(ends) /\ b < e /\ e <= fl /\ e - b <= nparse
  BY <1>0, <1>2, NextMessageInWindow
<1>4. /\ fpos = b + nparse /\ fpos <= fl /\ nparse <= w
      /\ fpos = fl \/ nparse = w
      /\ nread = 0 => fpos = fl
  BY <1>0, <1>2 DEF StreamInv, WindowInv
<1>5. PICK more \in Nat :
        more = IF nread > 0 THEN Least(e - b, fl - fpos) ELSE nread
  <2>1. e - b \in Nat /\ fl - fpos \in Nat
    BY <1>1, <1>3, <1>4
  <2>2. Least(e - b, fl - fpos) \in Nat
    BY <2>1 DEF Least
  <2>. QED
    BY <1>1, <2>2
<1>6. /\ fpos + more <= fl /\ more <= e - b
      /\ fpos + more = fl \/ more = e - b
      /\ more = 0 => fpos = fl
  BY <1>1, <1>3, <1>4, <1>5 DEF Least
<1>7. /\ parsed' = parsed + 1 /\ nread' = more
      /\ nparse' = nparse - (e - b) + more /\ fpos' = fpos + more
      /\ stage' = IF nparse' > 0 THEN "parse" ELSE "done"
  BY <1>1, <1>2, <1>3, <1>5 DEF punpack_round, Refill, LoopGoesOn, read_buf
<1>8. EndOf(parsed)' = e /\ FileLen' = fl /\ Window' = w
  BY <1>0, <1>1, <1>2, <1>7 DEF EndOf, FileLen, Window
<1>9. nparse' \in Nat /\ fpos' \in Nat /\ parsed' \in Nat /\ nread' \in Nat
  <2>1. e - b \in Nat /\ nparse - (e - b) \in Nat
    BY <1>1, <1>3
  <2>2. nparse - (e - b) + more \in Nat /\ fpos + more \in Nat /\ parsed + 1 \in Nat
    BY <1>1, <2>1
  <2>. QED
    BY <1>7, <2>2
<1>10. TypeOK'
  BY <1>0, <1>7, <1>9 DEF StreamInv, TypeOK
<1>11. Increasing' /\ MessagesFit'
  BY <1>0 DEF StreamInv, Increasing, MessagesFit, EndOf, FileLen
<1>12. WindowInv'
  <2>1. /\ fpos' = e + nparse' /\ fpos' <= fl /\ nparse' <= w
        /\ fpos' = fl \/ nparse' = w
        /\ nread' = 0 => fpos' = fl
    BY <1>1, <1>3, <1>4, <1>6, <1>7
  <2>2. /\ stage' = "parse" => nparse' > 0
        /\ stage' = "done" => nparse' = 0
        /\ stage' # "write"
    BY <1>7, <1>9
  <2>3. parsed' <= Len(ends')
    BY <1>0, <1>1, <1>3, <1>7
  <2>. QED
    BY <1>8, <2>1, <2>2, <2>3 DEF WindowInv
<1>13. WholeMessagesOnly'
  BY <1>7 DEF WholeMessagesOnly
<1>. QED
  BY <1>10, <1>11, <1>12, <1>13 DEF StreamInv

(* Every reachable state satisfies the inductive invariant, for all limits *)
(* with SendMax <= 2 * RecvMax: punpack()'s window is full or has seen the *)
(* end of the file whenever get_result() is called.                        *)
THEOREM WindowInvariant ==
  ASSUME SendMax <= 2 * RecvMax
  PROVE  StreamSpec => []StreamInv
<1>1. StreamInv /\ [StreamNext]_stream => StreamInv'
  <2> SUFFICES ASSUME StreamInv, [StreamNext]_stream PROVE StreamInv'
    OBVIOUS
  <2>1. ASSUME NEW n \in MsgSizes, ppack_of_size(n) PROVE StreamInv'
    BY <2>1, PpackStream
  <2>2. CASE punpack_fill
    BY <2>2, FillStream
  <2>3. CASE punpack_round
    BY <2>3, RoundStream
  <2>4. CASE UNCHANGED stream
    BY <2>4 DEF StreamInv, TypeOK, Increasing, MessagesFit, WindowInv,
                WholeMessagesOnly, EndOf, FileLen, Window, stream
  <2>. QED
    BY <2>1, <2>2, <2>3, <2>4 DEF StreamNext
<1>. QED
  BY InitStream, <1>1, PTL DEF StreamSpec

(* get_result() is never given a message that is only partly read.         *)
THEOREM NeverGarbled ==
  ASSUME SendMax <= 2 * RecvMax
  PROVE  StreamSpec => []WholeMessagesOnly
<1>1. StreamInv => WholeMessagesOnly
  BY DEF StreamInv
<1>. QED
  BY WindowInvariant, <1>1, PTL

(* read_buf() never writes past the buffer that punpack() allocated.       *)
THEOREM NeverOverrun ==
  ASSUME SendMax <= 2 * RecvMax
  PROVE  StreamSpec => []WindowNotOverrun
<1>1. StreamInv => WindowNotOverrun
  BY SizesAssumption DEF StreamInv, TypeOK, WindowInv, WindowNotOverrun, Window
<1>. QED
  BY WindowInvariant, <1>1, PTL

(* punpack() returns only after it has parsed every message in the file.   *)
THEOREM AllReceived ==
  ASSUME SendMax <= 2 * RecvMax
  PROVE  StreamSpec => []EveryMessageReceived
<1>1. StreamInv => EveryMessageReceived
  <2> SUFFICES ASSUME StreamInv, stage = "done" PROVE parsed = Len(ends)
    BY DEF EveryMessageReceived
  <2>1. /\ parsed \in Nat /\ Len(ends) \in Nat /\ parsed <= Len(ends)
        /\ fpos = EndOf(parsed) + nparse /\ nparse = 0
        /\ fpos = FileLen \/ nparse = Window
    BY DEF StreamInv, TypeOK, WindowInv
  <2>2. EndOf(parsed) \in Nat /\ EndOf(parsed) = FileLen
    BY <2>1, EndOfFacts, SizesAssumption DEF StreamInv, Window
  <2>3. ASSUME parsed < Len(ends) PROVE FALSE
    <3>1. parsed + 1 \in 1 .. Len(ends) /\ (parsed + 1) - 1 = parsed
      BY <2>1, <2>3
    <3>2. EndOf(parsed) < ends[parsed + 1] /\ ends[parsed + 1] <= FileLen
      BY <3>1 DEF StreamInv, Increasing
    <3>3. ends[parsed + 1] \in Nat
      BY <3>1 DEF StreamInv, TypeOK
    <3>. QED
      BY <2>2, <3>2, <3>3
  <2>. QED
    BY <2>1, <2>3
<1>. QED
  BY WindowInvariant, <1>1, PTL
=============================================================================
