---------------------------- MODULE RcvMsgProofs -----------------------------
(***************************************************************************)
(* What the fold of get_result() over a message stream returns, for        *)
(* streams of any length: the facts about punpack() that the proofs about  *)
(* the runner rest on.                                                     *)
(***************************************************************************)
EXTENDS RcvMsg, WellFoundedInduction, TLAPS

(* Sequences with the same elements are the same *)
LEMMA SameSequence ==
  ASSUME NEW S, NEW s \in Seq(S), NEW t \in Seq(S), Len(s) = Len(t),
         \A i \in 1 .. Len(s) : s[i] = t[i]
  PROVE  s = t
<1>1. s = [i \in 1 .. Len(s) |-> s[i]] /\ t = [i \in 1 .. Len(t) |-> t[i]]
  OBVIOUS
<1> QED BY <1>1

(* One element more *)
LEMMA OneMore ==
  ASSUME NEW S, NEW s \in Seq(S), NEW e \in S
  PROVE  /\ Append(s, e) \in Seq(S) /\ Len(s) \in Nat /\ Len(Append(s, e)) = Len(s) + 1
         /\ \A k \in 1 .. Len(s) : Append(s, e)[k] = s[k]
         /\ Append(s, e)[Len(s) + 1] = e
         /\ Append(s, e) = s \o <<e>>
<1>1. /\ Append(s, e) \in Seq(S) /\ Len(s) \in Nat /\ Len(Append(s, e)) = Len(s) + 1
      /\ \A k \in 1 .. Len(s) : Append(s, e)[k] = s[k]
      /\ Append(s, e)[Len(s) + 1] = e
  OBVIOUS
<1>2. /\ s \o <<e>> \in Seq(S) /\ Len(s \o <<e>>) = Len(s) + 1
      /\ \A k \in 1 .. Len(s) + 1 : (s \o <<e>>)[k] = Append(s, e)[k]
  OBVIOUS
<1> QED BY <1>1, <1>2, SameSequence

(* Two sequences in a row *)
LEMMA Joined ==
  ASSUME NEW S, NEW s \in Seq(S), NEW t \in Seq(S)
  PROVE  /\ s \o t \in Seq(S) /\ Len(s \o t) = Len(s) + Len(t)
         /\ \A k \in 1 .. Len(s) + Len(t) :
              (s \o t)[k] = IF k <= Len(s) THEN s[k] ELSE t[k - Len(s)]
         /\ s \o << >> = s
<1>1. /\ s \o << >> \in Seq(S) /\ Len(s \o << >>) = Len(s)
      /\ \A k \in 1 .. Len(s) : (s \o << >>)[k] = s[k]
  OBVIOUS
<1> QED BY <1>1, SameSequence

(* Induction on the naturals, over a set in place of a predicate: the      *)
(* least number outside S would be 0 or the successor of a member.         *)
LEMMA SetInduction ==
  ASSUME NEW S, 0 \in S, \A n \in Nat : n \in S => n + 1 \in S
  PROVE  Nat \subseteq S
<1> DEFINE R == OpToRel(<, Nat)
           T == Nat \ S
<1>1. IsWellFoundedOn(R, Nat)
  BY NatLessThanWellFounded
<1>2. \A x, y \in Nat : x < y => <<x, y>> \in R
  BY DEF OpToRel
<1>3. SUFFICES ASSUME T # {} PROVE FALSE
  OBVIOUS
<1>4. T \subseteq Nat
  OBVIOUS
<1> HIDE DEF R, T
<1>5. PICK x \in T : \A y \in T : ~ (<<y, x>> \in R)
  BY <1>1, <1>3, <1>4, WFMin
<1>6. x \in Nat /\ x # 0
  BY <1>4, <1>5 DEF T
<1>7. x - 1 \in Nat /\ x - 1 < x /\ (x - 1) + 1 = x
  BY <1>6
<1>8. x - 1 \notin T
  BY <1>2, <1>5, <1>6, <1>7
<1> QED BY <1>5, <1>7, <1>8 DEF T

-----------------------------------------------------------------------------
(* The function punpack() tabulates: what has been received after n        *)
(* messages, and what after all of them.                                   *)
After(msgs) ==
  CHOOSE after : after = [n \in 0 .. Len(msgs) |->
                            IF n = 0 THEN rcvmsg_create
                            ELSE get_result(after[n - 1], msgs[n])]

Received(msgs) == After(msgs)[Len(msgs)]

(* punpack() returns what was received, if a context was *)
LEMMA PunpackReceived ==
  ASSUME NEW msgs
  PROVE  punpack(msgs) = IF Received(msgs).lastctx = CK_CTX_INVALID
                         THEN NullRcvMsg ELSE Received(msgs)
BY Zenon DEF punpack, Received, After

(* There is such a function: one step of the loop of punpack() after       *)
(* another.                                                                *)
LEMMA AfterEquation ==
  ASSUME NEW msgs, Len(msgs) \in Nat
  PROVE  After(msgs) = [n \in 0 .. Len(msgs) |->
                          IF n = 0 THEN rcvmsg_create
                          ELSE get_result(After(msgs)[n - 1], msgs[n])]
<1> DEFINE Tab(f, k) == f = [n \in 0 .. k |->
                               IF n = 0 THEN rcvmsg_create
                               ELSE get_result(f[n - 1], msgs[n])]
           S == {k \in Nat : \E f : Tab(f, k)}
<1>1. 0 \in S
  <2> DEFINE f == [n \in 0 .. 0 |-> rcvmsg_create]
  <2>1. Tab(f, 0)
    OBVIOUS
  <2> QED BY <2>1
<1>2. ASSUME NEW k \in Nat, k \in S PROVE k + 1 \in S
  <2>1. PICK f : Tab(f, k)
    BY <1>2
  <2> DEFINE next == get_result(f[k], msgs[k + 1])
             g == [n \in 0 .. k + 1 |-> IF n = k + 1 THEN next ELSE f[n]]
  <2>2. \A n \in 0 .. k : f[n] = IF n = 0 THEN rcvmsg_create
                                 ELSE get_result(f[n - 1], msgs[n])
    BY <2>1
  <2>3. \A n \in 0 .. k + 1 : g[n] = IF n = 0 THEN rcvmsg_create
                                     ELSE get_result(g[n - 1], msgs[n])
    <3> SUFFICES ASSUME NEW n \in 0 .. k + 1
                 PROVE  g[n] = IF n = 0 THEN rcvmsg_create
                               ELSE get_result(g[n - 1], msgs[n])
      OBVIOUS
    <3> HIDE DEF next
    <3>1. CASE n = k + 1
      <4>1. g[n] = next /\ n # 0 /\ g[n - 1] = f[k]
        BY <3>1
      <4> QED BY <3>1, <4>1 DEF next
    <3>2. CASE n # k + 1
      <4>1. n \in 0 .. k /\ g[n] = f[n] /\ (n # 0 => g[n - 1] = f[n - 1])
        BY <3>2
      <4> HIDE DEF g
      <4> QED BY <2>2, <4>1
    <3> QED BY <3>1, <3>2
  <2>4. Tab(g, k + 1)
    <3>1. g = [n \in 0 .. k + 1 |-> g[n]]
      BY Zenon
    <3> HIDE DEF g
    <3> QED BY <2>3, <3>1
  <2>5. \E h : Tab(h, k + 1)
    <3> HIDE DEF g, Tab
    <3> QED BY <2>4, Zenon
  <2> HIDE DEF Tab
  <2> QED BY <2>5
<1> HIDE DEF S
<1>3. Len(msgs) \in S
  BY <1>1, <1>2, SetInduction
<1>4. \E f : Tab(f, Len(msgs))
  BY <1>3 DEF S
<1> QED BY <1>4, Zenon DEF After

(* Nothing is received of an empty file *)
LEMMA ReceivedNothing == Received(<< >>) = rcvmsg_create
<1>1. Len(<< >>) = 0 /\ 0 \in 0 .. 0
  OBVIOUS
<1>2. After(<< >>) = [n \in 0 .. 0 |->
                        IF n = 0 THEN rcvmsg_create
                        ELSE get_result(After(<< >>)[n - 1], << >>[n])]
  BY <1>1, AfterEquation
<1> QED BY <1>1, <1>2 DEF Received

(* One message more is one get_result() more *)
LEMMA ReceivedOneMore ==
  ASSUME NEW Msg, NEW msgs \in Seq(Msg), NEW m \in Msg
  PROVE  Received(msgs \o <<m>>) = get_result(Received(msgs), m)
<1> DEFINE more == msgs \o <<m>>
           k == Len(msgs)
           f == After(msgs)
           g == After(more)
<1>1. /\ k \in Nat /\ Len(more) = k + 1 /\ more[k + 1] = m
      /\ \A n \in 1 .. k : more[n] = msgs[n]
  OBVIOUS
<1> HIDE DEF more
<1>2. \A n \in 0 .. k : f[n] = IF n = 0 THEN rcvmsg_create
                               ELSE get_result(f[n - 1], msgs[n])
  <2> HIDE DEF f
  <2>1. f = [n \in 0 .. k |-> IF n = 0 THEN rcvmsg_create
                              ELSE get_result(f[n - 1], msgs[n])]
    BY <1>1, AfterEquation DEF f
  <2> HIDE DEF k
  <2> QED BY <2>1
<1>3. \A n \in 0 .. k + 1 : g[n] = IF n = 0 THEN rcvmsg_create
                                   ELSE get_result(g[n - 1], more[n])
  <2> HIDE DEF g
  <2>1. g = [n \in 0 .. k + 1 |-> IF n = 0 THEN rcvmsg_create
                                  ELSE get_result(g[n - 1], more[n])]
    BY <1>1, AfterEquation DEF g
  <2> HIDE DEF k
  <2> QED BY <2>1
<1> HIDE DEF f, g, k
<1> DEFINE S == {n \in Nat : n <= k => f[n] = g[n]}
<1>4. 0 \in S
  BY <1>1, <1>2, <1>3
<1>5. ASSUME NEW n \in Nat, n \in S PROVE n + 1 \in S
  <2> SUFFICES ASSUME n + 1 <= k PROVE f[n + 1] = g[n + 1]
    OBVIOUS
  <2>1. n + 1 \in 1 .. k /\ n + 1 \in 0 .. k /\ n + 1 \in 0 .. k + 1 /\ n + 1 # 0
        /\ (n + 1) - 1 = n /\ f[n] = g[n]
    BY <1>1, <1>5
  <2> QED BY <1>1, <1>2, <1>3, <2>1
<1> HIDE DEF S
<1>6. k \in S
  BY <1>1, <1>4, <1>5, SetInduction
<1>7. f[k] = g[k]
  BY <1>1, <1>6 DEF S
<1>8. g[k + 1] = get_result(f[k], m)
  <2>1. k + 1 \in 0 .. k + 1 /\ k + 1 # 0 /\ (k + 1) - 1 = k
    BY <1>1
  <2> QED BY <1>1, <1>3, <1>7, <2>1
<1>9. Received(msgs) = f[k] /\ Received(msgs \o <<m>>) = g[k + 1]
  BY <1>1 DEF Received, f, g, k, more
<1> QED BY <1>8, <1>9

-----------------------------------------------------------------------------
(* The messages, with locations L and texts T, and what is made of them *)
Messages(L, T) ==
  {CtxMsg(c) : c \in Ctx} \cup {LocMsg(l) : l \in L}
    \cup {FailMsg(t) : t \in T} \cup {DurationMsg(d) : d \in Int}

RcvMsgs(L, T) ==
  [lastctx : Ctx \cup {CK_CTX_INVALID}, failctx : Ctx \cup {CK_CTX_INVALID},
   msg : T \cup {NULL}, duration : Int,
   test_loc : L \cup {NoLoc}, fixture_loc : L \cup {NoLoc}]

(* One message more leaves a RcvMsg, and forgets neither that a context    *)
(* was announced nor that a failure was.                                   *)
LEMMA GetResultKeeps ==
  ASSUME NEW L, NEW T, NULL \notin T,
         NEW rmsg \in RcvMsgs(L, T), NEW m \in Messages(L, T)
  PROVE  /\ get_result(rmsg, m) \in RcvMsgs(L, T)
         /\ rmsg.lastctx \in Ctx => get_result(rmsg, m).lastctx \in Ctx
         /\ rmsg.msg # NULL => get_result(rmsg, m).msg # NULL
<1>1. ASSUME NEW c \in Ctx, m = CtxMsg(c)
      PROVE  get_result(rmsg, m) = rcvmsg_update_ctx(rmsg, c)
  BY <1>1 DEF get_result, CtxMsg
<1>2. ASSUME NEW l \in L, m = LocMsg(l)
      PROVE  \/ get_result(rmsg, m) = rmsg
             \/ get_result(rmsg, m) = rcvmsg_update_loc(rmsg, l)
  BY <1>2 DEF get_result, LocMsg
<1>3. ASSUME NEW t \in T, m = FailMsg(t)
      PROVE  get_result(rmsg, m) = FirstFailure(rmsg, t)
  BY <1>3 DEF get_result, FailMsg
<1>4. ASSUME NEW d \in Int, m = DurationMsg(d)
      PROVE  get_result(rmsg, m) = [rmsg EXCEPT !.duration = d]
  BY <1>4 DEF get_result, DurationMsg
<1>5. ASSUME NEW c \in Ctx, m = CtxMsg(c)
      PROVE  /\ get_result(rmsg, m) \in RcvMsgs(L, T)
             /\ get_result(rmsg, m).lastctx = c
             /\ get_result(rmsg, m).msg = rmsg.msg
  BY <1>1, <1>5 DEF rcvmsg_update_ctx, RcvMsgs
<1>6. ASSUME NEW l \in L, m = LocMsg(l)
      PROVE  /\ get_result(rmsg, m) \in RcvMsgs(L, T)
             /\ get_result(rmsg, m).lastctx = rmsg.lastctx
             /\ get_result(rmsg, m).msg = rmsg.msg
  BY <1>2, <1>6 DEF rcvmsg_update_loc, RcvMsgs
<1>7. ASSUME NEW t \in T, m = FailMsg(t)
      PROVE  /\ get_result(rmsg, m) \in RcvMsgs(L, T)
             /\ get_result(rmsg, m).lastctx = rmsg.lastctx
             /\ get_result(rmsg, m).msg # NULL
  BY <1>3, <1>7 DEF FirstFailure, RcvMsgs
<1>8. ASSUME NEW d \in Int, m = DurationMsg(d)
      PROVE  /\ get_result(rmsg, m) \in RcvMsgs(L, T)
             /\ get_result(rmsg, m).lastctx = rmsg.lastctx
             /\ get_result(rmsg, m).msg = rmsg.msg
  BY <1>4, <1>8 DEF RcvMsgs
<1> QED BY <1>5, <1>6, <1>7, <1>8 DEF Messages

(* What each kind of message changes, and what it leaves: a context is the *)
(* last one,                                                               *)
LEMMA GetResultCtx ==
  ASSUME NEW L, NEW T, NEW rmsg \in RcvMsgs(L, T), NEW c \in Ctx
  PROVE  /\ get_result(rmsg, CtxMsg(c)).lastctx = c
         /\ get_result(rmsg, CtxMsg(c)).msg = rmsg.msg
         /\ get_result(rmsg, CtxMsg(c)).failctx = rmsg.failctx
<1>1. get_result(rmsg, CtxMsg(c)) = rcvmsg_update_ctx(rmsg, c)
  BY DEF get_result, CtxMsg
<1> QED BY <1>1 DEF rcvmsg_update_ctx, RcvMsgs

(* a location goes to the context it is reported in until there is a       *)
(* failure,                                                                *)
LEMMA GetResultLoc ==
  ASSUME NEW L, NEW T, NEW rmsg \in RcvMsgs(L, T), NEW l
  PROVE  /\ get_result(rmsg, LocMsg(l)).lastctx = rmsg.lastctx
         /\ get_result(rmsg, LocMsg(l)).msg = rmsg.msg
         /\ get_result(rmsg, LocMsg(l)).failctx = rmsg.failctx
         /\ rmsg.failctx = CK_CTX_INVALID
              => LocByCtx(get_result(rmsg, LocMsg(l)), rmsg.lastctx) = l
<1>1. get_result(rmsg, LocMsg(l)) = IF rmsg.failctx = CK_CTX_INVALID
                                    THEN rcvmsg_update_loc(rmsg, l) ELSE rmsg
  BY DEF get_result, LocMsg
<1> QED BY <1>1 DEF rcvmsg_update_loc, RcvMsgs, LocByCtx

(* and the first failure to the context it happened in.                    *)
LEMMA GetResultFail ==
  ASSUME NEW L, NEW T, NEW rmsg \in RcvMsgs(L, T), NEW t
  PROVE  /\ get_result(rmsg, FailMsg(t)).lastctx = rmsg.lastctx
         /\ rmsg.msg = NULL => /\ get_result(rmsg, FailMsg(t)).msg = t
                               /\ get_result(rmsg, FailMsg(t)).failctx = rmsg.lastctx
         /\ \A c : LocByCtx(get_result(rmsg, FailMsg(t)), c) = LocByCtx(rmsg, c)
<1> DEFINE r == get_result(rmsg, FailMsg(t))
<1>1. r = FirstFailure(rmsg, t)
  BY DEF get_result, FailMsg
<1>2. DOMAIN rmsg = {"lastctx", "failctx", "msg", "duration", "test_loc", "fixture_loc"}
  BY DEF RcvMsgs
<1>3. r = IF rmsg.msg = NULL
          THEN [[rmsg EXCEPT !.msg = t] EXCEPT !.failctx = rmsg.lastctx]
          ELSE rmsg
  BY <1>1 DEF FirstFailure
<1> HIDE DEF r
<1>4. /\ r.lastctx = rmsg.lastctx
      /\ rmsg.msg = NULL => r.msg = t /\ r.failctx = rmsg.lastctx
      /\ r.test_loc = rmsg.test_loc /\ r.fixture_loc = rmsg.fixture_loc
  BY <1>2, <1>3
<1>5. \A c : LocByCtx(r, c) = LocByCtx(rmsg, c)
  BY <1>4 DEF LocByCtx
<1> QED BY <1>4, <1>5 DEF r

(* Whatever the messages, a RcvMsg is made of them *)
LEMMA ReceivedType ==
  ASSUME NEW L, NEW T, NULL \notin T, NEW msgs \in Seq(Messages(L, T))
  PROVE  Received(msgs) \in RcvMsgs(L, T)
<1> DEFINE k == Len(msgs)
           f == After(msgs)
<1>1. k \in Nat /\ \A n \in 1 .. k : msgs[n] \in Messages(L, T)
  OBVIOUS
<1>2. \A n \in 0 .. k : f[n] = IF n = 0 THEN rcvmsg_create
                               ELSE get_result(f[n - 1], msgs[n])
  <2> HIDE DEF f
  <2>1. f = [n \in 0 .. k |-> IF n = 0 THEN rcvmsg_create
                              ELSE get_result(f[n - 1], msgs[n])]
    BY <1>1, AfterEquation DEF f
  <2> HIDE DEF k
  <2> QED BY <2>1
<1> HIDE DEF f, k
<1> DEFINE S == {n \in Nat : n <= k => f[n] \in RcvMsgs(L, T)}
<1>3. 0 \in S
  <2>1. f[0] = rcvmsg_create
    BY <1>1, <1>2
  <2>2. rcvmsg_create \in RcvMsgs(L, T)
    BY DEF rcvmsg_create, RcvMsgs
  <2> QED BY <2>1, <2>2
<1>4. ASSUME NEW n \in Nat, n \in S PROVE n + 1 \in S
  <2> SUFFICES ASSUME n + 1 <= k PROVE f[n + 1] \in RcvMsgs(L, T)
    OBVIOUS
  <2>1. n + 1 \in 1 .. k /\ n + 1 \in 0 .. k /\ n + 1 # 0 /\ (n + 1) - 1 = n
        /\ f[n] \in RcvMsgs(L, T)
    BY <1>1, <1>4
  <2>2. f[n + 1] = get_result(f[n], msgs[n + 1])
    BY <1>2, <2>1
  <2> QED BY <1>1, <2>1, <2>2, GetResultKeeps
<1> HIDE DEF S
<1>5. k \in S
  BY <1>1, <1>3, <1>4, SetInduction
<1>6. f[k] \in RcvMsgs(L, T)
  BY <1>1, <1>5 DEF S
<1> QED BY <1>6 DEF Received, f, k

(* Once a failure and its context are known, neither another failure nor   *)
(* another location changes what is known of it, and a new context leaves  *)
(* the location of the test alone.                                         *)
LEMMA GetResultAfterFailure ==
  ASSUME NEW L, NEW T, NEW rmsg \in RcvMsgs(L, T)
  PROVE  /\ \A c : get_result(rmsg, CtxMsg(c)).test_loc = rmsg.test_loc
         /\ \A l : rmsg.failctx # CK_CTX_INVALID => get_result(rmsg, LocMsg(l)) = rmsg
         /\ \A t : rmsg.msg # NULL => get_result(rmsg, FailMsg(t)) = rmsg
         /\ \A d : LET r == get_result(rmsg, DurationMsg(d))
                   IN  /\ r.lastctx = rmsg.lastctx /\ r.msg = rmsg.msg
                       /\ r.failctx = rmsg.failctx
                       /\ \A c : LocByCtx(r, c) = LocByCtx(rmsg, c)
<1>1. ASSUME NEW c PROVE get_result(rmsg, CtxMsg(c)).test_loc = rmsg.test_loc
  <2>1. get_result(rmsg, CtxMsg(c)) = rcvmsg_update_ctx(rmsg, c)
    BY DEF get_result, CtxMsg
  <2> QED BY <2>1 DEF rcvmsg_update_ctx, RcvMsgs
<1>2. ASSUME NEW l, rmsg.failctx # CK_CTX_INVALID
      PROVE  get_result(rmsg, LocMsg(l)) = rmsg
  BY <1>2 DEF get_result, LocMsg
<1>3. ASSUME NEW t, rmsg.msg # NULL PROVE get_result(rmsg, FailMsg(t)) = rmsg
  BY <1>3 DEF get_result, FailMsg, FirstFailure
<1>4. ASSUME NEW d
      PROVE  LET r == get_result(rmsg, DurationMsg(d))
             IN  /\ r.lastctx = rmsg.lastctx /\ r.msg = rmsg.msg
                 /\ r.failctx = rmsg.failctx
                 /\ \A c : LocByCtx(r, c) = LocByCtx(rmsg, c)
  <2>1. get_result(rmsg, DurationMsg(d)) = [rmsg EXCEPT !.duration = d]
    BY DEF get_result, DurationMsg
  <2> QED BY <2>1 DEF RcvMsgs, LocByCtx
<1> QED BY <1>1, <1>2, <1>3, <1>4

(* Two messages more *)
LEMMA ReceivedTwoMore ==
  ASSUME NEW Msg, NEW msgs \in Seq(Msg), NEW m1 \in Msg, NEW m2 \in Msg
  PROVE  /\ msgs \o <<m1, m2>> \in Seq(Msg)
         /\ Received(msgs \o <<m1, m2>>) = get_result(get_result(Received(msgs), m1), m2)
<1>1. msgs \o <<m1>> \in Seq(Msg)
  OBVIOUS
<1>2. msgs \o <<m1, m2>> = (msgs \o <<m1>>) \o <<m2>>
  <2>1. Len(msgs) \in Nat /\ Len(msgs \o <<m1, m2>>) = Len((msgs \o <<m1>>) \o <<m2>>)
    OBVIOUS
  <2>2. msgs \o <<m1, m2>> \in Seq(Msg) /\ (msgs \o <<m1>>) \o <<m2>> \in Seq(Msg)
    OBVIOUS
  <2>3. \A n \in 1 .. Len(msgs \o <<m1, m2>>) :
          (msgs \o <<m1, m2>>)[n] = ((msgs \o <<m1>>) \o <<m2>>)[n]
    OBVIOUS
  <2> QED BY <2>1, <2>2, <2>3, SameSequence
<1>3. Received(msgs \o <<m1>>) = get_result(Received(msgs), m1)
  BY ReceivedOneMore
<1>4. Received((msgs \o <<m1>>) \o <<m2>>) = get_result(Received(msgs \o <<m1>>), m2)
  BY <1>1, ReceivedOneMore
<1>5. msgs \o <<m1, m2>> \in Seq(Msg)
  OBVIOUS
<1> QED BY <1>2, <1>3, <1>4, <1>5, Zenon

-----------------------------------------------------------------------------
(* A set of numbers that is not empty has a least one *)
LEMMA LeastExists ==
  ASSUME NEW S, S \subseteq Nat, S # {}
  PROVE  \E k \in S : \A j \in S : k <= j
<1> DEFINE R == OpToRel(<, Nat)
<1>1. IsWellFoundedOn(R, Nat)
  BY NatLessThanWellFounded
<1>2. \A x, y \in Nat : x < y => <<x, y>> \in R
  BY DEF OpToRel
<1> HIDE DEF R
<1>3. PICK x \in S : \A y \in S : ~ (<<y, x>> \in R)
  BY <1>1, WFMin
<1>4. ASSUME NEW y \in S PROVE x <= y
  <2>1. x \in Nat /\ y \in Nat
    BY <1>3, <1>4
  <2>2. ~(y < x)
    BY <1>2, <1>3, <2>1
  <2> QED BY <2>1, <2>2
<1> QED BY <1>4
=============================================================================
