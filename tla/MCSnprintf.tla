----------------------------- MODULE MCSnprintf ------------------------------
(* Snprintf for TLC.  Integer types are of 3, 4, 6 and 15 bits, so that all *)
(* casts matter and widths, precisions and lengths go beyond INT_MAX, 31.   *)
EXTENDS Snprintf

MCValues == [char |-> 8, short |-> 16, int |-> 64, long |-> 32768, size |-> 32768,
             ptrdiff |-> 32768, max |-> 32768]
MCSep == <<",">>
MCCodes == [tab |-> 9, ctl |-> 1, del |-> 127, eacute |-> 233]

None == [kind |-> "none", n |-> 0]
Dot == [kind |-> "dot", n |-> 0]
D(n) == [kind |-> "digits", n |-> n]
Star(n) == [kind |-> "star", n |-> n]

Item(flags, width, precision, mod, conv, a) ==
  [flags |-> flags, width |-> width, precision |-> precision, mod |-> mod,
   conv |-> conv, arg |-> a]
Plain(conv, a) == Item({}, None, None, << >>, conv, a)
AnInt(v) == [int |-> v]
AStr(v) == [str |-> v]
NoArg == [none |-> NULL]
Lit(c) == Plain("literal", [chr |-> c])

FlagSets == {F \in SUBSET {"-", "+", " ", "#", "0", "'"} : Cardinality(F) <= 2}

(* Conversions with a modifier and an argument of its promoted type *)
IntArgs == {<<<< >>, "d", 0>>, <<<< >>, "i", -7>>, <<<<"l">>, "d", 1234>>,
            <<<<"j">>, "d", -16384>>, <<<<"h", "h">>, "d", 13>>, <<<<"h">>, "u", -3>>,
            <<<<"z">>, "d", -1>>, <<<<"t">>, "u", 100>>, <<<< >>, "x", 0>>, <<<< >>, "x", 58>>,
            <<<<"l">>, "X", 32767>>, <<<< >>, "o", 0>>, <<<<"h", "h">>, "o", 15>>}
IntItems == {Item(F, w, p, a[1], a[2], AnInt(a[3])) :
               F \in FlagSets, w \in {None, D(7), Star(-7)},
               p \in {None, Dot, D(3), Star(-1)}, a \in IntArgs}

Flt(n, k) == [neg |-> n < 0, n |-> IF n < 0 THEN -n ELSE n, k |-> k]
Infinity == [neg |-> TRUE, infnan |-> "inf"]
NaN == [neg |-> FALSE, infnan |-> "nan"]
FltItems == {Item(F, w, p, << >>, conv, [flt |-> v]) :
               F \in {{}, {"-", " "}, {"+", "0"}, {"#"}, {"'"}}, w \in {None, D(11)},
               p \in {None, Dot, D(2), Star(3)}, conv \in {"f", "F", "e", "g", "G"},
               v \in {Flt(0, 0), Flt(9996, 3), Flt(-9996, 2), Flt(12345, 8), Flt(5, 1),
                      Flt(9995, 7), Flt(-12345, 1), Flt(32766, 0), Flt(32767, 0), Infinity, NaN}}
            \cup {Item({}, None, D(1), <<"L">>, "A", [flt |-> Flt(25, 2)])}

StrItems == {Item(F, w, p, << >>, "s", AStr(v)) :
               F \in {{}, {"-"}}, w \in {None, D(5), Star(-5)}, p \in {None, Dot, D(2)},
               v \in {NULL, << >>, <<"a", "b", "<">>}}
OtherItems == {Plain("c", [chr |-> "z"]), Plain("%", NoArg), Plain("n", NoArg), Plain("p", [ptr |-> 58]),
               Item({"-"}, D(7), None, << >>, "p", [ptr |-> NULL]), Plain("y", NoArg),
               Item({}, D(32), None, << >>, "d", AnInt(1)), Item({}, D(4), D(99), << >>, "s", AStr(<<"a">>)),
               Item({"0"}, D(31), None, << >>, "d", AnInt(1)), Item({}, D(30), None, << >>, "s", AStr(<< >>))}

Call(caller, items, n) ==
  [caller |-> caller, items |-> items, size |-> n, null |-> FALSE]

(* One directive, with room for it *)
Singles == {Call("other", <<i>>, 40) : i \in IntItems \cup FltItems \cup StrItems \cup OtherItems}

(* Some of each, after one another, in buffers of all sizes *)
Mixed == {Item({"-"}, D(5), D(1), << >>, "d", AnInt(3)), Plain("d", AnInt(-4)),
          Item({"0"}, Star(4), None, <<"h", "h">>, "x", AnInt(2)), Plain("s", AStr(<<"<", "&", "eacute">>)),
          Item({}, D(20), None, << >>, "s", AStr(<<"a">>)), Item({}, D(40), None, << >>, "d", AnInt(1)),
          Plain("n", NoArg), Item({}, None, None, <<"h", "h">>, "n", NoArg), Plain("g", [flt |-> Flt(15, 1)]), Lit("'"), Lit("tab"), Lit("ctl"), Lit("del")}
Several == {Call(who[1], <<i, j, k>>, who[2]) :
              i \in Mixed, j \in Mixed, k \in {Plain("d", AnInt(1)), Plain("s", AStr(<<"x">>))},
              who \in {<<"other", 0>>, <<"other", 1>>, <<"assert", 6>>, <<"assert", 32>>,
                       <<"strdup", 5>>}}

(* The formats of tr_str() and sr_stat_str(), and a null buffer *)
TrStr == <<Plain("s", AStr(<<"f">>)), Lit(":"), Plain("d", AnInt(31)), Lit(":"), Plain("s", AStr(<<"F">>)), Lit(":"),
           Plain("s", AStr(<<"t", "c">>)), Lit(":"), Plain("s", AStr(NULL)), Lit(":"), Plain("d", AnInt(0)),
           Lit(":"), Lit(" "), Plain("s", AStr(<< >>)), Plain("s", AStr(<<"m", "s", "g">>))>>
StatStr == <<Plain("d", AnInt(30)), Plain("%", NoArg), Lit(":"), Plain("d", AnInt(10)), Plain("d", AnInt(7))>>

MCCalls == Singles \cup Several
           \cup {Call("strdup", t, s) : t \in {TrStr, StatStr}, s \in {1, 8, 23, 24}}
           \cup {[Call("other", TrStr, 8) EXCEPT !.null = TRUE]}
=============================================================================
