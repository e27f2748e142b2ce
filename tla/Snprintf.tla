------------------------------- MODULE Snprintf -------------------------------
(***************************************************************************)
(* The replacement vsnprintf() (lib/snprintf.c), a state machine over the  *)
(* format, and its two kinds of callers in the library: ck_strdup_printf() *)
(* (src/check_str.c), which tries again with more space, and               *)
(* _ck_assert_failed() (src/check.c), which has a buffer of BUFSIZ and     *)
(* whose message goes into the XML log by way of fprint_xml_esc()          *)
(* (src/check_print.c).                                                    *)
(*                                                                         *)
(* A call is given by its items, literal characters and directives; the    *)
(* format is those written out, the arguments those the directives take.   *)
(* Widths of integers are constants, and so is the memory there is.        *)
(***************************************************************************)
EXTENDS SnprintfFmt, SequencesExt, FiniteSets

CONSTANTS
  Values,      \* how many values each integer type has
  Calls,       \* the calls: [caller, items, size, null]
  MaxMem,      \* the largest block erealloc() gets
  CharSigned,  \* TRUE when char is signed
  Codes        \* the codes of the characters that are not printable ASCII

ASSUME SnprintfAssumption ==
  /\ Values \in [{"char", "short", "int", "long", "size", "ptrdiff", "max"} -> Nat]
  /\ Values.max = UINTMAX_MAX + 1
  /\ MaxMem \in Nat /\ Codes \in [DOMAIN Codes -> (1 .. 31) \cup (127 .. 255)]
  /\ CharSigned \in BOOLEAN
  /\ \A c \in Calls : c.caller = "strdup" => c.size \in 1 .. MaxMem /\ ~c.null

VARIABLES
  call,      \* the call, its format and its arguments, which do not change
  format,
  args,
  size,      \* the size of the buffer
  pc,        \* "scan", "out", "returned", "done", "eprintf"
  pos,       \* the place of ch in the format
  arg,       \* the number of arguments taken
  state,     \* PRINT_S_...
  spec,      \* flags, width, precision, cflags of the directive being read
  len,       \* characters put out
  str,       \* characters stored
  nul,       \* where the nul was stored, -1 for nowhere
  stored,    \* what "%n" stored
  overflow,
  ret,       \* what vsnprintf() returned
  xml        \* what fprint_xml_esc() wrote

input == <<call, format, args>>
scanner == <<pos, arg, state, spec, len, str, stored, overflow>>
vars == <<input, size, pc, scanner, nul, ret, xml>>

INT_MAX == Values.int \div 2 - 1
NoSpec == [flags |-> {}, width |-> 0, precision |-> -1, cflags |-> "none"]

-----------------------------------------------------------------------------
(* The format and the arguments of a call; an argument is in a field with  *)
(* the name of the type that va_arg() asks for: int, flt, chr, str or ptr  *)
IntConvs == {"d", "i", "u", "o", "x", "X"}
FltConvs == {"a", "A", "f", "F", "e", "E", "g", "G"}
TakesArg == IntConvs \cup FltConvs \cup {"c", "s", "p", "n"}

Numeral(n) == convert(n, MAX_CONVERT_LENGTH, 10, FALSE)

NumberText(w) == CASE w.kind = "digits" -> Numeral(w.n)
                   [] w.kind = "star" -> <<"*">>
                   [] OTHER -> << >>

ItemText(i) ==
  IF i.conv = "literal" THEN <<i.arg.chr>>
  ELSE <<"%">> \o SetToSeq(i.flags) \o NumberText(i.width)
       \o (IF i.precision.kind = "none" THEN << >> ELSE <<".">> \o NumberText(i.precision))
       \o i.mod \o <<i.conv>>

ItemArgs(i) ==
  IF i.conv = "literal" THEN << >>
  ELSE (IF i.width.kind = "star" THEN <<[int |-> i.width.n]>> ELSE << >>)
       \o (IF i.precision.kind = "star" THEN <<[int |-> i.precision.n]>> ELSE << >>)
       \o (IF i.conv \in TakesArg THEN <<i.arg>> ELSE << >>)

Flat(Op(_), items) == FoldLeft(LAMBDA s, i : s \o Op(i), << >>, items)

Start ==
  /\ pc = "scan" /\ pos = 1 /\ arg = 0 /\ state = "DEFAULT" /\ spec = NoSpec
  /\ len = 0 /\ str = << >> /\ nul = -1 /\ stored = -1 /\ overflow = FALSE /\ ret = 0

Init ==
  /\ call \in Calls
  /\ format = Flat(ItemText, call.items)
  /\ args = Flat(ItemArgs, call.items)
  /\ size = IF call.null THEN 0 ELSE call.size
  /\ Start
  /\ xml = << >>

Ch == IF pos <= Len(format) THEN format[pos] ELSE "nul"
NextArg == args[arg + 1]
Scanning(s) == pc = "scan" /\ Ch # "nul" /\ state = s
Digits == {"0", "1", "2", "3", "4", "5", "6", "7", "8", "9"}
CHARTOINT(ch) == (CHOOSE i \in 1 .. 10 : DigitChars[i] = ch) - 1

-----------------------------------------------------------------------------
(* The first n characters, or all when there are not as many *)
FirstOf(n, text) == SubSeq(text, 1, IF Len(text) < n THEN Len(text) ELSE AtLeast0(n))

(* Variant: one character too many *)
StoredFull(text) == FirstOf(size + 1 - len, text)

(* OUTCHAR: the characters of text that are stored *)
Stored(text) == FirstOf(size - 1 - len, text)

OUTCHAR(text) == str' = str \o Stored(text) /\ len' = len + Len(text)

PRINT_S_DEFAULT ==
  /\ Scanning("DEFAULT")
  /\ IF Ch = "%" THEN state' = "FLAGS" /\ UNCHANGED <<str, len>>
     ELSE OUTCHAR(<<Ch>>) /\ UNCHANGED state
  /\ pos' = pos + 1
  /\ UNCHANGED <<input, size, pc, arg, spec, nul, stored, overflow, ret, xml>>

PRINT_S_FLAGS ==
  /\ Scanning("FLAGS")
  /\ IF Ch \in {"-", "+", " ", "#", "0", "'"}
     THEN spec' = [spec EXCEPT !.flags = @ \cup {Ch}] /\ pos' = pos + 1 /\ UNCHANGED state
     ELSE state' = "WIDTH" /\ UNCHANGED <<spec, pos>>
  /\ UNCHANGED <<input, size, pc, arg, len, str, nul, stored, overflow, ret, xml>>

(* A number with one more digit, or none when that is more than INT_MAX *)
OneMoreDigitFits(n, ch) == n <= (INT_MAX - CHARTOINT(ch)) \div 10
WithDigit(n, ch) == 10 * n + CHARTOINT(ch)

goto_out == pc' = "out" /\ overflow' = TRUE

StarWidth(n) ==
  IF n < 0 THEN [spec EXCEPT !.flags = @ \cup {"-"}, !.width = -n] ELSE [spec EXCEPT !.width = n]

PRINT_S_WIDTH ==
  /\ Scanning("WIDTH")
  /\ \/ /\ Ch \in Digits /\ ~OneMoreDigitFits(spec.width, Ch)
        /\ goto_out
        /\ UNCHANGED <<spec, pos, arg, state>>
     \/ /\ Ch \in Digits /\ OneMoreDigitFits(spec.width, Ch)
        /\ spec' = [spec EXCEPT !.width = WithDigit(@, Ch)]
        /\ pos' = pos + 1
        /\ UNCHANGED <<arg, state, pc, overflow>>
     \/ /\ Ch = "*"
        /\ spec' = StarWidth(NextArg.int)
        /\ arg' = arg + 1 /\ pos' = pos + 1
        /\ state' = "DOT"
        /\ UNCHANGED <<pc, overflow>>
     \/ /\ Ch \notin Digits \cup {"*"}
        /\ state' = "DOT"
        /\ UNCHANGED <<spec, pos, arg, pc, overflow>>
  /\ UNCHANGED <<input, size, len, str, nul, stored, ret, xml>>

PRINT_S_DOT ==
  /\ Scanning("DOT")
  /\ IF Ch = "." THEN state' = "PRECISION" /\ pos' = pos + 1
     ELSE state' = "MOD" /\ UNCHANGED pos
  /\ UNCHANGED <<input, size, pc, arg, spec, len, str, nul, stored, overflow, ret, xml>>

PRINT_S_PRECISION ==
  LET precision == IF spec.precision = -1 THEN 0 ELSE spec.precision
  IN  /\ Scanning("PRECISION")
      /\ \/ /\ Ch \in Digits /\ ~OneMoreDigitFits(precision, Ch)
            /\ goto_out
            /\ spec' = [spec EXCEPT !.precision = precision]
            /\ UNCHANGED <<pos, arg, state>>
         \/ /\ Ch \in Digits /\ OneMoreDigitFits(precision, Ch)
            /\ spec' = [spec EXCEPT !.precision = WithDigit(precision, Ch)]
            /\ pos' = pos + 1
            /\ UNCHANGED <<arg, state, pc, overflow>>
         \/ /\ Ch = "*"
            /\ spec' = [spec EXCEPT !.precision = IF NextArg.int < 0 THEN -1 ELSE NextArg.int]
            /\ arg' = arg + 1 /\ pos' = pos + 1
            /\ state' = "MOD"
            /\ UNCHANGED <<pc, overflow>>
         \/ /\ Ch \notin Digits \cup {"*"}
            /\ spec' = [spec EXCEPT !.precision = precision]
            /\ state' = "MOD"
            /\ UNCHANGED <<pos, arg, pc, overflow>>
      /\ UNCHANGED <<input, size, len, str, nul, stored, ret, xml>>

(* The length modifiers, of one character or, for "hh", of two *)
Modifiers == [h |-> "short", l |-> "long", L |-> "ldouble", j |-> "max", t |-> "ptrdiff",
              z |-> "size"]

PRINT_S_MOD ==
  LET hh == Ch = "h" /\ pos < Len(format) /\ format[pos + 1] = "h"
  IN  /\ Scanning("MOD")
      /\ IF Ch \in DOMAIN Modifiers
         THEN /\ spec' = [spec EXCEPT !.cflags = IF hh THEN "char" ELSE Modifiers[Ch]]
              /\ pos' = pos + (IF hh THEN 2 ELSE 1)
         ELSE UNCHANGED <<spec, pos>>
      /\ state' = "CONV"
      /\ UNCHANGED <<input, size, pc, arg, len, str, nul, stored, overflow, ret, xml>>

-----------------------------------------------------------------------------
(* PRINT_S_CONV: the value of an argument after va_arg() and the casts *)
Unsigned(v, type) == v % Values[type]
Signed(v, type) ==
  LET half == Values[type] \div 2 IN ((v + half) % Values[type]) - half

TypeOf(cflags) == IF cflags \in DOMAIN Values THEN cflags ELSE "int"

(* SSIZE_T is size_t, and UPTRDIFF_T is PTRDIFF_T *)
SignedArg(v, cflags) ==
  IF cflags = "size" THEN Signed(Unsigned(v, "size"), "max") ELSE Signed(v, TypeOf(cflags))

UnsignedArg(v, cflags) ==
  IF cflags = "ptrdiff" THEN Unsigned(Signed(v, "ptrdiff"), "max")
  ELSE Unsigned(v, TypeOf(cflags))

Base(conv) == CASE conv \in {"x", "X"} -> 16 [] conv = "o" -> 8 [] OTHER -> 10

ConvFlags(conv) ==
  (IF conv \in {"X", "A", "F", "E", "G"} THEN {"UP"} ELSE {})
  \cup (IF conv \in {"X", "x", "o", "u"} THEN {"UNSIGNED"} ELSE {})
  \cup (IF conv \in {"E", "e"} THEN {"TYPE_E"} ELSE {})
  \cup (IF conv \in {"G", "g"} THEN {"TYPE_G"} ELSE {})

ConvertInt(conv, v, sp) ==
  fmtint(IF conv \in {"d", "i"} THEN SignedArg(v, sp.cflags) ELSE UnsignedArg(v, sp.cflags),
         Base(conv), sp.width, sp.precision, sp.flags \cup ConvFlags(conv))

(* For "%g" a precision of zero is one *)
ConvertFlt(conv, v, sp) ==
  fmtflt(v, sp.width,
         IF conv \in {"g", "G"} /\ sp.precision = 0 THEN 1 ELSE sp.precision,
         sp.flags \cup ConvFlags(conv))

(* A pointer: a null one is a string, the others are in base 16 with 0x *)
ConvertPtr(v, sp) ==
  IF v = NULL THEN fmtstr(<<"(", "n", "i", "l", ")">>, sp.width, -1, sp.flags)
  ELSE fmtint(v, 16, sp.width, sp.precision, sp.flags \cup {"#", "UNSIGNED"})

(* What the conversion puts out, and whether it overflows.  "%c" looks     *)
(* neither at the width nor at the precision, and other characters are     *)
(* skipped.                                                                *)
Convert(conv, v, sp) ==
  CASE conv \in FltConvs -> ConvertFlt(conv, v.flt, sp)
    [] conv \in IntConvs -> [text |-> ConvertInt(conv, v.int, sp), overflow |-> FALSE]
    [] conv = "c" -> [text |-> <<v.chr>>, overflow |-> FALSE]
    [] conv = "s" -> [text |-> fmtstr(v.str, sp.width, sp.precision, sp.flags), overflow |-> FALSE]
    [] conv = "p" -> [text |-> ConvertPtr(v.ptr, sp), overflow |-> FALSE]
    [] conv = "%" -> [text |-> <<"%">>, overflow |-> FALSE]
    [] OTHER -> [text |-> << >>, overflow |-> FALSE]

(* Variant: flags and width are kept for the next directive *)
SpecAfterKept == [spec EXCEPT !.precision = -1, !.cflags = "none"]

SpecAfter == NoSpec

PRINT_S_CONV ==
  LET c == Convert(Ch, IF Ch \in TakesArg THEN NextArg ELSE NULL, spec)
  IN  /\ Scanning("CONV")
      /\ arg' = IF Ch \in TakesArg THEN arg + 1 ELSE arg
      /\ OUTCHAR(c.text)
      /\ stored' = IF Ch = "n" THEN Signed(len, TypeOf(spec.cflags)) ELSE stored
      /\ IF c.overflow THEN goto_out /\ UNCHANGED <<pos, state, spec>>
         ELSE /\ pos' = pos + 1 /\ state' = "DEFAULT" /\ spec' = SpecAfter
              /\ UNCHANGED <<pc, overflow>>
      /\ UNCHANGED <<input, size, nul, ret, xml>>

(* out: the nul, and the result *)
vsnprintf_out ==
  /\ pc = "out" \/ (pc = "scan" /\ Ch = "nul")
  /\ nul' = IF len < size THEN len ELSE size - 1
  /\ ret' = IF overflow \/ len >= INT_MAX THEN -1 ELSE len
  /\ pc' = "returned"
  /\ UNCHANGED <<input, size, scanner, xml>>

-----------------------------------------------------------------------------
(* ck_strdup_printf() *)

(* Variant: no place for the nul *)
ItWorkedTight == ret > -1 /\ ret <= size

ItWorked == ret > -1 /\ ret < size

strdup_returns ==
  /\ pc = "returned" /\ call.caller = "strdup" /\ ItWorked
  /\ pc' = "done"
  /\ UNCHANGED <<input, size, scanner, nul, ret, xml>>

MoreSpace == IF ret > -1 THEN ret + 1 ELSE size * 2

(* erealloc(), and vsnprintf() again, or eprintf() *)
strdup_again ==
  /\ pc = "returned" /\ call.caller = "strdup" /\ ~ItWorked
  /\ IF MoreSpace <= MaxMem
     THEN /\ size' = MoreSpace
          /\ pc' = "scan" /\ pos' = 1 /\ arg' = 0 /\ state' = "DEFAULT" /\ spec' = NoSpec
          /\ len' = 0 /\ str' = << >> /\ nul' = -1 /\ stored' = -1 /\ overflow' = FALSE
          /\ ret' = 0
     ELSE pc' = "eprintf" /\ UNCHANGED <<size, scanner, nul, ret>>
  /\ UNCHANGED <<input, xml>>

-----------------------------------------------------------------------------
(* fprint_xml_esc() *)
Entity == ("\"" :> <<"&", "q", "u", "o", "t", ";">>) @@ ("'" :> <<"&", "a", "p", "o", "s", ";">>)
          @@ ("<" :> <<"&", "l", "t", ";">>) @@ (">" :> <<"&", "g", "t", ";">>)
          @@ ("&" :> <<"&", "a", "m", "p", ";">>)

(* A char as the int it is promoted to *)
Promoted(code) == IF CharSigned /\ code > 127 THEN code - 256 ELSE code

(* Variant: only markup is escaped *)
EscapedMarkup(ch) == IF ch \in DOMAIN Entity \ {"&"} THEN Entity[ch] ELSE <<ch>>

Escaped(ch) ==
  IF ch \in DOMAIN Entity THEN Entity[ch]
  ELSE IF ch \notin DOMAIN Codes THEN <<ch>>
  ELSE LET next == Promoted(Codes[ch])
       IN  IF next \in {9, 10, 13} \/ next >= 32
           THEN <<"&", "#", "x">> \o convert(next, MAX_CONVERT_LENGTH, 16, TRUE) \o <<";">>
           ELSE << >>

(* _ck_assert_failed() sends what is in its buffer, and the log has it *)
assert_logged ==
  /\ pc = "returned" /\ call.caller = "assert"
  /\ xml' = Flat(Escaped, str)
  /\ pc' = "done"
  /\ UNCHANGED <<input, size, scanner, nul, ret>>

(* Other callers take what is there *)
call_done ==
  /\ pc = "returned" /\ call.caller = "other"
  /\ pc' = "done"
  /\ UNCHANGED <<input, size, scanner, nul, ret, xml>>

-----------------------------------------------------------------------------
Next ==
  \/ PRINT_S_DEFAULT \/ PRINT_S_FLAGS \/ PRINT_S_WIDTH \/ PRINT_S_DOT
  \/ PRINT_S_PRECISION \/ PRINT_S_MOD \/ PRINT_S_CONV \/ vsnprintf_out
  \/ strdup_returns \/ strdup_again \/ assert_logged \/ call_done

Spec == Init /\ [][Next]_vars /\ WF_vars(Next)

-----------------------------------------------------------------------------
(* Properties.                                                             *)

(* Nothing is stored past the end of the buffer at any time, and a buffer  *)
(* that has room for a character is terminated right after what is stored. *)
InBuffer ==
  /\ Len(str) <= AtLeast0(size - 1)
  /\ pc \in {"returned", "done"} => nul = IF size = 0 THEN -1 ELSE Len(str)

(* What a directive stands for, from its parts and not from its text: a    *)
(* negative width is a "-" flag, a negative precision is none, a lone "."  *)
(* a precision of zero.                                                    *)
SpecOf(i) ==
  [flags |-> i.flags \cup (IF i.width.n < 0 THEN {"-"} ELSE {}),
   width |-> IF i.width.n < 0 THEN -i.width.n ELSE i.width.n,
   precision |-> CASE i.precision.kind = "none" -> -1
                   [] i.precision.kind = "dot" -> 0
                   [] OTHER -> IF i.precision.n < 0 THEN -1 ELSE i.precision.n,
   cflags |-> IF i.mod = <<"h", "h">> THEN "char"
              ELSE IF i.mod = << >> THEN "none" ELSE Modifiers[i.mod[1]]]

Expansion(i) == IF i.conv = "literal" THEN <<i.arg.chr>> ELSE Convert(i.conv, i.arg, SpecOf(i)).text

TooLarge(i) ==
  i.conv # "literal" /\ (\/ i.width.n > INT_MAX \/ i.precision.n > INT_MAX
                         \/ Convert(i.conv, i.arg, SpecOf(i)).overflow)

Fits == \A k \in DOMAIN call.items : ~TooLarge(call.items[k])

(* The state machine reads every directive as it was meant, whatever came  *)
(* before it: the result is the length of the whole text, also when the    *)
(* buffer is too small, the buffer has the beginning of it, "%n" stores    *)
(* the length of what comes before it, and only a number or a length       *)
(* beyond INT_MAX gives -1.                                                *)
FormatFollowed ==
  pc = "returned" =>
    LET whole == Flat(Expansion, call.items)
        ns == {k \in DOMAIN call.items : call.items[k].conv = "n"}
    IN  /\ Fits => str = FirstOf(size - 1, whole)
        /\ Fits => \A k \in ns : (\A m \in ns : m <= k) =>
             stored = Signed(Len(Flat(Expansion, SubSeq(call.items, 1, k - 1))),
                             TypeOf(SpecOf(call.items[k]).cflags))
        /\ ret = IF Fits /\ Len(whole) < INT_MAX THEN Len(whole) ELSE -1

(* ck_strdup_printf() returns the whole text, however small the first      *)
(* guess was, or ends the program: a vsnprintf() that will never succeed   *)
(* makes it ask for more memory than there is.                             *)
StrdupReturnsAll ==
  <>(\/ pc = "eprintf"
     \/ pc = "done" /\ (call.caller = "strdup"
                          => Fits /\ str = Flat(Expansion, call.items)))

(* Reading a text back: without the spaces around it, its sign, its        *)
(* prefix, and the digits with the separators taken out                    *)
Without(chars, t) == SelectSeq(t, LAMBDA c : c \notin chars)
IndexOf(chars, t) == {k \in DOMAIN t : t[k] \in chars}
DigitVal(c) == (CHOOSE i \in 1 .. 16 : c \in {DigitChars[i], CapsChars[i]}) - 1
Numb(digits, base) == FoldLeft(LAMBDA n, c : base * n + DigitVal(c), 0, digits)

(* The text of a call with one directive of a kind, when all of it is there *)
OneWhole(convs) ==
  /\ pc = "returned" /\ Len(call.items) = 1 /\ call.items[1].conv \in convs
  /\ ret > -1 /\ Len(str) = ret

Aligned(t, sp) ==
  /\ "-" \in sp.flags => t[1] # " " \/ " " \in sp.flags
  /\ "-" \notin sp.flags => Last(t) # " "

(* An integer is printed so that it reads back as the argument converted   *)
(* to its type, whatever flags, width and precision are: sign or prefix    *)
(* before the digits, at least as many digits as the precision, no more    *)
(* than needed, and the field exactly as wide as it has to be.  (With      *)
(* separators the zeros for a precision are too few.)                      *)
IntegerReadsBack ==
  OneWhole(IntConvs) =>
    LET i == call.items[1]
        sp == SpecOf(i)
        base == Base(i.conv)
        value == IF i.conv \in {"d", "i"} THEN SignedArg(i.arg.int, sp.cflags)
                 ELSE UnsignedArg(i.arg.int, sp.cflags)
        bare == Without({" "}, str)
        signed == bare[1] \in {"+", "-"}
        unsigned == IF signed THEN Tail(bare) ELSE bare
        prefixed == Len(unsigned) > 1 /\ unsigned[2] \in {"x", "X"}
        grouped == IF prefixed THEN SubSeq(unsigned, 3, Len(unsigned)) ELSE unsigned
        digits == Without(ToSet(thousands_sep), grouped)
        zeroPad == "0" \in sp.flags /\ "-" \notin sp.flags /\ sp.precision = -1
        spaces == Len(str) - Len(bare)
    IN  /\ Numb(digits, base) = (IF value < 0 THEN -value ELSE value)
        /\ (bare[1] = "-") = (value < 0)
        /\ (i.conv \in {"d", "i"} /\ "+" \in sp.flags) => signed
        /\ prefixed = ("#" \in sp.flags /\ base = 16 /\ value # 0)
        /\ "'" \in sp.flags \/ Len(digits) >= sp.precision
        /\ Len(digits) > MAX(sp.precision, 1) /\ digits[1] = "0"
             => \/ zeroPad /\ Len(str) = sp.width
                \/ "#" \in sp.flags /\ base = 8 /\ digits[2] # "0"
        /\ Len(str) >= sp.width \/ ("'" \in sp.flags /\ sp.precision > -1)
        /\ Len(str) > sp.width => spaces <= (IF " " \in sp.flags THEN 1 ELSE 0)
        /\ "'" \in sp.flags =>
             /\ Len(grouped) - Len(digits) = getnumsep(Len(convert(MAX(value, -value),
                                                    MAX_CONVERT_LENGTH, base, FALSE)))
             /\ \A k \in IndexOf(ToSet(thousands_sep), grouped) :
                  (Len(grouped) - k + 1) % 4 = 0
        /\ Aligned(str, sp)

(* A number read back, [M, e]: M * 10^e, with the digits before and after  *)
(* the point                                                               *)
ReadFlt(t) ==
  LET bare == Without({" ", "+", "-"} \cup ToSet(thousands_sep), t)
      es == IndexOf({"e", "E"}, bare)
      e == IF es = {} THEN Len(bare) + 1 ELSE CHOOSE k \in es : TRUE
      points == IndexOf({decimal_point}, bare)
      point == IF points = {} THEN e ELSE CHOOSE k \in points : TRUE
      minus == IndexOf({"-"}, t)
      ofExp == {k \in minus : k > 1 /\ t[k - 1] \in {"e", "E"}}
      exp == Numb(SubSeq(bare, e + 1, Len(bare)), 10)
      int == SubSeq(bare, 1, point - 1)
      frac == SubSeq(bare, point + 1, e - 1)
  IN  [int |-> int, frac |-> frac, estyle |-> es # {}, neg |-> minus # ofExp,
       exp |-> IF ofExp # {} THEN -exp ELSE exp,
       mantissa |-> Numb(int \o frac, 10)]

(* |a / 10^j - b / 10^k| is at most half of 10^-u *)
WithinHalf(a, j, b, k, u) ==
  LET q == MAX(MAX(j, k), u)
      diff == a * mypow10(q - j) - b * mypow10(q - k)
  IN  2 * (IF diff < 0 THEN -diff ELSE diff) <= mypow10(q - u)

(* A float is printed rounded to the nearest of its precision, carries     *)
(* into the integer part and into the exponent included: with "%e" one     *)
(* digit before the point, with "%g" the style that its rounded exponent   *)
(* asks for and no trailing zeros.  No more than MAX_PRECISION digits      *)
(* follow the point.                                                       *)
FloatIsRounded ==
  OneWhole(FltConvs) /\ "infnan" \notin DOMAIN call.items[1].arg.flt =>
    LET i == call.items[1]
        f == i.arg.flt
        sp == SpecOf(i)
        given == IF sp.precision = -1 THEN 6 ELSE sp.precision
        typeG == i.conv \in {"g", "G"}
        P == Capped((IF given = 0 THEN 1 ELSE given) - 1) + 1
        r == ReadFlt(str)
        j == Len(r.frac) - r.exp
        X == IF r.estyle THEN r.exp
             ELSE getexponent([n |-> r.mantissa, k |-> Len(r.frac)])
        lead == Without({"0"}, r.int)
    IN  /\ r.neg = f.neg
        /\ Len(str) >= sp.width /\ Aligned(str, sp)
        /\ i.conv \in {"f", "F", "a", "A"} =>
             ~r.estyle /\ Len(r.frac) = Capped(given)
             /\ WithinHalf(r.mantissa, j, f.n, f.k, Capped(given))
        /\ i.conv \in {"e", "E"} =>
             /\ r.estyle /\ Len(r.frac) = Capped(given)
             /\ f.n # 0 => Len(lead) = 1
             /\ WithinHalf(r.mantissa, j, f.n, f.k, Capped(given) - r.exp)
        /\ typeG =>
             /\ f.n # 0 => r.estyle = (X < -4 \/ X >= P)
             /\ WithinHalf(r.mantissa, j, f.n, f.k,
                           IF r.estyle THEN P - 1 - X ELSE Capped(P - 1 - X))
             /\ "#" \in sp.flags /\ f.n # 0 =>
                  Len(r.frac) = IF r.estyle THEN P - 1 ELSE Capped(P - 1 - X)
             /\ "#" \notin sp.flags /\ r.frac # << >> => Last(r.frac) # "0"

(* A number that vsnprintf() printed reads back as its argument: an        *)
(* integer exactly, a float rounded to its precision, in a field as wide   *)
(* as was asked for, whatever flags, width, precision and length modifier  *)
(* the directive has.                                                      *)
NumbersReadBack == IntegerReadsBack /\ FloatIsRounded

(* XML text read: up to the next ";" after an "&" *)
Unescape(t) ==
  LET read == {c \in DOMAIN Entity : Entity[c] = t}
              \cup {c \in DOMAIN Codes : t[2] = "#" /\ Codes[c] = Numb(SubSeq(t, 4, Len(t) - 1), 16)}
  IN  IF read = {} THEN "broken" ELSE CHOOSE c \in read : TRUE

XmlText(t) ==
  LET from[k \in 1 .. Len(t) + 1] ==
        LET ends == {m \in k .. Len(t) : t[m] = ";"}
            m == CHOOSE x \in ends : \A y \in ends : x <= y
        IN  IF k > Len(t) THEN << >>
            ELSE IF t[k] = "&" /\ ends = {} THEN <<"broken">>
            ELSE IF t[k] = "&" THEN <<Unescape(SubSeq(t, k, m))>> \o from[m + 1]
            ELSE <<t[k]>> \o from[k + 1]
  IN  from[1]

LeftOut(c) == c \in DOMAIN Codes /\ Promoted(Codes[c]) < 32 /\ Codes[c] \notin {9, 10, 13}

(* The reader of the XML log gets the message back, except for what        *)
(* follows the first BUFSIZ characters of it and for the characters that   *)
(* are left out: control characters and, where char is signed, everything  *)
(* beyond ASCII.                                                           *)
MessageReadBack ==
  pc = "done" /\ call.caller = "assert" =>
    /\ ToSet(xml) \cap {"<", ">", "\"", "'"} = {}
    /\ XmlText(xml) = SelectSeq(str, LAMBDA c : ~LeftOut(c))
=============================================================================
