----------------------------- MODULE SuiteBuild -----------------------------
(***************************************************************************)
(* Building and releasing what a runner runs: suites of test cases, their  *)
(* tests, fixtures, tags and timeouts, and the runners that own them.      *)
(*                                                                         *)
(* A double is a multiple of 1/8 second or of a multiplier of 1/2, so that *)
(* products are exact, as they are in the code; tv_nsec is what floor()    *)
(* leaves.  Pointers are the objects themselves, and calling free() again  *)
(* on an object is counted in frees.                                       *)
(***************************************************************************)
EXTENDS Integers, SequencesExt, FiniteSets

CONSTANTS
  Suites, TCases, Runners,  \* the objects the program may create
  Timeouts,                 \* arguments of tcase_set_timeout(), in eighths of a second
  TagStrings,               \* arguments of tcase_set_tags(), as sequences of characters
  ExitValues,               \* arguments of tcase_add_exit_test()
  Defaults, Multipliers,    \* CK_DEFAULT_TIMEOUT (eighths), CK_TIMEOUT_MULTIPLIER (halves)
  MaxCalls                  \* bound on the calls that are not creations

NULL == <<"NULL">>
Objects == Suites \cup TCases \cup Runners

(* What getenv() and strtod() make of a variable: unset, not a number, or one of values *)
EnvValues(values) ==
  {[set |-> FALSE, number |-> FALSE, v |-> 0], [set |-> TRUE, number |-> FALSE, v |-> 0]}
    \cup {[set |-> TRUE, number |-> TRUE, v |-> v] : v \in values}

ASSUME BuildAssumption ==
  /\ Timeouts \subseteq Int /\ ExitValues \subseteq Int
  /\ Defaults \subseteq Int /\ Multipliers \subseteq Int
  /\ NULL \notin TagStrings

VARIABLES
  env,      \* the two variables of the environment
  live,     \* the objects created
  tclst,    \* s->tclst
  slst,     \* sr->slst
  sflst,    \* tc->ch_sflst and tc->unch_sflst
  tflst,    \* tc->ch_tflst and tc->unch_tflst
  tests,    \* tc->tflst: the allowed exit values
  tags,     \* tc->tags
  timeout,  \* tc->timeout
  frees,    \* how often free() was called on each object
  calls,    \* the number of calls made
  asked     \* history: the last timeout and the last tags asked for, per case

vars == <<env, live, tclst, slst, sflst, tflst, tests, tags, timeout, frees, calls, asked>>

-----------------------------------------------------------------------------
(* Timeouts *)

DEFAULT_TIMEOUT == 4 * 8

(* An environment variable counts if all of it is a number that is not negative *)
env_number(e, otherwise) == IF e.set /\ e.number /\ e.v >= 0 THEN e.v ELSE otherwise

(* CK_TIMEOUT_MULTIPLIER, in halves *)
Multiplier == env_number(env.multiplier, 2)

(* v sixteenths of a second as tv_sec and tv_nsec *)
timespec(v) == [tv_sec |-> v \div 16, tv_nsec |-> (v % 16) * 62500000]

Scaled(t) == timespec(t * Multiplier)

DefaultTimeout == env_number(env.timeout, DEFAULT_TIMEOUT)

-----------------------------------------------------------------------------
(* tag_string_to_list(): strtok() with " " *)

(* Variant that takes an empty word between two spaces, as strsep() does *)
strsep_step(acc, c) ==
  IF c # " " THEN [acc EXCEPT !.word = Append(@, c)]
  ELSE [list |-> Append(acc.list, acc.word), word |-> <<>>]

strtok_step(acc, c) ==
  IF c # " " THEN [acc EXCEPT !.word = Append(@, c)]
  ELSE IF acc.word = <<>> THEN acc
  ELSE [list |-> Append(acc.list, acc.word), word |-> <<>>]

tag_string_to_list(str) ==
  IF str = NULL THEN <<>>
  ELSE LET acc == FoldLeft(strtok_step, [list |-> <<>>, word |-> <<>>], str)
       IN  IF acc.word = <<>> THEN acc.list ELSE Append(acc.list, acc.word)

-----------------------------------------------------------------------------
Init ==
  /\ env \in [timeout : EnvValues(Defaults), multiplier : EnvValues(Multipliers)]
  /\ live = {}
  /\ tclst = [s \in Suites |-> <<>>]
  /\ slst = [sr \in Runners |-> <<>>]
  /\ sflst = [tc \in TCases |-> [ch |-> <<>>, unch |-> <<>>]]
  /\ tflst = [tc \in TCases |-> [ch |-> <<>>, unch |-> <<>>]]
  /\ tests = [tc \in TCases |-> <<>>]
  /\ tags = [tc \in TCases |-> <<>>]
  /\ timeout = [tc \in TCases |-> timespec(0)]
  /\ frees = [o \in Objects |-> 0]
  /\ calls = 0
  /\ asked = [tc \in TCases |-> [timeout |-> 0, tags |-> NULL]]

(* The program may still use o *)
Usable(o) == o \in live /\ frees[o] = 0

Call == calls < MaxCalls /\ calls' = calls + 1

lists == <<tclst, slst>>
caseparts == <<sflst, tflst, tests, tags, timeout, asked>>

suite_create(s) ==
  /\ s \notin live
  /\ live' = live \cup {s}
  /\ UNCHANGED <<env, lists, caseparts, frees, calls>>

tcase_create(tc) ==
  /\ tc \notin live
  /\ live' = live \cup {tc}
  /\ timeout' = [timeout EXCEPT ![tc] = Scaled(DefaultTimeout)]
  /\ asked' = [asked EXCEPT ![tc].timeout = DefaultTimeout]
  /\ UNCHANGED <<env, lists, sflst, tflst, tests, tags, frees, calls>>

(* NULL for the suite makes an empty runner *)
srunner_create(sr, first) ==
  /\ sr \notin live
  /\ live' = live \cup {sr}
  /\ slst' = [slst EXCEPT ![sr] = first]
  /\ UNCHANGED <<env, tclst, caseparts, frees, calls>>

(* Variant that does not look for the case in the list *)
add_tcase_again(s, tc) ==
  /\ Usable(s) /\ Usable(tc) /\ Call
  /\ tclst' = [tclst EXCEPT ![s] = Append(@, tc)]
  /\ UNCHANGED <<env, live, slst, caseparts, frees>>

suite_add_tcase(s, tc) ==
  /\ Usable(s) /\ Usable(tc) /\ Call
  /\ tclst' = [tclst EXCEPT ![s] = IF Contains(@, tc) THEN @ ELSE Append(@, tc)]
  /\ UNCHANGED <<env, live, slst, caseparts, frees>>

srunner_add_suite(sr, s) ==
  /\ Usable(sr) /\ Usable(s) /\ Call
  /\ slst' = [slst EXCEPT ![sr] = Append(@, s)]
  /\ UNCHANGED <<env, live, tclst, caseparts, frees>>

masked(v) == v % 256

_tcase_add_test(tc, allowed_exit_value) ==
  /\ Usable(tc) /\ Call
  /\ tests' = [tests EXCEPT ![tc] = Append(@, masked(allowed_exit_value))]
  /\ UNCHANGED <<env, live, lists, sflst, tflst, tags, timeout, asked, frees>>

(* Variant that adds the teardown at the end *)
add_teardown_last(lst, f) == Append(lst, f)

add_teardown(lst, f) == <<f>> \o lst

(* tcase_add_checked_fixture() and tcase_add_unchecked_fixture(); the number
   of the call stands for the functions given, of which either may be NULL *)
tcase_add_fixture(tc, kind, setup, teardown) ==
  /\ Usable(tc) /\ Call
  /\ sflst' = IF setup THEN [sflst EXCEPT ![tc][kind] = Append(@, calls')] ELSE sflst
  /\ tflst' = IF teardown THEN [tflst EXCEPT ![tc][kind] = add_teardown(@, calls')] ELSE tflst
  /\ UNCHANGED <<env, live, lists, tests, tags, timeout, asked, frees>>

tcase_set_timeout(tc, t) ==
  /\ Usable(tc) /\ Call
  /\ timeout' = IF t >= 0 THEN [timeout EXCEPT ![tc] = Scaled(t)] ELSE timeout
  /\ asked' = IF t >= 0 THEN [asked EXCEPT ![tc].timeout = t] ELSE asked
  /\ UNCHANGED <<env, live, lists, sflst, tflst, tests, tags, frees>>

tcase_set_tags(tc, str) ==
  /\ Usable(tc) /\ Call
  /\ tags' = [tags EXCEPT ![tc] = tag_string_to_list(str)]
  /\ asked' = [asked EXCEPT ![tc].tags = str]
  /\ UNCHANGED <<env, live, lists, sflst, tflst, tests, timeout, frees>>

Occurrences(seq, x) == Cardinality({i \in DOMAIN seq : seq[i] = x})

(* How often srunner_free(sr) frees a suite, and suite_free(s) a case *)
suite_frees(sr, s) == Occurrences(slst[sr], s)
tcase_frees(sr, tc) ==
  FoldLeft(LAMBDA n, s : n + Occurrences(tclst[s], tc), 0, slst[sr])

srunner_free(sr) ==
  /\ Usable(sr)
  /\ frees' = [o \in Objects |->
                 frees[o] + (CASE o \in Suites -> suite_frees(sr, o)
                               [] o \in TCases -> tcase_frees(sr, o)
                               [] OTHER -> IF o = sr THEN 1 ELSE 0)]
  /\ UNCHANGED <<env, live, lists, caseparts, calls>>

Next ==
  \/ \E s \in Suites : suite_create(s)
  \/ \E tc \in TCases : tcase_create(tc)
  \/ \E sr \in Runners :
       \/ srunner_create(sr, <<>>)
       \/ \E s \in Suites : Usable(s) /\ srunner_create(sr, <<s>>)
       \/ \E s \in Suites : srunner_add_suite(sr, s)
       \/ srunner_free(sr)
  \/ \E s \in Suites, tc \in TCases : suite_add_tcase(s, tc)
  \/ \E tc \in TCases :
       \/ \E v \in ExitValues : _tcase_add_test(tc, v)
       \/ \E kind \in {"ch", "unch"}, setup, teardown \in BOOLEAN :
            tcase_add_fixture(tc, kind, setup, teardown)
       \/ \E t \in Timeouts : tcase_set_timeout(tc, t)
       \/ \E str \in TagStrings \cup {NULL} : tcase_set_tags(tc, str)

Spec == Init /\ [][Next]_vars

-----------------------------------------------------------------------------
(* The runners that own a suite, and the suites that own a case, with repetitions *)
OwnersOfSuite(s) == {<<sr, i>> \in Runners \X (1 .. MaxCalls + 1) :
                       i \in DOMAIN slst[sr] /\ slst[sr][i] = s}
OwnersOfTCase(tc) == {s \in Suites : Contains(tclst[s], tc)}

(* The program gives every case to one suite and every suite once to one runner *)
OwnedOnce ==
  /\ \A s \in Suites : Cardinality(OwnersOfSuite(s)) <= 1
  /\ \A tc \in TCases : Cardinality(OwnersOfTCase(tc)) <= 1

(* srunner_free() releases what a runner holds exactly once, with all its
   suites and their cases and nothing else, however often a case was added to
   its suite, as long as every case has one suite and every suite was added
   once to one runner: nothing in the code asks for that. *)
FreedExactlyOnce ==
  OwnedOnce =>
    /\ \A s \in Suites :
         frees[s] = Cardinality({o \in OwnersOfSuite(s) : frees[o[1]] > 0})
    /\ \A tc \in TCases :
         frees[tc] = Cardinality({s \in OwnersOfTCase(tc) : frees[s] > 0})

(* Fixtures nest: of two fixtures of a kind, the one set up first is torn
   down last, whatever was added between them and whichever have no setup or
   no teardown. *)
FixturesNest ==
  \A tc \in TCases : \A kind \in {"ch", "unch"} :
    LET setups == sflst[tc][kind]
        teardowns == tflst[tc][kind]
    IN  \A i, j \in DOMAIN setups : \A k, l \in DOMAIN teardowns :
          setups[i] = teardowns[k] /\ setups[j] = teardowns[l] /\ i < j => k > l

(* The timer of the case is the last timeout asked for, or the default, times
   CK_TIMEOUT_MULTIPLIER, once *)
ScaledOnce(tc) ==
  /\ timeout[tc].tv_sec * 16 + timeout[tc].tv_nsec \div 62500000 = asked[tc].timeout * Multiplier
  /\ timeout[tc] = timespec(0) <=> asked[tc].timeout = 0 \/ Multiplier = 0

(* The first and last places of the words of a string *)
WordsAt(str) ==
  {<<i, j>> \in (1 .. Len(str)) \X (1 .. Len(str)) :
     /\ i <= j /\ \A n \in i .. j : str[n] # " "
     /\ i = 1 \/ str[i - 1] = " "
     /\ j = Len(str) \/ str[j + 1] = " "}

(* The tags of the case are the words of the last string given for it *)
TagsAreWords(tc) ==
  LET str == asked[tc].tags
  IN  IF str = NULL THEN tags[tc] = <<>>
      ELSE LET words == SetToSortSeq(WordsAt(str), LAMBDA v, w : v[1] < w[1])
           IN  tags[tc] = [n \in DOMAIN words |-> SubSeq(str, words[n][1], words[n][2])]

(* A case has what was asked for last, whatever was asked before.  Neither
   repeated calls nor a default from the environment compound its timeout,
   which is off only if it or the multiplier is 0; its tags are the words of
   the string, in their order, and no others: not an empty one, and none of an
   earlier string; an allowed exit value is one that WEXITSTATUS() can give. *)
SettingsAsAsked ==
  \A tc \in TCases \cap live :
    ScaledOnce(tc) /\ TagsAreWords(tc) /\ Range(tests[tc]) \subseteq 0 .. 255
=============================================================================
