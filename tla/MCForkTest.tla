----------------------------- MODULE MCForkTest ------------------------------
EXTENDS ForkTest

Declares(sig, v) == [signal |-> sig, allowed_exit_value |-> v]

(* Tests that declare nothing, an exit value, or a signal *)
AllTFs == {Declares(NoSignal, 0), Declares(NoSignal, 1), Declares(NoSignal, -1),
           Declares("SIGSEGV", 0), Declares("SIGKILL", 0), Declares("SIGINT", 0)}
PlainTF == {Declares(NoSignal, 0)}
=============================================================================
