---------------------------- MODULE MCCheckLog ----------------------------
(* CheckLog with logs named by the environment, of which the program may move
   one to stdout or to another file. *)
EXTENDS CheckLog

MCEnv == [k \in Kinds |-> CASE k = "log" -> "env.log" [] k = "xml" -> "env.xml"
                             [] k = "tap" -> "env.tap"]
MCSetNames == [k \in Kinds |-> CASE k = "log" -> {} [] k = "xml" -> {"test.xml"}
                                  [] k = "tap" -> {"-"}]
MCPrintModes == {CK_ENV, CK_SUBUNIT}
=============================================================================
