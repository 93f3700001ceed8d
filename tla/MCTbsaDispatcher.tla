--------------------------- MODULE MCTbsaDispatcher ---------------------------
(* Small suites for TbsaDispatcher.                                          *)
EXTENDS TbsaDispatcher

Kind(f, h, m, c, e, o) ==
    [flag |-> f, half |-> h, may |-> m, clears |-> c, ends |-> e, other |-> o]

Plain == Kind("none", "s", {}, "second", {}, Verdicts)          \* base/test_b000
B004  == Kind("wb", "ns", {"reset", "return"}, "exit", {"pass"}, {"pass"})
S001  == Kind("wb", "ns", {"reset"}, "second", Verdicts, {"pass"})
C007  == Kind("wb", "s", {"reset", "default"}, "second", {"pass", "fail"}, {"pass"})
T002  == Kind("wdogb", "s", {"reset", "return"}, "exit", {"pass"}, {"pass", "fail"})
V001  == Kind("cb", "ns", {"reset"}, "second", {"pass", "fail"}, {"pass"})

\* A platform on which the operations that should fault just return.
S001Returns == Kind("wb", "ns", {"return"}, "second", {"pass", "skip"}, {"pass"})
C007Returns == Kind("wb", "s", {"return"}, "second", {"pass"}, {"pass"})

Mixed     == <<Plain, B004, S001, C007, T002, V001>>
Surviving == <<S001Returns, C007Returns>>

SomeCounts == {[v \in Verdicts |-> 0], [v \in Verdicts |-> 255]}
NoFlags    == {}
FirstId    == {1}

\* Accesses whose failure the code turns into a failed test, an early report or
\* another attempt.
Handled == {"init", "clearTest", "clearBoot", "load", "endTest", "request",
            "readCnt", "writeCnt", "writeTest", "report"}

\* The suite of the run is one of those that the theorems are about.
ASSUME MixedIsCareful == Tests = Mixed => Careful

=============================================================================
