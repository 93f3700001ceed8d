--------------------------- MODULE MCValDispatcher ---------------------------
(* Small suites for ValDispatcher, one test for each way the tests of the    *)
(* repository use the boot signatures.                                       *)
EXTENDS ValDispatcher

Plain       == [flag |-> "none", quiet |-> FALSE, lax |-> FALSE]
Panic(f)    == [flag |-> f, quiet |-> FALSE, lax |-> FALSE]
Quiet(f)    == [flag |-> f, quiet |-> TRUE,  lax |-> FALSE]
Lax(f)      == [flag |-> f, quiet |-> TRUE,  lax |-> TRUE]

\* ff/ipc/test_i001: the same checks from both worlds.
I001 == [ns |-> <<Plain, Plain>>, s |-> <<Plain>>]
\* ff/ipc/test_i024: a programmer error, which the non-secure caller may survive.
I024 == [ns |-> <<Quiet("expected_ns")>>, s |-> <<Panic("expected_s")>>]
\* The same test on a target that always panics (ff/ipc/test_i004).
I004 == [ns |-> <<Panic("expected_ns")>>, s |-> <<Panic("expected_s")>>]
\* ff/ipc/test_i076: non-secure accesses to the PSA RoT, both expected to fault.
I076 == [ns |-> <<Quiet("reenter"), Quiet("expected_s")>>, s |-> <<>>]
I076Faults == [ns |-> <<Panic("reenter"), Panic("expected_s")>>, s |-> <<>>]
\* ff/ipc/test_i080: the same from a secure partition only.
I080 == [ns |-> <<>>, s |-> <<Quiet("reenter"), Quiet("expected_s")>>]
I080Faults == [ns |-> <<>>, s |-> <<Panic("reenter"), Panic("expected_s")>>]
\* ff/ipc/test_i073: the server half of the write check returns success even
\* when it saw the write.
I073 == [ns |-> <<Panic("reenter"), Lax("expected_ns")>>, s |-> <<>>]
\* ff/ipc/test_i084: a secure-only test that announces a non-secure reset.
I084 == [ns |-> <<>>, s |-> <<Panic("reenter"), Panic("expected_ns")>>]
\* dev_apis/crypto/test_c050.
C050 == [ns |-> <<Panic("cont")>>, s |-> <<>>]

AllKinds   == <<I001, I024, I076, I080, C050, I073>>
Faulting   == <<I001, I004, I076Faults, I080Faults, C050>>
OneI084    == <<I084>>

\* What an erased or reused NV memory may hold.
SomeCounts == {[v \in Verdicts |-> 0], [v \in Verdicts |-> 255]}

\* The tests that never survive a panic announce their resets as the theorems ask.
ASSUME FaultingAnnounces == Checks \in {Faulting, OneI084} => SuiteAnnounces

=============================================================================
