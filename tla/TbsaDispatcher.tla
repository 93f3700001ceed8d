---------------------------- MODULE TbsaDispatcher ----------------------------
(***************************************************************************)
(* The dispatcher of the TBSA-v8M suite over its non-volatile memory.  A   *)
(* test has a secure and a non-secure half, each with an entry hook, a     *)
(* payload and an exit hook.  A payload that must provoke a reset first    *)
(* notes the request in one of the three flags of NV_BOOT, and finds it    *)
(* there when the dispatcher runs the test for the second time.            *)
(*                                                                         *)
(* Every access to the non-volatile memory is an action of its own: a      *)
(* reset may come between any two.                                         *)
(***************************************************************************)
EXTENDS Naturals, Sequences

CONSTANTS
    Tests,        \* the combined test binary: what each test does, in order
    LeftOver,     \* counter values the NV memory may hold at first
    UnsetIds,     \* what an uninitialised test_id may hold
    UnsetFlags,   \* flags that an uninitialised boot_t may hold as requested
    Flaky,        \* the accesses that may fail, by the place of the program
    MaxFaults,    \* bound: accesses that fail
    MaxResets     \* bound: resets that no test provokes

Verdicts == {"pass", "fail", "skip"}
CntMod   == 256               \* test_count_t has 8-bit fields
Counts   == [Verdicts -> 0..(CntMod - 1)]
Total(c) == c["pass"] + c["fail"] + c["skip"]

NumTests == Len(Tests)
Invalid  == 0                 \* TBSA_TEST_INVALID
TestIds  == 0..NumTests
Flags    == {"wb", "cb", "wdogb"}
Halves   == {"s", "ns"}

\* flag, half: the request a test makes, if any, and the half that makes it.
\* may: what the operation that should reset the system may do instead.
\* clears: where the request is withdrawn.  ends, other: how the second run of
\* that half, and how the other half, may end.
TestKinds == [flag : Flags \cup {"none"}, half : Halves,
              may : SUBSET {"reset", "return", "default"},
              clears : {"second", "exit"}, ends : SUBSET Verdicts, other : SUBSET Verdicts]

Accesses == {"init", "clearTest", "clearBoot", "lastId", "lastTest", "zeroCnt", "load", "endTest",
             "payload", "request", "second", "exit", "readCnt", "writeCnt", "writeTest", "report"}

ASSUME ConstantsAssumption ==
    /\ Tests \in Seq(TestKinds) /\ NumTests \in 1..(CntMod - 1)
    /\ LeftOver \subseteq Counts
    /\ UnsetIds \subseteq TestIds /\ UnsetIds # {} /\ UnsetFlags \subseteq Flags
    /\ Flaky \subseteq Accesses
    /\ MaxFaults \in Nat /\ MaxResets \in Nat

VARIABLES
    nvTest, nvCnt, nvBoot,  \* NV_TEST, NV_TEST_CNT, the flags requested in NV_BOOT
    pc,          \* where the program is
    prev,        \* test_id_prev
    testId,      \* test_id
    half,        \* the half of the test being run
    status,      \* g_test_status_buffer[0].state
    count,       \* test_count
    requester,   \* observer: the test that requested each flag
    faults, resets   \* failed accesses and unprovoked resets so far

nvVars  == <<nvTest, nvCnt, nvBoot>>
regVars == <<prev, testId, half, status, count>>
envVars == <<faults, resets>>
vars    == <<nvVars, pc, regVars, requester, envVars>>

Test    == Tests[testId]
Goto(l) == pc' = l

\* (A slip, see below: the loader walks past the end marker.)
NextTestPastEnd(p) == IF p <= NumTests THEN p + 1 ELSE Invalid

\* val_test_load: the test after p in the combined binary, or Invalid.
NextTest(p) == IF p < NumTests THEN p + 1 ELSE Invalid

Bump(c, v) == [c EXCEPT ![v] = (@ + 1) % CntMod]
NoCounts   == [v \in Verdicts |-> 0]

\* An access that works, or one that fails.
Attempt(works, breaks) ==
    /\ \/ works /\ faults' = faults
       \/ breaks /\ pc \in Flaky /\ faults < MaxFaults /\ faults' = faults + 1
    /\ resets' = resets

\* A reset: tbsa_main again, with its memory cleared.
Reboot ==
    /\ Goto("init")
    /\ prev' = Invalid /\ testId' \in UnsetIds
    /\ half' = "s" /\ status' = "pass" /\ count' = NoCounts
    /\ UNCHANGED <<nvVars, requester>>

\* The half that makes the test's request.
Requests == Test.flag # "none" /\ half = Test.half

-----------------------------------------------------------------------------
(* Slips of the kind a change to the code could bring in; not part of the    *)
(* specification.                                                            *)

\* A request for a watchdog reset does not count as one.
LastIdForgetsWatchdog ==
    /\ pc = "lastId" /\ prev' = Invalid
    /\ Attempt(Goto(IF nvBoot \cap {"wb", "cb"} # {} THEN "lastTest" ELSE "zeroCnt"), Goto("load"))
    /\ UNCHANGED <<nvVars, testId, half, status, count, requester>>

\* The counters of the suite before are kept.
ZeroCntKeeps ==
    /\ pc = "zeroCnt" /\ Goto("load") /\ prev' = Invalid
    /\ UNCHANGED <<nvVars, testId, half, status, count, requester, envVars>>

\* The request is not withdrawn in the second run.
SecondKeeps ==
    /\ pc = "second" /\ Goto("exit")
    /\ status' \in Test.ends
    /\ UNCHANGED <<nvVars, prev, testId, half, count, requester, envVars>>

\* A payload looks for the request of a cold boot, whichever it made.
ReadRequestOfColdBoot ==
    /\ pc = "payload" /\ Requests
    /\ Attempt(Goto(IF "cb" \in nvBoot THEN "second" ELSE "request") /\ status' = status,
               Goto("exit") /\ status' = "fail")
    /\ UNCHANGED <<nvVars, prev, testId, half, count, requester>>

\* The last test is noted in the register only.
WriteTestKeeps ==
    /\ pc = "writeTest" /\ prev' = testId /\ Goto("load")
    /\ UNCHANGED <<nvVars, testId, half, status, count, requester, envVars>>

-----------------------------------------------------------------------------
(* val_nvram_init and val_nvram_get_last_id                                  *)

Init ==
    /\ nvTest \in TestIds /\ nvCnt \in LeftOver /\ nvBoot = {}
    /\ pc = "init" /\ prev = Invalid /\ testId \in UnsetIds
    /\ half = "s" /\ status = "pass" /\ count = NoCounts
    /\ requester = [f \in Flags |-> Invalid]
    /\ faults = 0 /\ resets = 0

\* A cold reset that no test asked for clears the NV memory; the platform may
\* not be able to tell.
NvInit ==
    /\ pc = "init"
    /\ \E cold \in BOOLEAN :
          Attempt(Goto(IF cold /\ nvBoot = {} THEN "clearTest" ELSE "lastId"), Goto("standby"))
    /\ UNCHANGED <<nvVars, regVars, requester>>

ClearTest ==
    /\ pc = "clearTest"
    /\ Attempt(nvTest' = Invalid /\ Goto("clearBoot"), nvTest' = nvTest /\ Goto("standby"))
    /\ UNCHANGED <<nvCnt, nvBoot, regVars, requester>>

ClearBoot ==
    /\ pc = "clearBoot"
    /\ Attempt(nvBoot' = {} /\ Goto("lastId"), nvBoot' = nvBoot /\ Goto("standby"))
    /\ UNCHANGED <<nvTest, nvCnt, regVars, requester>>

\* A request resumes the suite after the last test, without one it starts over.
\* When NV_BOOT or NV_TEST cannot be read it starts over with the old counters.
LastId ==
    /\ pc = "lastId" /\ prev' = Invalid
    /\ Attempt(Goto(IF nvBoot # {} THEN "lastTest" ELSE "zeroCnt"), Goto("load"))
    /\ UNCHANGED <<nvVars, testId, half, status, count, requester>>

LastTest ==
    /\ pc = "lastTest" /\ Goto("load")
    /\ Attempt(prev' = nvTest, prev' = Invalid)
    /\ UNCHANGED <<nvVars, testId, half, status, count, requester>>

\* Whether the write succeeds is not looked at.
ZeroCnt ==
    /\ pc = "zeroCnt" /\ Goto("load") /\ prev' = Invalid
    /\ Attempt(nvCnt' = NoCounts, nvCnt' = nvCnt)
    /\ UNCHANGED <<nvTest, nvBoot, testId, half, status, count, requester>>

-----------------------------------------------------------------------------
(* tbsa_dispatcher: loading a test                                           *)

\* A load that fails leaves test_id as it is and is tried again, unless test_id
\* happens to be Invalid.  The entry hook of the secure half sets the status.
Load ==
    /\ pc = "load"
    /\ LET next == NextTest(prev)
       IN  Attempt(/\ testId' = next
                   /\ IF next = Invalid THEN Goto("endTest") /\ UNCHANGED <<half, status>>
                      ELSE Goto("payload") /\ half' = "s" /\ status' = "pass",
                   /\ UNCHANGED <<testId, half, status>>
                   /\ Goto(IF testId = Invalid THEN "endTest" ELSE "load"))
    /\ UNCHANGED <<nvVars, prev, count, requester>>

EndTest ==
    /\ pc = "endTest" /\ Goto("report")
    /\ Attempt(nvTest' = Invalid, nvTest' = nvTest)
    /\ UNCHANGED <<nvCnt, nvBoot, regVars, requester>>

-----------------------------------------------------------------------------
(* A half of a test                                                          *)

PlainPayload ==
    /\ pc = "payload" /\ ~Requests
    /\ status' \in Test.other /\ Goto("exit")
    /\ UNCHANGED <<nvVars, prev, testId, half, count, requester, envVars>>

\* NV_BOOT tells the second run from the first.
ReadRequest ==
    /\ pc = "payload" /\ Requests
    /\ Attempt(Goto(IF Test.flag \in nvBoot THEN "second" ELSE "request") /\ status' = status,
               Goto("exit") /\ status' = "fail")
    /\ UNCHANGED <<nvVars, prev, testId, half, count, requester>>

\* What the test needs may be missing, and it fails before its request.
GiveUp ==
    /\ pc = "request" /\ status' = "fail" /\ Goto("exit")
    /\ UNCHANGED <<nvVars, prev, testId, half, count, requester, envVars>>

Request ==
    /\ pc = "request"
    /\ Attempt(/\ nvBoot' = nvBoot \cup {Test.flag}
               /\ requester' = [requester EXCEPT ![Test.flag] = testId]
               /\ Goto("access") /\ status' = status,
               Goto("exit") /\ status' = "fail" /\ UNCHANGED <<nvBoot, requester>>)
    /\ UNCHANGED <<nvTest, nvCnt, prev, testId, half, count>>

\* The operation resets the system, through a fault handler or a watchdog ...
AccessResets ==
    /\ pc = "access" /\ "reset" \in Test.may
    /\ Reboot /\ UNCHANGED envVars

\* ... or returns, and the test fails with its request still standing ...
AccessReturns ==
    /\ pc = "access" /\ "return" \in Test.may
    /\ status' = "fail" /\ Goto("exit")
    /\ UNCHANGED <<nvVars, prev, testId, half, count, requester, envVars>>

\* ... or is ignored in a way the test accepts.
AccessIgnored ==
    /\ pc = "access" /\ "default" \in Test.may
    /\ Goto("second")
    /\ UNCHANGED <<nvVars, regVars, requester, envVars>>

\* The second run, in which the test may withdraw its request.
Second ==
    /\ pc = "second" /\ Goto("exit")
    /\ \/ /\ Test.clears = "exit"
          /\ status' \in Test.ends /\ UNCHANGED <<nvBoot, requester, envVars>>
       \/ /\ Test.clears = "second"
          /\ Attempt(/\ nvBoot' = nvBoot \ {Test.flag} /\ status' \in Test.ends
                     /\ requester' = [requester EXCEPT ![Test.flag] = Invalid],
                     status' = "fail" /\ UNCHANGED <<nvBoot, requester>>)
    /\ UNCHANGED <<nvTest, nvCnt, prev, testId, half, count>>

\* The exit hook runs in any case.  One that withdraws the request writes a
\* boot_t of which it has set only that field.
Withdraw ==
    \/ /\ ~(Requests /\ Test.clears = "exit")
       /\ UNCHANGED <<nvBoot, requester, status, envVars>>
    \/ /\ Requests /\ Test.clears = "exit"
       /\ Attempt(/\ \E junk \in SUBSET (UnsetFlags \ {Test.flag}) : nvBoot' = junk
                  /\ requester' = [f \in Flags |-> Invalid] /\ status' = status,
                  status' = "fail" /\ UNCHANGED <<nvBoot, requester>>)

\* The non-secure half runs only when the secure one passed.
Exit ==
    /\ pc = "exit" /\ Withdraw
    /\ \/ half = "s" /\ half' = "ns" /\ Goto(IF status' = "pass" THEN "payload" ELSE "exit")
       \/ half = "ns" /\ half' = half /\ Goto("readCnt")
    /\ UNCHANGED <<nvTest, nvCnt, prev, testId, count>>

-----------------------------------------------------------------------------
(* tbsa_dispatcher: the books.  A failure ends the suite with a report of    *)
(* what has been counted so far.                                             *)

ReadCnt ==
    /\ pc = "readCnt"
    /\ Attempt(count' = Bump(nvCnt, status) /\ Goto("writeCnt"), count' = count /\ Goto("report"))
    /\ UNCHANGED <<nvVars, prev, testId, half, status, requester>>

WriteCnt ==
    /\ pc = "writeCnt"
    /\ Attempt(nvCnt' = count /\ Goto("writeTest"), nvCnt' = nvCnt /\ Goto("report"))
    /\ UNCHANGED <<nvTest, nvBoot, regVars, requester>>

WriteTest ==
    /\ pc = "writeTest" /\ prev' = testId
    /\ Attempt(nvTest' = testId /\ Goto("load"), nvTest' = nvTest /\ Goto("report"))
    /\ UNCHANGED <<nvCnt, nvBoot, testId, half, status, count, requester>>

\* val_infra_exit.
Report ==
    /\ pc = "report"
    /\ Attempt(count' = nvCnt /\ Goto("reported"), count' = count /\ Goto("standby"))
    /\ UNCHANGED <<nvVars, prev, testId, half, status, requester>>

\* A reset that no test provoked, at any time.
PowerReset ==
    /\ resets < MaxResets /\ resets' = resets + 1 /\ faults' = faults
    /\ Reboot

Program ==
    \/ NvInit \/ ClearTest \/ ClearBoot \/ LastId \/ LastTest \/ ZeroCnt
    \/ Load \/ EndTest \/ PlainPayload \/ ReadRequest \/ GiveUp \/ Request
    \/ AccessResets \/ AccessReturns \/ AccessIgnored \/ Second \/ Exit
    \/ ReadCnt \/ WriteCnt \/ WriteTest \/ Report

Next == Program \/ PowerReset

Spec == Init /\ [][Next]_vars

\* The processor runs, and a reset that was provoked comes.
FairSpec == Spec /\ WF_vars(Program)

-----------------------------------------------------------------------------
(* Properties *)

\* Every variable stays in its range.
TypeOK ==
    /\ nvTest \in TestIds /\ prev \in TestIds /\ testId \in TestIds
    /\ nvCnt \in Counts /\ count \in Counts /\ nvBoot \subseteq Flags
    /\ pc \in Accesses \cup {"access", "reported", "standby"}
    /\ half \in Halves /\ status \in Verdicts
    /\ requester \in [Flags -> TestIds]
    /\ faults \in 0..MaxFaults /\ resets \in 0..MaxResets

\* A payload that takes itself for the second run of its test is one: the
\* request it found is its own, and not one that another test left behind.
SecondRunIsOwn == pc = "second" => requester[Test.flag] = testId

\* A report that follows the last test counts every test of the suite once.
ReportComplete == pc = "reported" /\ testId = Invalid => Total(count) = NumTests

\* The suite comes to an end.
Ends == <>[](pc \in {"reported", "standby"})

-----------------------------------------------------------------------------
(* What the dispatcher promises: SuiteProgress *)

BootPcs    == {"init", "clearTest", "clearBoot", "lastId", "lastTest", "zeroCnt", "standby"}
StartsOver == pc \in BootPcs /\ nvBoot = {}

Done     == IF StartsOver THEN 0
            ELSE IF pc \in BootPcs THEN nvTest
            ELSE IF pc = "writeTest" THEN prev + 1 ELSE prev
Tally    == IF StartsOver THEN NoCounts ELSE nvCnt
Reported == pc = "reported" /\ testId = Invalid

Suite == INSTANCE SuiteProgress WITH
             done <- Done, tally <- Tally, reported <- Reported

\* The NV memory holds the tally of a prefix of the suite, which grows by one
\* verdict at a time or is dropped as a whole.
ImplementsSuite == Suite!Spec

\* Verdicts are dropped only by a reset that no test provoked, or when an access
\* fails: a reset that a test provokes resumes the suite where it was.
ProvokedResetsResume ==
    [][resets' # resets \/ faults' # faults \/ Suite!Record \/ Suite!Report]_(Suite!vars)

-----------------------------------------------------------------------------
(* The suites the dispatcher serves well *)

\* What SecondRunIsOwn, ReportComplete and the promise of SuiteProgress rest on.  A
\* half that withdraws its request in the second run gets to that run: what it
\* does resets the system, and the half before it passes.  The first test makes
\* no request.  The accesses whose failure the code answers with neither a report
\* nor another attempt do not fail, and no memory happens to hold what was never
\* written to it.
Careful ==
    /\ \A n \in 1..NumTests :
          LET t == Tests[n]
          IN  t.flag # "none" /\ t.clears = "second" =>
                 "return" \notin t.may /\ (t.half = "ns" => t.other \subseteq {"pass"})
    /\ Tests[1].flag = "none"
    /\ Flaky \cap {"lastId", "lastTest", "zeroCnt", "payload", "second", "exit"} = {}
    /\ "load" \in Flaky => Invalid \notin UnsetIds
    /\ UnsetFlags = {}

=============================================================================
