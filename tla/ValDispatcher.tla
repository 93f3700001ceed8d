---------------------------- MODULE ValDispatcher ----------------------------
(***************************************************************************)
(* The non-secure side of the API test suite's validation layer: val_entry,*)
(* val_dispatcher and the framework calls every test makes, over the       *)
(* non-volatile memory that carries them across resets.                    *)
(*                                                                         *)
(* A reset can happen between any two accesses to the non-volatile memory, *)
(* so every access is an action of its own.  The NV cells survive, the     *)
(* registers of the program do not.  What a check of a test does is up to  *)
(* the implementation under test: it may succeed, fail, skip, hang or reset*)
(* the system.                                                             *)
(***************************************************************************)
EXTENDS Naturals, Sequences

CONSTANTS
    NumTests,     \* tests in test_list[], in the order of the list
    Checks,       \* Checks[t]: the check functions of test t, per world
    Unsupported,  \* tests that need a higher isolation level than the target's
    LeftOver,     \* counter values the NV memory may hold at the first boot
    MaxFaults,    \* bound: NV accesses, loads and watchdog calls that fail
    MaxResets     \* bound: resets that neither a check nor a hang causes

Verdicts == {"pass", "fail", "skip", "sim_error"}
CntMod   == 256               \* test_count_t has 8-bit fields
Counts   == [Verdicts -> 0..(CntMod - 1)]
Total(c) == c["pass"] + c["fail"] + c["skip"] + c["sim_error"]

Tests   == 1..NumTests
Invalid == 0                  \* VAL_INVALID_TEST_ID
TestIds == Tests \cup {Invalid}

\* Boot signatures that mark a boot in the middle of a test.
Intermediate == {"not_expected", "expected_ns", "expected_s", "but_failed",
                 "reenter", "cont"}
BootStates   == Intermediate \cup {"unknown", "garbage"}

\* A check sets boot signature "flag" before the operation that should reset
\* the system ("none": it sets none).  quiet: the operation may also return and
\* the check still succeeds.  lax: the check succeeds although its server half
\* found that the operation was not stopped.
CheckKinds == [flag : {"none", "expected_ns", "expected_s", "reenter", "cont"},
               quiet : BOOLEAN, lax : BOOLEAN]

ASSUME ConstantsAssumption ==
    /\ NumTests \in Nat \ {0} /\ NumTests < CntMod
    /\ Checks \in [Tests -> [ns : Seq(CheckKinds), s : Seq(CheckKinds)]]
    /\ Unsupported \subseteq Tests
    /\ LeftOver \subseteq Counts
    /\ MaxFaults \in Nat /\ MaxResets \in Nat

VARIABLES
    nvBoot, nvPrev, nvCur, nvCnt,  \* NV_BOOT, NV_TEST_ID_PREVIOUS, _CURRENT, NV_TEST_CNT
    pc,         \* where the program is
    testPrev,   \* test_id_prev of val_dispatcher
    testId,     \* test_id of val_dispatcher
    boot,       \* boot.state, as the function in progress read it
    state,      \* g_status_buffer.state
    result,     \* test_result of val_dispatcher
    count,      \* test_count of val_dispatcher
    world, blk, \* the list being executed and the index into it
    outcome,    \* what the check function returned
    watchdog,   \* "on" while the watchdog timer runs
    faults, resets,  \* faults and unprovoked resets so far
    passed,     \* observer: checks of the armed test that did what they should
    seen        \* observer: what else happened to the armed test

nvVars   == <<nvBoot, nvPrev, nvCur, nvCnt>>
loopVars == <<testPrev, testId, result, count>>
runVars  == <<boot, state, world, blk, outcome, watchdog>>
obsVars  == <<passed, seen>>
envVars  == <<faults, resets>>
vars     == <<nvVars, pc, loopVars, runVars, obsVars, envVars>>

-----------------------------------------------------------------------------
(* Helpers *)

\* (A slip, see below: the loader walks past the end of the list.)
NextTestPastEnd(prev) == IF prev <= NumTests THEN prev + 1 ELSE Invalid

\* val_test_load on the combined archive: the test after prev, or Invalid.
NextTest(prev) == IF prev < NumTests THEN prev + 1 ELSE Invalid

\* val_report_status: the verdict for the final state of a test.
Verdict(s) == IF s = "end" THEN "pass"
              ELSE IF s = "skip" THEN "skip"
              ELSE IF s = "pending" THEN "sim_error" ELSE "fail"

Bump(c, v)    == [c EXCEPT ![v] = (@ + 1) % CntMod]
NoCounts      == [v \in Verdicts |-> 0]
List(t, w)    == IF w = "ns" THEN Checks[t].ns ELSE Checks[t].s
Check         == List(testId, world)[blk]
AllChecks(t)  == ({"ns"} \X DOMAIN Checks[t].ns) \cup ({"s"} \X DOMAIN Checks[t].s)
AfterNs(t)    == IF Checks[t].s # <<>> THEN "secBoot" ELSE "exit"
AfterInit(t)  == IF Checks[t].ns # <<>> THEN "nsBoot" ELSE "secBoot"

\* An operation that works, or one of the bounded number that fail.
Attempt(works, breaks) ==
    /\ \/ works /\ faults' = faults
       \/ breaks /\ faults < MaxFaults /\ faults' = faults + 1
    /\ resets' = resets

Goto(l) == pc' = l

\* A system reset: the program restarts at val_entry with its memory cleared.
Reboot ==
    /\ pc' = "entry"
    /\ testPrev' = Invalid /\ testId' = Invalid
    /\ result' = "fail" /\ count' = NoCounts
    /\ boot' = "unknown" /\ state' = "none"
    /\ world' = "ns" /\ blk' = 1 /\ outcome' = "ok"
    /\ watchdog' = "off"
    /\ UNCHANGED nvVars

-----------------------------------------------------------------------------
(* Slips of the kind a change to the code could bring in.  They are not part *)
(* of the specification: each takes the place of the action it is named for, *)
(* to show which property notices.                                           *)

\* BOOT_EXPECTED_REENTER_TEST is missing from the list of intermediate boots.
EntryWithoutReenter ==
    /\ pc = "entry"
    /\ Attempt(Goto(IF nvBoot \in Intermediate \ {"reenter"} THEN "readPrev" ELSE "initBoot"),
               Goto("standby"))
    /\ UNCHANGED <<nvVars, loopVars, runVars, obsVars>>

\* The first boot leaves the last test identifier, or the counters, as they are.
InitPrevKeeps ==
    /\ pc = "initPrev"
    /\ Attempt(Goto("initCnt"), Goto("standby"))
    /\ UNCHANGED <<nvVars, loopVars, runVars, obsVars>>

InitCntKeeps ==
    /\ pc = "initCnt"
    /\ Attempt(Goto("readPrev"), Goto("standby"))
    /\ UNCHANGED <<nvVars, loopVars, runVars, obsVars>>

\* NV_TEST_ID_CURRENT is not written.
LoadForgetsCurrent ==
    /\ pc = "load"
    /\ Attempt(/\ testId' = NextTest(testPrev)
               /\ Goto(IF NextTest(testPrev) = Invalid THEN "final"
                       ELSE IF boot = "unknown" THEN "arm" ELSE "init"),
               Goto("standby") /\ testId' = testId)
    /\ UNCHANGED <<nvVars, testPrev, result, count, runVars, obsVars>>

\* The watchdog is not enabled.
TestInitUnwatched ==
    /\ pc = "init"
    /\ state' = (IF testId \in Unsupported THEN "skip" ELSE "start")
    /\ Goto(IF testId \in Unsupported THEN "exit" ELSE AfterInit(testId))
    /\ UNCHANGED <<nvVars, loopVars, boot, world, blk, outcome, watchdog, obsVars, envVars>>

\* The secure half of a test is skipped after the reset of the non-secure half.
SecBootSkipsBoth ==
    /\ pc = "secBoot"
    /\ Attempt(/\ boot' = nvBoot /\ state' = state
               /\ blk' = (IF nvBoot = "reenter" THEN 2 ELSE 1)
               /\ Goto(IF nvBoot \in {"expected_s", "expected_ns"} THEN "exit" ELSE "secArm"),
               state' = "fail" /\ Goto("exit") /\ UNCHANGED <<boot, blk>>)
    /\ UNCHANGED <<nvVars, loopVars, world, outcome, watchdog, obsVars>>

\* NV_BOOT is not set back to BOOT_UNKNOWN after the test.
ClearKeeps ==
    /\ pc = "clear"
    /\ Attempt(Goto("readCnt"), Goto("standby"))
    /\ UNCHANGED <<nvVars, loopVars, runVars, obsVars>>

\* test_id_prev stays behind when the dispatcher goes round its loop.
WritePrevKeepsRegister ==
    /\ pc = "writePrev"
    /\ Attempt(nvPrev' = testId /\ Goto("loop"),
               nvPrev' = nvPrev /\ Goto("standby"))
    /\ UNCHANGED <<nvBoot, nvCur, nvCnt, loopVars, runVars, obsVars>>

-----------------------------------------------------------------------------
(* val_entry and val_get_last_run_test_id *)

Init ==
    /\ nvBoot \in {"unknown", "garbage"}
    /\ nvPrev \in TestIds /\ nvCur \in TestIds /\ nvCnt \in LeftOver
    /\ pc = "entry"
    /\ testPrev = Invalid /\ testId = Invalid
    /\ result = "fail" /\ count = NoCounts
    /\ boot = "unknown" /\ state = "none"
    /\ world = "ns" /\ blk = 1 /\ outcome = "ok" /\ watchdog = "off"
    /\ faults = 0 /\ resets = 0
    /\ passed = {} /\ seen = {}

\* Any signature that is not an intermediate one makes this the first boot.
Entry ==
    /\ pc = "entry"
    /\ Attempt(Goto(IF nvBoot \in Intermediate THEN "readPrev" ELSE "initBoot"),
               Goto("standby"))
    /\ UNCHANGED <<nvVars, loopVars, runVars, obsVars>>

InitBoot ==
    /\ pc = "initBoot"
    /\ Attempt(Goto("initPrev") /\ nvBoot' = "unknown",
               Goto("standby") /\ nvBoot' = nvBoot)
    /\ UNCHANGED <<nvPrev, nvCur, nvCnt, loopVars, runVars, obsVars>>

InitPrev ==
    /\ pc = "initPrev"
    /\ Attempt(Goto("initCnt") /\ nvPrev' = Invalid,
               Goto("standby") /\ nvPrev' = nvPrev)
    /\ UNCHANGED <<nvBoot, nvCur, nvCnt, loopVars, runVars, obsVars>>

InitCnt ==
    /\ pc = "initCnt"
    /\ Attempt(Goto("readPrev") /\ nvCnt' = NoCounts,
               Goto("standby") /\ nvCnt' = nvCnt)
    /\ UNCHANGED <<nvBoot, nvPrev, nvCur, loopVars, runVars, obsVars>>

ReadPrev ==
    /\ pc = "readPrev"
    /\ Attempt(Goto("loop") /\ testPrev' = nvPrev,
               Goto("standby") /\ testPrev' = testPrev)
    /\ UNCHANGED <<nvVars, testId, result, count, runVars, obsVars>>

-----------------------------------------------------------------------------
(* val_dispatcher, up to the call of the test *)

\* A boot that nobody expected, or an expected one that failed to come, is
\* charged to the test that was running; anything else (re)loads a test.
ReadBoot ==
    /\ pc = "loop"
    /\ Attempt(/\ boot' = nvBoot
               /\ \/ nvBoot = "not_expected" /\ state' = "pending" /\ Goto("readCur")
                  \/ nvBoot = "but_failed" /\ state' = "fail" /\ Goto("readCur")
                  \/ /\ nvBoot \notin {"not_expected", "but_failed"}
                     /\ state' = state /\ Goto("load"),
               Goto("standby") /\ UNCHANGED <<boot, state>>)
    /\ UNCHANGED <<nvVars, loopVars, world, blk, outcome, watchdog, obsVars>>

ReadCur ==
    /\ pc = "readCur"
    /\ Attempt(Goto("report") /\ testId' = nvCur,
               Goto("standby") /\ testId' = testId)
    /\ UNCHANGED <<nvVars, testPrev, result, count, runVars, obsVars>>

Load ==
    /\ pc = "load"
    /\ Attempt(/\ testId' = NextTest(testPrev)
               /\ Goto(IF NextTest(testPrev) = Invalid THEN "final" ELSE "writeCur"),
               Goto("standby") /\ testId' = testId)
    /\ UNCHANGED <<nvVars, testPrev, result, count, runVars, obsVars>>

WriteCur ==
    /\ pc = "writeCur"
    /\ Attempt(/\ nvCur' = testId
               /\ Goto(IF boot = "unknown" THEN "arm" ELSE "init"),
               Goto("standby") /\ nvCur' = nvCur)
    /\ UNCHANGED <<nvBoot, nvPrev, nvCnt, loopVars, runVars, obsVars>>

\* NV_BOOT := BOOT_NOT_EXPECTED: from here on a reset belongs to this test.
Arm ==
    /\ pc = "arm"
    /\ Attempt(nvBoot' = "not_expected" /\ Goto("init"),
               nvBoot' = nvBoot /\ Goto("standby"))
    /\ passed' = {} /\ seen' = {}
    /\ UNCHANGED <<nvPrev, nvCur, nvCnt, loopVars, runVars>>

-----------------------------------------------------------------------------
(* The test: test_init, the lists of checks, test_exit *)

TestInit ==
    /\ pc = "init"
    /\ \/ /\ testId \in Unsupported
          /\ state' = "skip" /\ watchdog' = watchdog
          /\ Goto("exit") /\ UNCHANGED envVars
       \/ /\ testId \notin Unsupported
          /\ Attempt(state' = "start" /\ watchdog' = "on" /\ Goto(AfterInit(testId)),
                     state' = "fail" /\ watchdog' = watchdog /\ Goto("exit"))
    /\ UNCHANGED <<nvVars, loopVars, boot, world, blk, outcome, obsVars>>

\* val_execute_non_secure_tests: where to start, by the boot signature.
NsBoot ==
    /\ pc = "nsBoot"
    /\ Attempt(/\ boot' = nvBoot /\ world' = "ns" /\ state' = state
               /\ blk' = (IF nvBoot = "reenter" THEN 2 ELSE 1)
               /\ Goto(IF nvBoot \in {"not_expected", "reenter", "cont"}
                       THEN "nsNext" ELSE AfterNs(testId)),
               /\ state' = "fail" /\ Goto("exit")
               /\ UNCHANGED <<boot, world, blk>>)
    /\ UNCHANGED <<nvVars, loopVars, outcome, watchdog, obsVars>>

\* The head of its loop: end of the list, or disarm the previous check.  When
\* that write fails the code returns with the status still TEST_START.
NsNext ==
    /\ pc = "nsNext"
    /\ \/ /\ blk > Len(List(testId, "ns"))
          /\ Goto(AfterNs(testId)) /\ nvBoot' = nvBoot /\ UNCHANGED envVars
       \/ /\ blk <= Len(List(testId, "ns"))
          /\ \/ /\ boot = "cont"
                /\ Goto("check") /\ nvBoot' = nvBoot /\ UNCHANGED envVars
             \/ /\ boot # "cont"
                /\ Attempt(nvBoot' = "not_expected" /\ Goto("check"),
                           nvBoot' = nvBoot /\ Goto("exit"))
    /\ UNCHANGED <<nvPrev, nvCur, nvCnt, loopVars, runVars, obsVars>>

\* val_switch_to_secure_client: nothing left to do after a BOOT_EXPECTED_S.
SecBoot ==
    /\ pc = "secBoot"
    /\ Attempt(/\ boot' = nvBoot /\ state' = state
               /\ blk' = (IF nvBoot = "reenter" THEN 2 ELSE 1)
               /\ Goto(IF nvBoot = "expected_s" THEN "exit" ELSE "secArm"),
               state' = "fail" /\ Goto("exit") /\ UNCHANGED <<boot, blk>>)
    /\ UNCHANGED <<nvVars, loopVars, world, outcome, watchdog, obsVars>>

SecArm ==
    /\ pc = "secArm"
    /\ Attempt(/\ nvBoot' = "not_expected" /\ world' = "s" /\ state' = state
               /\ Goto("secNext"),
               state' = "fail" /\ Goto("exit") /\ UNCHANGED <<nvBoot, world>>)
    /\ UNCHANGED <<nvPrev, nvCur, nvCnt, loopVars, boot, blk, outcome, watchdog, obsVars>>

\* val_execute_secure_tests in the client partition.
SecNext ==
    /\ pc = "secNext"
    /\ Goto(IF blk <= Len(List(testId, "s")) THEN "check" ELSE "exit")
    /\ UNCHANGED <<nvVars, loopVars, runVars, obsVars, envVars>>

-----------------------------------------------------------------------------
(* One check function.  Its operations on the implementation under test     *)
(* return whatever that implementation chooses.                             *)

Observe(o) == seen' = (IF o = "ok" THEN seen ELSE seen \cup {o})

\* A check without a boot signature, or the part of any check before it.
PlainCheck ==
    /\ pc = "check"
    /\ \E o \in IF Check.flag = "none" THEN {"ok", "fail", "skip"} ELSE {"fail"} :
          outcome' = o /\ Observe(o)
    /\ Goto("result")
    /\ UNCHANGED <<nvVars, loopVars, boot, state, world, blk, watchdog, passed, envVars>>

\* set_boot_flag before the operation that should reset the system.
SetFlag ==
    /\ pc = "check"
    /\ Check.flag \in {"expected_ns", "expected_s", "reenter"}
    /\ Attempt(/\ nvBoot' = Check.flag /\ Goto("critical")
               /\ UNCHANGED <<outcome, seen>>,
               /\ outcome' = "fail" /\ seen' = seen \cup {"fail"} /\ Goto("result")
               /\ nvBoot' = nvBoot)
    /\ UNCHANGED <<nvPrev, nvCur, nvCnt, loopVars, boot, state, world, blk, watchdog, passed>>

Achieved == passed' = passed \cup {<<world, blk>>}

\* The operation resets the system, as it should ...
PanicReset ==
    /\ pc = "critical" /\ Achieved
    /\ Reboot /\ UNCHANGED <<seen, envVars>>

\* ... or stops it, which the watchdog turns into a reset ...
PanicHang ==
    /\ pc = "critical" /\ Achieved
    /\ Goto("hung") /\ UNCHANGED <<nvVars, loopVars, runVars, seen, envVars>>

\* ... or returns in a way that the check accepts ...
QuietReturn ==
    /\ pc = "critical" /\ Check.quiet
    /\ outcome' = "ok" /\ Goto("result")
    /\ UNCHANGED <<nvVars, loopVars, boot, state, world, blk, watchdog, obsVars, envVars>>

\* ... or returns although it should not.
Survives ==
    /\ pc = "critical"
    /\ seen' = seen \cup {"fail"}
    /\ Attempt(nvBoot' = "but_failed" /\ outcome' = (IF Check.lax THEN "ok" ELSE "fail"),
               nvBoot' = nvBoot /\ outcome' = "fail")
    /\ Goto("result")
    /\ UNCHANGED <<nvPrev, nvCur, nvCnt, loopVars, boot, state, world, blk, watchdog, passed>>

\* A persistent-key check: it imports a key and asks for a reset on a boot
\* that nobody announced ...
ImportKey ==
    /\ pc = "check" /\ Check.flag = "cont" /\ nvBoot = "not_expected"
    /\ Attempt(/\ nvBoot' = "cont" /\ Goto("awaitReset")
               /\ UNCHANGED <<outcome, seen>>,
               /\ outcome' = "fail" /\ seen' = seen \cup {"fail"} /\ Goto("result")
               /\ nvBoot' = nvBoot)
    /\ UNCHANGED <<nvPrev, nvCur, nvCnt, loopVars, boot, state, world, blk, watchdog, passed>>

ControlledReset ==
    /\ pc = "awaitReset"
    /\ Reboot /\ UNCHANGED <<obsVars, envVars>>

\* ... and opens the key again on the announced one.
OpenKey ==
    /\ pc = "check" /\ Check.flag = "cont" /\ nvBoot = "cont"
    /\ Attempt(nvBoot' = "not_expected" /\ outcome' = "ok" /\ seen' = seen,
               nvBoot' = nvBoot /\ outcome' = "fail" /\ seen' = seen \cup {"fail"})
    /\ Goto("result")
    /\ UNCHANGED <<nvPrev, nvCur, nvCnt, loopVars, boot, state, world, blk, watchdog, passed>>

\* The result of the check and of its server half, once both have returned.
CheckResult ==
    /\ pc = "result"
    /\ \E o \in (IF outcome = "ok" /\ Check.flag # "cont" THEN {"ok", "fail"}
                 ELSE {outcome}) :
          /\ Observe(o)
          /\ \/ /\ o = "ok" /\ Achieved /\ blk' = blk + 1 /\ state' = state
                /\ Goto(IF world = "ns" THEN "nsNext" ELSE "secNext")
             \/ /\ o # "ok" /\ state' = o /\ Goto("exit")
                /\ UNCHANGED <<passed, blk>>
    /\ UNCHANGED <<nvVars, loopVars, boot, world, outcome, watchdog, envVars>>

\* The implementation under test stops responding.
Hang ==
    /\ \/ pc \in {"check", "awaitReset"}
       \/ pc = "result" /\ Check.flag # "cont"    \* the crypto tests have no server half
    /\ Goto("hung") /\ seen' = seen \cup {"hang"}
    /\ UNCHANGED <<nvVars, loopVars, runVars, passed, envVars>>

TestExit ==
    /\ pc = "exit" /\ Goto("report")
    /\ Attempt(/\ watchdog' = "off"
               /\ state' = (IF state \in {"fail", "skip"} THEN state ELSE "end"),
               watchdog' = watchdog /\ state' = "fail")
    /\ UNCHANGED <<nvVars, loopVars, boot, world, blk, outcome, obsVars>>

-----------------------------------------------------------------------------
(* val_dispatcher, after the test *)

ReportStatus ==
    /\ pc = "report" /\ Goto("clear")
    /\ result' = Verdict(state)
    /\ UNCHANGED <<nvVars, testPrev, testId, count, runVars, obsVars, envVars>>

Clear ==
    /\ pc = "clear"
    /\ Attempt(nvBoot' = "unknown" /\ Goto("readCnt"),
               nvBoot' = nvBoot /\ Goto("standby"))
    /\ UNCHANGED <<nvPrev, nvCur, nvCnt, loopVars, runVars, obsVars>>

ReadCnt ==
    /\ pc = "readCnt"
    /\ Attempt(count' = Bump(nvCnt, result) /\ Goto("writeCnt"),
               count' = count /\ Goto("standby"))
    /\ UNCHANGED <<nvVars, testPrev, testId, result, runVars, obsVars>>

WriteCnt ==
    /\ pc = "writeCnt"
    /\ Attempt(nvCnt' = count /\ Goto("writePrev"),
               nvCnt' = nvCnt /\ Goto("standby"))
    /\ UNCHANGED <<nvBoot, nvPrev, nvCur, loopVars, runVars, obsVars>>

WritePrev ==
    /\ pc = "writePrev"
    /\ testPrev' = testId
    /\ Attempt(nvPrev' = testId /\ Goto("loop"),
               nvPrev' = nvPrev /\ Goto("standby"))
    /\ UNCHANGED <<nvBoot, nvCur, nvCnt, testId, result, count, runVars, obsVars>>

\* The suite report prints count; val_entry then enters standby.
FinalReport ==
    /\ pc = "final"
    /\ Attempt(count' = nvCnt /\ Goto("reported"),
               count' = count /\ Goto("standby"))
    /\ UNCHANGED <<nvVars, testPrev, testId, result, runVars, obsVars>>

-----------------------------------------------------------------------------
(* Resets the program does not perform itself *)

\* Code that runs between a test's exit and the arming of the next test.
Bookkeeping == {"report", "clear", "readCnt", "writeCnt", "writePrev", "loop",
                "load", "writeCur", "arm", "final"}

\* The watchdog fires when a test hangs, and at any later point when the test
\* could not switch it off.
Watchdog ==
    /\ watchdog = "on" /\ pc \in Bookkeeping \cup {"hung"}
    /\ Reboot /\ UNCHANGED <<obsVars, envVars>>

PowerReset ==
    /\ resets < MaxResets /\ resets' = resets + 1
    /\ seen' = seen \cup {"reset"}
    /\ Reboot /\ UNCHANGED <<passed, faults>>

Program ==
    \/ Entry \/ InitBoot \/ InitPrev \/ InitCnt \/ ReadPrev
    \/ ReadBoot \/ ReadCur \/ Load \/ WriteCur \/ Arm
    \/ TestInit \/ NsBoot \/ NsNext \/ SecBoot \/ SecArm \/ SecNext
    \/ PlainCheck \/ SetFlag \/ PanicReset \/ PanicHang \/ QuietReturn
    \/ Survives \/ ImportKey \/ ControlledReset \/ OpenKey \/ CheckResult
    \/ TestExit \/ ReportStatus \/ Clear \/ ReadCnt \/ WriteCnt \/ WritePrev
    \/ FinalReport

Next == Program \/ Hang \/ Watchdog \/ PowerReset

Spec == Init /\ [][Next]_vars

\* The processor runs; a hung test is ended by the watchdog.
FairSpec == Spec /\ WF_vars(Program) /\ WF_vars(Watchdog)

-----------------------------------------------------------------------------
(* Properties *)

\* Every variable stays in its range; indices stay within the list of checks.
TypeOK ==
    /\ nvBoot \in BootStates /\ boot \in BootStates
    /\ nvPrev \in TestIds /\ nvCur \in TestIds /\ testPrev \in TestIds /\ testId \in TestIds
    /\ nvCnt \in Counts /\ count \in Counts /\ result \in Verdicts
    /\ pc \in Bookkeeping \cup
              {"entry", "initBoot", "initPrev", "initCnt", "readPrev", "readCur",
               "init", "nsBoot", "nsNext", "secBoot", "secArm", "secNext", "check",
               "critical", "awaitReset", "result", "exit", "hung", "reported", "standby"}
    /\ state \in {"none", "start", "end", "fail", "skip", "pending"}
    /\ world \in {"ns", "s"} /\ blk \in Nat \ {0}
    /\ outcome \in {"ok", "fail", "skip"} /\ watchdog \in {"off", "on"}
    /\ faults \in 0..MaxFaults /\ resets \in 0..MaxResets
    /\ passed \subseteq {"ns", "s"} \X (Nat \ {0})
    /\ seen \subseteq {"fail", "skip", "hang", "reset"}

\* Whenever NV_BOOT marks a boot in the middle of a test, the other NV cells
\* tell which test that is and count each earlier test exactly once: a reset
\* at that point neither loses nor repeats a verdict.
NvDescribesPrefix ==
    nvBoot \in Intermediate =>
        /\ nvCur \in Tests /\ nvCur = NextTest(nvPrev)
        /\ Total(nvCnt) = nvPrev

\* The suite report accounts for every test of the list, whatever resets and
\* failed accesses came before it.
ReportComplete == pc = "reported" => Total(count) = NumTests

\* The verdict recorded for a test is the one the observed behaviour of its
\* checks deserves: it passes only when every check of both worlds did what it
\* should, fails or is a simulation error only when something went wrong.
VerdictJust ==
    pc = "clear" =>
        /\ result = "pass" => passed = AllChecks(testId) /\ "fail" \notin seen
        /\ result = "fail" => "fail" \in seen \/ faults > 0
        /\ result = "skip" => testId \in Unsupported \/ "skip" \in seen
        /\ result = "sim_error" => "hang" \in seen

\* Code of the implementation under test, which may hang, runs only while the
\* watchdog runs.
HangsAreWatched ==
    pc \in {"check", "critical", "awaitReset", "result", "hung"} => watchdog = "on"

\* Test identifiers and counters are written with a new value only while
\* NV_BOOT is BOOT_UNKNOWN, so that a reset that tears them is never resumed.
BooksChangeOnlyWhileDisarmed ==
    [][nvBoot = "unknown"]_<<nvPrev, nvCur, nvCnt>>

\* As long as the NV memory works, and unless the implementation hangs in one boot after
\* another, the suite reaches its report and stays there, through every other reset.
EventuallyReports ==
    \/ <>[](pc = "reported" \/ faults > 0)
    \/ []<>(pc = "hung") /\ []<>(pc # "hung")

-----------------------------------------------------------------------------
(* What the dispatcher promises: SuiteProgress *)

\* The next boot will start the suite over.
StartsOver ==
    /\ nvBoot \notin Intermediate
    /\ pc \in {"entry", "initBoot", "initPrev", "initCnt", "standby"}

Done     == IF StartsOver THEN 0
            ELSE IF pc = "writePrev" THEN nvPrev + 1 ELSE nvPrev
Tally    == IF StartsOver THEN NoCounts ELSE nvCnt
Reported == pc = "reported"

Suite == INSTANCE SuiteProgress WITH
             done <- Done, tally <- Tally, reported <- Reported

\* Through every fault and reset the NV memory holds the tally of a prefix of
\* the suite, extended by one verdict at a time or started over as a whole.
ImplementsSuite == Suite!Spec

\* With neither faults nor unprovoked resets the suite never starts over, even
\* though checks hang and reset the system.
ImplementsStraightSuite == Suite!StraightSpec

-----------------------------------------------------------------------------
(* The inductive invariant *)

TestPcs == {"init", "nsBoot", "nsNext", "secBoot", "secArm", "secNext", "check",
            "critical", "awaitReset", "result", "exit", "hung"}
LoopPcs == TestPcs \cup Bookkeeping \cup {"readCur", "reported"}

\* Before the dispatcher: where the NV memory is (re)initialised.
EntryInv ==
    /\ pc = "initBoot" => nvBoot \notin Intermediate
    /\ pc \in {"initPrev", "initCnt"} => nvBoot = "unknown"
    /\ pc = "initCnt" => nvPrev = Invalid
    /\ pc = "readPrev" => nvBoot # "garbage" /\ Total(nvCnt) = nvPrev

\* In the dispatcher: the registers follow the NV cells, and the boot signature
\* separates running a test from the bookkeeping between two tests.
LoopInv ==
    pc \in LoopPcs =>
        /\ nvBoot # "garbage" /\ testPrev = nvPrev
        /\ Total(nvCnt) = IF pc = "writePrev" THEN nvPrev + 1 ELSE nvPrev
        /\ pc \in {"load", "writeCur"} => boot = nvBoot
        /\ pc \in TestPcs \cup {"readCur", "report", "clear"} => nvBoot \in Intermediate
        /\ pc \in {"arm", "readCnt", "writeCnt", "writePrev", "final", "reported"}
              => nvBoot = "unknown"
        /\ pc \in TestPcs \cup {"writeCur", "arm", "report", "clear", "readCnt",
                                "writeCnt", "writePrev"}
              => testId \in Tests /\ testId = NextTest(nvPrev)
        /\ pc = "arm" => nvCur = testId
        /\ pc = "writeCnt" => count = Bump(nvCnt, result)
        /\ pc \in {"final", "reported"} => nvPrev = NumTests
        /\ pc = "reported" => count = nvCnt

\* Between test_init and test_exit the watchdog runs.
WatchInv == pc \in TestPcs \ {"init", "exit"} => watchdog = "on"

\* What every step preserves: the NV cells, the registers and the place in the
\* code agree on which tests have had their verdict.
IInv == TypeOK /\ NvDescribesPrefix /\ EntryInv /\ LoopInv /\ WatchInv

-----------------------------------------------------------------------------
(* When every verdict is the right one *)

\* The NV memory, the loader and the watchdog work, and nobody resets the system.
Steady == MaxFaults = 0 /\ MaxResets = 0

\* How the lists of a test may announce resets.  A reset that was announced as
\* expected_ns or expected_s ends its list, expected_s in the non-secure list the whole
\* test; reenter goes on at the second check, in whichever list comes next; cont goes on
\* at the first.  No check accepts that its operation returns.
WellAnnounced(ns, s) ==
    /\ \A i \in DOMAIN ns :
          /\ ~ns[i].quiet /\ ~ns[i].lax
          /\ ns[i].flag \in {"expected_ns", "expected_s"} => i = Len(ns)
          /\ ns[i].flag = "expected_s" => s = <<>>
          /\ ns[i].flag = "reenter" /\ Len(ns) = 1 => s = <<>>
          /\ ns[i].flag = "cont" => ns[1].flag = "cont"
    /\ \A i \in DOMAIN s :
          /\ ~s[i].quiet /\ ~s[i].lax
          /\ s[i].flag = "expected_s" => i = Len(s)
          /\ s[i].flag # "cont"

SuiteAnnounces == \A t \in Tests : WellAnnounced(Checks[t].ns, Checks[t].s)

=============================================================================
