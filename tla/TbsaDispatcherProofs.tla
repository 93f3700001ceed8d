------------------------ MODULE TbsaDispatcherProofs ------------------------
(***************************************************************************)
(* Proofs about TbsaDispatcher, for every suite and any number of failed   *)
(* accesses and resets: type correctness and, for the suites and faults    *)
(* that Careful describes, the inductive invariant IInv and what follows   *)
(* from it.                                                                *)
(***************************************************************************)
EXTENDS TbsaDispatcher, TLAPS

(* ------------------------- Lemmas on the helpers ----------------------- *)

\* The loader gives the test after p, and Invalid only after the last one.
LEMMA NextTestType ==
    ASSUME NEW p \in TestIds
    PROVE  /\ NextTest(p) \in TestIds
           /\ NextTest(p) # Invalid => NextTest(p) = p + 1 /\ p < NumTests
           /\ NextTest(p) = Invalid => p = NumTests
  BY ConstantsAssumption DEF NextTest, TestIds, Invalid

\* Every test of the binary is one of the kinds described.
LEMMA TestType == \A n \in TestIds : n # Invalid => Tests[n] \in TestKinds
  BY ConstantsAssumption DEF TestIds, Invalid, NumTests

\* Counting a verdict keeps the counters in their fields, ...
LEMMA BumpType ==
    ASSUME NEW c \in Counts, NEW v \in Verdicts
    PROVE  Bump(c, v) \in Counts
  <1>1. \A n \in 0..255 : (n + 1) % 256 \in 0..255
    OBVIOUS
  <1>2. c[v] \in 0..255
    BY DEF Counts, CntMod
  <1>3. (c[v] + 1) % CntMod \in 0..(CntMod - 1)
    BY <1>1, <1>2 DEF CntMod
  <1> QED BY <1>3 DEF Bump, Counts

\* ... and, while the counters are below the number of tests, adds exactly one.
LEMMA BumpTotal ==
    ASSUME NEW c \in Counts, NEW v \in Verdicts, Total(c) < NumTests
    PROVE  /\ Bump(c, v) = [c EXCEPT ![v] = @ + 1]
           /\ Total(Bump(c, v)) = Total(c) + 1
  <1> DEFINE p == c["pass"]
             f == c["fail"]
             s == c["skip"]
  <1>1. p \in 0..255 /\ f \in 0..255 /\ s \in 0..255
    BY DEF Counts, CntMod, Verdicts
  <1>2. p + f + s < NumTests /\ NumTests \in Nat /\ NumTests < 256
    BY ConstantsAssumption DEF Total, CntMod
  <1> HIDE DEF p, f, s
  <1>3. p \in 0..254 /\ f \in 0..254 /\ s \in 0..254
    BY <1>1, <1>2
  <1>4. c[v] \in 0..254
    BY <1>3 DEF p, f, s, Verdicts
  <1>5. (c[v] + 1) % CntMod = c[v] + 1
    BY <1>4 DEF CntMod
  <1>6. Bump(c, v) = [c EXCEPT ![v] = @ + 1]
    BY <1>5 DEF Bump
  <1>7. Total([c EXCEPT ![v] = @ + 1]) = p + f + s + 1
    <2> DEFINE d == [c EXCEPT ![v] = @ + 1]
               p1 == d["pass"]
               f1 == d["fail"]
               s1 == d["skip"]
    <2>1. /\ p1 = IF v = "pass" THEN p + 1 ELSE p
          /\ f1 = IF v = "fail" THEN f + 1 ELSE f
          /\ s1 = IF v = "skip" THEN s + 1 ELSE s
      BY DEF Counts, Verdicts, p, f, s
    <2> HIDE DEF d, p1, f1, s1
    <2>2. p1 + f1 + s1 = p + f + s + 1
      BY <1>1, <2>1 DEF Verdicts
    <2> QED BY <2>2 DEF Total, d, p1, f1, s1
  <1> QED BY <1>1, <1>6, <1>7 DEF Total, p, f, s

\* A memory of cleared counters counts no test.
LEMMA NoCountsType == NoCounts \in Counts /\ Total(NoCounts) = 0
  BY DEF NoCounts, Counts, Total, CntMod, Verdicts

\* A total is a number.
LEMMA TotalType ==
    ASSUME NEW c \in Counts
    PROVE  Total(c) \in Nat
  <1> DEFINE p == c["pass"]
             f == c["fail"]
             s == c["skip"]
  <1>1. p \in Nat /\ f \in Nat /\ s \in Nat
    BY DEF Counts, CntMod, Verdicts
  <1> HIDE DEF p, f, s
  <1>2. p + f + s \in Nat
    BY <1>1
  <1> QED BY <1>2 DEF Total, p, f, s

(* --------------------------- Type correctness -------------------------- *)

\* A half that runs is that of a test, and one that is about to make its request
\* has one to make.
TypeInv ==
    /\ TypeOK
    /\ pc \in {"payload", "request", "access", "second", "exit"} => testId # Invalid
    /\ pc = "request" => Test.flag # "none"

\* The types hold at first.
LEMMA InitType == Init => TypeInv
  <1> SUFFICES ASSUME Init PROVE TypeInv
    OBVIOUS
  <1>1. nvCnt \in Counts /\ count \in Counts
    BY ConstantsAssumption, NoCountsType DEF Init
  <1>2. Invalid \in TestIds /\ testId \in TestIds
    BY ConstantsAssumption DEF Init, TestIds, Invalid
  <1>3. faults \in 0..MaxFaults /\ resets \in 0..MaxResets
    BY ConstantsAssumption DEF Init
  <1> QED BY <1>1, <1>2, <1>3 DEF Init, TypeInv, TypeOK, Accesses, Halves, Verdicts

\* No step leaves the types.
LEMMA TypeStep == TypeInv /\ [Next]_vars => TypeInv'
  <1> SUFFICES ASSUME TypeInv, [Next]_vars PROVE TypeInv'
    OBVIOUS
  <1> USE
      DEF TypeInv, TypeOK, Accesses, Halves, Verdicts, Attempt, Goto, nvVars, regVars,
          envVars
  <1>0. /\ MaxFaults \in Nat /\ MaxResets \in Nat
        /\ Invalid \in TestIds /\ UnsetIds \subseteq TestIds /\ UnsetFlags \subseteq Flags
    BY ConstantsAssumption DEF TestIds, Invalid
  <1>1. CASE NvInit
    BY <1>0, <1>1 DEF NvInit
  <1>2. CASE ClearTest
    BY <1>0, <1>2 DEF ClearTest
  <1>3. CASE ClearBoot
    BY <1>0, <1>3 DEF ClearBoot
  <1>4. CASE LastId
    BY <1>0, <1>4 DEF LastId
  <1>5. CASE LastTest
    BY <1>0, <1>5 DEF LastTest
  <1>6. CASE ZeroCnt
    BY <1>0, NoCountsType, <1>6 DEF ZeroCnt
  <1>7. CASE Load
    BY <1>0, NextTestType, <1>7 DEF Load
  <1>8. CASE EndTest
    BY <1>0, <1>8 DEF EndTest
  <1>9. CASE PlainPayload
    <2>1. Test \in TestKinds
      BY <1>9, TestType DEF PlainPayload, Test
    <2> QED BY <1>0, <1>9, <2>1 DEF PlainPayload, TestKinds, Test
  <1>10. CASE ReadRequest
    BY <1>0, <1>10 DEF ReadRequest, Requests, Test
  <1>11. CASE GiveUp
    BY <1>0, <1>11 DEF GiveUp
  <1>12. CASE Request
    <2>1. Test \in TestKinds
      BY <1>12, TestType DEF Request, Test
    <2> QED BY <1>0, <1>12, <2>1 DEF Request, TestKinds, Test
  <1>13. CASE AccessResets
    BY <1>0, NoCountsType, <1>13 DEF AccessResets, Reboot
  <1>14. CASE AccessReturns
    BY <1>0, <1>14 DEF AccessReturns
  <1>15. CASE AccessIgnored
    BY <1>0, <1>15 DEF AccessIgnored, Test
  <1>16. CASE Second
    <2>1. Test \in TestKinds
      BY <1>16, TestType DEF Second, Test
    <2> QED BY <1>0, <1>16, <2>1 DEF Second, TestKinds, Test
  <1>17. CASE Exit
    <2>1. nvBoot' \subseteq Flags /\ status' \in Verdicts /\ requester' \in [Flags -> TestIds]
      BY <1>0, <1>17 DEF Exit, Withdraw
    <2>2. faults' \in 0..MaxFaults /\ resets' \in 0..MaxResets
      BY <1>0, <1>17 DEF Exit, Withdraw
    <2> QED BY <1>0, <1>17, <2>1, <2>2 DEF Exit
  <1>18. CASE ReadCnt
    BY <1>0, BumpType, <1>18 DEF ReadCnt
  <1>19. CASE WriteCnt
    BY <1>0, <1>19 DEF WriteCnt
  <1>20. CASE WriteTest
    BY <1>0, <1>20 DEF WriteTest
  <1>21. CASE Report
    BY <1>0, <1>21 DEF Report
  <1>22. CASE PowerReset
    BY <1>0, NoCountsType, <1>22 DEF PowerReset, Reboot
  <1>23. CASE UNCHANGED vars
    BY <1>23 DEF vars, Test
  <1> QED
    BY <1>1, <1>2, <1>3, <1>4, <1>5, <1>6, <1>7, <1>8, <1>9, <1>10, <1>11, <1>12,
        <1>13, <1>14, <1>15, <1>16, <1>17, <1>18, <1>19, <1>20, <1>21, <1>22, <1>23
       DEF Next, Program

\* Every variable keeps its type, for all constants.
THEOREM TypeCorrect == Spec => []TypeOK
  <1>1. TypeInv => TypeOK
    BY DEF TypeInv
  <1> QED BY <1>1, InitType, TypeStep, PTL DEF Spec

(* ------------------------ The inductive invariant ---------------------- *)

\* The places of the loop over the tests, and those at which a test is under way.
LoopPcs == {"load", "payload", "request", "access", "second", "exit", "readCnt",
            "writeCnt", "writeTest", "endTest"}
TestPcs == LoopPcs \ {"load", "endTest"}

\* A request that stands is that of the test after the last one noted in NV_TEST.
OwnRequests ==
    \A f \in nvBoot :
        nvTest < NumTests /\ requester[f] = nvTest + 1 /\ Tests[nvTest + 1].flag = f

\* At boot, a request decides between resuming and starting over.
BootInv ==
    /\ pc \in {"clearTest", "clearBoot", "zeroCnt"} => nvBoot = {}
    /\ pc = "lastTest" => nvBoot # {}
    /\ pc \in (BootPcs \ {"standby"}) \cup {"load"} /\ "load" \in Flaky => testId # Invalid

\* The register and NV_TEST agree on the last test, unless the suite has just
\* started over.
PlaceInv ==
    /\ pc \in LoopPcs => prev = nvTest \/ (prev = Invalid /\ nvBoot = {})
    /\ pc \in TestPcs => prev < NumTests /\ testId = prev + 1
    /\ pc = "endTest" => prev = NumTests /\ testId = Invalid
    /\ pc \in {"report", "reported"} /\ testId = Invalid => prev = NumTests

\* A request stands only until the second run withdraws it: the half that made it,
\* or one on its way there, is the one that runs.
StandingInv ==
    /\ pc \in {"request", "readCnt", "writeCnt", "writeTest", "endTest", "report", "reported"}
          => nvBoot = {}
    /\ pc \in {"request", "access", "second"} => Requests
    /\ pc \in {"access", "second"} => Test.flag \in nvBoot
    /\ pc = "payload" /\ nvBoot # {} => half = "s" \/ Test.half = "ns"
    /\ pc = "exit" /\ nvBoot # {} =>
          \/ Test.clears = "exit" /\ (half = "ns" => Test.half = "ns")
          \/ Test.half = "ns" /\ half = "s" /\ status = "pass"

\* The counters count the tests up to the last one.
CountInv ==
    /\ nvBoot # {} => Total(nvCnt) = nvTest
    /\ pc \in LoopPcs => Total(nvCnt) = IF pc = "writeTest" THEN prev + 1 ELSE prev
    /\ pc = "writeCnt" => count = Bump(nvCnt, status)
    /\ pc \in {"report", "reported"} /\ testId = Invalid => Total(nvCnt) = NumTests
    /\ pc = "reported" => count = nvCnt

\* The inductive invariant of a careful suite.
IInv == TypeInv /\ OwnRequests /\ BootInv /\ PlaceInv /\ StandingInv /\ CountInv

\* In a careful suite the accesses that matter do not fail.
LEMMA CarefulAccess ==
    ASSUME Careful, pc \in {"lastId", "lastTest", "zeroCnt", "payload", "second", "exit"}
    PROVE  pc \notin Flaky
  BY DEF Careful

\* The invariant holds at first, ...
LEMMA CarefulInit == ASSUME Careful PROVE Init => IInv
  <1> SUFFICES ASSUME Init PROVE IInv
    OBVIOUS
  <1>1. TypeInv
    BY InitType
  <1> QED BY <1>1 DEF Init, Careful, IInv, OwnRequests, BootInv, PlaceInv, StandingInv,
             CountInv, LoopPcs, TestPcs, BootPcs

\* A half that withdraws its request in the second run gets to that run.
LEMMA CarefulTest ==
    ASSUME Careful, testId \in 1..NumTests, Test.flag # "none", Test.clears = "second"
    PROVE  "return" \notin Test.may /\ (Test.half = "ns" => Test.other \subseteq {"pass"})
  BY DEF Careful, Test

\* A request that stands while a test runs is the one that test makes.
LEMMA StandingIsOwn ==
    ASSUME IInv, pc \in TestPcs, nvBoot # {}
    PROVE  /\ prev = nvTest /\ testId = nvTest + 1 /\ testId \in 1..NumTests
           /\ nvBoot = {Test.flag} /\ Test.flag \in Flags
           /\ requester[Test.flag] = testId
  <1>1. prev = nvTest /\ testId = nvTest + 1 /\ testId \in 1..NumTests
    BY ConstantsAssumption
    DEF IInv, TypeInv, TypeOK, PlaceInv, TestPcs, LoopPcs, TestIds
  <1>2. \A f \in nvBoot : f \in Flags /\ requester[f] = testId /\ Test.flag = f
    BY <1>1 DEF IInv, TypeInv, TypeOK, OwnRequests, Test
  <1> QED BY <1>1, <1>2

\* ... and every step keeps it.
LEMMA CarefulStep == ASSUME Careful PROVE IInv /\ [Next]_vars => IInv'
  <1> SUFFICES ASSUME IInv, [Next]_vars PROVE IInv'
    OBVIOUS
  <1>t. TypeInv'
    BY TypeStep DEF IInv
  <1>i. TypeOK /\ OwnRequests /\ BootInv /\ PlaceInv /\ StandingInv /\ CountInv
    BY DEF IInv, TypeInv
  <1>c. /\ NumTests \in Nat \ {0} /\ Invalid = 0 /\ TestIds = 0..NumTests
        /\ UnsetIds \subseteq TestIds
    BY ConstantsAssumption DEF Invalid, TestIds
  <1>d. TypeInv' /\ OwnRequests' /\ BootInv' /\ PlaceInv' /\ StandingInv' /\ CountInv' => IInv'
    BY DEF IInv
  <1> USE DEF OwnRequests, BootInv, PlaceInv, StandingInv, CountInv, LoopPcs, TestPcs,
              BootPcs, TypeOK, Attempt, Goto, nvVars, regVars, envVars
  <1>1. CASE NvInit
    BY <1>i, <1>c, <1>d, <1>t, <1>1 DEF NvInit
  <1>2. CASE ClearTest
    BY <1>i, <1>c, <1>d, <1>t, <1>2 DEF ClearTest
  <1>3. CASE ClearBoot
    BY <1>i, <1>c, <1>d, <1>t, <1>3 DEF ClearBoot
  <1>4. CASE LastId
    BY <1>i, <1>c, <1>d, <1>t, <1>4, CarefulAccess DEF LastId
  <1>5. CASE LastTest
    BY <1>i, <1>c, <1>d, <1>t, <1>5, CarefulAccess DEF LastTest
  <1>6. CASE ZeroCnt
    BY <1>i, <1>c, <1>d, <1>t, <1>6, CarefulAccess, NoCountsType DEF ZeroCnt
  <1>7. CASE Load
    <2>1. nvBoot # {} => nvTest < NumTests
      BY <1>i
    <2>2. NextTest(prev) # Invalid => NextTest(prev) = prev + 1 /\ prev < NumTests
      BY <1>i, NextTestType
    <2>3. NextTest(prev) = Invalid => prev = NumTests
      BY <1>i, NextTestType
    <2> QED BY <1>i, <1>c, <1>d, <1>t, <1>7, <2>1, <2>2, <2>3 DEF Load
  <1>8. CASE EndTest
    BY <1>i, <1>c, <1>d, <1>t, <1>8 DEF EndTest
  <1>9. CASE PlainPayload
    <2>1. Test \in TestKinds /\ testId \in 1..NumTests
      BY <1>i, <1>c, <1>9, TestType DEF PlainPayload, Test
    <2>2. nvBoot # {} => half = "s" /\ Test.half = "ns" /\ Test.flag # "none"
      BY <1>i, <1>9, <2>1, StandingIsOwn
      DEF PlainPayload, Requests, TestKinds, Halves, Flags
    <2>3. nvBoot # {} => Test.clears = "exit" \/ status' = "pass"
      BY <1>9, <2>1, <2>2, CarefulTest DEF PlainPayload, TestKinds
    <2> QED BY <1>i, <1>d, <1>t, <1>9, <2>2, <2>3 DEF PlainPayload, Test
  <1>10. CASE ReadRequest
    BY <1>i, <1>c, <1>d, <1>t, <1>10, CarefulAccess DEF ReadRequest, Requests, Test
  <1>11. CASE GiveUp
    BY <1>i, <1>c, <1>d, <1>t, <1>11 DEF GiveUp, Requests, Test
  <1>12. CASE Request
    <2>1. prev = nvTest /\ testId = nvTest + 1 /\ nvTest < NumTests
      BY <1>i, <1>c, <1>12 DEF Request, Requests, Test, Careful
    <2>2. Test = Tests[nvTest + 1] /\ Test.flag \in Flags
      BY <1>i, <1>c, <1>12, <2>1, TestType DEF Request, Requests, Test, TestKinds
    <2>3. OwnRequests'
      BY <1>i, <1>12, <2>1, <2>2 DEF Request
    <2> QED BY <1>i, <1>d, <1>t, <1>12, <2>1, <2>3 DEF Request, Requests, Test
  <1>13. CASE AccessResets
    BY <1>i, <1>c, <1>d, <1>t, <1>13 DEF AccessResets, Reboot, Careful
  <1>14. CASE AccessReturns
    BY <1>i, <1>c, <1>d, <1>t, <1>14, CarefulTest, StandingIsOwn, TestType
    DEF AccessReturns, Requests, Test, TestKinds, Halves
  <1>15. CASE AccessIgnored
    BY <1>i, <1>c, <1>d, <1>t, <1>15 DEF AccessIgnored, Requests, Test
  <1>16. CASE Second
    <2>1. nvBoot = {Test.flag} /\ Test.clears \in {"second", "exit"}
      BY <1>i, <1>16, StandingIsOwn, TestType DEF Second, Test, TestKinds
    <2>2. nvBoot' = {} \/ (nvBoot' = nvBoot /\ requester' = requester /\ Test.clears = "exit")
      BY <1>16, <2>1, CarefulAccess DEF Second
    <2> QED BY <1>i, <1>d, <1>t, <1>16, <2>2 DEF Second, Requests, Test
  <1>17. CASE Exit
    <2>1. nvBoot # {} => Test.flag # "none" /\ Test.half \in Halves
      BY <1>i, <1>c, <1>17, StandingIsOwn, TestType DEF Exit, Flags, Test, TestKinds
    <2>2. \/ nvBoot' = {}
          \/ /\ nvBoot' = nvBoot /\ requester' = requester /\ status' = status
             /\ ~(Requests /\ Test.clears = "exit")
      BY <1>17, CarefulAccess DEF Exit, Withdraw, Careful
    <2>3. nvBoot' # {} => Test.half = "ns" /\ half = "s"
      BY <1>i, <1>17, <2>1, <2>2 DEF Exit, Requests, Halves
    <2> QED BY <1>i, <1>d, <1>t, <1>17, <2>2, <2>3 DEF Exit, Test
  <1>18. CASE ReadCnt
    BY <1>i, <1>c, <1>d, <1>t, <1>18 DEF ReadCnt
  <1>19. CASE WriteCnt
    <2>1. Total(nvCnt) = prev /\ count = Bump(nvCnt, status) /\ prev < NumTests
      BY <1>i, <1>19 DEF WriteCnt
    <2>2. Total(count) = prev + 1
      BY <1>i, <2>1, BumpTotal
    <2> QED BY <1>i, <1>c, <1>d, <1>t, <1>19, <2>1, <2>2 DEF WriteCnt
  <1>20. CASE WriteTest
    BY <1>i, <1>c, <1>d, <1>t, <1>20 DEF WriteTest
  <1>21. CASE Report
    BY <1>i, <1>c, <1>d, <1>t, <1>21 DEF Report
  <1>22. CASE PowerReset
    BY <1>i, <1>c, <1>d, <1>t, <1>22 DEF PowerReset, Reboot, Careful
  <1>23. CASE UNCHANGED vars
    BY <1>i, <1>d, <1>t, <1>23 DEF vars, Requests, Test
  <1> QED
    BY <1>1, <1>2, <1>3, <1>4, <1>5, <1>6, <1>7, <1>8, <1>9, <1>10, <1>11, <1>12,
        <1>13, <1>14, <1>15, <1>16, <1>17, <1>18, <1>19, <1>20, <1>21, <1>22, <1>23
       DEF Next, Program

\* The invariant of a careful suite.
LEMMA Invariance == ASSUME Careful PROVE Spec => []IInv
  BY CarefulInit, CarefulStep, PTL DEF Spec

(* ------------------------ What follows from it ------------------------- *)

\* In a careful suite a payload that takes itself for the second run of its test
\* found the request of its own first run.
THEOREM SecondRuns == ASSUME Careful PROVE Spec => []SecondRunIsOwn
  <1>1. IInv => SecondRunIsOwn
    <2> SUFFICES ASSUME IInv, pc = "second" PROVE requester[Test.flag] = testId
      BY DEF SecondRunIsOwn
    <2>1. pc \in TestPcs /\ nvBoot # {}
      BY DEF TestPcs, LoopPcs, IInv, StandingInv
    <2> QED BY <2>1, StandingIsOwn
  <1> QED BY <1>1, Invariance, PTL

\* In a careful suite a report that follows the last test counts every test once.
THEOREM ReportsComplete == ASSUME Careful PROVE Spec => []ReportComplete
  <1>1. IInv => ReportComplete
    BY DEF IInv, CountInv, ReportComplete
  <1> QED BY <1>1, Invariance, PTL

(* -------------------- The dispatcher implements Suite ------------------ *)

\* The abstract suite starts where the dispatcher does.
LEMMA SuiteInit == Init => Suite!Init
  <1> SUFFICES ASSUME Init PROVE Suite!Init
    OBVIOUS
  <1>1. StartsOver /\ pc # "reported"
    BY DEF Init, StartsOver, BootPcs
  <1> QED BY <1>1 DEF Suite!Init, Done, Tally, Reported, NoCounts

\* Every step of the dispatcher records one verdict, reports, or changes nothing
\* that the abstract suite shows; it starts over only in a reset that no test
\* provoked or when an access fails.
LEMMA SuiteStep ==
    ASSUME Careful, IInv, IInv', [Next]_vars
    PROVE  \/ UNCHANGED <<Done, Tally, Reported>>
           \/ Suite!Record \/ Suite!Report
           \/ Suite!StartOver /\ (resets' # resets \/ faults' # faults)
  <1> DEFINE Shown == UNCHANGED <<Done, Tally, Reported>>
  <1> USE DEF Attempt, Goto
  <1>i. /\ TypeOK /\ TypeOK' /\ BootInv /\ PlaceInv /\ StandingInv /\ CountInv
    BY DEF IInv, TypeInv
  <1>1. ASSUME StartsOver' PROVE Suite!StartOver
    <2>1. Done' = 0 /\ Tally' = NoCounts /\ Reported' = FALSE
      BY <1>1 DEF Done, Tally, Reported, StartsOver, BootPcs
    <2> QED BY <2>1 DEF Suite!StartOver, NoCounts
  <1>2. CASE NvInit \/ ClearTest \/ ClearBoot \/ LastId
    <2>1. nvCnt' = nvCnt /\ nvBoot' = nvBoot /\ (nvBoot # {} => nvTest' = nvTest)
      BY <1>2, <1>i DEF NvInit, ClearTest, ClearBoot, LastId, BootInv, nvVars
    <2>2. pc \in BootPcs /\ pc' \in BootPcs
      BY <1>2, CarefulAccess DEF NvInit, ClearTest, ClearBoot, LastId, BootPcs
    <2>3. Shown
      BY <2>1, <2>2 DEF Done, Tally, Reported, StartsOver, BootPcs
    <2> QED BY <2>3
  <1>3. CASE LastTest
    <2>1. prev' = nvTest /\ nvBoot # {} /\ UNCHANGED nvVars
      BY <1>3, <1>i, CarefulAccess DEF LastTest, BootInv
    <2>2. Shown
      BY <1>3, <2>1 DEF LastTest, nvVars, Done, Tally, Reported, StartsOver, BootPcs
    <2> QED BY <2>2
  <1>4. CASE ZeroCnt
    <2>1. nvCnt' = NoCounts /\ nvBoot = {} /\ nvBoot' = nvBoot /\ prev' = 0
      BY <1>4, <1>i, CarefulAccess DEF ZeroCnt, BootInv, Invalid
    <2>2. Shown
      BY <1>4, <2>1 DEF ZeroCnt, Done, Tally, Reported, StartsOver, BootPcs
    <2> QED BY <2>2
  <1>5. CASE Load \/ EndTest \/ PlainPayload \/ ReadRequest \/ GiveUp \/ Request \/
             AccessReturns \/ AccessIgnored \/ Second \/ Exit \/ ReadCnt
    <2>1. nvCnt' = nvCnt /\ prev' = prev
      BY <1>5
      DEF Load, EndTest, PlainPayload, ReadRequest, GiveUp, Request, AccessReturns,
                  AccessIgnored, Second, Exit, ReadCnt, nvVars, regVars
    <2>2. /\ pc \notin BootPcs \cup {"writeTest", "reported"}
          /\ pc' \notin BootPcs \cup {"writeTest", "reported"}
      BY <1>5
      DEF Load, EndTest, PlainPayload, ReadRequest, GiveUp, Request, AccessReturns,
                  AccessIgnored, Second, Exit, ReadCnt, BootPcs
    <2>3. Shown
      BY <2>1, <2>2 DEF Done, Tally, Reported, StartsOver
    <2> QED BY <2>3
  <1>6. CASE AccessResets
    <2>1. nvBoot # {} /\ prev = nvTest /\ UNCHANGED nvVars
      BY <1>6, <1>i DEF AccessResets, Reboot, StandingInv, PlaceInv, LoopPcs
    <2>2. Shown
      BY <1>6, <2>1 DEF AccessResets, Reboot, nvVars, Done, Tally, Reported, StartsOver,
                        BootPcs
    <2> QED BY <2>2
  <1>7. CASE WriteCnt
    <2>1. CASE Goto("report")
      <3>1. Shown
        BY <1>7, <2>1 DEF WriteCnt, regVars, Done, Tally, Reported, StartsOver, BootPcs
      <3> QED BY <3>1
    <2>2. CASE Goto("writeTest") /\ nvCnt' = count
      <3>1. /\ prev < NumTests /\ Total(nvCnt) = prev /\ count = Bump(nvCnt, status)
            /\ nvCnt \in Counts /\ status \in Verdicts
        BY <1>7, <1>i DEF WriteCnt, PlaceInv, CountInv, TestPcs, LoopPcs, TypeOK
      <3>2. nvCnt' = [nvCnt EXCEPT ![status] = @ + 1]
        BY <2>2, <3>1, BumpTotal
      <3>3. Done = prev /\ Tally = nvCnt /\ Done' = prev + 1 /\ Tally' = nvCnt'
        BY <1>7, <2>2 DEF WriteCnt, regVars, Done, Tally, StartsOver, BootPcs
      <3>4. ~Reported /\ Reported' = Reported
        BY <1>7, <2>2 DEF WriteCnt, Reported
      <3> QED BY <3>1, <3>2, <3>3, <3>4 DEF Suite!Record
    <2> QED BY <1>7, <2>1, <2>2 DEF WriteCnt
  <1>8. CASE WriteTest
    <2>1. testId = prev + 1
      BY <1>8, <1>i DEF WriteTest, PlaceInv, TestPcs, LoopPcs
    <2>2. Shown
      BY <1>8, <2>1 DEF WriteTest, Done, Tally, Reported, StartsOver, BootPcs
    <2> QED BY <2>2
  <1>9. CASE Report
    <2>1. CASE Goto("standby")
      BY <1>1, <1>9, <1>i, <2>1
      DEF Report, StandingInv, StartsOver, BootPcs, nvVars, TypeOK
    <2>2. CASE Goto("reported")
      <3>1. Done' = Done /\ Tally' = Tally
        BY <1>9, <2>2 DEF Report, nvVars, Done, Tally, StartsOver, BootPcs
      <3>2. CASE testId = Invalid
        <4>1. Done = NumTests /\ Reported' = TRUE
          BY <1>9, <1>i, <2>2, <3>2
          DEF Report, Done, Reported, StartsOver, BootPcs, PlaceInv
        <4> QED BY <3>1, <4>1 DEF Suite!Report
      <3>3. CASE testId # Invalid
        BY <1>9, <3>1, <3>3 DEF Report, Reported
      <3> QED BY <3>2, <3>3
    <2> QED BY <1>9, <2>1, <2>2 DEF Report
  <1>10. CASE PowerReset
    <2>1. resets' # resets /\ pc' = "init" /\ UNCHANGED nvVars
      BY <1>10, <1>i DEF PowerReset, Reboot, TypeOK
    <2>2. CASE nvBoot = {}
      BY <1>1, <2>1, <2>2 DEF StartsOver, BootPcs, nvVars
    <2>3. CASE nvBoot # {}
      <3>1. pc \in BootPcs \/ (prev = nvTest /\ pc \notin {"writeTest", "reported"})
        BY <1>i, <2>3 DEF StandingInv, PlaceInv, LoopPcs, BootPcs, TypeOK, Accesses
      <3>2. Shown
        BY <2>1, <2>3, <3>1 DEF nvVars, Done, Tally, Reported, StartsOver, BootPcs
      <3> QED BY <3>2
    <2> QED BY <2>2, <2>3
  <1>11. CASE UNCHANGED vars
    BY <1>11 DEF vars, nvVars, regVars, Done, Tally, Reported, StartsOver
  <1> QED
    BY <1>2, <1>3, <1>4, <1>5, <1>6, <1>7, <1>8, <1>9, <1>10, <1>11 DEF Next, Program

\* The dispatcher of a careful suite implements the abstract suite, through any
\* number of resets and of failures that it reports or makes good.
THEOREM Refinement == ASSUME Careful PROVE Spec => ImplementsSuite
  <1>1. IInv /\ IInv' /\ [Next]_vars => [Suite!Next]_(Suite!vars)
    BY SuiteStep DEF Suite!Next, Suite!vars
  <1> QED BY <1>1, Invariance, SuiteInit, PTL DEF Spec, ImplementsSuite, Suite!Spec

\* A reset that a test of a careful suite provokes costs no verdict.
THEOREM Resumption == ASSUME Careful PROVE Spec => ProvokedResetsResume
  <1>1. IInv /\ IInv' /\ [Next]_vars =>
           [resets' # resets \/ faults' # faults \/ Suite!Record \/ Suite!Report]_(Suite!vars)
    BY SuiteStep DEF Suite!vars
  <1> QED BY <1>1, Invariance, PTL DEF Spec, ProvokedResetsResume

=============================================================================
