------------------------- MODULE ValDispatcherProofs -------------------------
(***************************************************************************)
(* Proofs about ValDispatcher for every suite, every set of unsupported    *)
(* tests and every number of faults and resets: type correctness, the      *)
(* inductive invariant IInv, and what follows from it.                     *)
(***************************************************************************)
EXTENDS ValDispatcher, TLAPS

(* ------------------------- Lemmas on the helpers ----------------------- *)

\* The successor of a test identifier is a test identifier; it is Invalid only
\* after the last test.
LEMMA NextTestType ==
    ASSUME NEW p \in TestIds
    PROVE  /\ NextTest(p) \in TestIds
           /\ NextTest(p) # Invalid => NextTest(p) \in Tests /\ NextTest(p) = p + 1
           /\ NextTest(p) = Invalid => p = NumTests
           /\ p # NumTests => NextTest(p) # Invalid
  BY ConstantsAssumption DEF NextTest, TestIds, Tests, Invalid

\* Counting a verdict keeps the counters in their fields, ...
LEMMA BumpType ==
    ASSUME NEW c \in Counts, NEW v \in Verdicts
    PROVE  Bump(c, v) \in Counts
  <1>1. \A n \in 0..255 : (n + 1) % 256 \in 0..255
    OBVIOUS
  <1>2. c[v] \in 0..255
    BY DEF Counts, CntMod
  <1>3. (c[v] + 1) % CntMod \in 0..(CntMod - 1)
    BY <1>1, <1>2 DEF CntMod
  <1> QED BY <1>3 DEF Bump, Counts

\* ... and, while the counters are below the number of tests, adds exactly one.
LEMMA BumpTotal ==
    ASSUME NEW c \in Counts, NEW v \in Verdicts, Total(c) < NumTests
    PROVE  /\ Bump(c, v) = [c EXCEPT ![v] = @ + 1]
           /\ Total(Bump(c, v)) = Total(c) + 1
  <1> DEFINE p == c["pass"]
             f == c["fail"]
             s == c["skip"]
             e == c["sim_error"]
  <1>1. p \in 0..255 /\ f \in 0..255 /\ s \in 0..255 /\ e \in 0..255
    BY DEF Counts, CntMod, Verdicts
  <1>2. p + f + s + e < NumTests /\ NumTests \in Nat /\ NumTests < 256
    BY ConstantsAssumption DEF Total, CntMod
  <1> HIDE DEF p, f, s, e
  <1>3. p \in 0..254 /\ f \in 0..254 /\ s \in 0..254 /\ e \in 0..254
    BY <1>1, <1>2
  <1>4. c[v] \in 0..254
    BY <1>3 DEF p, f, s, e, Verdicts
  <1>5. (c[v] + 1) % CntMod = c[v] + 1
    BY <1>4 DEF CntMod
  <1>6. Bump(c, v) = [c EXCEPT ![v] = @ + 1]
    BY <1>5 DEF Bump
  <1>7. Total([c EXCEPT ![v] = @ + 1]) = p + f + s + e + 1
    <2> DEFINE d == [c EXCEPT ![v] = @ + 1]
               p1 == d["pass"]
               f1 == d["fail"]
               s1 == d["skip"]
               e1 == d["sim_error"]
    <2>1. /\ p1 = IF v = "pass" THEN p + 1 ELSE p
          /\ f1 = IF v = "fail" THEN f + 1 ELSE f
          /\ s1 = IF v = "skip" THEN s + 1 ELSE s
          /\ e1 = IF v = "sim_error" THEN e + 1 ELSE e
      BY DEF Counts, Verdicts, p, f, s, e
    <2> HIDE DEF d, p1, f1, s1, e1
    <2>2. p1 + f1 + s1 + e1 = p + f + s + e + 1
      BY <1>1, <2>1 DEF Verdicts
    <2> QED BY <2>2 DEF Total, d, p1, f1, s1, e1
  <1> QED BY <1>1, <1>6, <1>7 DEF Total, p, f, s, e

\* A memory of cleared counters counts no test.
LEMMA NoCountsType == NoCounts \in Counts /\ Total(NoCounts) = 0
  BY DEF NoCounts, Counts, Total, CntMod, Verdicts

(* --------------------------- Type correctness -------------------------- *)

\* The first state has its type.
LEMMA InitType == Init => TypeOK
  <1> SUFFICES ASSUME Init PROVE TypeOK
    OBVIOUS
  <1>1. nvCnt \in Counts /\ count \in Counts
    BY ConstantsAssumption, NoCountsType DEF Init
  <1>2. faults \in 0..MaxFaults /\ resets \in 0..MaxResets
    BY ConstantsAssumption DEF Init
  <1> QED BY <1>1, <1>2 DEF Init, TypeOK, BootStates, Intermediate, TestIds,
              Verdicts, Bookkeeping

\* Every step keeps the type.
LEMMA TypeStep == TypeOK /\ [Next]_vars => TypeOK'
  <1> SUFFICES ASSUME TypeOK, [Next]_vars PROVE TypeOK'
    OBVIOUS
  <1> USE DEF TypeOK, BootStates, Intermediate, Bookkeeping, Attempt, Goto,
              nvVars, loopVars, runVars, obsVars, envVars
  <1>0. MaxFaults \in Nat /\ MaxResets \in Nat /\ Invalid \in TestIds
    BY ConstantsAssumption DEF TestIds
  <1>1. CASE Entry
    BY <1>0, <1>1 DEF Entry
  <1>2. CASE InitBoot
    BY <1>0, <1>2 DEF InitBoot
  <1>3. CASE InitPrev
    BY <1>0, <1>3 DEF InitPrev
  <1>4. CASE InitCnt
    BY <1>0, <1>4, NoCountsType DEF InitCnt
  <1>5. CASE ReadPrev
    BY <1>0, <1>5 DEF ReadPrev
  <1>6. CASE ReadBoot
    BY <1>0, <1>6 DEF ReadBoot
  <1>7. CASE ReadCur
    BY <1>0, <1>7 DEF ReadCur
  <1>8. CASE Load
    BY <1>0, <1>8, NextTestType DEF Load
  <1>9. CASE WriteCur
    BY <1>0, <1>9 DEF WriteCur
  <1>10. CASE Arm
    BY <1>0, <1>10 DEF Arm
  <1>11. CASE TestInit
    BY <1>0, <1>11 DEF TestInit, AfterInit
  <1>12. CASE NsBoot
    BY <1>0, <1>12 DEF NsBoot, AfterNs
  <1>13. CASE NsNext
    BY <1>0, <1>13 DEF NsNext, AfterNs
  <1>14. CASE SecBoot
    BY <1>0, <1>14 DEF SecBoot
  <1>15. CASE SecArm
    BY <1>0, <1>15 DEF SecArm
  <1>16. CASE SecNext
    BY <1>0, <1>16 DEF SecNext
  <1>17. CASE PlainCheck
    BY <1>0, <1>17 DEF PlainCheck, Observe
  <1>18. CASE SetFlag
    <2>1. seen' = seen \/ seen' = seen \cup {"fail"}
      BY <1>18 DEF SetFlag
    <2>2. seen' \subseteq {"fail", "skip", "hang", "reset"}
      BY <2>1
    <2> QED BY <1>0, <1>18, <2>2 DEF SetFlag
  <1>19. CASE PanicReset
    BY <1>0, <1>19, NoCountsType DEF PanicReset, Achieved, Reboot, Verdicts
  <1>20. CASE PanicHang
    BY <1>0, <1>20 DEF PanicHang, Achieved
  <1>21. CASE QuietReturn
    BY <1>0, <1>21 DEF QuietReturn
  <1>22. CASE Survives
    BY <1>0, <1>22 DEF Survives, Observe
  <1>23. CASE ImportKey
    <2>1. seen' = seen \/ seen' = seen \cup {"fail"}
      BY <1>23 DEF ImportKey
    <2>2. seen' \subseteq {"fail", "skip", "hang", "reset"}
      BY <2>1
    <2> QED BY <1>0, <1>23, <2>2 DEF ImportKey
  <1>24. CASE ControlledReset
    BY <1>0, <1>24, NoCountsType DEF ControlledReset, Reboot, Verdicts
  <1>25. CASE OpenKey
    <2>1. seen' = seen \/ seen' = seen \cup {"fail"}
      BY <1>25 DEF OpenKey
    <2>2. seen' \subseteq {"fail", "skip", "hang", "reset"}
      BY <2>1
    <2> QED BY <1>0, <1>25, <2>2 DEF OpenKey
  <1>26. CASE CheckResult
    BY <1>0, <1>26 DEF CheckResult, Observe, Achieved
  <1>27. CASE TestExit
    BY <1>0, <1>27 DEF TestExit
  <1>28. CASE ReportStatus
    BY <1>0, <1>28 DEF ReportStatus, Verdict, Verdicts
  <1>29. CASE Clear
    BY <1>0, <1>29 DEF Clear
  <1>30. CASE ReadCnt
    BY <1>0, <1>30, BumpType DEF ReadCnt
  <1>31. CASE WriteCnt
    BY <1>0, <1>31 DEF WriteCnt
  <1>32. CASE WritePrev
    BY <1>0, <1>32 DEF WritePrev
  <1>33. CASE FinalReport
    BY <1>0, <1>33 DEF FinalReport
  <1>34. CASE Hang
    BY <1>0, <1>34 DEF Hang, Observe
  <1>35. CASE Watchdog
    BY <1>0, <1>35, NoCountsType DEF Watchdog, Reboot, Verdicts
  <1>36. CASE PowerReset
    BY <1>0, <1>36, NoCountsType DEF PowerReset, Reboot, Verdicts
  <1>37. CASE UNCHANGED vars
    BY <1>37 DEF vars
  <1> QED
    BY <1>1, <1>2, <1>3, <1>4, <1>5, <1>6, <1>7, <1>8, <1>9, <1>10, <1>11, <1>12, <1>13, <1>14, <1>15, <1>16, <1>17, <1>18, <1>19, <1>20, <1>21, <1>22, <1>23, <1>24, <1>25, <1>26, <1>27, <1>28, <1>29, <1>30, <1>31, <1>32, <1>33, <1>34, <1>35, <1>36, <1>37
       DEF Next, Program

\* Every variable keeps its type, for all constants.
THEOREM TypeCorrect == Spec => []TypeOK
  BY InitType, TypeStep, PTL DEF Spec

(* ------------------------ The inductive invariant ---------------------- *)

\* No test is Invalid.
LEMMA InvalidIsNoTest == Invalid \notin Tests
  BY DEF Invalid, Tests

\* The invariant holds at first.
LEMMA InitIInv == Init => IInv
  <1> SUFFICES ASSUME Init PROVE IInv
    OBVIOUS
  <1>1. TypeOK
    BY InitType
  <1>2. NvDescribesPrefix
    BY DEF Init, NvDescribesPrefix, Intermediate
  <1>3. EntryInv /\ LoopInv /\ WatchInv
    BY DEF Init, EntryInv, LoopInv, WatchInv, LoopPcs, TestPcs, Bookkeeping
  <1> QED BY <1>1, <1>2, <1>3 DEF IInv

\* Every step keeps the invariant.
LEMMA IInvStep == IInv /\ [Next]_vars => IInv'
  <1> SUFFICES ASSUME IInv, [Next]_vars PROVE IInv'
    OBVIOUS
  <1>a. TypeOK /\ TypeOK'
    BY TypeStep DEF IInv
  <1>b. /\ nvPrev \in TestIds /\ result \in Verdicts /\ nvCnt \in Counts
        /\ nvBoot \in Intermediate \cup {"unknown", "garbage"}
    BY <1>a DEF TypeOK, BootStates
  <1> DEFINE Rest == NvDescribesPrefix /\ EntryInv /\ LoopInv /\ WatchInv
  <1>c. Rest
    BY DEF IInv
  <1> USE DEF NvDescribesPrefix, EntryInv, LoopInv, WatchInv, LoopPcs, TestPcs,
              Bookkeeping, Intermediate, Attempt, Goto,
              nvVars, loopVars, runVars, obsVars, envVars
  <1>1. CASE Entry
    <2>1. Rest'
      BY <1>c, <1>1 DEF Entry
    <2> QED BY <1>a, <2>1 DEF IInv
  <1>2. CASE InitBoot
    <2>1. Rest'
      BY <1>c, <1>2 DEF InitBoot
    <2> QED BY <1>a, <2>1 DEF IInv
  <1>3. CASE InitPrev
    <2>1. Rest'
      BY <1>c, <1>3 DEF InitPrev
    <2> QED BY <1>a, <2>1 DEF IInv
  <1>4. CASE InitCnt
    <2>1. Rest'
      BY <1>c, <1>4, NoCountsType DEF InitCnt, Invalid
    <2> QED BY <1>a, <2>1 DEF IInv
  <1>5. CASE ReadPrev
    <2>1. Rest'
      BY <1>c, <1>5 DEF ReadPrev
    <2> QED BY <1>a, <2>1 DEF IInv
  <1>6. CASE ReadBoot
    <2>1. Rest'
      BY <1>c, <1>6 DEF ReadBoot
    <2> QED BY <1>a, <2>1 DEF IInv
  <1>7. CASE ReadCur
    <2>1. Rest'
      BY <1>c, <1>7 DEF ReadCur
    <2> QED BY <1>a, <2>1 DEF IInv
  <1>8. CASE Load
    <2>1. Rest'
      BY <1>b, <1>c, <1>8, NextTestType, InvalidIsNoTest DEF Load
    <2> QED BY <1>a, <2>1 DEF IInv
  <1>9. CASE WriteCur
    <2>1. Rest'
      BY <1>b, <1>c, <1>9 DEF WriteCur
    <2> QED BY <1>a, <2>1 DEF IInv
  <1>10. CASE Arm
    <2>1. Rest'
      BY <1>c, <1>10 DEF Arm
    <2> QED BY <1>a, <2>1 DEF IInv
  <1>11. CASE TestInit
    <2>1. Rest'
      BY <1>c, <1>11 DEF TestInit, AfterInit
    <2> QED BY <1>a, <2>1 DEF IInv
  <1>12. CASE NsBoot
    <2>1. Rest'
      BY <1>c, <1>12 DEF NsBoot, AfterNs
    <2> QED BY <1>a, <2>1 DEF IInv
  <1>13. CASE NsNext
    <2>1. Rest'
      BY <1>c, <1>13 DEF NsNext, AfterNs
    <2> QED BY <1>a, <2>1 DEF IInv
  <1>14. CASE SecBoot
    <2>1. Rest'
      BY <1>c, <1>14 DEF SecBoot
    <2> QED BY <1>a, <2>1 DEF IInv
  <1>15. CASE SecArm
    <2>1. Rest'
      BY <1>c, <1>15 DEF SecArm
    <2> QED BY <1>a, <2>1 DEF IInv
  <1>16. CASE SecNext
    <2>1. Rest'
      BY <1>c, <1>16 DEF SecNext
    <2> QED BY <1>a, <2>1 DEF IInv
  <1>17. CASE PlainCheck
    <2>1. Rest'
      BY <1>c, <1>17 DEF PlainCheck, Observe
    <2> QED BY <1>a, <2>1 DEF IInv
  <1>18. CASE SetFlag
    <2>1. Rest'
      BY <1>c, <1>18 DEF SetFlag
    <2> QED BY <1>a, <2>1 DEF IInv
  <1>19. CASE PanicReset
    <2>1. Rest'
      BY <1>c, <1>19 DEF PanicReset, Reboot, Achieved
    <2> QED BY <1>a, <2>1 DEF IInv
  <1>20. CASE PanicHang
    <2>1. Rest'
      BY <1>c, <1>20 DEF PanicHang, Achieved
    <2> QED BY <1>a, <2>1 DEF IInv
  <1>21. CASE QuietReturn
    <2>1. Rest'
      BY <1>c, <1>21 DEF QuietReturn
    <2> QED BY <1>a, <2>1 DEF IInv
  <1>22. CASE Survives
    <2>1. Rest'
      BY <1>c, <1>22 DEF Survives
    <2> QED BY <1>a, <2>1 DEF IInv
  <1>23. CASE ImportKey
    <2>1. Rest'
      BY <1>c, <1>23 DEF ImportKey
    <2> QED BY <1>a, <2>1 DEF IInv
  <1>24. CASE ControlledReset
    <2>1. Rest'
      BY <1>c, <1>24 DEF ControlledReset, Reboot
    <2> QED BY <1>a, <2>1 DEF IInv
  <1>25. CASE OpenKey
    <2>1. Rest'
      BY <1>c, <1>25 DEF OpenKey
    <2> QED BY <1>a, <2>1 DEF IInv
  <1>26. CASE CheckResult
    <2>1. Rest'
      BY <1>c, <1>26 DEF CheckResult, Observe, Achieved
    <2> QED BY <1>a, <2>1 DEF IInv
  <1>27. CASE TestExit
    <2>1. Rest'
      BY <1>c, <1>27 DEF TestExit
    <2> QED BY <1>a, <2>1 DEF IInv
  <1>28. CASE ReportStatus
    <2>1. Rest'
      BY <1>c, <1>28 DEF ReportStatus
    <2> QED BY <1>a, <2>1 DEF IInv
  <1>29. CASE Clear
    <2>1. Rest'
      BY <1>c, <1>29 DEF Clear
    <2> QED BY <1>a, <2>1 DEF IInv
  <1>30. CASE ReadCnt
    <2>1. Rest'
      BY <1>c, <1>30 DEF ReadCnt
    <2> QED BY <1>a, <2>1 DEF IInv
  <1>31. CASE WriteCnt
    <2>1. Rest'
      <3>1. CASE nvCnt' = nvCnt /\ Goto("standby")
        BY <1>c, <1>31, <3>1 DEF WriteCnt
      <3>2. CASE nvCnt' = count /\ Goto("writePrev")
        <4>1. testId \in Tests /\ testId = NextTest(nvPrev) /\ Total(nvCnt) = nvPrev
          BY <1>c, <1>31 DEF WriteCnt
        <4>2. nvPrev + 1 \in Tests
          BY <1>b, <4>1, NextTestType, InvalidIsNoTest
        <4>3. Total(nvCnt) < NumTests
          BY <1>b, <4>1, <4>2, ConstantsAssumption DEF Tests, TestIds, Invalid
        <4>4. nvCnt' = Bump(nvCnt, result)
          BY <1>c, <1>31, <3>2 DEF WriteCnt
        <4>5. Total(nvCnt)' = nvPrev + 1
          BY <1>b, <4>1, <4>3, <4>4, BumpTotal
        <4> QED BY <1>c, <1>31, <3>2, <4>5 DEF WriteCnt
      <3> QED BY <1>31, <3>1, <3>2 DEF WriteCnt
    <2> QED BY <1>a, <2>1 DEF IInv
  <1>32. CASE WritePrev
    <2>1. Rest'
      <3>1. nvPrev' = nvPrev \/ nvPrev' = nvPrev + 1
        BY <1>b, <1>c, <1>32, NextTestType, InvalidIsNoTest DEF WritePrev
      <3> QED BY <1>b, <1>c, <1>32, <3>1, NextTestType, InvalidIsNoTest DEF WritePrev
    <2> QED BY <1>a, <2>1 DEF IInv
  <1>33. CASE FinalReport
    <2>1. Rest'
      BY <1>c, <1>33 DEF FinalReport
    <2> QED BY <1>a, <2>1 DEF IInv
  <1>34. CASE Hang
    <2>1. Rest'
      BY <1>c, <1>34 DEF Hang
    <2> QED BY <1>a, <2>1 DEF IInv
  <1>35. CASE Watchdog
    <2>1. Rest'
      BY <1>c, <1>35 DEF Watchdog, Reboot
    <2> QED BY <1>a, <2>1 DEF IInv
  <1>36. CASE PowerReset
    <2>1. Rest'
      BY <1>c, <1>36 DEF PowerReset, Reboot
    <2> QED BY <1>a, <2>1 DEF IInv
  <1>37. CASE UNCHANGED vars
    <2>1. Rest'
      BY <1>c, <1>37 DEF vars
    <2> QED BY <1>a, <2>1 DEF IInv
  <1> QED
    BY <1>1, <1>2, <1>3, <1>4, <1>5, <1>6, <1>7, <1>8, <1>9, <1>10, <1>11,
       <1>12, <1>13, <1>14, <1>15, <1>16, <1>17, <1>18, <1>19, <1>20, <1>21,
       <1>22, <1>23, <1>24, <1>25, <1>26, <1>27, <1>28, <1>29, <1>30, <1>31,
       <1>32, <1>33, <1>34, <1>35, <1>36, <1>37
       DEF Next, Program

\* The invariant holds in every reachable state.
THEOREM Invariance == Spec => []IInv
  BY InitIInv, IInvStep, PTL DEF Spec

(* ------------------------- What follows from it ------------------------ *)

\* A reset in the middle of a test neither loses nor repeats a verdict.
THEOREM PrefixDescribed == Spec => []NvDescribesPrefix
  BY Invariance, PTL DEF IInv

\* The suite report accounts for every test, through faults and resets.
THEOREM ReportAccountsForAll == Spec => []ReportComplete
  <1>1. IInv => ReportComplete
    <2> SUFFICES ASSUME IInv, pc = "reported" PROVE Total(count) = NumTests
      BY DEF ReportComplete
    <2>1. pc \in LoopPcs
      BY DEF LoopPcs, Bookkeeping
    <2>2. Total(nvCnt) = nvPrev /\ nvPrev = NumTests /\ count = nvCnt
      BY <2>1 DEF IInv, LoopInv
    <2> QED BY <2>2
  <1> QED BY <1>1, Invariance, PTL

\* What may hang runs only while the watchdog runs.
THEOREM HangsWatched == Spec => []HangsAreWatched
  <1>1. IInv => HangsAreWatched
    BY DEF IInv, WatchInv, HangsAreWatched, TestPcs
  <1> QED BY <1>1, Invariance, PTL

\* The identifiers and counters change only while no test is armed: a write
\* of NV_TEST_ID_CURRENT in the middle of a test repeats the value it holds.
LEMMA BooksStep ==
    IInv /\ [Next]_vars => nvBoot = "unknown" \/ UNCHANGED <<nvPrev, nvCur, nvCnt>>
  <1> SUFFICES ASSUME IInv, [Next]_vars, nvBoot # "unknown"
               PROVE  UNCHANGED <<nvPrev, nvCur, nvCnt>>
    OBVIOUS
  <1>1. /\ pc \notin {"initPrev", "initCnt", "writeCnt", "writePrev"}
        /\ pc = "writeCur" => nvCur = testId
    <2>1. nvBoot \in Intermediate \cup {"garbage"}
      BY DEF IInv, TypeOK, BootStates
    <2>2. pc \notin {"initPrev", "initCnt"}
      BY DEF IInv, EntryInv
    <2>3. pc \notin {"writeCnt", "writePrev"}
      BY DEF IInv, LoopInv, LoopPcs, Bookkeeping
    <2>4. pc = "writeCur" => nvBoot # "garbage" /\ testId = NextTest(nvPrev)
      BY DEF IInv, LoopInv, LoopPcs, Bookkeeping
    <2>5. pc = "writeCur" => nvCur = testId
      BY <2>1, <2>4 DEF IInv, NvDescribesPrefix
    <2> QED BY <2>2, <2>3, <2>5
  <1>2. CASE InitPrev \/ InitCnt \/ WriteCnt \/ WritePrev
    BY <1>1, <1>2 DEF InitPrev, InitCnt, WriteCnt, WritePrev
  <1>3. CASE WriteCur
    BY <1>1, <1>3 DEF WriteCur, Attempt, loopVars, runVars, obsVars
  <1>4. CASE Entry \/ ReadPrev \/ ReadBoot \/ ReadCur \/ Load \/ TestInit \/
              NsBoot \/ SecBoot \/ SecNext \/ PlainCheck \/
              PanicHang \/ QuietReturn \/ CheckResult \/ TestExit \/
              ReportStatus \/ ReadCnt \/ FinalReport \/ Hang
    BY <1>4
    DEF Entry, ReadPrev, ReadBoot, ReadCur, Load, TestInit, NsBoot, SecBoot,
        SecNext, PlainCheck, PanicHang, QuietReturn, CheckResult,
        TestExit, ReportStatus, ReadCnt, FinalReport, Hang, nvVars
  <1>5. CASE InitBoot \/ Arm \/ NsNext \/ SecArm \/ SetFlag \/ Survives \/
              ImportKey \/ OpenKey \/ Clear
    BY <1>5
    DEF InitBoot, Arm, NsNext, SecArm, SetFlag, Survives, ImportKey,
        OpenKey, Clear
  <1>6. CASE PanicReset \/ ControlledReset \/ Watchdog \/ PowerReset
    BY <1>6
    DEF PanicReset, ControlledReset, Watchdog, PowerReset, Reboot, nvVars
  <1>7. CASE UNCHANGED vars
    BY <1>7 DEF vars, nvVars
  <1> QED
    BY <1>2, <1>3, <1>4, <1>5, <1>6, <1>7 DEF Next, Program

\* The books are written only while NV_BOOT says that no test is in progress.
THEOREM BooksDisarmed == Spec => BooksChangeOnlyWhileDisarmed
  BY Invariance, BooksStep, PTL DEF Spec, BooksChangeOnlyWhileDisarmed

(* -------------------- The dispatcher implements Suite ------------------ *)

\* The dispatcher starts where the abstract suite does.
LEMMA SuiteInit == Init => Suite!Init
  <1> SUFFICES ASSUME Init PROVE Suite!Init
    OBVIOUS
  <1>1. StartsOver /\ pc # "reported"
    BY DEF Init, StartsOver, Intermediate
  <1> QED BY <1>1 DEF Suite!Init, Done, Tally, Reported, NoCounts

\* Every step of the dispatcher records one verdict, reports, changes nothing that
\* the abstract suite shows, or leads to a state from which the suite starts over.
LEMMA VisibleStep ==
    IInv /\ IInv' /\ [Next]_vars =>
        Suite!Record \/ Suite!Report \/ StartsOver' \/ UNCHANGED <<Done, Tally, Reported>>
  <1> SUFFICES ASSUME IInv, IInv', [Next]_vars
               PROVE  \/ Suite!Record \/ Suite!Report \/ StartsOver'
                      \/ UNCHANGED <<Done, Tally, Reported>>
    OBVIOUS
  <1> DEFINE Shown == UNCHANGED <<Done, Tally, Reported>>
  <1> USE DEF Attempt, Goto, Bookkeeping
  <1>1. ASSUME ~StartsOver, ~StartsOver', UNCHANGED <<nvPrev, nvCnt>>,
               pc # "reported", pc' # "reported",
               pc # "writePrev", pc' # "writePrev"
        PROVE  Shown
    BY <1>1 DEF Done, Tally, Reported
  <1>2. ASSUME pc \notin {"entry", "initBoot", "initPrev", "initCnt", "standby",
                       "reported", "writePrev"},
               pc' \notin {"reported", "writePrev"}, UNCHANGED <<nvPrev, nvCnt>>
        PROVE  StartsOver' \/ Shown
    BY <1>1, <1>2 DEF StartsOver
  <1>3. CASE WriteCnt
    <2>1. CASE Goto("standby") /\ nvCnt' = nvCnt
      BY <1>2, <1>3, <2>1 DEF WriteCnt
    <2>2. CASE Goto("writePrev") /\ nvCnt' = count
      <3>1. /\ testId \in Tests /\ testId = NextTest(nvPrev)
            /\ Total(nvCnt) = nvPrev /\ nvCnt' = Bump(nvCnt, result)
        BY <1>3, <2>2 DEF WriteCnt, IInv, LoopInv, LoopPcs
      <3>2. nvPrev \in TestIds /\ nvCnt \in Counts /\ result \in Verdicts
        BY DEF IInv, TypeOK
      <3>3. nvPrev + 1 \in Tests
        BY <3>1, <3>2, NextTestType, InvalidIsNoTest
      <3>4. nvPrev < NumTests
        BY <3>2, <3>3, ConstantsAssumption DEF Tests, TestIds, Invalid
      <3>5. nvCnt' = [nvCnt EXCEPT ![result] = @ + 1]
        BY <3>1, <3>2, <3>4, BumpTotal
      <3>6. Done = nvPrev /\ Tally = nvCnt
        BY <1>3 DEF WriteCnt, Done, Tally, StartsOver
      <3>7. Done' = nvPrev + 1 /\ Tally' = nvCnt'
        BY <1>3, <2>2 DEF WriteCnt, Done, Tally, StartsOver
      <3>8. ~Reported /\ Reported' = Reported
        BY <1>3, <2>2 DEF WriteCnt, Reported
      <3> QED BY <3>2, <3>4, <3>5, <3>6, <3>7, <3>8 DEF Suite!Record
    <2> QED BY <1>3, <2>1, <2>2 DEF WriteCnt
  <1>4. CASE WritePrev
    <2>1. /\ nvBoot = "unknown" /\ testId \in Tests /\ testId = NextTest(nvPrev)
          /\ nvPrev \in TestIds
      BY <1>4 DEF WritePrev, IInv, TypeOK, LoopInv, LoopPcs
    <2>2. CASE Goto("standby")
      BY <1>4, <2>1, <2>2 DEF WritePrev, StartsOver, Intermediate
    <2>3. CASE Goto("loop") /\ nvPrev' = testId
      <3>1. nvPrev' = nvPrev + 1
        BY <2>1, <2>3, NextTestType, InvalidIsNoTest
      <3> QED BY <1>4, <2>3, <3>1 DEF WritePrev, Done, Tally, Reported, StartsOver
    <2> QED BY <1>4, <2>2, <2>3 DEF WritePrev
  <1>5. CASE FinalReport
    <2>1. nvBoot = "unknown" /\ nvPrev = NumTests
      BY <1>5 DEF FinalReport, IInv, LoopInv, LoopPcs
    <2>2. CASE Goto("standby")
      BY <1>5, <2>1, <2>2 DEF FinalReport, StartsOver, Intermediate, nvVars
    <2>3. CASE Goto("reported")
      <3>1. Done = NumTests /\ Done' = Done /\ Tally' = Tally
        BY <1>5, <2>1, <2>3 DEF FinalReport, Done, Tally, StartsOver, nvVars
      <3>2. Reported' = TRUE
        BY <2>3 DEF Reported
      <3> QED BY <3>1, <3>2 DEF Suite!Report
    <2> QED BY <1>5, <2>2, <2>3 DEF FinalReport
  <1>6. CASE InitCnt
    <2>1. nvBoot = "unknown" /\ nvPrev = 0
      BY <1>6 DEF InitCnt, IInv, EntryInv, Invalid
    <2>2. CASE Goto("standby")
      BY <1>6, <2>1, <2>2 DEF InitCnt, StartsOver, Intermediate
    <2>3. CASE Goto("readPrev") /\ nvCnt' = NoCounts
      BY <1>6, <2>1, <2>3
      DEF InitCnt, Done, Tally, Reported, StartsOver, Intermediate
    <2> QED BY <1>6, <2>2, <2>3 DEF InitCnt
  <1>7. CASE PanicReset \/ ControlledReset \/ Watchdog \/ PowerReset
    <2>1. pc' = "entry" /\ UNCHANGED nvVars
      BY <1>7 DEF PanicReset, ControlledReset, Watchdog, PowerReset, Reboot
    <2>2. CASE nvBoot \notin Intermediate
      BY <2>1, <2>2 DEF StartsOver, nvVars
    <2>3. CASE nvBoot \in Intermediate
      <3>1. pc # "writePrev" /\ pc # "reported"
        BY <2>3 DEF IInv, LoopInv, LoopPcs, Intermediate
      <3> QED BY <1>1, <2>1, <2>3, <3>1 DEF StartsOver, nvVars
    <2> QED BY <2>2, <2>3
  <1>8. CASE Entry \/ InitBoot \/ InitPrev
    <2>1. CASE nvBoot' \notin Intermediate
      <3>1. pc' \in {"readPrev", "initBoot", "initPrev", "initCnt", "standby"}
        BY <1>8 DEF Entry, InitBoot, InitPrev
      <3>2. pc' # "readPrev"
        BY <1>8, <2>1 DEF Entry, InitBoot, InitPrev, nvVars
      <3> QED BY <2>1, <3>1, <3>2 DEF StartsOver
    <2>2. CASE nvBoot' \in Intermediate
      <3>1. nvBoot \in Intermediate /\ Entry
        BY <1>8, <2>2 DEF Entry, InitBoot, InitPrev, nvVars, IInv, EntryInv,
                          Intermediate
      <3> QED BY <1>1, <2>2, <3>1 DEF Entry, StartsOver, nvVars
    <2> QED BY <2>1, <2>2
  <1>9. CASE ReadPrev \/ ReadBoot \/ ReadCur \/ Load \/ WriteCur \/ Arm \/
              TestInit \/ NsBoot \/ NsNext \/ SecBoot \/
              SecArm \/ SecNext \/ PlainCheck \/ SetFlag \/
              PanicHang \/ QuietReturn \/ Survives \/
              ImportKey \/ OpenKey \/ CheckResult \/ TestExit
              \/ ReportStatus \/ Clear \/ ReadCnt \/ Hang
    BY <1>2, <1>9
    DEF ReadPrev, ReadBoot, ReadCur, Load, WriteCur, Arm, TestInit, NsBoot,
        NsNext, SecBoot, SecArm, SecNext, PlainCheck, SetFlag,
        PanicHang, QuietReturn, Survives, ImportKey, OpenKey,
        CheckResult, TestExit, ReportStatus, Clear, ReadCnt, Hang,
        AfterInit, AfterNs, nvVars, loopVars
  <1>10. CASE UNCHANGED vars
    BY <1>10 DEF vars, nvVars, Done, Tally, Reported, StartsOver
  <1> QED
    BY <1>3, <1>4, <1>5, <1>6, <1>7, <1>8, <1>9, <1>10 DEF Next, Program

\* Every step of the dispatcher is one of the abstract suite, or none.
LEMMA SuiteStep ==
    IInv /\ IInv' /\ [Next]_vars => [Suite!Next]_(Suite!vars)
  <1>1. ASSUME StartsOver' PROVE Suite!StartOver
    <2>1. pc' # "reported" /\ Done' = 0 /\ Tally' = NoCounts
      BY <1>1 DEF StartsOver, Done, Tally
    <2> QED BY <2>1 DEF Suite!StartOver, Reported, NoCounts
  <1> QED BY <1>1, VisibleStep DEF Suite!Next, Suite!vars

\* The dispatcher implements the abstract suite, for every suite and through
\* any number of failed accesses and resets.
THEOREM Refinement == Spec => ImplementsSuite
  BY Invariance, SuiteInit, SuiteStep, PTL DEF Spec, ImplementsSuite, Suite!Spec

=============================================================================
