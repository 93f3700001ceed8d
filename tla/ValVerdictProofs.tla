--------------------------- MODULE ValVerdictProofs ---------------------------
(***************************************************************************)
(* Proofs that the verdicts of ValDispatcher are the right ones, and that  *)
(* the suite never starts over, while the NV memory, the loader and the    *)
(* watchdog work and nobody resets the system: for every suite whose tests *)
(* announce their resets as WellAnnounced says.                            *)
(***************************************************************************)
EXTENDS ValDispatcherProofs

(* ------------------- What the boot signature stands for ---------------- *)

\* No access has failed and nobody but the tests has reset the system, so far.
Calm == faults = 0 /\ resets = 0

\* The first k checks of list w did what they should; all those of the non-secure
\* list of the current test, and all of it.
Upto(w, k) == \A i \in 1..k : <<w, i>> \in passed
Current    == Checks[nvCur]
AllNs      == Upto("ns", Len(Current.ns))
All        == AllNs /\ Upto("s", Len(Current.s))

\* The check that asked to come back at the second one was passed, and no other is skipped.
FirstPassed ==
    /\ Len(Current.ns) > 0 => Upto("ns", 1)
    /\ Len(Current.ns) <= 1 =>
          \/ Len(Current.ns) = 1 /\ Current.s = <<>>
          \/ AllNs /\ Upto("s", 1)
StartsWithCont == Len(Current.ns) > 0 /\ Current.ns[1].flag = "cont"

\* Only checks that the current test has are counted as passed.
PassedInv == nvBoot \in Intermediate => passed \subseteq AllChecks(nvCur)

\* The watchdog runs only while a test does.
QuietInv == watchdog = "on" => pc \in TestPcs \ {"init"}

\* From a reset to the resumption of the test: what NV_BOOT says is what happened.
Resumed == {"entry", "readPrev", "loop", "load", "writeCur", "hung", "init", "nsBoot"}
SignatureInv ==
    /\ pc \in Resumed =>
          /\ nvBoot = "expected_ns" => AllNs
          /\ nvBoot = "expected_s"  => All
          /\ nvBoot = "reenter"     => FirstPassed
          /\ nvBoot = "cont"        => StartsWithCont
          /\ nvBoot \in {"expected_ns", "expected_s", "reenter", "cont"} => "fail" \notin seen
          /\ nvBoot = "but_failed"  => "fail" \in seen
    /\ pc \in {"init", "nsBoot"} => "fail" \notin seen /\ nvBoot # "but_failed"
    /\ pc \in {"entry", "readPrev", "loop", "hung"} /\ nvBoot = "not_expected" => "hang" \in seen
    /\ pc \in {"load", "writeCur"} => nvBoot \notin {"not_expected", "but_failed"}

\* While a list is executed: every check before the place reached was passed.
InOrder == /\ state = "start"
           /\ IF world = "ns" THEN Upto("ns", blk - 1) ELSE AllNs /\ Upto("s", blk - 1)
NsInv ==
    /\ pc = "nsBoot" => state = "start" /\ Len(Current.ns) > 0
    /\ pc = "nsNext" =>
          /\ InOrder /\ "fail" \notin seen /\ world = "ns"
          /\ boot = "cont" => StartsWithCont /\ nvBoot = IF blk = 1 THEN "cont" ELSE "not_expected"
          /\ boot # "cont" => \/ nvBoot = "not_expected"
                              \/ nvBoot = "reenter" /\ blk = 2 /\ FirstPassed
SecInv ==
    /\ pc \in {"secBoot", "secArm"} => state = "start" /\ "fail" \notin seen /\ AllNs
    /\ pc = "secBoot" =>
          /\ nvBoot = "expected_s" => All
          /\ nvBoot = "reenter" => Upto("s", 1)
    /\ pc = "secArm" => blk \in {1, 2} /\ Upto("s", blk - 1)
    /\ pc = "secNext" => InOrder /\ "fail" \notin seen /\ world = "s" /\ nvBoot = "not_expected"
CheckInv ==
    /\ pc \in {"check", "critical", "awaitReset", "result"} =>
          /\ InOrder /\ blk <= Len(List(nvCur, world))
          /\ world = "ns" /\ boot = "cont" => StartsWithCont
    /\ pc \in {"check", "critical", "awaitReset"} => "fail" \notin seen
    /\ pc = "check" => \/ nvBoot = "not_expected"
                       \/ nvBoot = "cont" /\ world = "ns" /\ blk = 1 /\ StartsWithCont
    /\ pc = "critical" =>
          nvBoot = Check.flag /\ Check.flag \in {"expected_ns", "expected_s", "reenter"}
    /\ pc = "awaitReset" => nvBoot = "cont" /\ Check.flag = "cont"
    /\ pc = "result" =>
          /\ nvBoot \in {"not_expected", "cont", "but_failed"}
          /\ outcome = "ok" => "fail" \notin seen /\ nvBoot = "not_expected"
          /\ nvBoot = "but_failed" => "fail" \in seen
          /\ nvBoot = "cont" => Check.flag = "cont"

\* From the end of a test to its report: the final state is the one it deserves.
Deserved(st) ==
    /\ st = "end" => All /\ "fail" \notin seen
    /\ st = "fail" => "fail" \in seen
    /\ st = "skip" => nvCur \in Unsupported \/ "skip" \in seen
    /\ st = "pending" => "hang" \in seen
FinalInv ==
    /\ pc = "exit" => /\ state \in {"start", "fail", "skip"}
                      /\ Deserved(IF state = "start" THEN "end" ELSE state)
    /\ pc \in {"readCur", "report"} =>
          state \in {"end", "fail", "skip", "pending"} /\ Deserved(state)

\* What every step keeps as long as it is calm.
VerdictInv == PassedInv /\ QuietInv /\ SignatureInv /\ NsInv /\ SecInv /\ CheckInv /\ FinalInv
              /\ VerdictJust

(* ----------------------------- Lemmas ---------------------------------- *)

\* What the invariant of ValDispatcherProofs says of the places of the program.
LEMMA Setting ==
    ASSUME IInv
    PROVE  /\ faults \in Nat /\ resets \in Nat /\ world \in {"ns", "s"}
           /\ nvBoot \in Intermediate => nvCur \in Tests /\ nvCur = NextTest(nvPrev)
           /\ pc \in TestPcs \cup {"report", "clear"} => nvCur = testId /\ nvBoot \in Intermediate
           /\ pc = "readCur" => nvBoot \in Intermediate
           /\ pc \in {"initPrev", "initCnt"} => nvBoot = "unknown"
           /\ pc \in {"load", "writeCur"} =>
                 boot = nvBoot /\ nvBoot \in Intermediate \cup {"unknown"}
           /\ pc \in {"load", "writeCur", "loop"} => testPrev = nvPrev
           /\ pc = "writeCur" => testId = NextTest(nvPrev)
           /\ blk \in Nat \ {0} /\ outcome \in {"ok", "fail", "skip"}
           /\ pc \in {"arm", "readCnt", "writeCnt", "writePrev", "final", "reported"} =>
                 nvBoot = "unknown"
  BY ConstantsAssumption
  DEF IInv, TypeOK, BootStates, NvDescribesPrefix, EntryInv, LoopInv, LoopPcs

\* What is known of the check in progress, when the suite announces its resets well.
LEMMA Here ==
    ASSUME IInv, SuiteAnnounces, CheckInv, pc \in {"check", "critical", "awaitReset", "result"}
    PROVE  /\ <<world, blk>> \in AllChecks(nvCur)
           /\ ~Check.quiet /\ ~Check.lax
           /\ Len(Current.ns) \in Nat /\ Len(Current.s) \in Nat
           /\ world = "ns" =>
                 /\ Check = Current.ns[blk] /\ blk \in 1..Len(Current.ns)
                 /\ Check.flag \in {"expected_ns", "expected_s"} => blk = Len(Current.ns)
                 /\ Check.flag = "expected_s" => Current.s = <<>>
                 /\ Check.flag = "reenter" /\ Len(Current.ns) = 1 => Current.s = <<>>
           /\ world = "s" =>
                 /\ blk \in 1..Len(Current.s)
                 /\ Check.flag = "expected_s" => blk = Len(Current.s)
           /\ Check.flag = "cont" => world = "ns" /\ StartsWithCont
  <1> DEFINE ns == Current.ns
             s  == Current.s
  <1>1. /\ nvCur = testId /\ nvCur \in Tests /\ world \in {"ns", "s"} /\ blk \in Nat \ {0}
    BY Setting DEF TestPcs
  <1>2. ns \in Seq(CheckKinds) /\ s \in Seq(CheckKinds)
    BY <1>1, ConstantsAssumption DEF Current
  <1>3. WellAnnounced(ns, s)
    BY <1>1 DEF SuiteAnnounces, Current
  <1>4. blk \in 1..Len(IF world = "ns" THEN ns ELSE s)
    BY <1>1 DEF CheckInv, List, Current
  <1>5. Check = (IF world = "ns" THEN ns ELSE s)[blk]
    BY <1>1 DEF Check, List, Current
  <1>6. <<world, blk>> \in AllChecks(nvCur)
    BY <1>1, <1>2, <1>4 DEF AllChecks, Current
  <1>7. StartsWithCont <=> Len(ns) > 0 /\ ns[1].flag = "cont"
    BY DEF StartsWithCont
  <1> HIDE DEF ns, s
  <1>8. DOMAIN ns = 1..Len(ns) /\ DOMAIN s = 1..Len(s)
    BY <1>2
  <1>9. CASE world = "ns"
    BY <1>2, <1>3, <1>4, <1>5, <1>6, <1>7, <1>8, <1>9 DEF WellAnnounced, ns, s
  <1>10. CASE world = "s"
    BY <1>2, <1>3, <1>4, <1>5, <1>6, <1>7, <1>8, <1>10 DEF WellAnnounced, ns, s
  <1> QED BY <1>1, <1>2, <1>9, <1>10

\* The check in progress did what it should: so did every check up to it.
LEMMA Extends ==
    ASSUME InOrder, world \in {"ns", "s"}, blk \in Nat \ {0}, Achieved, nvCur' = nvCur
    PROVE  /\ passed' = passed \cup {<<world, blk>>}
           /\ \A i \in 1..blk : <<world, i>> \in passed'
           /\ world = "s" => AllNs'
           /\ world = "ns" /\ blk = Len(Current.ns) => AllNs'
           /\ world = "s" /\ blk = Len(Current.s) => All'
           /\ world = "ns" /\ blk = Len(Current.ns) /\ Current.s = <<>> => All'
  <1>1. passed' = passed \cup {<<world, blk>>}
    BY DEF Achieved
  <1>2. \A i \in 1..blk : i \in 1..(blk - 1) \/ i = blk
    OBVIOUS
  <1>3. \A i \in 1..blk : <<world, i>> \in passed'
    BY <1>1, <1>2 DEF InOrder, Upto
  <1>4. world = "s" => AllNs'
    BY <1>1 DEF InOrder, AllNs, Upto, Current
  <1>5. world = "ns" /\ blk = Len(Current.ns) => AllNs'
    <2> SUFFICES ASSUME world = "ns", blk = Len(Current.ns), NEW i \in 1..Len(Current.ns)
                 PROVE  <<"ns", i>> \in passed'
      BY DEF AllNs, Upto, Current
    <2> QED BY <1>3
  <1>6. world = "s" /\ blk = Len(Current.s) => All'
    BY <1>3, <1>4 DEF All, Upto, Current
  <1>7. Current.s = <<>> => Len(Current.s) = 0
    OBVIOUS
  <1>8. Current.s = <<>> => Upto("s", Len(Current.s))'
    BY <1>7 DEF Upto, Current
  <1> QED BY <1>1, <1>3, <1>4, <1>5, <1>6, <1>8 DEF All

\* What an announcement that has come true stands for.
LEMMA AnnouncedStep ==
    ASSUME IInv, SuiteAnnounces, CheckInv, pc = "critical", Achieved, nvCur' = nvCur
    PROVE  /\ Check.flag = "expected_ns" => AllNs'
           /\ Check.flag = "expected_s" => All'
           /\ Check.flag = "reenter" => FirstPassed'
  <1>1. InOrder /\ world \in {"ns", "s"} /\ blk \in Nat \ {0}
    BY Setting DEF CheckInv
  <1>2. Check.flag = "expected_ns" => AllNs'
    BY <1>1, Here, Extends
  <1>3. Check.flag = "expected_s" => All'
    BY <1>1, Here, Extends
  <1>4. Check.flag = "reenter" => FirstPassed'
    <2>1. 1 \in 1..blk
      BY <1>1
    <2>2. <<world, 1>> \in passed'
      BY <1>1, <2>1, Extends
    <2>3. CASE world = "ns"
      <3>1. Upto("ns", 1)'
        BY <2>2, <2>3 DEF Upto
      <3>2. /\ Check.flag = "reenter" /\ Len(Current.ns) = 1 => Current.s = <<>>
            /\ blk \in 1..Len(Current.ns) /\ Len(Current.ns) \in Nat
        BY <2>3, Here
      <3> DEFINE n == Len(Current.ns)
      <3>3. n \in Nat /\ n >= 1
        BY <3>2
      <3> HIDE DEF n
      <3>4. n <= 1 => n = 1
        BY <3>3
      <3>5. Check.flag = "reenter" /\ Len(Current.ns) <= 1 => Len(Current.ns) = 1 /\ Current.s = <<>>
        BY <3>2, <3>4 DEF n
      <3> QED BY <3>1, <3>5 DEF FirstPassed, Current
    <2>4. CASE world = "s"
      <3>1. AllNs'
        BY <1>1, <2>4, Extends
      <3>2. Len(Current.ns') > 0 => Upto("ns", 1)'
        BY <3>1 DEF AllNs, Upto, Current
      <3>3. Upto("s", 1)'
        BY <2>2, <2>4 DEF Upto
      <3> QED BY <3>1, <3>2, <3>3 DEF FirstPassed
    <2> QED BY <1>1, <2>3, <2>4
  <1> QED BY <1>2, <1>3, <1>4

(* ------------------------ One lemma per action -------------------------- *)

\* Nothing has been passed or failed at first.
LEMMA InitVerdictInv == Init => VerdictInv
  BY
  DEF Init, VerdictInv, PassedInv, QuietInv, SignatureInv, NsInv, SecInv, CheckInv,
      FinalInv, VerdictJust

\* val_entry reads NV_BOOT, which makes this the first boot or a later one.
LEMMA EntryStep ==
    ASSUME IInv, IInv', VerdictInv, SuiteAnnounces, Entry, Calm' PROVE VerdictInv'
  BY
  DEF VerdictInv, Entry, PassedInv, QuietInv, SignatureInv, NsInv, SecInv, CheckInv,
      FinalInv, VerdictJust, FirstPassed, StartsWithCont, Resumed, TestPcs, Upto,
      AllNs, All, Current, Attempt, Goto, nvVars, runVars, obsVars

\* The first boot writes BOOT_UNKNOWN.
LEMMA InitBootStep ==
    ASSUME IInv, IInv', VerdictInv, SuiteAnnounces, InitBoot, Calm' PROVE VerdictInv'
  BY
  DEF VerdictInv, InitBoot, PassedInv, QuietInv, SignatureInv, NsInv, SecInv, CheckInv,
      FinalInv, VerdictJust, Resumed, TestPcs, Intermediate, Attempt, Goto, runVars,
      obsVars

\* The first boot writes that no test was before.
LEMMA InitPrevStep ==
    ASSUME IInv, IInv', VerdictInv, SuiteAnnounces, InitPrev, Calm' PROVE VerdictInv'
  BY
  DEF VerdictInv, InitPrev, PassedInv, QuietInv, SignatureInv, NsInv, SecInv, CheckInv,
      FinalInv, VerdictJust, Resumed, TestPcs, Attempt, Goto, runVars, obsVars

\* The first boot clears the counters.
LEMMA InitCntStep ==
    ASSUME IInv, IInv', VerdictInv, SuiteAnnounces, InitCnt, Calm' PROVE VerdictInv'
  BY Setting
  DEF VerdictInv, InitCnt, PassedInv, QuietInv, SignatureInv, NsInv, SecInv, CheckInv,
      FinalInv, VerdictJust, Intermediate, Attempt, Goto, runVars

\* The number of the previous test is read.
LEMMA ReadPrevStep ==
    ASSUME IInv, IInv', VerdictInv, SuiteAnnounces, ReadPrev, Calm' PROVE VerdictInv'
  BY
  DEF VerdictInv, ReadPrev, PassedInv, QuietInv, SignatureInv, NsInv, SecInv, CheckInv,
      FinalInv, VerdictJust, FirstPassed, StartsWithCont, Resumed, TestPcs, Upto,
      AllNs, All, Current, Attempt, Goto, nvVars, runVars, obsVars

\* NV_BOOT is read before a test is loaded.
LEMMA ReadBootStep ==
    ASSUME IInv, IInv', VerdictInv, SuiteAnnounces, ReadBoot, Calm' PROVE VerdictInv'
  BY
  DEF VerdictInv, ReadBoot, PassedInv, QuietInv, SignatureInv, NsInv, SecInv, CheckInv,
      FinalInv, VerdictJust, Deserved, FirstPassed, StartsWithCont, Resumed, TestPcs,
      Upto, AllNs, All, Current, Attempt, Goto, nvVars, obsVars

\* The number of a test that a reset has ended is read.
LEMMA ReadCurStep ==
    ASSUME IInv, IInv', VerdictInv, SuiteAnnounces, ReadCur, Calm' PROVE VerdictInv'
  BY
  DEF VerdictInv, ReadCur, PassedInv, QuietInv, SignatureInv, NsInv, SecInv, CheckInv,
      FinalInv, VerdictJust, Deserved, Resumed, TestPcs, Upto, AllNs, All, Current,
      Attempt, Goto, nvVars, runVars, obsVars

\* The next test is loaded, or there is none.
LEMMA LoadStep ==
    ASSUME IInv, IInv', VerdictInv, SuiteAnnounces, Load, Calm' PROVE VerdictInv'
  BY
  DEF VerdictInv, Load, PassedInv, QuietInv, SignatureInv, NsInv, SecInv, CheckInv,
      FinalInv, VerdictJust, FirstPassed, StartsWithCont, Resumed, TestPcs, Upto,
      AllNs, All, Current, Attempt, Goto, nvVars, runVars, obsVars

\* The number of the test is written.
LEMMA WriteCurStep ==
    ASSUME IInv, IInv', VerdictInv, SuiteAnnounces, WriteCur, Calm' PROVE VerdictInv'
  BY Setting
  DEF VerdictInv, WriteCur, PassedInv, QuietInv, SignatureInv, NsInv, SecInv, CheckInv,
      FinalInv, VerdictJust, FirstPassed, StartsWithCont, Resumed, TestPcs,
      Intermediate, Upto, AllNs, All, Current, Attempt, Goto, runVars, obsVars

\* From here on a reset belongs to the new test.
LEMMA ArmStep ==
    ASSUME IInv, IInv', VerdictInv, SuiteAnnounces, Arm, Calm' PROVE VerdictInv'
  BY
  DEF VerdictInv, Arm, PassedInv, QuietInv, SignatureInv, NsInv, SecInv, CheckInv,
      FinalInv, VerdictJust, Resumed, TestPcs, Attempt, Goto, runVars

\* The test starts, and the watchdog with it (val_test_init).
LEMMA TestInitStep ==
    ASSUME IInv, IInv', VerdictInv, SuiteAnnounces, TestInit, Calm' PROVE VerdictInv'
  BY Setting
  DEF VerdictInv, Calm, TestInit, PassedInv, QuietInv, SignatureInv, NsInv, SecInv,
      CheckInv, FinalInv, VerdictJust, Deserved, FirstPassed, StartsWithCont, Resumed,
      TestPcs, Upto, AllNs, All, Current, Attempt, Goto, nvVars, loopVars, obsVars,
      AfterInit

\* The non-secure list is entered where NV_BOOT says (val_execute_non_secure_tests).
LEMMA NsBootStep ==
    ASSUME IInv, IInv', VerdictInv, SuiteAnnounces, NsBoot, Calm' PROVE VerdictInv'
  <1>1. PassedInv'
    BY DEF VerdictInv, NsBoot, PassedInv, nvVars, obsVars
  <1>2. QuietInv'
    BY DEF NsBoot, QuietInv, TestPcs, Attempt, Goto, AfterNs
  <1>3. SignatureInv'
    BY
    DEF VerdictInv, NsBoot, SignatureInv, Resumed, Upto, AllNs, All, Current, Attempt,
        Goto, nvVars, obsVars
  <1>4. NsInv'
    BY
    DEF VerdictInv, NsBoot, SignatureInv, NsInv, InOrder, FirstPassed, StartsWithCont,
        Resumed, Upto, AllNs, Current, Attempt, Goto, nvVars, obsVars, AfterNs
  <1>5. SecInv'
    BY Setting
    DEF VerdictInv, NsBoot, SignatureInv, NsInv, SecInv, Resumed, TestPcs,
        Intermediate, Upto, AllNs, All, Current, Attempt, Goto, nvVars, obsVars, AfterNs
  <1>6. CheckInv'
    BY DEF NsBoot, CheckInv, Attempt, Goto, AfterNs
  <1>7. FinalInv'
    BY Setting
    DEF VerdictInv, Calm, NsBoot, SignatureInv, NsInv, FinalInv, Deserved, Resumed,
        TestPcs, Intermediate, Upto, AllNs, All, Current, Attempt, Goto, nvVars,
        obsVars, AfterNs
  <1>8. VerdictJust'
    BY DEF NsBoot, VerdictJust, Attempt, Goto, AfterNs
  <1> QED BY <1>1, <1>2, <1>3, <1>4, <1>5, <1>6, <1>7, <1>8 DEF VerdictInv

\* The next check of the non-secure list, or its end.
LEMMA NsNextStep ==
    ASSUME IInv, IInv', VerdictInv, SuiteAnnounces, NsNext, Calm' PROVE VerdictInv'
  <1>1. PassedInv'
    BY DEF VerdictInv, NsNext, PassedInv, NsInv, Intermediate, obsVars
  <1>2. QuietInv'
    BY DEF NsNext, QuietInv, TestPcs, Attempt, Goto, AfterNs
  <1>3. SignatureInv'
    BY DEF NsNext, SignatureInv, Resumed, Attempt, Goto, AfterNs
  <1>4. NsInv'
    BY DEF NsNext, NsInv, Attempt, Goto, AfterNs
  <1>5. SecInv'
    BY Setting
    DEF VerdictInv, NsNext, NsInv, SecInv, InOrder, FirstPassed, TestPcs, Upto, AllNs,
        Current, Attempt, Goto, runVars, obsVars, AfterNs, List
  <1>6. CheckInv'
    BY Setting
    DEF VerdictInv, NsNext, NsInv, CheckInv, InOrder, StartsWithCont, TestPcs, Upto,
        Current, Attempt, Goto, runVars, obsVars, AfterNs
  <1>7. FinalInv'
    BY Setting
    DEF VerdictInv, Calm, NsNext, NsInv, FinalInv, InOrder, Deserved, TestPcs, Upto,
        AllNs, All, Current, Attempt, Goto, runVars, obsVars, AfterNs, List
  <1>8. VerdictJust'
    BY DEF NsNext, VerdictJust, Attempt, Goto, AfterNs
  <1> QED BY <1>1, <1>2, <1>3, <1>4, <1>5, <1>6, <1>7, <1>8 DEF VerdictInv

\* The secure list is entered where NV_BOOT says, or is over (val_switch_to_secure_client).
LEMMA SecBootStep ==
    ASSUME IInv, IInv', VerdictInv, SuiteAnnounces, SecBoot, Calm' PROVE VerdictInv'
  <1>1. PassedInv'
    BY DEF VerdictInv, SecBoot, PassedInv, nvVars, obsVars
  <1>2. QuietInv'
    BY DEF SecBoot, QuietInv, TestPcs, Attempt, Goto
  <1>3. SignatureInv'
    BY DEF SecBoot, SignatureInv, Resumed, Attempt, Goto
  <1>4. NsInv'
    BY DEF SecBoot, NsInv, Attempt, Goto
  <1>5. SecInv'
    BY
    DEF VerdictInv, SecBoot, SecInv, Upto, AllNs, Current, Attempt, Goto, nvVars,
        obsVars
  <1>6. CheckInv'
    BY DEF SecBoot, CheckInv, Attempt, Goto
  <1>7. FinalInv'
    BY Setting
    DEF VerdictInv, Calm, SecBoot, SecInv, FinalInv, Deserved, Upto, AllNs, All,
        Current, Attempt, Goto, nvVars, obsVars
  <1>8. VerdictJust'
    BY DEF SecBoot, VerdictJust, Attempt, Goto
  <1> QED BY <1>1, <1>2, <1>3, <1>4, <1>5, <1>6, <1>7, <1>8 DEF VerdictInv

\* The secure list is started at its first or second check.
LEMMA SecArmStep ==
    ASSUME IInv, IInv', VerdictInv, SuiteAnnounces, SecArm, Calm' PROVE VerdictInv'
  <1>1. PassedInv'
    BY Setting DEF VerdictInv, SecArm, PassedInv, TestPcs, obsVars
  <1>2. QuietInv'
    BY DEF SecArm, QuietInv, TestPcs, Attempt, Goto
  <1>3. SignatureInv'
    BY DEF SecArm, SignatureInv, Resumed, Attempt, Goto
  <1>4. NsInv'
    BY DEF SecArm, NsInv, Attempt, Goto
  <1>5. SecInv'
    BY
    DEF VerdictInv, SecArm, SecInv, InOrder, Upto, AllNs, Current, Attempt, Goto,
        obsVars
  <1>6. CheckInv'
    BY DEF SecArm, CheckInv, Attempt, Goto
  <1>7. FinalInv'
    BY Setting DEF Calm, SecArm, FinalInv, Attempt, Goto
  <1>8. VerdictJust'
    BY DEF SecArm, VerdictJust, Attempt, Goto
  <1> QED BY <1>1, <1>2, <1>3, <1>4, <1>5, <1>6, <1>7, <1>8 DEF VerdictInv

\* The next check of the secure list, or its end.
LEMMA SecNextStep ==
    ASSUME IInv, IInv', VerdictInv, SuiteAnnounces, SecNext, Calm' PROVE VerdictInv'
  BY Setting
  DEF VerdictInv, SecNext, PassedInv, QuietInv, SignatureInv, NsInv, SecInv, CheckInv,
      FinalInv, VerdictJust, InOrder, Deserved, TestPcs, Upto, AllNs, All, Current,
      Goto, nvVars, runVars, obsVars, List

\* A check without a boot signature, or the part of any check before it.
LEMMA PlainCheckStep ==
    ASSUME IInv, IInv', VerdictInv, SuiteAnnounces, PlainCheck, Calm' PROVE VerdictInv'
  <1>1. pc \in {"check", "critical", "awaitReset", "result"} /\ CheckInv
    BY DEF VerdictInv, PlainCheck
  <1>2. UNCHANGED <<Check, List(nvCur, world)>>
    BY DEF PlainCheck, Check, nvVars, loopVars
  <1>3. PassedInv'
    BY DEF VerdictInv, PlainCheck, PassedInv, nvVars
  <1>4. QuietInv'
    BY DEF PlainCheck, QuietInv, TestPcs, Goto
  <1>5. SignatureInv'
    BY DEF PlainCheck, SignatureInv, Resumed, Goto
  <1>6. NsInv'
    BY DEF PlainCheck, NsInv, Goto
  <1>7. SecInv'
    BY DEF PlainCheck, SecInv, Goto
  <1>8. CheckInv'
    BY Setting, Here, <1>1, <1>2
    DEF PlainCheck, CheckInv, InOrder, StartsWithCont, Upto, AllNs, Current, Goto,
        nvVars, Observe
  <1>9. FinalInv'
    BY DEF PlainCheck, FinalInv, Goto
  <1>10. VerdictJust'
    BY DEF PlainCheck, VerdictJust, Goto
  <1> QED BY <1>3, <1>4, <1>5, <1>6, <1>7, <1>8, <1>9, <1>10 DEF VerdictInv

\* A check announces a reset (val_set_boot_flag).
LEMMA SetFlagStep ==
    ASSUME IInv, IInv', VerdictInv, SuiteAnnounces, SetFlag, Calm' PROVE VerdictInv'
  <1>1. pc \in {"check", "critical", "awaitReset", "result"} /\ CheckInv
    BY DEF VerdictInv, SetFlag
  <1>2. UNCHANGED <<Check, List(nvCur, world)>>
    BY DEF SetFlag, Check, loopVars
  <1>3. PassedInv'
    BY DEF VerdictInv, SetFlag, PassedInv, CheckInv, Intermediate
  <1>4. QuietInv'
    BY DEF SetFlag, QuietInv, TestPcs, Attempt, Goto
  <1>5. SignatureInv'
    BY DEF SetFlag, SignatureInv, Resumed, Attempt, Goto
  <1>6. NsInv'
    BY DEF SetFlag, NsInv, Attempt, Goto
  <1>7. SecInv'
    BY DEF SetFlag, SecInv, Attempt, Goto
  <1>8. CheckInv'
    BY Setting, Here, <1>1, <1>2
    DEF SetFlag, CheckInv, InOrder, StartsWithCont, Upto, AllNs, Current, Attempt, Goto
  <1>9. FinalInv'
    BY DEF SetFlag, FinalInv, Attempt, Goto
  <1>10. VerdictJust'
    BY DEF SetFlag, VerdictJust, Attempt, Goto
  <1> QED BY <1>3, <1>4, <1>5, <1>6, <1>7, <1>8, <1>9, <1>10 DEF VerdictInv

\* The call that should panic resets the system: the check did what it should.
LEMMA PanicResetStep ==
    ASSUME IInv, IInv', VerdictInv, SuiteAnnounces, PanicReset, Calm' PROVE VerdictInv'
  <1>1. pc \in {"check", "critical", "awaitReset", "result"} /\ CheckInv
    BY DEF VerdictInv, PanicReset
  <1>2. PassedInv'
    BY Here, <1>1 DEF VerdictInv, PanicReset, PassedInv, nvVars, Achieved, Reboot
  <1>3. QuietInv'
    BY DEF PanicReset, QuietInv, Reboot
  <1>4. SignatureInv'
    <2>1. pc = "critical" /\ Achieved /\ nvCur' = nvCur
      BY DEF PanicReset, Reboot, nvVars
    <2>2. nvBoot' = Check.flag /\ Check.flag \in {"expected_ns", "expected_s", "reenter"}
      BY <1>1 DEF CheckInv, PanicReset, Reboot, nvVars
    <2>3. "fail" \notin seen'
      BY <1>1 DEF CheckInv, PanicReset
    <2> QED
      BY <1>1, <2>1, <2>2, <2>3, AnnouncedStep
      DEF SignatureInv, PanicReset, Goto, Reboot, Resumed
  <1>5. NsInv'
    BY DEF PanicReset, NsInv, Reboot
  <1>6. SecInv'
    BY DEF PanicReset, SecInv, Reboot
  <1>7. CheckInv'
    BY DEF PanicReset, CheckInv, Reboot
  <1>8. FinalInv'
    BY DEF PanicReset, FinalInv, Reboot
  <1>9. VerdictJust'
    BY DEF PanicReset, VerdictJust, Reboot
  <1> QED BY <1>2, <1>3, <1>4, <1>5, <1>6, <1>7, <1>8, <1>9 DEF VerdictInv

\* The call that should panic stops the system, for the watchdog to reset it.
LEMMA PanicHangStep ==
    ASSUME IInv, IInv', VerdictInv, SuiteAnnounces, PanicHang, Calm' PROVE VerdictInv'
  <1>1. pc \in {"check", "critical", "awaitReset", "result"} /\ CheckInv
    BY DEF VerdictInv, PanicHang
  <1>2. PassedInv'
    BY Here, <1>1 DEF VerdictInv, PanicHang, PassedInv, nvVars, Achieved
  <1>3. QuietInv'
    BY DEF PanicHang, QuietInv, TestPcs, Goto
  <1>4. SignatureInv'
    <2>1. pc = "critical" /\ Achieved /\ nvCur' = nvCur
      BY DEF PanicHang, Reboot, nvVars
    <2>2. nvBoot' = Check.flag /\ Check.flag \in {"expected_ns", "expected_s", "reenter"}
      BY <1>1 DEF CheckInv, PanicHang, Reboot, nvVars
    <2>3. "fail" \notin seen'
      BY <1>1 DEF CheckInv, PanicHang
    <2> QED
      BY <1>1, <2>1, <2>2, <2>3, AnnouncedStep
      DEF SignatureInv, PanicHang, Goto, Reboot, Resumed
  <1>5. NsInv'
    BY DEF PanicHang, NsInv, Goto
  <1>6. SecInv'
    BY DEF PanicHang, SecInv, Goto
  <1>7. CheckInv'
    BY DEF PanicHang, CheckInv, Goto
  <1>8. FinalInv'
    BY DEF PanicHang, FinalInv, Goto
  <1>9. VerdictJust'
    BY DEF PanicHang, VerdictJust, Goto
  <1> QED BY <1>2, <1>3, <1>4, <1>5, <1>6, <1>7, <1>8, <1>9 DEF VerdictInv

\* A suite that announces its resets well has no check that may return quietly.
LEMMA QuietReturnStep ==
    ASSUME IInv, IInv', VerdictInv, SuiteAnnounces, QuietReturn, Calm' PROVE VerdictInv'
  <1>1. pc \in {"check", "critical", "awaitReset", "result"} /\ CheckInv
    BY DEF VerdictInv, QuietReturn
  <1> QED BY Here, <1>1 DEF QuietReturn

\* The call that should have panicked returns.
LEMMA SurvivesStep ==
    ASSUME IInv, IInv', VerdictInv, SuiteAnnounces, Survives, Calm' PROVE VerdictInv'
  <1>1. pc \in {"check", "critical", "awaitReset", "result"} /\ CheckInv
    BY DEF VerdictInv, Survives
  <1>2. PassedInv'
    BY DEF VerdictInv, Survives, PassedInv, CheckInv, Intermediate
  <1>3. QuietInv'
    BY DEF Survives, QuietInv, TestPcs, Goto
  <1>4. SignatureInv'
    BY DEF Survives, SignatureInv, Resumed, Goto
  <1>5. NsInv'
    BY DEF Survives, NsInv, Goto
  <1>6. SecInv'
    BY DEF Survives, SecInv, Goto
  <1>7. CheckInv'
    BY Setting, Here, <1>1
    DEF Calm, Survives, CheckInv, InOrder, StartsWithCont, Upto, AllNs, Current,
        Attempt, Goto
  <1>8. FinalInv'
    BY DEF Survives, FinalInv, Goto
  <1>9. VerdictJust'
    BY DEF Survives, VerdictJust, Goto
  <1> QED BY <1>2, <1>3, <1>4, <1>5, <1>6, <1>7, <1>8, <1>9 DEF VerdictInv

\* The key that must survive the reset is imported.
LEMMA ImportKeyStep ==
    ASSUME IInv, IInv', VerdictInv, SuiteAnnounces, ImportKey, Calm' PROVE VerdictInv'
  <1>1. pc \in {"check", "critical", "awaitReset", "result"} /\ CheckInv
    BY DEF VerdictInv, ImportKey
  <1>2. UNCHANGED <<Check, List(nvCur, world)>>
    BY DEF ImportKey, Check, loopVars
  <1>3. PassedInv'
    BY DEF VerdictInv, ImportKey, PassedInv, Intermediate
  <1>4. QuietInv'
    BY DEF ImportKey, QuietInv, TestPcs, Attempt, Goto
  <1>5. SignatureInv'
    BY DEF ImportKey, SignatureInv, Resumed, Attempt, Goto
  <1>6. NsInv'
    BY DEF ImportKey, NsInv, Attempt, Goto
  <1>7. SecInv'
    BY DEF ImportKey, SecInv, Attempt, Goto
  <1>8. CheckInv'
    BY Setting, Here, <1>1, <1>2
    DEF ImportKey, CheckInv, InOrder, StartsWithCont, Upto, Current, Attempt, Goto
  <1>9. FinalInv'
    BY DEF ImportKey, FinalInv, Attempt, Goto
  <1>10. VerdictJust'
    BY DEF ImportKey, VerdictJust, Attempt, Goto
  <1> QED BY <1>3, <1>4, <1>5, <1>6, <1>7, <1>8, <1>9, <1>10 DEF VerdictInv

\* The reset that a check asks for.
LEMMA ControlledResetStep ==
    ASSUME IInv, IInv', VerdictInv, SuiteAnnounces, ControlledReset, Calm' PROVE VerdictInv'
  <1>1. pc \in {"check", "critical", "awaitReset", "result"} /\ CheckInv
    BY DEF VerdictInv, ControlledReset
  <1> QED BY Here, <1>1
          DEF VerdictInv, ControlledReset, PassedInv, QuietInv, SignatureInv, NsInv,
              SecInv, CheckInv, FinalInv, VerdictJust, StartsWithCont, Current, nvVars,
              obsVars, Reboot

\* After that reset the key is opened.
LEMMA OpenKeyStep ==
    ASSUME IInv, IInv', VerdictInv, SuiteAnnounces, OpenKey, Calm' PROVE VerdictInv'
  <1>1. pc \in {"check", "critical", "awaitReset", "result"} /\ CheckInv
    BY DEF VerdictInv, OpenKey
  <1>2. PassedInv'
    BY DEF VerdictInv, OpenKey, PassedInv, Intermediate
  <1>3. QuietInv'
    BY DEF OpenKey, QuietInv, TestPcs, Goto
  <1>4. SignatureInv'
    BY DEF OpenKey, SignatureInv, Resumed, Goto
  <1>5. NsInv'
    BY DEF OpenKey, NsInv, Goto
  <1>6. SecInv'
    BY DEF OpenKey, SecInv, Goto
  <1>7. CheckInv'
    BY Setting
    DEF VerdictInv, Calm, OpenKey, CheckInv, InOrder, StartsWithCont, Upto, Current,
        Attempt, Goto
  <1>8. FinalInv'
    BY DEF OpenKey, FinalInv, Goto
  <1>9. VerdictJust'
    BY DEF OpenKey, VerdictJust, Goto
  <1> QED BY <1>2, <1>3, <1>4, <1>5, <1>6, <1>7, <1>8, <1>9 DEF VerdictInv

\* The result of a check is collected.
LEMMA CheckResultStep ==
    ASSUME IInv, IInv', VerdictInv, SuiteAnnounces, CheckResult, Calm' PROVE VerdictInv'
  <1>1. pc \in {"check", "critical", "awaitReset", "result"} /\ CheckInv
    BY DEF VerdictInv, CheckResult
  <1>2. PassedInv'
    BY Setting
    DEF VerdictInv, CheckResult, PassedInv, CheckInv, nvVars, Achieved, List, AllChecks
  <1>3. QuietInv'
    BY DEF CheckResult, QuietInv, TestPcs, Goto
  <1>4. SignatureInv'
    BY DEF CheckResult, SignatureInv, Resumed, Goto
  <1>5. NsInv'
    BY Setting
    DEF VerdictInv, CheckResult, NsInv, CheckInv, InOrder, StartsWithCont, Upto,
        Current, Goto, nvVars, Observe, Achieved
  <1>6. SecInv'
    BY Setting
    DEF VerdictInv, CheckResult, SecInv, CheckInv, InOrder, Upto, AllNs, Current, Goto,
        nvVars, Observe, Achieved
  <1>7. CheckInv'
    BY DEF CheckResult, CheckInv, Goto
  <1>8. FinalInv'
    <2>1. PICK o \in {"ok", "fail", "skip"} :
              /\ seen' = IF o = "ok" THEN seen ELSE seen \cup {o}
              /\ o = "ok" => pc' \in {"nsNext", "secNext"}
              /\ o # "ok" => pc' = "exit" /\ state' = o
      BY Setting DEF CheckResult, Observe, Goto
    <2>2. o # "ok" => o \in seen'
      BY <2>1
    <2> QED BY <2>1, <2>2 DEF FinalInv, Deserved
  <1>9. VerdictJust'
    BY DEF CheckResult, VerdictJust, Goto
  <1> QED BY <1>2, <1>3, <1>4, <1>5, <1>6, <1>7, <1>8, <1>9 DEF VerdictInv

\* The test is over (val_test_exit).
LEMMA TestExitStep ==
    ASSUME IInv, IInv', VerdictInv, SuiteAnnounces, TestExit, Calm' PROVE VerdictInv'
  <1>1. PassedInv'
    BY DEF VerdictInv, TestExit, PassedInv, nvVars, obsVars
  <1>2. QuietInv'
    BY Setting DEF Calm, TestExit, QuietInv, Attempt
  <1>3. SignatureInv'
    BY DEF TestExit, SignatureInv, Resumed, Goto
  <1>4. NsInv'
    BY DEF TestExit, NsInv, Goto
  <1>5. SecInv'
    BY DEF TestExit, SecInv, Goto
  <1>6. CheckInv'
    BY DEF TestExit, CheckInv, Goto
  <1>7. FinalInv'
    BY Setting
    DEF VerdictInv, Calm, TestExit, FinalInv, Deserved, Upto, AllNs, All, Current,
        Attempt, Goto, nvVars, obsVars
  <1>8. VerdictJust'
    BY DEF TestExit, VerdictJust, Goto
  <1> QED BY <1>1, <1>2, <1>3, <1>4, <1>5, <1>6, <1>7, <1>8 DEF VerdictInv

\* The verdict is reported and recorded (val_report_status).
LEMMA ReportStatusStep ==
    ASSUME IInv, IInv', VerdictInv, SuiteAnnounces, ReportStatus, Calm' PROVE VerdictInv'
  <1>1. PassedInv'
    BY DEF VerdictInv, ReportStatus, PassedInv, nvVars, obsVars
  <1>2. QuietInv'
    BY DEF VerdictInv, ReportStatus, QuietInv, TestPcs, runVars
  <1>3. SignatureInv'
    BY DEF ReportStatus, SignatureInv, Resumed, Goto
  <1>4. NsInv'
    BY DEF ReportStatus, NsInv, Goto
  <1>5. SecInv'
    BY DEF ReportStatus, SecInv, Goto
  <1>6. CheckInv'
    BY DEF ReportStatus, CheckInv, Goto
  <1>7. FinalInv'
    BY DEF ReportStatus, FinalInv, Goto
  <1>8. VerdictJust'
    BY Setting
    DEF VerdictInv, ReportStatus, PassedInv, SecInv, CheckInv, FinalInv, VerdictJust,
        Deserved, Upto, AllNs, All, Current, obsVars, envVars, Verdict, AllChecks
  <1> QED BY <1>1, <1>2, <1>3, <1>4, <1>5, <1>6, <1>7, <1>8 DEF VerdictInv

\* Behind a test NV_BOOT is BOOT_UNKNOWN again.
LEMMA ClearStep ==
    ASSUME IInv, IInv', VerdictInv, SuiteAnnounces, Clear, Calm' PROVE VerdictInv'
  BY
  DEF VerdictInv, Clear, PassedInv, QuietInv, SignatureInv, NsInv, SecInv, CheckInv,
      FinalInv, VerdictJust, Resumed, TestPcs, Intermediate, Attempt, Goto, runVars,
      obsVars

\* The counters are read.
LEMMA ReadCntStep ==
    ASSUME IInv, IInv', VerdictInv, SuiteAnnounces, ReadCnt, Calm' PROVE VerdictInv'
  BY
  DEF VerdictInv, ReadCnt, PassedInv, QuietInv, SignatureInv, NsInv, SecInv, CheckInv,
      FinalInv, VerdictJust, Resumed, TestPcs, Attempt, Goto, nvVars, runVars, obsVars

\* The counters are written.
LEMMA WriteCntStep ==
    ASSUME IInv, IInv', VerdictInv, SuiteAnnounces, WriteCnt, Calm' PROVE VerdictInv'
  BY
  DEF VerdictInv, WriteCnt, PassedInv, QuietInv, SignatureInv, NsInv, SecInv, CheckInv,
      FinalInv, VerdictJust, Resumed, TestPcs, Attempt, Goto, runVars, obsVars

\* The number of the test is written as that of the previous one.
LEMMA WritePrevStep ==
    ASSUME IInv, IInv', VerdictInv, SuiteAnnounces, WritePrev, Calm' PROVE VerdictInv'
  BY Setting
  DEF VerdictInv, WritePrev, PassedInv, QuietInv, SignatureInv, NsInv, SecInv,
      CheckInv, FinalInv, VerdictJust, Intermediate, Attempt, Goto, runVars

\* The counters are reported.
LEMMA FinalReportStep ==
    ASSUME IInv, IInv', VerdictInv, SuiteAnnounces, FinalReport, Calm' PROVE VerdictInv'
  BY
  DEF VerdictInv, FinalReport, PassedInv, QuietInv, SignatureInv, NsInv, SecInv,
      CheckInv, FinalInv, VerdictJust, Resumed, TestPcs, Attempt, Goto, nvVars,
      runVars, obsVars

\* A check hangs, for the watchdog to end it.
LEMMA HangStep ==
    ASSUME IInv, IInv', VerdictInv, SuiteAnnounces, Hang, Calm' PROVE VerdictInv'
  <1>1. pc \in {"check", "critical", "awaitReset", "result"} /\ CheckInv
    BY DEF VerdictInv, Hang
  <1>2. PassedInv'
    BY DEF VerdictInv, Hang, PassedInv, nvVars
  <1>3. QuietInv'
    BY DEF Hang, QuietInv, TestPcs, Goto
  <1>4. SignatureInv'
    BY Here, <1>1
    DEF Hang, SignatureInv, CheckInv, StartsWithCont, Current, Goto, nvVars
  <1>5. NsInv'
    BY DEF Hang, NsInv, Goto
  <1>6. SecInv'
    BY DEF Hang, SecInv, Goto
  <1>7. CheckInv'
    BY DEF Hang, CheckInv, Goto
  <1>8. FinalInv'
    BY DEF Hang, FinalInv, Goto
  <1>9. VerdictJust'
    BY DEF Hang, VerdictJust, Goto
  <1> QED BY <1>2, <1>3, <1>4, <1>5, <1>6, <1>7, <1>8, <1>9 DEF VerdictInv

\* The watchdog resets the system.
LEMMA WatchdogStep ==
    ASSUME IInv, IInv', VerdictInv, SuiteAnnounces, Watchdog, Calm' PROVE VerdictInv'
  BY
  DEF VerdictInv, Watchdog, PassedInv, QuietInv, SignatureInv, NsInv, SecInv, CheckInv,
      FinalInv, VerdictJust, FirstPassed, StartsWithCont, Resumed, TestPcs, Upto,
      AllNs, All, Current, nvVars, obsVars, Reboot, Bookkeeping

\* A reset that nobody asked for is not calm.
LEMMA PowerResetStep ==
    ASSUME IInv, IInv', VerdictInv, SuiteAnnounces, PowerReset, Calm' PROVE VerdictInv'
  BY Setting DEF Calm, PowerReset

(* ---------------------------- The verdicts ------------------------------ *)

\* As long as it is calm, every step keeps the invariant.
LEMMA VerdictInvStep ==
    ASSUME SuiteAnnounces
    PROVE  IInv /\ IInv' /\ (Calm => VerdictInv) /\ [Next]_vars => (Calm => VerdictInv)'
  <1> SUFFICES ASSUME IInv, IInv', Calm => VerdictInv, [Next]_vars, Calm' PROVE VerdictInv'
    OBVIOUS
  <1>1. Calm
    <2>1. faults' \in {faults, faults + 1} /\ resets' \in {resets, resets + 1}
      BY
      DEF Next, Program, vars, envVars, Attempt, Entry, InitBoot, InitPrev, InitCnt,
          ReadPrev, ReadBoot, ReadCur, Load, WriteCur, Arm, TestInit, NsBoot, NsNext,
          SecBoot, SecArm, SecNext, PlainCheck, SetFlag, PanicReset, PanicHang,
          QuietReturn, Survives, ImportKey, ControlledReset, OpenKey, CheckResult,
          TestExit, ReportStatus, Clear, ReadCnt, WriteCnt, WritePrev, FinalReport,
          Hang, Watchdog, PowerReset
    <2> QED BY <2>1, Setting DEF Calm
  <1>2. VerdictInv
    BY <1>1
  <1>3. CASE UNCHANGED vars
    <2>1. PassedInv' /\ VerdictJust'
      BY <1>2, <1>3
      DEF vars, VerdictInv, PassedInv, VerdictJust, nvVars, loopVars, obsVars, envVars
    <2>2. QuietInv' /\ SignatureInv'
      BY <1>2, <1>3
      DEF vars, VerdictInv, QuietInv, SignatureInv, FirstPassed, StartsWithCont, Upto,
          AllNs, All, Current, nvVars, runVars, obsVars
    <2>3. NsInv' /\ SecInv'
      BY <1>2, <1>3
      DEF vars, VerdictInv, NsInv, SecInv, InOrder, FirstPassed, StartsWithCont, Upto,
          AllNs, All, Current, nvVars, runVars, obsVars
    <2>4. CheckInv' /\ FinalInv'
      BY <1>2, <1>3
      DEF vars, VerdictInv, CheckInv, FinalInv, InOrder, Deserved, StartsWithCont,
          Upto, AllNs, All, Current, nvVars, loopVars, runVars, obsVars, Check
    <2> QED BY <2>1, <2>2, <2>3, <2>4 DEF VerdictInv
  <1> QED
    BY <1>2, <1>3, EntryStep, InitBootStep, InitPrevStep, InitCntStep, ReadPrevStep,
        ReadBootStep, ReadCurStep, LoadStep, WriteCurStep, ArmStep, TestInitStep,
        NsBootStep, NsNextStep, SecBootStep, SecArmStep, SecNextStep, PlainCheckStep,
        SetFlagStep, PanicResetStep, PanicHangStep, QuietReturnStep, SurvivesStep,
        ImportKeyStep, ControlledResetStep, OpenKeyStep, CheckResultStep, TestExitStep,
        ReportStatusStep, ClearStep, ReadCntStep, WriteCntStep, WritePrevStep,
        FinalReportStep, HangStep, WatchdogStep, PowerResetStep
       DEF Next, Program

\* While no access has failed and nobody but the tests and the watchdog has reset the system,
\* the verdict recorded for a test is the one its checks deserve: in every suite whose tests
\* announce their resets well.
THEOREM CalmVerdictsAreJust ==
    ASSUME SuiteAnnounces PROVE Spec => [](Calm => VerdictJust)
  <1>1. Init => (Calm => VerdictInv)
    BY InitVerdictInv
  <1>2. IInv /\ IInv' /\ (Calm => VerdictInv) /\ [Next]_vars => (Calm => VerdictInv)'
    BY VerdictInvStep
  <1>3. (Calm => VerdictInv) => (Calm => VerdictJust)
    BY DEF VerdictInv
  <1> QED BY <1>1, <1>2, <1>3, Invariance, PTL DEF Spec

\* ... and so it is in every run of a system on which nothing of that kind happens.
THEOREM VerdictsAreJust ==
    ASSUME SuiteAnnounces, Steady PROVE Spec => []VerdictJust
  <1>1. IInv => Calm
    BY DEF IInv, TypeOK, Calm, Steady
  <1> QED BY <1>1, CalmVerdictsAreJust, Invariance, PTL

(* -------------------- The suite never starts over ---------------------- *)

\* On a steady system the watchdog runs only while a test does.
LEMMA QuietStep ==
    ASSUME Steady
    PROVE  IInv /\ IInv' /\ QuietInv /\ [Next]_vars => QuietInv'
  <1> SUFFICES ASSUME IInv, IInv', QuietInv, [Next]_vars PROVE QuietInv'
    OBVIOUS
  <1>1. faults = 0 /\ resets = 0 /\ faults' = 0 /\ resets' = 0
    BY DEF Steady, IInv, TypeOK
  <1> QED
    BY <1>1
    DEF QuietInv, TestPcs, Next, Program, vars, runVars, obsVars, envVars, Attempt,
        Goto, Reboot, AfterInit, AfterNs, Entry, InitBoot, InitPrev, InitCnt, ReadPrev,
        ReadBoot, ReadCur, Load, WriteCur, Arm, TestInit, NsBoot, NsNext, SecBoot,
        SecArm, SecNext, PlainCheck, SetFlag, PanicReset, PanicHang, QuietReturn,
        Survives, ImportKey, ControlledReset, OpenKey, CheckResult, TestExit,
        ReportStatus, Clear, ReadCnt, WriteCnt, WritePrev, FinalReport, Hang, Watchdog,
        PowerReset

\* Nothing leads back to the first boot.
LEMMA NeverStartsOver ==
    ASSUME Steady
    PROVE  IInv /\ IInv' /\ QuietInv /\ [Next]_vars /\ StartsOver' => StartsOver
  <1> SUFFICES ASSUME IInv, IInv', QuietInv, [Next]_vars, ~StartsOver PROVE ~StartsOver'
    OBVIOUS
  <1>1. faults = 0 /\ resets = 0 /\ faults' = 0 /\ resets' = 0
    BY DEF Steady, IInv, TypeOK
  <1>2. CASE PanicReset \/ ControlledReset \/ Watchdog
    <2>1. pc \in TestPcs
      BY <1>2 DEF PanicReset, ControlledReset, Watchdog, QuietInv, TestPcs
    <2>2. nvBoot \in Intermediate /\ nvBoot' = nvBoot
      BY <1>2, <2>1, Setting DEF PanicReset, ControlledReset, Watchdog, Reboot, nvVars
    <2> QED BY <2>2 DEF StartsOver
  <1>3. CASE PowerReset
    BY <1>1, <1>3 DEF PowerReset
  <1>4. CASE UNCHANGED vars
    BY <1>4 DEF vars, nvVars, StartsOver
  <1>5. CASE Entry \/ InitBoot \/ InitPrev \/ InitCnt
    BY <1>1, <1>5
    DEF Entry, InitBoot, InitPrev, InitCnt, nvVars, StartsOver, IInv, EntryInv
  <1>6. ASSUME pc' \notin {"entry", "initBoot", "initPrev", "initCnt", "standby"} PROVE ~StartsOver'
    BY <1>6 DEF StartsOver
  <1> QED
    BY <1>1, <1>2, <1>3, <1>4, <1>5, <1>6
    DEF Next, Program, Attempt, Goto, AfterInit, AfterNs, ReadPrev, ReadBoot, ReadCur,
        Load, WriteCur, Arm, TestInit, NsBoot, NsNext, SecBoot, SecArm, SecNext,
        PlainCheck, SetFlag, PanicHang, QuietReturn, Survives, ImportKey, OpenKey,
        CheckResult, TestExit, ReportStatus, Clear, ReadCnt, WriteCnt, WritePrev,
        FinalReport, Hang

\* A visible step of a steady system records or reports.
LEMMA StraightStep ==
    ASSUME Steady
    PROVE  IInv /\ IInv' /\ QuietInv /\ [Next]_vars =>
               [Suite!Record \/ Suite!Report]_(Suite!vars)
  <1>1. ASSUME IInv, IInv', StartsOver, StartsOver' PROVE UNCHANGED Suite!vars
    BY <1>1 DEF Suite!vars, StartsOver, Done, Tally, Reported
  <1> QED BY <1>1, VisibleStep, NeverStartsOver DEF Suite!vars

\* With neither faults nor unprovoked resets the suite goes straight through, for all tests:
\* no reset that a check, its hanging or its watchdog causes makes it start over.
THEOREM StraightRefinement ==
    ASSUME Steady PROVE Spec => ImplementsStraightSuite
  <1>1. Init => QuietInv
    BY DEF Init, QuietInv
  <1> QED
    BY <1>1, QuietStep, StraightStep, SuiteInit, Invariance, PTL
       DEF Spec, ImplementsStraightSuite, Suite!StraightSpec

=============================================================================
