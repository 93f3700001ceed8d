--------------------------- MODULE DriverPartition ---------------------------
(***************************************************************************)
(* The driver partition, which owns the UART, the watchdog, the NV memory  *)
(* and the interrupt line, and the tests that it takes part in.  A test    *)
(* starts the watchdog; in each of its checks a caller asks the partition  *)
(* for the address of some data of its own, accesses that address, which   *)
(* should fault, and asks what became of the data; or it asks for a check  *)
(* of the interrupt calls.  Meanwhile the server partition may be printing *)
(* that its half of the check has started.                                 *)
(*                                                                         *)
(* A fault resets the system, and where a partition is stopped instead the *)
(* watchdog does; the boot signature in NV_BOOT then decides what becomes  *)
(* of the test.                                                            *)
(***************************************************************************)
EXTENDS Naturals, Sequences

CONSTANTS
    Tests,      \* the tests, as the sequence of their checks
    Verbose,    \* the builds: whether the server partition prints PRINT_INFO messages
    Isolated,   \* the implementation under test isolates the driver partition
    MaxFaults   \* bound: NV accesses and watchdog calls that fail

WriteFns  == {"wr_data", "wr_heap", "wr_mmio"}
TestFns   == WriteFns \cup {"rd", "eoi", "eoi_intr", "irq"}
Flags     == {"not_expected", "expected_ns", "expected_s", "reenter", "but_failed"}
Actors    == {"tester", "printer"}
Services  == {"uart", "watchdog", "nvmem", "test"}

ASSUME TestsAssumption ==
    /\ Tests # {} /\ Tests \subseteq Seq(TestFns) \ {<<>>}
    /\ Verbose \subseteq BOOLEAN /\ Isolated \in BOOLEAN /\ MaxFaults \in Nat

VARIABLES
    nvBoot,     \* NV_BOOT
    verbose,    \* the build
    secure,     \* the checks of the test are run from the secure client partition
    test, chk,  \* the test and the check being run
    todo,       \* what is left of the client half of the check
    printed,    \* requests of the print that were answered
    req,        \* the request each actor is blocked in
    pc,         \* where the driver partition is
    msg,        \* whose message driver_main took last
    intr,       \* the interrupt of the driver partition
    dog,        \* the watchdog runs
    modified,   \* the data of the driver partition was changed
    verdict,    \* of the test
    tried,      \* observer: checks that came to the operation they are about
    disturbed,  \* observer: the implementation under test misbehaved
    faults      \* accesses that failed so far

clientVars == <<chk, todo, printed>>
driverVars == <<pc, msg, intr, dog, modified>>
obsVars    == <<tried, disturbed>>
vars == <<nvBoot, verbose, secure, test, clientVars, req, driverVars, verdict, obsVars, faults>>

-----------------------------------------------------------------------------
(* The client halves: requests to the driver partition, accesses, failure    *)

Op(svc, type, arg) == [svc |-> svc, type |-> type, arg |-> arg]
Access(type)       == Op("cpu", type, "none")
Failure            == Op("cpu", "fail", "none")
SetFlag(f) == <<Op("nvmem", "connect", "none"), Op("nvmem", "call", f), Op("nvmem", "close", "none")>>
Connect    == Op("test", "connect", "none")
Close      == Op("test", "close", "none")
PrintScript == <<Op("uart", "connect", "none"), Op("uart", "call", "none"), Op("uart", "close", "none")>>

CallDog(fn) ==
    <<Op("watchdog", "connect", "none"), Op("watchdog", "call", fn), Op("watchdog", "close", "none")>>

\* val_test_init and val_test_exit, which ends in the test's verdict v.
FirstCheck == Op("cpu", "begin", "none")
Result(v)  == Op("cpu", "result", v)
TestInit   == CallDog("init") \o CallDog("enable") \o <<FirstCheck>>
TestExit(v) == CallDog("disable") \o <<Result(v)>>

WriteScript(fn) ==
    <<Connect, Op("test", "call", fn), Access("write"), Op("test", "call", "status"), Close>>

Script ==
    [rd       |-> <<Connect, Op("test", "call", "rd"), Close>> \o SetFlag("reenter")
                      \o <<Access("read")>>,
     wr_data  |-> WriteScript("wr_data"),
     wr_heap  |-> WriteScript("wr_heap"),
     wr_mmio  |-> WriteScript("wr_mmio"),
     eoi      |-> <<Connect, Op("test", "call", "eoi"), Close, Failure>>,
     eoi_intr |-> <<Connect, Op("test", "call", "eoi_intr"), Close, Failure>>,
     irq      |-> <<Connect, Op("test", "call", "irq"), Close>>]

\* A refused call ends the half, most of them after the connection is closed.
AfterRefusal(r) ==
    LET close == Op(r.svc, "close", "none")
    IN  CASE r.arg = "disable"                -> <<close, Result("fail")>>
          [] r.arg \in WriteFns \cup {"rd"}   -> <<Failure>>
          [] OTHER                            -> <<close, Failure>>

\* The driver partition sends the first bytes at the address, not the address.
SendsAddress == FALSE

-----------------------------------------------------------------------------
(* Messages *)

NoRequest   == [op |-> Op("cpu", "none", "none"), at |-> "none"]
Sent(s)     == {p \in Actors : req[p].at = "sent" /\ req[p].op.svc = s}
Signals     == {s \in Services : Sent(s) # {}}
Goto(l)     == pc' = l

\* psa_get for service s; one client at a time has a message for it.
Get(p) == msg' = p /\ req' = [req EXCEPT ![p].at = "taken"]

\* psa_reply, on a handle that must be that of a message not yet replied to.
Reply(a, next) ==
    \/ /\ msg \in Actors /\ req[msg].at = "taken"
       /\ req' = [req EXCEPT ![msg].at = a] /\ Goto(next)
    \/ /\ ~(msg \in Actors /\ req[msg].at = "taken")
       /\ Goto("stray") /\ UNCHANGED req

\* A write of NV_BOOT, which may fail.
WriteBoot(f, works, breaks) ==
    \/ nvBoot' = f /\ works /\ faults' = faults
    \/ faults < MaxFaults /\ faults' = faults + 1 /\ breaks /\ nvBoot' = nvBoot

StartCheck(i) ==
    /\ chk' = i /\ todo' = Script[test[i]]
    /\ printed' = IF verbose THEN 0 ELSE Len(PrintScript)

\* The server partition prints only in a check.
StartTest(i) == chk' = i /\ todo' = TestInit /\ printed' = Len(PrintScript)

\* A reset: the program judges the check by its boot signature (ValDispatcher), or runs the
\* test again, to go on with its second check, whichever check was being run.
Reset ==
    /\ \/ /\ nvBoot = "reenter" /\ Len(test) > 1
          /\ StartTest(2) /\ UNCHANGED <<nvBoot, verdict>>
       \/ /\ ~(nvBoot = "reenter" /\ Len(test) > 1)
          /\ verdict' = IF nvBoot = "not_expected" THEN "sim_error"
                        ELSE IF nvBoot = "but_failed" THEN "fail" ELSE "pass"
          /\ UNCHANGED <<chk, todo, nvBoot, printed>>
    /\ req' = [p \in Actors |-> NoRequest]
    /\ Goto("wait") /\ msg' = "none" /\ intr' = "off" /\ dog' = FALSE /\ modified' = FALSE

Init ==
    /\ verbose \in Verbose /\ secure \in BOOLEAN /\ test \in Tests /\ nvBoot = "not_expected"
    /\ chk = 1 /\ todo = TestInit /\ printed = Len(PrintScript)
    /\ req = [p \in Actors |-> NoRequest]
    /\ pc = "wait" /\ msg = "none" /\ intr = "off" /\ dog = FALSE /\ modified = FALSE
    /\ verdict = "none" /\ tried = {} /\ disturbed = FALSE /\ faults = 0

\* A step of a test that has no verdict yet; v stays.
Leaves(v) == verdict = "none" /\ UNCHANGED <<verbose, secure, test, v>>

-----------------------------------------------------------------------------
(* The client half of the check, and the print of the server partition       *)

SendRequest ==
    /\ todo # <<>> /\ Head(todo).svc \in Services /\ req["tester"].at = "none"
    /\ req' = [req EXCEPT !["tester"] = [op |-> Head(todo), at |-> "sent"]]
    /\ Leaves(<<nvBoot, clientVars, driverVars, verdict, obsVars, faults>>)

\* A call that is refused ends the half, but for those that should never return.
GotAnswer ==
    /\ req["tester"].at \in {"ok", "refused"}
    /\ todo' = IF req["tester"].at = "refused" /\ Head(todo).arg \notin {"eoi", "eoi_intr"}
               THEN AfterRefusal(Head(todo)) ELSE Tail(todo)
    /\ req' = [req EXCEPT !["tester"] = NoRequest]
    /\ Leaves(<<nvBoot, chk, printed, driverVars, verdict, obsVars, faults>>)

Accessing == todo # <<>> /\ Head(todo) \in {Access("read"), Access("write")}
Tried     == tried' = tried \cup {chk}

\* The access faults: always possible where the address is not that of the
\* driver partition, and the only outcome but one where it is and is isolated.
AccessFaults ==
    /\ Accessing /\ (SendsAddress => Isolated)
    /\ Tried /\ Reset
    /\ Leaves(<<disturbed, faults>>)

\* It returns the value the check accepts as a sign that it was ignored, or
\* another one, for which the check changes the signature and fails.
ReadReturns ==
    /\ Accessing /\ Head(todo) = Access("read") /\ Tried
    /\ \/ todo' = Tail(todo) /\ disturbed' = disturbed
       \/ todo' = SetFlag("but_failed") \o <<Failure>> /\ disturbed' = TRUE
    /\ Leaves(<<nvBoot, chk, printed, req, driverVars, verdict, faults>>)

WriteReturns ==
    /\ Accessing /\ Head(todo) = Access("write") /\ Tried
    /\ modified' = (SendsAddress /\ ~Isolated)
    /\ todo' = Tail(todo)
    /\ Leaves(<<nvBoot, chk, printed, req, pc, msg, intr, dog, verdict, disturbed, faults>>)

\* The check ends when its server half has, which prints first.  Between two checks only the loop
\* of the non-secure side writes the signature.
EndCheck ==
    /\ todo \in {<<>>, <<Failure>>} /\ printed = Len(PrintScript)
    /\ IF todo = <<>> /\ chk < Len(test)
       THEN StartCheck(chk + 1) /\ nvBoot' = IF secure THEN nvBoot ELSE "not_expected"
       ELSE /\ todo' = TestExit(IF todo = <<>> THEN "pass" ELSE "fail")
            /\ UNCHANGED <<chk, printed, nvBoot>>
    /\ Leaves(<<req, driverVars, verdict, obsVars, faults>>)

\* The test goes from val_test_init to its checks, and from val_test_exit to its verdict.
EnterOrLeave ==
    /\ \/ todo = <<FirstCheck>> /\ StartCheck(chk) /\ nvBoot' = "not_expected" /\ UNCHANGED verdict
       \/ \E v \in {"pass", "fail"} :
             todo = <<Result(v)>> /\ verdict' = v /\ UNCHANGED <<clientVars, nvBoot>>
    /\ Leaves(<<req, driverVars, obsVars, faults>>)

\* val_print of the server partition: "SERVER TEST FUNC START".
SendPrint ==
    /\ printed < Len(PrintScript) /\ req["printer"].at = "none"
    /\ req' = [req EXCEPT !["printer"] = [op |-> PrintScript[printed + 1], at |-> "sent"]]
    /\ Leaves(<<nvBoot, clientVars, driverVars, verdict, obsVars, faults>>)

PrintAnswered ==
    /\ req["printer"].at = "ok"
    /\ printed' = printed + 1 /\ req' = [req EXCEPT !["printer"] = NoRequest]
    /\ Leaves(<<nvBoot, chk, todo, driverVars, verdict, obsVars, faults>>)

-----------------------------------------------------------------------------
(* Which service is next: the UART before the watchdog before the NV memory  *)
(* before the test functions                                                 *)

Turn(s) == /\ pc = "wait" /\ s \in Signals
           /\ s = "watchdog" => "uart" \notin Signals
           /\ s = "nvmem" => Signals \cap {"uart", "watchdog"} = {}
           /\ s = "test" => Signals = {"test"}

-----------------------------------------------------------------------------
(* Slips of the kind a change to the code could bring in; not part of the    *)
(* specification.                                                            *)

\* A disconnection is not replied to.
ServeUartDropsClose ==
    /\ Turn("uart")
    /\ \E p \in Sent("uart") :
          /\ msg' = p
          /\ req' = [req EXCEPT ![p].at = IF req[p].op.type = "close" THEN "taken" ELSE "ok"]
    /\ Leaves(<<nvBoot, clientVars, pc, intr, dog, modified, verdict, obsVars, faults>>)

\* Every kind of message is taken for a write.
ServeNvmemIgnoresType ==
    /\ Turn("nvmem")
    /\ \E p \in Sent("nvmem") :
          /\ msg' = p
          /\ WriteBoot(req[p].op.arg, req' = [req EXCEPT ![p].at = "ok"],
                                      req' = [req EXCEPT ![p].at = "refused"])
    /\ Leaves(<<clientVars, pc, intr, dog, modified, verdict, obsVars>>)

\* The signature is written after the reply.
FlagFirstNone == {}

\* The read check falls through into the write check of its switch.
TakeTestFallsThrough ==
    /\ Turn("test")
    /\ \E p \in Sent("test") :
          /\ msg' = p
          /\ \/ /\ req[p].op.type # "call" \/ req[p].op.arg = "rd"
                /\ req' = [req EXCEPT ![p].at = "ok"]
                /\ IF req[p].op.arg = "rd" THEN Goto("grant") ELSE UNCHANGED pc
             \/ /\ req[p].op.type = "call" /\ req[p].op.arg \in TestFns \ {"rd"}
                /\ req' = [req EXCEPT ![p].at = "taken"]
                /\ Goto(req[p].op.arg)
    /\ Leaves(<<nvBoot, clientVars, intr, dog, modified, verdict, obsVars, faults>>)

\* A signature that was written is replied to as well.
AnnounceReplies ==
    /\ pc = "announce"
    /\ WriteBoot("expected_s", Reply("ok", "grant"), Reply("refused", "grant"))
    /\ Leaves(<<clientVars, msg, intr, dog, modified, verdict, obsVars>>)

\* psa_eoi is missing.
IrqRoutingWithoutEoi ==
    /\ pc = "irq_wait" /\ Tried
    /\ intr = "asserted" /\ Reply("ok", "wait")
    /\ Leaves(<<nvBoot, clientVars, msg, intr, dog, modified, verdict, disturbed, faults>>)

-----------------------------------------------------------------------------
(* driver_main: one message at a time                                        *)

ServeUart ==
    /\ Turn("uart")
    /\ \E p \in Sent("uart") : msg' = p /\ req' = [req EXCEPT ![p].at = "ok"]
    /\ Leaves(<<nvBoot, clientVars, pc, intr, dog, modified, verdict, obsVars, faults>>)

\* Setting its time stops the watchdog.
ServeWatchdog ==
    /\ Turn("watchdog")
    /\ \E p \in Sent("watchdog") :
          /\ msg' = p
          /\ \/ /\ req' = [req EXCEPT ![p].at = "ok"] /\ UNCHANGED faults
                /\ dog' = IF req[p].op.type = "call" THEN req[p].op.arg = "enable" ELSE dog
             \/ /\ req[p].op.type = "call" /\ faults < MaxFaults /\ faults' = faults + 1
                /\ req' = [req EXCEPT ![p].at = "refused"] /\ UNCHANGED dog
    /\ Leaves(<<nvBoot, clientVars, pc, intr, modified, verdict, obsVars>>)

ServeNvmem ==
    /\ Turn("nvmem")
    /\ \E p \in Sent("nvmem") :
          /\ msg' = p
          /\ \/ /\ req[p].op.type # "call"
                /\ req' = [req EXCEPT ![p].at = "ok"] /\ UNCHANGED <<nvBoot, faults>>
             \/ /\ req[p].op.type = "call"
                /\ WriteBoot(req[p].op.arg, req' = [req EXCEPT ![p].at = "ok"],
                                            req' = [req EXCEPT ![p].at = "refused"])
    /\ Leaves(<<clientVars, pc, intr, dog, modified, verdict, obsVars>>)

\* The write checks on data and stack announce the reset before they reply with
\* the address, those on heap and MMIO after it.
FlagFirst == {"wr_data"}

\* The checks on MMIO look up the address in the database of the target, which may fail.
OfMmio == \E i \in DOMAIN test : test[i] = "wr_mmio"

TakeTest ==
    /\ Turn("test")
    /\ \E p \in Sent("test") :
          /\ msg' = p
          /\ \/ /\ req[p].op.type # "call"
                /\ req' = [req EXCEPT ![p].at = "ok"] /\ UNCHANGED <<pc, faults>>
             \/ /\ req[p].op.type = "call" /\ req[p].op.arg = "rd"
                /\ req' = [req EXCEPT ![p].at = "ok"] /\ UNCHANGED <<pc, faults>>
             \/ /\ req[p].op.type = "call" /\ req[p].op.arg \in {"rd", "wr_mmio"} /\ OfMmio
                /\ faults < MaxFaults /\ faults' = faults + 1
                /\ req' = [req EXCEPT ![p].at = "refused"] /\ UNCHANGED pc
             \/ /\ req[p].op.type = "call" /\ req[p].op.arg \in TestFns \ {"rd"}
                /\ req' = [req EXCEPT ![p].at = "taken"] /\ UNCHANGED faults
                /\ Goto(IF req[p].op.arg \in WriteFns
                        THEN IF req[p].op.arg \in FlagFirst THEN "announce" ELSE "grant"
                        ELSE req[p].op.arg)
    /\ Leaves(<<nvBoot, clientVars, intr, dog, modified, verdict, obsVars>>)

\* A signal that no branch is for: the interrupt was never ended.
Unexpected ==
    /\ pc = "wait" /\ Signals = {} /\ intr = "asserted"
    /\ Goto("stopped")
    /\ Leaves(<<nvBoot, clientVars, req, msg, intr, dog, modified, verdict, obsVars, faults>>)

-----------------------------------------------------------------------------
(* driver_test_isolation_psa_rot_*_wr                                        *)

WithFlagFirst == test[chk] \in FlagFirst

\* A failure to write the signature is replied to, and then ignored.
Announce ==
    /\ pc = "announce"
    /\ LET next == IF WithFlagFirst THEN "grant" ELSE "second"
       IN  WriteBoot("expected_s", Goto(next) /\ UNCHANGED req, Reply("refused", next))
    /\ Leaves(<<clientVars, msg, intr, dog, modified, verdict, obsVars>>)

Grant ==
    /\ pc = "grant"
    /\ Reply("ok", IF WithFlagFirst THEN "second" ELSE "announce")
    /\ Leaves(<<nvBoot, clientVars, msg, intr, dog, modified, verdict, obsVars, faults>>)

\* process_call_request waits for any signal.  When it is not the one of the
\* test functions the reply goes to the message of the call before.
SecondRequest ==
    /\ pc = "second" /\ Signals # {}
    /\ \/ \E p \in Sent("test") :
             /\ msg' = p
             /\ \/ /\ req[p].op.type = "call"
                   /\ req' = [req EXCEPT ![p].at = "taken"] /\ Goto("doubt")
                \/ /\ req[p].op.type # "call"
                   /\ req' = [req EXCEPT ![p].at = "ok"] /\ Goto("wait")
       \/ Sent("test") = {} /\ Reply("refused", "wait") /\ msg' = msg
    /\ Leaves(<<nvBoot, clientVars, intr, dog, modified, verdict, obsVars, faults>>)

\* The caller is still there, so the access did not fault.
Doubt ==
    /\ pc = "doubt"
    /\ WriteBoot("but_failed", Goto("compare") /\ UNCHANGED req, Reply("refused", "wait"))
    /\ Leaves(<<clientVars, msg, intr, dog, modified, verdict, obsVars>>)

Compare ==
    /\ pc = "compare" /\ test[chk] # "wr_mmio"
    /\ Reply(IF modified THEN "refused" ELSE "ok", "wait")
    /\ Leaves(<<nvBoot, clientVars, msg, intr, dog, modified, verdict, obsVars, faults>>)

\* For MMIO the address was overwritten with the pattern of the data: the
\* comparison reads from there.
CompareMmio ==
    /\ pc = "compare" /\ test[chk] = "wr_mmio"
    /\ \/ Reply("ok", "wait")
       \/ Reply("refused", "wait")
       \/ Goto("stopped") /\ UNCHANGED req
    /\ Leaves(<<nvBoot, clientVars, msg, intr, dog, modified, verdict, obsVars, faults>>)

-----------------------------------------------------------------------------
(* driver_test_psa_eoi_* and driver_test_irq_routing                         *)

\* val_generate_interrupt, after which the interrupt is asserted some time later.
Generate ==
    /\ pc \in {"irq", "eoi_intr"} /\ intr' = "raised"
    /\ Goto(IF pc = "irq" THEN "irq_wait" ELSE "eoi_wait")
    /\ Leaves(<<nvBoot, clientVars, req, msg, dog, modified, verdict, obsVars, faults>>)

Interrupt ==
    /\ intr = "raised" /\ intr' = "asserted"
    /\ Leaves(<<nvBoot, clientVars, req, pc, msg, dog, modified, verdict, obsVars, faults>>)

\* psa_wait for any signal: the interrupt, which stays asserted until psa_eoi, or
\* the message of somebody else.  The check fails when the signal is gone before
\* psa_eoi, or is still there after it.
IrqRouting ==
    /\ pc = "irq_wait"
    /\ \/ /\ intr = "asserted" /\ Tried
          /\ \/ Reply("ok", "wait") /\ intr' = "off" /\ disturbed' = disturbed
             \/ Reply("refused", "wait") /\ intr' \in {"off", "asserted"} /\ disturbed' = TRUE
       \/ /\ intr # "asserted" /\ Signals # {} /\ intr' = "off"
          /\ Reply("refused", "wait") /\ UNCHANGED obsVars
    /\ Leaves(<<nvBoot, clientVars, msg, dog, modified, verdict, faults>>)

EoiWait ==
    /\ pc = "eoi_wait" /\ intr = "asserted" /\ Goto("eoi")
    /\ Leaves(<<nvBoot, clientVars, req, msg, intr, dog, modified, verdict, obsVars, faults>>)

EoiAnnounce ==
    /\ pc = "eoi"
    /\ WriteBoot("expected_ns", Goto("eoi_now") /\ UNCHANGED req, Reply("refused", "wait"))
    /\ Leaves(<<clientVars, msg, intr, dog, modified, verdict, obsVars>>)

\* psa_eoi on a signal it is not for stops the partition, as it should ...
EoiStops ==
    /\ pc = "eoi_now" /\ Tried /\ Goto("stopped")
    /\ Leaves(<<nvBoot, clientVars, req, msg, intr, dog, modified, verdict, disturbed, faults>>)

\* ... or returns.
EoiReturns ==
    /\ pc = "eoi_now" /\ Tried /\ disturbed' = TRUE
    /\ WriteBoot("but_failed", Reply("refused", "wait"), Reply("refused", "wait"))
    /\ Leaves(<<clientVars, msg, intr, dog, modified, verdict>>)

\* A partition that is stopped answers nobody, until the watchdog resets the system.
Stopped ==
    /\ pc \in {"stopped", "stray"} /\ dog /\ Reset
    /\ Leaves(<<obsVars, faults>>)

Client == SendRequest \/ GotAnswer \/ AccessFaults \/ ReadReturns \/ WriteReturns \/ EndCheck \/ EnterOrLeave
Server == SendPrint \/ PrintAnswered
Driver ==
    \/ ServeUart \/ ServeWatchdog \/ ServeNvmem \/ TakeTest \/ Unexpected
    \/ Announce \/ Grant \/ SecondRequest \/ Doubt \/ Compare \/ CompareMmio
    \/ Generate \/ Interrupt \/ IrqRouting \/ EoiWait \/ EoiAnnounce \/ EoiStops \/ EoiReturns
    \/ Stopped

Next == Client \/ Server \/ Driver

Spec == Init /\ [][Next]_vars

\* The partition manager runs every partition that can run; an interrupt that
\* was raised arrives; a watchdog that runs bites.
FairSpec ==
    /\ Spec
    /\ WF_vars(Client)
    /\ WF_vars(Server)
    /\ WF_vars(Driver)

-----------------------------------------------------------------------------
(* Properties *)

Ops == {PrintScript[i] : i \in DOMAIN PrintScript}
       \cup {FirstCheck, Result("pass"), Result("fail")}
       \cup [svc : {"watchdog"}, type : {"connect", "call", "close"},
             arg : {"none", "init", "enable", "disable"}]
       \cup {Access("read"), Access("write"), Failure}
       \cup [svc : {"nvmem", "test", "cpu"}, type : {"connect", "call", "close", "none"},
             arg : Flags \cup TestFns \cup {"none", "status"}]

\* Every variable stays in its range; NV_BOOT holds a boot signature.
TypeOK ==
    /\ nvBoot \in Flags /\ verbose \in Verbose /\ secure \in BOOLEAN
    /\ test \in Tests /\ chk \in DOMAIN test
    /\ todo \in Seq(Ops) /\ printed \in 0..Len(PrintScript)
    /\ req \in [Actors -> [op : Ops, at : {"none", "sent", "taken", "ok", "refused"}]]
    /\ pc \in {"wait", "announce", "grant", "second", "doubt", "compare", "irq", "irq_wait",
              "eoi_intr", "eoi_wait", "eoi", "eoi_now", "stopped", "stray"}
    /\ msg \in Actors \cup {"none"} /\ intr \in {"off", "raised", "asserted"}
    /\ dog \in BOOLEAN /\ modified \in BOOLEAN /\ disturbed \in BOOLEAN /\ tried \subseteq DOMAIN test
    /\ verdict \in {"none", "pass", "fail", "sim_error"} /\ faults \in 0..MaxFaults

\* The checks of the heap and of MMIO let their client go before they write the signature.
Announces(i) == test[i] \notin {"wr_heap", "wr_mmio"}

\* When the client half makes the access that should fault, the reset it causes
\* has been announced: NV_BOOT tells it from one that nobody expected.
FaultIsAnnounced ==
    Accessing /\ Announces(chk) =>
        nvBoot = IF Head(todo) = Access("read") THEN "reenter" ELSE "expected_s"

\* The driver partition replies to a message it does not hold, which the partition manager
\* answers by stopping it, only in a write check: its second wait takes any signal, and a refused
\* announcement is replied to twice.
NoStrayReply == pc = "stray" => test[chk] \in WriteFns

\* Where the server partition does not print, a test passes only after each of its checks did
\* what it is there to do.
PassMeansTried == verdict = "pass" /\ ~verbose => tried = DOMAIN test

\* An implementation that conforms passes: a test fails only when the implementation misbehaved,
\* an NV access failed, a print came between, or the signature was not there yet.
ConformingPasses ==
    verdict \in {"fail", "sim_error"} =>
        disturbed \/ faults > 0 \/ verbose \/ \E i \in DOMAIN test : ~Announces(i)

\* An implementation that does not isolate the driver partition's data does not
\* pass a check that writes to it.
OpenIsolationCaught ==
    verdict = "pass" => Isolated \/ \A i \in DOMAIN test : test[i] \notin WriteFns

\* Every request is answered, or ended by a reset for which the watchdog was started: the test
\* gets its verdict.  An interrupt that a check leaves asserted is excused: driver_main takes it
\* for an unexpected signal and stops, perhaps after the test has stopped the watchdog.
LeftAsserted == pc = "wait" /\ intr = "asserted"
Judged       == <>(verdict # "none" \/ LeftAsserted)

-----------------------------------------------------------------------------
(* The tests that may be relied on *)

\* What PassMeansTried rests on.  val_dispatcher starts no test again after a reset that was
\* expected, so that only the last check of a test may end in one.  (A reset for which the test is
\* run again goes on with its second check: that a test ends takes a read check to be its first.)
OneReset == \A t \in Tests : \A i \in 1..Len(t) - 1 : t[i] \in {"rd", "irq"}

=============================================================================
