----------------------------- MODULE TbsaHandlers -----------------------------
(***************************************************************************)
(* The tests of TbsaTestPool under the dispatcher of the TBSA-v8M suite,   *)
(* on the two vector tables of the platform, its SHCSR register, a timer   *)
(* interrupt that comes when it is due, and NV_BOOT and NV_SHCSR, which    *)
(* the resets that the tests provoke leave alone.                          *)
(*                                                                         *)
(* A handler is set up in the table of the world its function lies in, and *)
(* one global keeps the entry that is to be put back.  The code of a test  *)
(* is overwritten by the next one: a handler that is still installed then  *)
(* leads nowhere.                                                          *)
(***************************************************************************)
EXTENDS Naturals, Sequences

CONSTANTS
    Suite,        \* the tests, in order: records of a secure and a non-secure half
    NullWorld,    \* the world that address 0 belongs to
    Careless,     \* tests, by position, that set up a handler and never restore it
    Overlooking,  \* tests, by position, that may report PASS though a check failed
    MaxFails,     \* bound: checks that fail, and accesses that do not fault
    MaxRounds     \* bound: repetitions of a loop in one hook

Worlds   == {"s", "ns"}
Excs     == {"HF", "TMR"}
Flags    == {"wb", "cb", "wdogb"}
NumTests == Len(Suite)

ASSUME ConstantsAssumption ==
    /\ \A n \in 1..NumTests : DOMAIN Suite[n] = Worlds
    /\ NullWorld \in Worlds
    /\ Careless \subseteq 1..NumTests /\ Overlooking \subseteq 1..NumTests
    /\ MaxFails \in Nat /\ MaxRounds \in Nat

VARIABLES
    vec,        \* the vector tables: vec[w][e]
    undo,       \* restore_handler_addr
    irq,        \* the timer interrupt: enabled, pending, routed to ns, timer running
    shcsr,      \* SHCSR: its enable bits "found", "hidden", or "junk"
    nvShcsr, nvBoot,
    test,       \* the test loaded
    at,         \* half, block and step
    status,
    saved, described, \* statics of the test: SHCSR as read; its descriptor is set
    flag,       \* the flag that a handler sets
    seen,       \* a check of this test has failed
    mode,       \* "run", "reported", "default", "astray" or "hung"
    fails, rounds,
    failed      \* observer: the tests in which a check failed

nvVars     == <<nvShcsr, nvBoot>>
vectorVars == <<vec, undo>>
staticVars == <<saved, described, flag>>
bookVars   == <<test, failed>>
vars == <<vectorVars, irq, shcsr, nvVars, bookVars, at, status, staticVars, seen, mode, fails,
          rounds>>

\* What an entry may hold: a handler of a test, a default handler, or nothing.
Handler(n, w, k) == [test |-> n, world |-> w, kind |-> k]
Default(w, e)    == Handler(0, w, IF w = "ns" THEN "default" ELSE e)
Null             == Handler(0, NullWorld, "null")
DefaultTables    == [w \in Worlds |-> [e \in Excs |-> Default(w, e)]]
QuietIrq         == [on |-> FALSE, pending |-> FALSE, ns |-> FALSE, running |-> FALSE]

Block == Suite[test][at.half][at.block]
AtEnd == at.i > Len(Block)
Now   == Block[at.i]
Runs(op) == mode = "run" /\ ~AtEnd /\ Now.op = op

\* An interrupt that is enabled is taken before the next step.
Steps(op) == Runs(op) /\ ~(irq.on /\ irq.pending)

Skip(n) == at' = [at EXCEPT !.i = @ + n] /\ UNCHANGED rounds
Advance == Skip(1)
GoTo(b) == at' = [at EXCEPT !.block = b, !.i = 1] /\ rounds' = 0

\* Return from the hook: to the exit hook, or from the exit hook to its end.
Leave == IF at.block = "exit" THEN Skip(Len(Block) + 1 - at.i) ELSE GoTo("exit")
Elsewhere == CASE Now.to = "cleanup" -> GoTo("cleanup")
               [] Now.to = "next"    -> Advance
               [] OTHER              -> Leave

\* A failure of the platform, within the bound.
Breaks == fails < MaxFails /\ fails' = fails + 1 /\ seen' = TRUE
Works  == UNCHANGED <<fails, seen>>

\* err_check_set of a call that fails.
Rejects == Breaks /\ status' = "fail" /\ Elsewhere
Accepts == Works /\ UNCHANGED status /\ Advance

Verdicts == {"pass", "fail", "skip"}
Blocks   == <<"entry", "payload", "second", "cleanup", "exit">>
Hooks    == {Blocks[i] : i \in 1..5}
Kinds    == {"default", "null", "HF", "TMR", "excuse", "pass over", "judge", "reset", "count",
             "flag", "stop"}
Shcsr    == {"found", "hidden", "junk"}

Init ==
    /\ vec = DefaultTables /\ undo = Null /\ irq = QuietIrq
    /\ shcsr = "found" /\ nvShcsr = "junk" /\ nvBoot = {}
    /\ test = 1 /\ at = [half |-> "s", block |-> "entry", i |-> 1]
    /\ status = "pass" /\ saved = [w \in Worlds |-> "junk"] /\ described = {} /\ flag = FALSE
    /\ seen = FALSE /\ mode = "run" /\ fails = 0 /\ rounds = 0 /\ failed = {}

-----------------------------------------------------------------------------
(* Slips: what a small mistake in the code would make of a definition. *)

\* The handler is put back in the table of the world that asks for it.
RestoreHandlerHere ==
    /\ Steps("restore")
    /\ vec' = [vec EXCEPT ![at.half][Now.arg] = undo]
    /\ irq' = [irq EXCEPT !.on = @ /\ Now.arg # "TMR"]
    /\ Accepts
    /\ UNCHANGED <<undo, shcsr, nvVars, bookVars, staticVars, mode>>

\* The non-secure half starts whatever the secure half reported.
NextHalfAnyway ==
    /\ mode = "run" /\ AtEnd /\ ~(irq.on /\ irq.pending) /\ at.block = "exit" /\ at.half = "s"
    /\ at' = [half |-> "ns", block |-> "entry", i |-> 1] /\ rounds' = 0
    /\ UNCHANGED <<vectorVars, irq, shcsr, nvVars, bookVars, status, staticVars, seen, mode, fails>>

\* The test after the last one is loaded.
NextTestPastEnd ==
    /\ mode = "run" /\ AtEnd /\ ~(irq.on /\ irq.pending) /\ at.block = "exit" /\ at.half = "ns"
    /\ failed' = failed /\ test' = test + 1
    /\ at' = [half |-> "s", block |-> "entry", i |-> 1] /\ rounds' = 0
    /\ UNCHANGED <<vectorVars, irq, shcsr, nvVars, status, staticVars, seen, mode, fails>>

\* A handler is set up only where no test left another.
SetupHandlerOnce ==
    /\ Steps("setup")
    /\ LET e == Now.arg[1]
       IN  /\ undo' = vec[at.half][e]
           /\ vec' = IF vec[at.half][e].test # 0 THEN vec
                     ELSE [vec EXCEPT ![at.half][e] = Handler(test, at.half, Now.arg[2])]
           /\ irq' = [irq EXCEPT !.on = @ \/ e = "TMR"]
    /\ Accepts
    /\ UNCHANGED <<shcsr, nvVars, bookVars, staticVars, mode>>

\* After the payload the exit hook follows, without the cleanup.
NextBlockUncleaned ==
    /\ mode = "run" /\ AtEnd /\ ~(irq.on /\ irq.pending) /\ at.block # "exit"
    /\ GoTo(IF at.block = "entry" /\ status = "pass" THEN "payload" ELSE "exit")
    /\ UNCHANGED <<vectorVars, irq, shcsr, nvVars, bookVars, status, staticVars, seen, mode, fails>>

\* timer_isr leaves the interrupt pending.
OwnInterruptUncleared(kind) ==
    /\ kind \in {"count", "flag", "stop"} /\ UNCHANGED irq
    /\ flag' = (flag \/ kind = "flag")
    /\ status' = (IF kind = "stop" THEN IF status = "pending" THEN "pass" ELSE "fail" ELSE status)

-----------------------------------------------------------------------------
(* val_interrupt.c *)

\* val_interrupt_setup_handler, whose first part is val_interrupt_install_handler.
\* An exception number that is not valid is left to the Check before the step.
SetupHandler ==
    /\ Steps("setup")
    /\ LET e == Now.arg[1]
       IN  /\ undo' = vec[at.half][e]
           /\ vec' = [vec EXCEPT ![at.half][e] = Handler(test, at.half, Now.arg[2])]
           /\ irq' = [irq EXCEPT !.on = @ \/ e = "TMR"]
    /\ Accepts
    /\ UNCHANGED <<shcsr, nvVars, bookVars, staticVars, mode>>

\* The table is the one of the world that the kept handler lies in.
RestoreHandler ==
    /\ Steps("restore")
    /\ vec' = [vec EXCEPT ![undo.world][Now.arg] = undo]
    /\ irq' = [irq EXCEPT !.on = @ /\ Now.arg # "TMR"]
    /\ Accepts
    /\ UNCHANGED <<undo, shcsr, nvVars, bookVars, staticVars, mode>>

\* val_interrupt_route, set_pending, clear_pending, enable, disable; val_timer_enable, disable.
Control(op) == CASE op = "route"    -> [irq EXCEPT !.ns = Now.arg = "ns"]
                 [] op = "pend"     -> [irq EXCEPT !.pending = TRUE]
                 [] op = "unpend"   -> [irq EXCEPT !.pending = FALSE]
                 [] op = "irqOn"    -> [irq EXCEPT !.on = TRUE]
                 [] op = "irqOff"   -> [irq EXCEPT !.on = FALSE]
                 [] op = "timerOn"  -> [irq EXCEPT !.running = TRUE]
                 [] op = "timerOff" -> [irq EXCEPT !.running = FALSE]

ControlInterrupt ==
    /\ \E op \in {"route", "pend", "unpend", "irqOn", "irqOff", "timerOn", "timerOff"} :
        Steps(op) /\ irq' = Control(op)
    /\ Accepts
    /\ UNCHANGED <<vectorVars, shcsr, nvVars, bookVars, staticVars, mode>>

\* The platform may let the non-secure world have an interrupt that should stay secure.
RouteHeld ==
    /\ Steps("routeHeld")
    /\ \/ Accepts /\ UNCHANGED irq
       \/ Rejects /\ irq' = [irq EXCEPT !.ns = TRUE]
    /\ UNCHANGED <<vectorVars, shcsr, nvVars, bookVars, staticVars, mode>>

-----------------------------------------------------------------------------
(* SHCSR, NV_SHCSR and NV_BOOT *)

MaskFaults ==
    /\ \/ Steps("save") /\ saved' = [saved EXCEPT ![at.half] = shcsr] /\ UNCHANGED shcsr
       \/ Steps("hide") /\ shcsr' = "hidden" /\ UNCHANGED saved
       \/ Steps("put")  /\ shcsr' = saved[at.half] /\ UNCHANGED saved
    /\ Accepts
    /\ UNCHANGED <<vectorVars, irq, nvVars, bookVars, described, flag, mode>>

\* The accesses to NV memory that may fail; the request is withdrawn in the boot_t that
\* was read, or in one with no other field set.
UseNv ==
    /\ \/ /\ Accepts
          /\ \/ Steps("saveNv") /\ nvShcsr' = shcsr /\ UNCHANGED <<shcsr, nvBoot>>
             \/ Steps("putNv")  /\ shcsr' = nvShcsr /\ UNCHANGED nvVars
             \/ Steps("request")    /\ nvBoot' = nvBoot \cup {Now.arg} /\ UNCHANGED <<shcsr, nvShcsr>>
             \/ Steps("withdraw")   /\ nvBoot' = nvBoot \ {Now.arg} /\ UNCHANGED <<shcsr, nvShcsr>>
             \/ Steps("writeFresh") /\ nvBoot' = {} /\ UNCHANGED <<shcsr, nvShcsr>>
       \/ /\ \E op \in {"saveNv", "putNv", "request", "withdraw", "writeFresh"} : Steps(op)
          /\ Rejects /\ UNCHANGED <<shcsr, nvVars>>
    /\ UNCHANGED <<vectorVars, irq, bookVars, staticVars, mode>>

\* The second run of the test goes on elsewhere.
AskNv ==
    /\ Steps("onRequest")
    /\ \/ Works /\ UNCHANGED status /\ IF Now.arg \in nvBoot THEN GoTo("second") ELSE Advance
       \/ Rejects
    /\ UNCHANGED <<vectorVars, irq, shcsr, nvVars, bookVars, staticVars, mode>>

\* A clock that is not to be trusted withdraws the request and fails the test.
TrustClock ==
    /\ Steps("trust")
    /\ \/ Accepts /\ UNCHANGED nvBoot
       \/ Breaks /\ status' = "fail" /\ nvBoot' = nvBoot \ {Now.arg} /\ Advance
    /\ UNCHANGED <<vectorVars, irq, shcsr, nvShcsr, bookVars, staticVars, mode>>

-----------------------------------------------------------------------------
(* Steps that only judge *)

JudgePlainly ==
    /\ \/ Steps("verdict") /\ status' \in Now.arg /\ Works /\ Advance
       \/ Steps("expect") /\ status' = "pending" /\ Works /\ Advance
       \/ Steps("fail") /\ status' = "fail" /\ seen' = TRUE /\ UNCHANGED fails /\ Elsewhere
       \/ Steps("ifSeen") /\ IF seen THEN status' = "fail" /\ Works /\ Elsewhere ELSE Accepts
    /\ UNCHANGED <<vectorVars, irq, shcsr, nvVars, bookVars, staticVars, mode>>

JudgeCall ==
    /\ \/ Steps("check") /\ (Accepts \/ Rejects)
       \/ /\ \/ Steps("quiet")
             \/ Steps("unheeded")
          /\ Accepts \/ (Breaks /\ UNCHANGED status /\ Elsewhere)
       \/ Steps("return") /\ Works /\ UNCHANGED status /\ Leave
       \/ Steps("maySkip") /\ (Accepts \/ (Works /\ status' = "skip" /\ Elsewhere))
       \/ Steps("mayReturn") /\ (Accepts \/ (Works /\ UNCHANGED status /\ Leave))
    /\ UNCHANGED <<vectorVars, irq, shcsr, nvVars, bookVars, staticVars, mode>>

Loop ==
    /\ \/ Steps("maybe") /\ (Advance \/ Skip(Now.arg + 1))
       \/ Steps("again") /\ at' = [at EXCEPT !.i = @ + 1] /\ rounds' = 0
       \/ /\ Steps("again") /\ rounds < MaxRounds
          /\ at' = [at EXCEPT !.i = @ - Now.arg] /\ rounds' = rounds + 1
    /\ Works
    /\ UNCHANGED <<vectorVars, irq, shcsr, nvVars, bookVars, staticVars, status, mode>>

-----------------------------------------------------------------------------
(* The statics of a test *)

\* val_test_initialize zeroes them.
Initialize ==
    /\ Steps("clear")
    /\ saved' = [saved EXCEPT ![at.half] = "hidden"]
    /\ described' = described \ {at.half} /\ flag' = FALSE
    /\ Accepts
    /\ UNCHANGED <<vectorVars, irq, shcsr, nvVars, bookVars, mode>>

Describe ==
    /\ Steps("describe")
    /\ \/ Accepts /\ described' = described \cup {at.half}
       \/ Rejects /\ UNCHANGED described
    /\ UNCHANGED <<vectorVars, irq, shcsr, nvVars, bookVars, saved, flag, mode>>

\* Without a descriptor the next call has an address from nowhere: it may return an
\* error, or do anything.
UseDescriptor ==
    /\ Steps("useDesc") /\ Works
    /\ \/ at.half \in described /\ Advance /\ UNCHANGED <<status, mode>>
       \/ at.half \notin described /\ Leave /\ status' = "fail" /\ UNCHANGED mode
       \/ at.half \notin described /\ mode' = "astray" /\ UNCHANGED <<at, rounds, status>>
    /\ UNCHANGED <<vectorVars, irq, shcsr, nvVars, bookVars, staticVars>>

-----------------------------------------------------------------------------
(* Faults, interrupts and resets *)

\* Where a fault of the non-secure world goes: to the handler of SecureFault or BusFault
\* while these are enabled, otherwise to that of HardFault.
FaultHandlers ==
    {h \in {Default("s", "HF"), vec["s"]["HF"]} :
        (shcsr = "found" => h = Default("s", "HF")) /\ (shcsr = "hidden" => h = vec["s"]["HF"])}

\* The handlers of the test pool, and what becomes of the test under any other.
Excused == status' = IF status = "pending" THEN "pass" ELSE "fail"
Lost(h) == mode' = IF h.test = 0 /\ h.kind # "null" THEN "default" ELSE "astray"

Reboot ==
    /\ vec' = DefaultTables /\ undo' = Null /\ irq' = QuietIrq /\ shcsr' = "found"
    /\ test' = (IF nvBoot = {} THEN 1 ELSE test)
    /\ at' = [half |-> "s", block |-> "entry", i |-> 1] /\ rounds' = 0
    /\ saved' = [w \in Worlds |-> "junk"] /\ described' = {} /\ flag' = FALSE
    /\ seen' = FALSE
    /\ UNCHANGED <<nvVars, failed, status, fails, mode>>

NoReboot == UNCHANGED <<vectorVars, irq, shcsr, nvVars, bookVars, staticVars>>

TakenBy(h) ==
    \/ /\ h.test = test /\ h.kind = "judge"
       /\ Excused /\ Advance /\ Works /\ UNCHANGED mode
    \/ /\ h.test = test /\ h.kind = "pass over"
       /\ Accepts /\ UNCHANGED mode
    \/ /\ h.test # test
       /\ Lost(h) /\ Works /\ UNCHANGED <<at, rounds, status>>

\* An access that should fault, and the wait for the handler to judge it: with a bound, without
\* one, or with one whose end is not noticed.
Probe ==
    /\ Steps("probe") /\ Now.arg \in {"timed", "untimed", "ignored"}
    /\ \/ \E h \in FaultHandlers : TakenBy(h)
       \/ Now.arg = "timed" /\ Rejects /\ UNCHANGED mode
       \/ Now.arg = "untimed" /\ Breaks /\ mode' = "hung" /\ UNCHANGED <<at, rounds, status>>
       \/ Now.arg = "ignored" /\ Breaks /\ Advance /\ UNCHANGED <<status, mode>>
    /\ NoReboot

\* An access that may fault, or one that should not.
ProbeFreely ==
    /\ Steps("probe") /\ Now.arg \in {"optional", "unwanted"}
    /\ \/ Accepts /\ UNCHANGED mode
       \/ Now.arg = "optional" /\ \E h \in FaultHandlers : TakenBy(h)
       \/ /\ Now.arg = "unwanted" /\ Breaks
          /\ \E h \in FaultHandlers :
                \/ h.kind = "excuse" /\ status' = "fail" /\ Advance /\ UNCHANGED mode
                \/ h.kind # "excuse" /\ Lost(h) /\ UNCHANGED <<at, rounds, status>>
    /\ NoReboot

\* An access whose handler resets the system.  Some tests accept that it is ignored.
Trap ==
    /\ Steps("trap")
    /\ \/ \E h \in FaultHandlers : h.test = test /\ h.kind = "reset" /\ Reboot
       \/ NoReboot /\ \E h \in FaultHandlers : h.kind # "reset" /\ TakenBy(h)
       \/ NoReboot /\ Now.to = "next" /\ Accepts /\ UNCHANGED mode
       \/ NoReboot /\ Now.to # "next" /\ Breaks /\ Advance /\ UNCHANGED <<status, mode>>

\* A reset that is asked for, or a watchdog that bites.
AskForReset ==
    /\ Steps("coldReset") \/ Steps("watchdog")
    /\ \/ Reboot
       \/ NoReboot /\ Breaks /\ Advance /\ UNCHANGED <<status, mode>>

\* The timer is due: a step of its own, at any time.
TimerFires ==
    /\ mode = "run" /\ irq.running /\ ~irq.pending
    /\ irq' = [irq EXCEPT !.pending = TRUE]
    /\ UNCHANGED <<vectorVars, shcsr, nvVars, bookVars, at, status, staticVars, seen, mode,
                   fails, rounds>>

\* timer_isr of the test that is loaded.  That of test_c001, once it has a key, returns a
\* few times with the interrupt pending as it was: a step that changes nothing here.
OwnInterrupt(kind) ==
    \/ kind = "count" /\ UNCHANGED <<status, flag>> /\ irq' \in {[irq EXCEPT !.pending = FALSE],
                                                               [QuietIrq EXCEPT !.ns = irq.ns]}
    \/ kind = "flag" /\ flag' = TRUE /\ UNCHANGED status /\ irq' = [irq EXCEPT !.pending = FALSE]
    \/ kind = "stop" /\ Excused /\ UNCHANGED flag
       /\ irq' = [irq EXCEPT !.pending = FALSE, !.running = FALSE]

Interrupt ==
    /\ mode = "run" /\ irq.on /\ irq.pending
    /\ LET h == vec[IF irq.ns THEN "ns" ELSE "s"]["TMR"]
       IN  \/ h.test = test /\ OwnInterrupt(h.kind) /\ UNCHANGED mode
           \/ h.test # test /\ Lost(h) /\ UNCHANGED <<irq, status, flag>>
    /\ UNCHANGED <<vectorVars, shcsr, nvVars, bookVars, at, saved, described, seen, fails, rounds>>

\* The loops that wait for the interrupt; what they wait for may not come in time.
Await ==
    /\ \/ /\ Steps("awaitStatus")
          /\ (status # "pending" /\ Accepts) \/ Rejects
       \/ /\ Steps("awaitFlag")
          /\ (flag /\ Accepts) \/ Rejects
    /\ UNCHANGED <<vectorVars, irq, shcsr, nvVars, bookVars, staticVars, mode>>

-----------------------------------------------------------------------------
(* tbsa_dispatcher *)

BlockEnds == mode = "run" /\ AtEnd /\ ~(irq.on /\ irq.pending)

\* From a hook to the next one of the same half.
NextBlock ==
    /\ BlockEnds /\ at.block # "exit"
    /\ CASE at.block = "entry"   -> GoTo(IF status = "pass" THEN "payload" ELSE "exit")
         [] at.block = "payload" -> GoTo("second")
         [] at.block = "second"  -> GoTo("cleanup")
         [] at.block = "cleanup" -> GoTo("exit")
    /\ UNCHANGED <<vectorVars, irq, shcsr, nvVars, bookVars, status, staticVars, seen, mode, fails>>

\* The exit hook of the non-secure half runs whatever became of its entry hook.
NextHalf ==
    /\ BlockEnds /\ at.block = "exit" /\ at.half = "s"
    /\ at' = [half |-> "ns", block |-> (IF status = "pass" THEN "entry" ELSE "exit"), i |-> 1]
    /\ rounds' = 0
    /\ UNCHANGED <<vectorVars, irq, shcsr, nvVars, bookVars, status, staticVars, seen, mode, fails>>

\* The test is counted, and the next one is loaded over it.
TestEnds == BlockEnds /\ at.block = "exit" /\ at.half = "ns"

NextTest ==
    /\ TestEnds
    /\ failed' = IF seen \/ status = "fail" THEN failed \cup {test} ELSE failed
    /\ IF test < NumTests THEN test' = test + 1 /\ UNCHANGED mode
                          ELSE mode' = "reported" /\ UNCHANGED test
    /\ at' = [half |-> "s", block |-> "entry", i |-> 1] /\ rounds' = 0
    /\ saved' = [w \in Worlds |-> "junk"] /\ described' = {} /\ flag' = FALSE /\ seen' = FALSE
    /\ UNCHANGED <<vectorVars, irq, shcsr, nvVars, status, fails>>

Stopped == mode # "run" /\ UNCHANGED vars

Thread ==
    \/ SetupHandler \/ RestoreHandler \/ ControlInterrupt \/ RouteHeld \/ MaskFaults \/ UseNv
    \/ AskNv \/ TrustClock \/ JudgePlainly \/ JudgeCall \/ Loop \/ Initialize \/ Describe
    \/ UseDescriptor \/ Probe \/ ProbeFreely \/ Trap \/ AskForReset \/ Await
    \/ NextBlock \/ NextHalf \/ NextTest

Next == Thread \/ Interrupt \/ TimerFires \/ Stopped

Spec == Init /\ [][Next]_vars

\* Between two interrupts of a timer the program takes a step: strong fairness, as each
\* interrupt holds the program up.
FairSpec == Spec /\ SF_vars(Thread) /\ WF_vars(Interrupt) /\ WF_vars(TimerFires)
-----------------------------------------------------------------------------
(* Properties *)

Handlers == {Handler(n, w, k) : n \in 0..NumTests, w \in Worlds, k \in Kinds}

\* The state is of the kind that the code's variables and registers have.
TypeOK ==
    /\ vec \in [Worlds -> [Excs -> Handlers]] /\ undo \in Handlers
    /\ irq \in [on : BOOLEAN, pending : BOOLEAN, ns : BOOLEAN, running : BOOLEAN]
    /\ shcsr \in Shcsr /\ nvShcsr \in Shcsr /\ nvBoot \subseteq Flags
    /\ test \in 1..NumTests /\ failed \subseteq 1..NumTests
    /\ at \in [half : Worlds, block : Hooks, i : Nat \ {0}] /\ at.i <= Len(Block) + 1
    /\ status \in Verdicts \cup {"pending"} /\ saved \in [Worlds -> Shcsr]
    /\ described \subseteq Worlds /\ flag \in BOOLEAN /\ seen \in BOOLEAN
    /\ mode \in {"run", "reported", "default", "astray", "hung"}
    /\ fails \in 0..MaxFails /\ rounds \in 0..MaxRounds

\* A test that makes an access which should fault has its own HardFault handler in the table and
\* the other fault handlers off, whatever failed in the tests before it.
HandlerIsOwn ==
    (Steps("trap") \/ Steps("probe")) => vec["s"]["HF"].test = test /\ shcsr = "hidden"

\* What a test changes for itself it puts back: a suite without failures has, after each test, the
\* vector tables, SHCSR, the interrupt and NV_BOOT as it found them; an interrupt that came after
\* it was disabled may stay pending.
LeavesAsFound ==
    TestEnds /\ fails = 0 =>
        /\ \A w \in Worlds, e \in Excs :
              vec[w][e] = Default(w, e) \/ (e = "TMR" /\ vec[w][e].test \in Careless)
        /\ shcsr = "found" /\ nvBoot = {} /\ [irq EXCEPT !.pending = FALSE] = QuietIrq

\* A handler of another test that is still in a table was left by a test that failed, and so were
\* fault handlers that are off when a test is loaded: by one that turned them off.
Masking ==
    {n \in 1..NumTests : \E w \in Worlds : \E b \in DOMAIN Suite[n][w] :
        \E i \in DOMAIN Suite[n][w][b] : Suite[n][w][b][i].op \in {"hide", "put", "putNv"}}

StaleOnlyFromFailed ==
    /\ \A w \in Worlds, e \in Excs : vec[w][e].test \in {0, test} \cup failed \cup Careless
    /\ at = [half |-> "s", block |-> "entry", i |-> 1] /\ shcsr # "found" =>
          failed \cap Masking # {}

\* A check that failed is what the test reports.
FailureStands == TestEnds /\ seen /\ test \notin Overlooking => status # "pass"

\* On a platform that does nothing wrong the suite comes to its report: no fault or interrupt is
\* taken by a default handler or by the handler of a test that is gone, or waited for in vain.
Reports == <>(mode = "reported" \/ fails > 0)
-----------------------------------------------------------------------------
(* What a suite has to be for the theorems of TbsaHandlersProofs. *)

\* Step i of block b has an argument that its operation can use: an exception and what its
\* handler does, a request, verdicts, or a number of steps that leads nowhere outside the block.
StepFits(b, i) ==
    /\ b[i].op = "setup" => b[i].arg[1] \in Excs /\ b[i].arg[2] \in Kinds
    /\ b[i].op = "restore" => b[i].arg \in Excs
    /\ b[i].op = "request" => b[i].arg \in Flags
    /\ b[i].op = "verdict" => b[i].arg \subseteq Verdicts
    /\ b[i].op = "maybe" => b[i].arg \in Nat /\ i + b[i].arg <= Len(b)
    /\ b[i].op = "again" => b[i].arg \in Nat /\ b[i].arg < i

SuiteFits ==
    /\ NumTests \in Nat \ {0}
    /\ \A n \in 1..NumTests, w \in Worlds, h \in Hooks :
          /\ Len(Suite[n][w][h]) \in Nat
          /\ \A i \in 1..Len(Suite[n][w][h]) : StepFits(Suite[n][w][h], i)
=============================================================================
