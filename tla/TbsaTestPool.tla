----------------------------- MODULE TbsaTestPool -----------------------------
(***************************************************************************)
(* The tests of the TBSA-v8M pool, as the suite sees them: for each half   *)
(* the steps of its entry hook, payload and exit hook that touch something *)
(* outliving the test or that can end it.  A test provokes a HardFault or  *)
(* a timer interrupt under a handler of its own, hides the configurable    *)
(* faults in SHCSR, and resets the system, so it has to put back the       *)
(* handlers, SHCSR, the routing of the interrupt and its request in        *)
(* NV_BOOT.  TbsaHandlers gives the steps their meaning.                   *)
(*                                                                         *)
(* The tests look up "the trusted timer" in the same way: one interrupt,   *)
(* TMR, stands for its interrupt in all of them.  A run of lookups and     *)
(* comparisons that each fail the test is one Check.                       *)
(***************************************************************************)
EXTENDS Naturals, Sequences

\* to: where the hook goes on when the step fails: the cleanup of the payload,
\* the next step, or its end.
Step(o, a)   == [op |-> o, arg |-> a, to |-> "end"]
OrCleanup(s) == [s EXCEPT !.to = "cleanup"]
OrGoOn(s)    == [s EXCEPT !.to = "next"]

Verdict(V)  == Step("verdict", V)      \* val->set_status, one of V
Pass        == Verdict({"pass"})
Fail        == Step("fail", {})        \* and return
IfSeen      == Step("ifSeen", {})      \* fail and return after a timeout or fault seen before
Check       == Step("check", {})       \* calls and comparisons; err_check_set, return
Quiet       == Step("quiet", {})       \* the same, without err_check_set: return as it is
Unheeded    == Step("unheeded", {})    \* the same, with a status that says success
Return      == Step("return", {})
MaySkip     == Step("maySkip", {})     \* RESULT_SKIP and return
MayReturn   == Step("mayReturn", {})   \* return with the status as it is
Clear       == Step("clear", {})       \* val->test_initialize: statics are zero
Describe    == Step("describe", {})    \* a lookup that sets a static descriptor
UseDesc     == Step("useDesc", {})     \* which a later step relies on
Maybe(n)    == Step("maybe", n)        \* the next n steps may be passed over
Again(n)    == Step("again", n)        \* the n steps before may be repeated

Setup(e, k) == Step("setup", <<e, k>>) \* interrupt_setup_handler; k: what the handler does.
                                       \* A number that is not valid fails a Check before
Restore(e)  == Step("restore", e)      \* interrupt_restore_handler
Save        == Step("save", {})        \* read SHCSR into a variable
Hide        == Step("hide", {})        \* write SHCSR without its enable bits
Put         == Step("put", {})         \* write SHCSR from the variable
SaveNv      == Step("saveNv", {})      \* read SHCSR, write NV_SHCSR
PutNv       == Step("putNv", {})       \* read NV_SHCSR, write SHCSR

OnRequest(f)  == Step("onRequest", f)  \* in the second run, on to "second"
Request(f)    == Step("request", f)    \* write NV_BOOT
Withdraw(f)   == Step("withdraw", f)
WriteFresh(f) == Step("writeFresh", f) \* withdraw, in a boot_t with no other field set
Trap          == Step("trap", {})      \* an access whose fault handler resets
ColdReset     == Step("coldReset", {})
Watchdog      == Step("watchdog", {})  \* wait for it to bite

Expect      == Step("expect", {})      \* RESULT_PENDING
Probe(m)    == Step("probe", m)        \* an access from NS that should fault, and the
                                       \* wait for it: "timed", "untimed", or "ignored"
                                       \* when it ends; or that may ("optional") or
                                       \* should not ("unwanted")
Trust(f)    == Step("trust", f)        \* a Check that withdraws f when it fails, and goes on
Route(w)    == Step("route", w)        \* the interrupt targets world w
RouteHeld   == Step("routeHeld", {})   \* the platform should not route it to NS: a Check
Pend        == Step("pend", {})
Unpend      == Step("unpend", {})
IrqOn       == Step("irqOn", {})
IrqOff      == Step("irqOff", {})
TimerOn     == Step("timerOn", {})
TimerOff    == Step("timerOff", {})
AwaitStatus == Step("awaitStatus", {}) \* while the status is pending, timed
AwaitFlag   == Step("awaitFlag", {})   \* until the handler sets a flag, timed

Half(entry, payload, exit) ==
    [entry |-> entry, payload |-> payload, second |-> <<>>, cleanup |-> <<>>, exit |-> exit]

Start   == <<Clear, Pass>>
Passing == Half(<<Pass>>, <<Pass>>, <<>>)
Empty   == Half(<<>>, <<>>, <<>>)

-----------------------------------------------------------------------------
(* base *)

B000S == Half(Start, <<Pass>>, <<>>)
B000N == Half(Start, <<Pass>>, <<>>)

\* A fault that is not expected fails the test, one that is missing does not.
B001S == Half(Start, <<Check, Setup("HF", "excuse"), Pass>>, <<>>)
B001N == Half(<<Clear, Save, Hide, Pass>>,
              <<Check, Maybe(5), Expect, Probe("unwanted"), IfSeen, Check, Again(4), Pass>>,
              <<Put, Restore("HF")>>)

B002S == Half(<<Pass>>, <<Check, Pass>>, <<>>)
B003S == Half(<<Pass>>, <<Check, Pass>>, <<>>)
B003N == Half(<<Pass>>, <<Check, Pass>>, <<>>)

B004S == Half(<<Setup("HF", "reset"), Pass>>, <<Pass>>, <<>>)
B004N == [Half(<<Pass>>,
               <<Describe, Check, SaveNv, Hide, OnRequest("wb"), Check, Request("wb"), Trap, Fail>>,
               <<UseDesc, WriteFresh("wb"), PutNv, Restore("HF")>>) EXCEPT !.second = <<Pass>>]

B005S == Half(<<Setup("HF", "judge"), Pass>>, <<Pass>>, <<>>)
\* Every protection unit is probed: none at all is a skip.
B005N == Half(<<Pass>>,
              <<Save, Hide, Maybe(3), Expect, Probe("untimed"), Again(2), Put,
                Verdict({"pass", "skip"})>>,
              <<Restore("HF")>>)

B006S == Half(<<Setup("HF", "judge"), Pass>>, <<Pass>>, <<>>)
B006N == Half(Start,
              <<Check, Save, Hide, Maybe(3), Expect, Probe("untimed"), Again(2), Put,
                Verdict({"pass", "skip"})>>,
              <<Restore("HF")>>)

B007S == Half(<<Pass>>, <<Check, Pass>>, <<>>)
B007N == Half(<<Pass>>, <<Check, Pass>>, <<>>)

-----------------------------------------------------------------------------
(* boot *)

S001S == Half(<<Setup("HF", "reset"), Pass>>, <<Pass>>, <<>>)
S001N == [Half(<<Pass>>,
               <<Check, OnRequest("wb"), SaveNv, Hide, Request("wb"), Trap, Fail>>,
               <<Restore("HF")>>)
          EXCEPT !.second = <<Withdraw("wb"), PutNv, Verdict({"pass", "skip"})>>]

-----------------------------------------------------------------------------
(* crypto *)

\* The handler of the timer counts, and in the end turns timer and interrupt off.
ProgramTimer == <<Check, Describe, Setup("TMR", "count")>>
ReinitTimer  == <<IrqOff, TimerOff, Check, IrqOn, TimerOn>>

C001S == Half(Start,
              <<Check>> \o ProgramTimer \o ReinitTimer
                  \o <<Check, Again(6), Check, Verdict({"pass", "skip"})>>,
              <<UseDesc, IrqOff, TimerOff>>)

\* The base address that cannot be set ends this half with the status as it is.
C001N == LET Guarded(s) == [i \in 1..Len(s) |-> OrCleanup(s[i])]
         IN  [Half(Start,
                   <<Quiet>> \o Guarded(ProgramTimer \o ReinitTimer
                       \o <<Check, Again(6), Check>>) \o <<Verdict({"pass", "skip"})>>,
                   <<>>)
              EXCEPT !.cleanup = <<UseDesc, TimerOff, IrqOff>>]

C002S == Half(Start, <<Check, Pass>>, <<>>)

C003S == Half(Start, <<Setup("HF", "pass over"), Check, MaySkip, Check, Pass>>, <<>>)
C003N == [Half(<<Clear, Save, Hide, Pass>>,
               <<OrCleanup(Check), OrCleanup(MaySkip), Probe("optional"), OrCleanup(Check), Pass>>,
               <<Restore("HF")>>) EXCEPT !.cleanup = <<Put>>]

C004S == Half(Start, <<Check, Again(1), Pass>>, <<>>)
C005S == Half(Start, <<Check, Pass>>, <<>>)
C006S == Half(Start, <<Check, Again(1), Pass>>, <<>>)

\* The access may be ignored, which the test accepts, and goes on as if resumed.
C007S == [Half(<<Clear, Setup("HF", "reset"), Pass>>,
               <<Check, OnRequest("wb"), Check, Request("wb"), SaveNv, Hide, OrGoOn(Trap), Check>>,
               <<Restore("HF")>>)
          EXCEPT !.second = <<Withdraw("wb"), PutNv, Pass>>]

C008S == Half(Start, <<Check, Again(1), Pass>>, <<>>)
C009S == Half(Start, <<Check, Pass>>, <<>>)
\* A fuse that does not hold what was written is printed, not judged.
C010S == Half(Start, <<Check, MaySkip, Check, Unheeded>>, <<>>)

\* As c007, but the handler is set up in the payload, after the first checks.
C011S == [Half(Start,
               <<Check, Setup("HF", "reset"), OnRequest("wb"), Check, Request("wb"), SaveNv, Hide,
                 Check, OrGoOn(Trap), Check>>,
               <<Restore("HF")>>)
          EXCEPT !.second = <<Withdraw("wb"), PutNv, Pass>>]

\* The non-secure half of c002, c004 to c011, d001 and d003 to d008 is empty.
C002N == Empty

-----------------------------------------------------------------------------
(* debug *)

\* The accesses of the debugger in d001 to d003 are the subject of TbsaDebug.
D001S == Half(Start, <<Check, MaySkip, Check, Pass>>, <<>>)
D002S == Half(<<Pass>>, <<>>, <<>>)
D002N == Half(Start, <<Check, MaySkip, Check, Pass>>, <<>>)
D003S == Half(Start, <<Check, MaySkip, Check, Pass>>, <<>>)

\* Looks, after a cold reset of its own, whether the debugger can read the memory
\* of a debug port that is locked.  A missing debugger is a skip.
D004S == [Half(Start,
               <<Check, OnRequest("cb"), MaySkip, Check, OrCleanup(MaySkip), OrCleanup(Check),
                 Maybe(4), OrCleanup(Request("cb")), OrCleanup(Check), ColdReset,
                 OrCleanup(Fail), Withdraw("cb"), Check, Pass, Return>>,
               <<>>)
          EXCEPT !.second = <<OrCleanup(Check)>>, !.cleanup = <<Withdraw("cb"), Check>>]

D005S == Half(Start, <<Check, Pass>>, <<>>)
D006S == Half(Start, <<Check, Verdict({"pass", "skip"})>>, <<>>)

\* The instances are taken from the header of the group, which has none: no debug port is
\* looked at, and unlock_token_certificate stays FALSE.
D007S == Half(Start, <<Check, Verdict({"skip"})>>, <<>>)

\* As c011.
D008S == [Half(Start,
               <<Check, Setup("HF", "reset"), OnRequest("wb"), Request("wb"), SaveNv, Hide,
                 Check, Maybe(3), OrGoOn(Trap), Check, Again(2)>>,
               <<Restore("HF")>>)
          EXCEPT !.second = <<Withdraw("wb"), PutNv, Pass>>]

-----------------------------------------------------------------------------
(* interrupts: the interrupt stays disabled except in i002 *)

I001S == Passing
I001N == Half(Start,
              <<Check, Describe, Check, Pend, Route("s"), Check, Route("ns"), Check, Pass>>,
              <<UseDesc, Route("s"), Unpend>>)

\* Without a trusted timer the cleanup restores a handler that was not set up.
I002N == [Half(Start,
               <<Check, Describe, OrCleanup(Check), Route("ns"), Setup("TMR", "flag"), Pend,
                 OrCleanup(AwaitFlag), Pass>>,
               <<>>)
          EXCEPT !.cleanup = <<Route("s"), Restore("TMR"), Unpend>>]

I003N == Half(Start,
              <<Check, Describe, Check, Pend, Check, Route("ns"), Check, Pass>>,
              <<UseDesc, Route("s"), Unpend>>)

\* An interrupt that does not stay with the secure world is withdrawn, but a call that fails
\* leaves it pending.
I004N == [Half(<<Pass>>,
               <<Check, Maybe(7), Pend, Check, OrCleanup(Check), OrCleanup(RouteHeld), Unpend,
                 Check, Again(6), Verdict({"pass", "skip"}), Return>>,
               <<>>)
          EXCEPT !.cleanup = <<Unpend>>]

-----------------------------------------------------------------------------
(* mem, peripherals *)

M001S == Half(Start, <<Check, Setup("HF", "judge"), Pass>>, <<>>)

\* Handler and SHCSR are put back by the payload, not by the exit hook.
M001N == Half(<<Clear, Save, Hide, Pass>>,
              <<Check, Maybe(4), Expect, OrGoOn(Probe("timed")), Check, Again(3),
                Restore("HF"), Put, IfSeen, Check, Pass>>,
              <<>>)

P001S == Half(Start, <<Setup("HF", "judge"), Pass>>, <<>>)
P001N == Half(<<Clear, Save, Hide, Pass>>,
              <<Check, Expect, Probe("untimed"), Restore("HF")>>,
              <<Put>>)

-----------------------------------------------------------------------------
(* timer *)

T001S == Half(Start,
              <<Check, Setup("TMR", "stop"), Route("s"), Expect, TimerOn,
                OrGoOn(AwaitStatus), Restore("TMR"), Check, Again(7), IfSeen,
                Setup("HF", "judge"), Pass>>,
              <<>>)
T001N == Half(Start,
              <<Save, Hide, Check, Maybe(5), Expect, Probe("untimed"), Expect, Probe("untimed"),
                Again(5), Put, Pass>>,
              <<Restore("HF")>>)

T002S == [Half(Start,
               <<Describe, Check, OnRequest("wdogb"), Check, Request("wdogb"), Watchdog, Fail>>,
               <<UseDesc, WriteFresh("wdogb")>>)
          EXCEPT !.second = <<Pass, Setup("HF", "judge")>>]

\* The wait for the first fault may time out, and that is not judged.
T002N == Half(<<Clear, Save, Hide, Pass>>,
              <<Check, Expect, OrGoOn(Probe("ignored")), Expect, Probe("untimed"), Check, Again(5)>>,
              <<Restore("HF"), Put>>)

T003S == Half(<<Pass>>, <<Setup("HF", "judge"), Pass>>, <<>>)

\* A clock that is not to be trusted fails the test and leaves the loop, and the
\* probes that follow end in RESULT_PASS.  A further secure clock has a request and a
\* reset of its own, after which all is as after those of the first: there is one here.
T003N == [Half(Start,
               <<Describe, Check, OnRequest("cb"), Check, MayReturn, Request("cb"), Check, ColdReset,
                 Fail>>,
               <<Restore("HF"), UseDesc, WriteFresh("cb")>>)
          EXCEPT !.second = <<Check, Trust("cb"), Save, Hide, Maybe(5), Expect, Probe("untimed"),
                              Expect, Probe("untimed"), Again(4), Put, Pass>>]

-----------------------------------------------------------------------------
(* version_counters *)

V001S == Half(Start, <<Setup("HF", "reset"), Pass>>, <<>>)
V001N == [Half(Start,
               <<Check, OrCleanup(Check), OnRequest("cb"), OrCleanup(Check),
                 OrCleanup(Request("cb")), SaveNv, Hide, Trap, OrCleanup(Fail)>>,
               <<>>)
          EXCEPT !.second  = <<OrCleanup(Withdraw("cb")), OrCleanup(PutNv), OrCleanup(Check), Pass>>,
                 !.cleanup = <<Restore("HF")>>]

-----------------------------------------------------------------------------
(* The pool, in the order of its components and identifiers. *)

Both(s, n) == [s |-> s, ns |-> n]
SOnly(s)   == Both(s, C002N)

Pool ==
    <<Both(B000S, B000N), Both(B001S, B001N), Both(B002S, Passing), Both(B003S, B003N),
      Both(B004S, B004N), Both(B005S, B005N), Both(B006S, B006N), Both(B007S, B007N),
      Both(S001S, S001N),
      Both(C001S, C001N), SOnly(C002S), Both(C003S, C003N), SOnly(C004S), SOnly(C005S),
      SOnly(C006S), SOnly(C007S), SOnly(C008S), SOnly(C009S), SOnly(C010S), SOnly(C011S),
      SOnly(D001S), Both(D002S, D002N), SOnly(D003S), SOnly(D004S), SOnly(D005S), SOnly(D006S),
      SOnly(D007S), SOnly(D008S),
      Both(I001S, I001N), Both(Passing, I002N), Both(Passing, I003N), Both(Passing, I004N),
      Both(M001S, M001N), Both(P001S, P001N),
      Both(T001S, T001N), Both(T002S, T002N), Both(T003S, T003N),
      Both(V001S, V001N)>>

=============================================================================
