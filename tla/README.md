# A TLA+ model of psa-arch-tests

`psa-arch-tests` holds two test suites: **api-tests**, which checks that a
platform implements the PSA Firmware Framework and the PSA developer APIs
(crypto, storage, attestation), and **tbsa-v8m**, which checks the hardware
requirements of TBSA-v8M. Both are programs that provoke faults and resets on
purpose and must still account for every test afterwards. What is hard in them
is not a single test but the machinery around the tests: what is kept in
non-volatile memory, when it is written, who waits for whom, and what a reset
at the wrong moment does. That machinery is what these modules describe.

What a test asserts about the implementation under test is that
implementation's business; in the models it is a choice the implementation
makes.

## 1. The system

### 1.1 Components

Paths are below `src/`.

| Component | Source | State it keeps | Operations | Talks to |
|---|---|---|---|---|
| Suite dispatcher (non-secure) | `api-tests/val/nspe/val_entry.c`, `val_dispatcher.c`, `val_framework.c` | NV cells `NV_BOOT`, `NV_TEST_ID_PREVIOUS`, `NV_TEST_ID_CURRENT`, `NV_TEST_CNT`; registers `test_id`, `test_id_prev`, `boot`, `test_count`; status buffer | decide first boot or resumed boot, load the next test, arm `NV_BOOT`, run it, derive a verdict, book it, report | driver partition (NV memory, watchdog, UART) by synchronous requests; client and server partition |
| Check dispatch | `val_framework.c` (non-secure), `val/spe/val_partition_common.h` (secure) | position in the list of checks, handle, status | connect, start the server half, run the client half, collect, close | client partition, server partition |
| Client and server partition | `ff/partition/ipc/client_partition.c`, `server_partition.c` | `test_data` (is a dispatcher connected), `test_status` | CONNECT, CALL (execute, return result), DISCONNECT | each other, driver partition |
| Driver partition | `ff/partition/common/driver_partition.c`, `val/spe/val_driver_service_apis.c` | the message in hand, `driver_test_fn_id`, `g_psa_rot_data`, the watchdog | UART, watchdog, NV memory and test-function services | every other part; writes `NV_BOOT` itself |
| Framework tests | `ff/ipc/test_i*` | - | client half and server half of each check, boot signatures around expected faults | all partitions |
| Persistent-key tests | `dev_apis/crypto/test_c050`, `test_c051` | `NV_TEST_DATA1..3` | import keys, request a reset, reopen | dispatcher through `NV_BOOT` |
| Other crypto, storage, attestation tests | `dev_apis` | - | call sequences with expected status | API under test |
| Target configuration | `val/common/val_target.c`, `tools/scripts/target_cfg`, `tbsa-v8m/val/src/val_infra.c`, `val_fuse.c`, `val_crypto.c`, `val_peripherals.c` | packed records; the loops' component and instance numbers | find a record by its identifier; search, repeat or sweep over records | everyone |
| PAL | `platform` | registers, NV array | byte and register accesses | driver partition |
| TBSA dispatcher | `tbsa-v8m/val/src/val_dispatcher.c`, `val_infra.c`, `val_test.c` | NV RAM: last test, counters, requests for a reset | load, run S and NS halves, book, report | PAL |
| TBSA interrupts | `tbsa-v8m/val/src/val_interrupt.c`, `val_pe.c` | vector tables of both worlds, one saved handler, SHCSR, the timer interrupt | install, restore, route, pend, mask faults | tests |
| TBSA test pool | `tbsa-v8m/test_pool` | its statics, `NV_SHCSR`, requests in `NV_BOOT` | entry hook, payload, exit hook of a secure and a non-secure half | dispatcher, interrupts, debugger |
| TBSA debug | `tbsa-v8m/val/src/val_debug.c`, `tools/debug`, `test_pool/debug` | flag and data words shared with a debugger, the state of the debug port | announce a datum, wait, take the answer | debugger script |
| TBSA peripherals, crypto, PAL | rest of `tbsa-v8m` | device registers | register accesses | tests |

### 1.2 What is hard

* **Resets.** A check that must panic sets a boot signature in `NV_BOOT`, does
  the forbidden operation, and is judged after the reset by what the signature
  says. Every NV access is a place at which a reset can strike.
* **Hangs.** The implementation under test may hang instead of resetting; only a
  watchdog that was started earlier gets the suite on.
* **Partial failure.** Every NV access, watchdog call and request can fail; the
  code handles some of these failures, ignores others and returns early from
  many.
* **Stale state.** The signature of an earlier check, the result of an earlier
  half, a connection that was not closed.
* **Two halves of a check running concurrently**, with a third party (the
  dispatcher) whose message wakes the same `psa_wait(PSA_WAIT_ANY)`.
* **Shared services.** The driver partition serves prints, NV accesses and test
  functions from one loop, and in the middle of a test function waits for
  *any* signal.

### 1.3 What makes each part correct

* Dispatcher: the NV cells always describe a prefix of the suite whenever a
  reset would be resumed; every report accounts for every test; a verdict is the
  one the checks deserve; the suite ends.
* Check dispatch: success is reported only when both halves of every check
  succeeded; no connection or result of one check leaks into the next; nobody
  waits in a circle; an implementation that behaves as the checks allow passes.
* Driver partition: a fault that a check announces is announced before it can
  happen; the partition never replies to a message it does not hold; whatever it
  is stopped by, a watchdog is running.
* Persistent keys: a reset resumes the data set it interrupted, with the data of
  that set.
* Target configuration: a lookup returns the record with that identifier or none;
  a loop over records does its work for each of them, once.
* TBSA dispatcher: counters and last test agree after a reset; a test that
  cannot be loaded does not stop the suite.
* TBSA tests: a fault is taken by the handler of the test that provokes it; a
  test leaves tables, registers and NV cells as it found them; a failure that
  was seen is reported.
* TBSA debug: every request of the target is answered by the script and no
  answer is lost; what a test says of the debug port is true of it.

## 2. The plan

1. `SuiteProgress` - what a suite promises: verdicts are booked one at a time or
   all dropped. **Done.**
2. `ValDispatcher` - the dispatcher over NV memory with resets at every access;
   implements `SuiteProgress`. **Done**, proofs in `ValDispatcherProofs` and
   `ValVerdictProofs`.
3. `SecureDispatch` - both lists of checks, client and server partition, and the
   two halves of a check. **Done**, proofs in `SecureDispatchProofs`.
4. `DriverPartition` - its services, isolation and interrupt checks, with the
   watchdog, a printing partition and resets by faults. **Done**, proofs in
   `DriverPartitionProofs`.
5. `TbsaDispatcher` - the TBSA dispatcher over its NV memory, with the tests that
   provoke resets; implements `SuiteProgress` too. **Done**, proofs in
   `TbsaDispatcherProofs`.
6. `TbsaTestPool`, `TbsaHandlers` - all tests of the pool on the vector tables,
   the interrupt and the registers they share. **Done**; `TbsaOutline`, what each
   test is by itself, and proofs in `TbsaHandlersProofs`.
7. `TargetCfg` - the record walk and the loops that use it. **Done**, proofs in
   `TargetCfgProofs`.
8. `TbsaDebug` - the handshake of the target with the debugger script.
   **Done**, proofs in `TbsaDebugProofs`.
9. `PersistentKey` - data set index and key data in NV memory, resets between
   their writes; an abstract "each data set once, in order" that it implements.
   Left.

`ValDispatcher` treats a check as one step with an outcome; `SecureDispatch`
opens that step. They meet in `First`, the check at which a list is entered, and
in the outcome of a check. `DriverPartition` opens the NV access and the
boot signature of one kind of check, and carries with it the rule by which
`ValDispatcher` judges a check after a reset. `TbsaDispatcher` knows of a test
only its request for a reset; `TbsaHandlers` opens the test and takes from the
dispatcher the order of the hooks, the rule by which the non-secure half is
entered, and the resumption after a reset. They meet in the cell `nvBoot`.

## 3. The modules and the code

The modules with actions keep, in a section marked as such, a few *slips*: variants of their
actions with a plausible mistake. They are not part of any specification. Each
is there to be put in the place of the action it is named for, and to show that
a property notices.

### 3.1 SuiteProgress

No code: the promise of a dispatcher. `done` tests of the list have a verdict,
`tally` says how many of each kind, `reported` whether the summary was printed.
`Record` gives one verdict, `StartOver` forgets all of them, `Report` needs all
of them. `StraightSpec` has no `StartOver`.

### 3.2 ValDispatcher

| State | Code |
|---|---|
| `nvBoot`, `nvPrev`, `nvCur`, `nvCnt` | the NV cells of `nvmem_index_t` (`val.h:201`); they survive a reset |
| `testPrev`, `testId`, `result`, `count` | the locals of `val_dispatcher` |
| `boot` | the copy of `NV_BOOT` that the function in progress has read |
| `state` | `g_status_buffer.state` |
| `world`, `blk` | the list of checks being run and the index into it |
| `outcome`, `watchdog` | what the check returned, whether the watchdog runs |
| `passed`, `seen` | observers: what really happened to the test |

Each NV access is one action, because a reset may come between any two:
`Entry` .. `ReadPrev` are `val_get_last_run_test_id`; `ReadBoot`, `ReadCur`,
`Load`, `WriteCur`, `Arm` are `val_dispatcher` up to the test, `ReportStatus` ..
`WritePrev` after it; `NsBoot`, `NsNext` are `val_execute_non_secure_tests`;
`SecBoot`, `SecArm`, `SecNext` the switch to the client partition and its loop.
`Attempt(works, breaks)` is an access that succeeds or takes the error path of
the code; `faults` bounds how many fail.

A check is described by three facts of its source (`CheckKinds`): the boot
signature it sets before the operation that should reset the system, whether it
also accepts that the operation returns, and whether it reports success although
its server half saw the operation succeed. `SetFlag`, `PanicReset`, `PanicHang`,
`QuietReturn` and `Survives` are the ways through such a check; `ImportKey`,
`ControlledReset` and `OpenKey` those through a persistent-key check.
Identifiers are positions in the list of tests; `Invalid` is 0 instead of
`0xFFFFFFFF`. The counters are 8 bits wide (`CntMod`).

### 3.3 SecureDispatch

Three sequential programs that call each other synchronously: `ns` (the
non-secure side), `cp` (client partition) and `sp` (server partition). `pc` says
where each is, `req[p]` is the request `p` is blocked in and its answer.
`NextCheck`, `Connected`, `Started`, `ClientReturn`, `GotResult`, `Closed` are
the loop that both sides run for a check (`val_execute_non_secure_tests`,
`val_execute_secure_tests`); `Accept`, `Execute`, `ReturnResult`, `Disconnect`
are the branches of `client_main` and `server_main`, with `busy` for `test_data`
and `result` for `test_status`. The two halves of a check are *scripts*: the
requests one makes and the other waits for. `ServerTakes` is
`val_process_connect_request` and its siblings, with their early exits;
`ServerOutlived` is `psa_wait(PSA_WAIT_ANY)` returning for the dispatcher's
signal when the client half is gone. `okHalves` and `disturbed` are observers.

### 3.4 DriverPartition

`pc` is the place in the driver partition (`"wait"` is `psa_wait` in
`driver_main`, the others are places inside its test functions), `msg` the
message `driver_main` took last: a test function replies to *that* message
whatever it waited for in the middle. `Turn` is the order in which `driver_main`
looks at its signals, `ServeUart`, `ServeWatchdog`, `ServeNvmem` and `TakeTest`
are its branches, `Unexpected` is the last one, which ends in `TEST_PANIC`, an
endless loop. `todo` is what the client still has to do: `TestInit`
(`val_test_init` starts the watchdog), the client half of a check, `TestExit`.
`printed` is how far the print of the server partition has come, `verbose`
whether the build prints it at all. `Announce` and `Grant` are the write of the
boot signature and the reply with the address, in the order of each function
(`FlagFirst`); `SecondRequest` is `process_call_request`. `SendsAddress` is
`FALSE` because the functions send the bytes found at the address of the data
(line 484). `secure` says which loop runs the checks: that of the non-secure side
writes `NV_BOOT` before each of them, that of the client partition leaves it as the
check before it did. `Reset` judges the check by `nvBoot`, as `ValDispatcher` does
step by step: with the signature for a test to be entered again it goes on at the second
check, whichever check was being run, and passes a test that has no second one. A
partition that was stopped is reset by the watchdog (`dog`) and by nothing else.

### 3.5 TbsaDispatcher

`nvTest`, `nvCnt`, `nvBoot` are the NV cells; `nvBoot` is the set of those of the
three fields of `boot_t` that hold their `..._REQUESTED` value, which is all that
the code compares with. `NvInit`, `ClearTest`, `ClearBoot` are `val_nvram_init`
(`cold` is what the platform says about the last reset), `LastId`, `LastTest`,
`ZeroCnt` are `val_nvram_get_last_id`, `Load`, `EndTest`, `ReadCnt`, `WriteCnt`,
`WriteTest` are `tbsa_dispatcher`, `Report` is `val_infra_exit`. A test that
provokes a reset goes through `ReadRequest` (is this the first or the second
run?), `Request`, one of `AccessResets`, `AccessReturns`, `AccessIgnored`, and
`Second`; `Exit` with `Withdraw` is its exit hook. `TestKinds` holds what
distinguishes these tests in the source: which flag, which half, where the
request is withdrawn, what may happen instead of the reset. `requester` is an
observer: the test that made the request standing in a flag.

The constants `Flaky`, `UnsetIds` and `UnsetFlags` name what the run assumes:
which accesses may fail, and what uninitialised variables hold.

### 3.6 TbsaTestPool and TbsaHandlers

`TbsaTestPool` holds the 38 tests as data: for each half its entry hook, payload,
second run, cleanup and exit hook as sequences of steps. A run of lookups and
comparisons that each fail the test is one `Check`; what is kept of a test is
what outlives it or can end it. The definitions bear the names of the tests
(`B001S` is the secure half of `test_b001`).

`TbsaHandlers` gives the steps their meaning:

| State | Code |
|---|---|
| `vec`, `undo` | the two vector tables, and `restore_handler_addr` (`val_interrupt.c`), one for both of them and for all exceptions |
| `irq` | enable, pending, routing and source of the timer interrupt |
| `shcsr`, `saved`, `nvShcsr` | SHCSR, the static or `NV_SHCSR` it was saved to |
| `nvBoot` | the requests for a reset, as in `TbsaDispatcher` |
| `test`, `at`, `status` | the test loaded, the hook and the place in it, `val_set_status` |
| `described`, `flag` | statics: a descriptor that a lookup sets, a flag that an interrupt handler sets |
| `seen`, `failed` | observers: a check of this test, or of an earlier one, failed |

`SetupHandler` and `RestoreHandler` are `val_interrupt_setup_handler` and
`val_interrupt_restore_handler`; `FaultHandlers` says which handler takes a fault
of the non-secure world (that of SecureFault or BusFault, unless SHCSR hides
them, or the HardFault handler). `Probe` is an access that should fault and the
loop that waits for the handler to change the status; `Trap` one whose handler
resets the system. `Interrupt` and `TimerFires` come between any two steps.
`NextBlock`, `NextHalf`, `NextTest` are `tbsa_dispatcher`; loading a test over the
last one makes the handlers of the last one lead nowhere (`Lost`), and the
statics of a test hold junk until `val_test_initialize` clears them.

`Careless` and `Overlooking` are the tests the source is known to go wrong in
(section 6): they are excused by name and no other.

`TbsaOutline` has no code of its own. Its steps are those of `TbsaHandlers`, taken by
a test alone: a configuration says at which place of the test the program is, which
entries of the tables are the test's own, and which values the registers and NV cells
may have there. Section 5.5 says what it is for.

### 3.7 TargetCfg

`Database` lays the records out as `targetConfigGen` does: for each group a
header, whose size is that of the whole group, then the records of its
components, then an end marker. `Examine` is one turn of the loop in
`val_target_get_cfg_blob` with its call of `val_target_cfg_get_next`
(`api-tests/val/common/val_target.c`, and the same walk in
`tbsa-v8m/val/src/val_infra.c`), `at` is `config_blob`, `want` is `cfg_id`. `Overrun` is what happens
when the walk stands on the end marker and steps over it.

The loops that use the walk are of seven forms; `Call` names the form (`kind`)
with what it searches, and an action for each form is its body: `Find` (`val_crypto_get_key_info`,
`val_crypto_set_base_addr`, `val_get_fuse_info`), `Console` (`val_infra_init`),
`InitAll` (`val_spi_init`, `val_rtc_init`), `Each`, `Until`, `ProbeAll` and
`Sweep` (the loops of the tests over timers, watchdogs, debug ports and memory
regions). Component numbers have the range `MinorMod`, instance numbers
`InstMod`, where they wrap.

### 3.8 TbsaDebug

Two programs and the two words they share. `flag` and `data` are the words,
`halted` says that the write of the flag hit the watchpoint; `script` is the
place in `debugger_script.py`, `addr` and `held` its variables. The processor
goes through `Check` (`val_debug_get_status` with `DBG_INIT`), `Port`
(`val_dpm_set_state`), `Visit` and `NextInstance` (the loop over the regions),
`PutDatum`, `AskDebugger` (`test_dbg_seq_write`), `TakeAnswer`
(`test_dbg_seq_read`), `JudgeAnswer`, `ColdReset` and `End` (`test_env_reset`).
The branches of the script are `ServeZero` .. `HandOver`; those whose access
comes after the `go` are actions of their own that need no stop.

Assumed of what is not in the repository: the shared words survive the cold
reset of `test_d004`, an access that the port refuses returns another value, and
`waitForStop` returns at once when the target has stopped already. One debug port
is modelled; `val_dpm_set_state` and `val_dpm_get_state` are stubs in the code
and are taken to do what they say.

## 4. The runs

Passing runs:

| Run | Question | What it shows |
|---|---|---|
| `dispatcher_books` | do the NV cells always describe a prefix of the suite, and does it end? | `TypeOK`, `NvDescribesPrefix`, `ReportComplete`, `HangsAreWatched`, `BooksChangeOnlyWhileDisarmed`, `IInv`, and `ImplementsSuite`: with a failing access and two resets anywhere, verdicts are booked one at a time or dropped as a whole. `EventuallyReports`: the suite comes to its report unless an access failed or a check hangs again after every boot |
| `dispatcher_verdicts` | are the verdicts right? | `VerdictJust` and `ImplementsStraightSuite`: with checks that reset or hang as they should, and nothing else going wrong, each verdict is deserved and the suite never starts over |
| `secure_dispatch` | do the halves of a check stay together? | `NeverStillBusy`, `OneAtATime`, `SuccessEarned`, `UndisturbedPasses`, `ForsakenOnlyWhenDisturbed`, `Ends` |
| `driver_checks` | is the driver partition right, alone and while the server partition prints? | `FaultIsAnnounced`, `PassMeansTried`, `ConformingPasses`, `NoStrayReply`, each with the exceptions that section 6 explains, and `Judged`: every test gets a verdict, by an answer or by the watchdog |
| `tbsa_suite` | do the TBSA cells describe a prefix, and is a request found only by its test? | `SecondRunIsOwn`, `ReportComplete`, `ImplementsSuite`, `ProvokedResetsResume`, `Ends` |
| `tbsa_handlers` | do the tests of the pool stay out of each other's way? | `HandlerIsOwn`: whatever failed before, an access that should fault meets the handler of its own test. `LeavesAsFound`: without failures each test puts back everything. `StaleOnlyFromFailed`: what is left behind is left by a test that failed. `FailureStands`: a failure that was seen is reported. `Reports` |
| `target_cfg` | are the lookups and the loops over records exact? | `LookupExact`, `Served` (a search found the first of its kind; a loop did what it is for, for each record once; a sweep, for each record once in each pass, and took the header of the group for a record at most once for each time its component number wrapped), `Returns` |
| `tbsa_debug` | do target and debugger understand each other? | `DebuggerIsUsed`: a debugger that is there is used by every test, and the verdicts of `test_d001` and `test_d002` say what the port does. `Concludes`: neither side waits for ever |

Runs that are expected to find a violation; the code does not do what its own
comments or documents say:

| Run | Property | What happens |
|---|---|---|
| `secure_reenter_loop` | `EventuallyReports` | a secure-only test that announces its reset with `BOOT_EXPECTED_NS` (`test_i084`..`i087`) is run again from its first check after every reset |
| `value_for_address` | `OpenIsolationCaught` | the write checks send the contents of the data in place of its address, so that data that is not isolated at all goes unnoticed |
| `tbsa_stale_request` | `SecondRunIsOwn` | `test_s001` fails and leaves its request for a warm reset; `test_c007` takes it for its own and passes without reading the fuse |
| `tbsa_debug_locked` | `LockedCaught` | `test_d004` looks at the answer of the debugger before the debugger has written it, takes its own address for it, and passes on a port that restricts nothing |

### 4.1 Bounds

* Suites have 4 to 6 tests, one of each kind the repository has
  (`MCValDispatcher`, `MCTbsaDispatcher` name the tests they stand for). The
  dispatcher looks at one test at a time and at its predecessor; a kind can
  follow another only through the NV cells, and each kind is followed by some
  other. The proofs drop this bound for `ValDispatcher`. (`dispatcher_books`:
  432 000 states.)
* `MaxFaults` (1 or 2 failing accesses): most error paths end in standby or in a
  failed test, so a second fault needs a reset in between; the proofs hold for
  any number.
* `MaxResets` (2 resets at any moment): one tears a sequence of writes, the
  second strikes while the program repairs what the first left. Resets by
  checks, watchdog and faults are not bounded.
* `LeftOver` has the erased counters and counters about to wrap. An NV memory
  that holds an intermediate boot signature from an aborted earlier session is
  what `PowerReset` leaves; at the very first start `NV_BOOT` is unknown or holds
  no signature.
* `SecureDispatch`: three checks per list, so that there is one before and one
  after each, entered at the first or second; both worlds go through the list.
* `DriverPartition`: tests of one or two checks, as in the repository; both
  builds and both loops, one print of three requests per check, two failing accesses
  (26 600 states).
* `TbsaHandlers`: the whole pool in its order, so that every test has the
  predecessors it has in the program. `MaxFails` is one misbehaviour of the
  platform (a check that fails, an access that does not fault), which is what it
  takes to leave a hook early; `MaxRounds` repeats a loop body once, which shows
  what a second turn finds (87 000 states). The outlines of the tests, which
  `MCTbsaHandlers` computes first, have neither bound: 3 262 configurations of the
  tests begun with anything, 1 463 of those begun with everything as found, and 4 027
  in the order of the pool. They take most of the time of the run.
* `TargetCfg`: three groups, the last of which may be empty, up to three
  components with up to two instances; `MinorMod` and `InstMod` are 4, one more
  than is used, so that a loop that ends by wrapping is seen to wrap (162 000
  states). The proofs drop these bounds.
* `TbsaDebug`: two memory components, two regions in the first: a loop has a next
  instance, a next component and an end; every kind of region (12 700 states).
* The 8-bit counters wrap after 255 tests; the lists of the repository are
  shorter, which `ConstantsAssumption` states as `NumTests < CntMod`.

### 4.2 Fairness

* `ValDispatcher`: `WF(Program)`, the processor runs; `WF(Watchdog)`, a watchdog
  that was enabled and not disabled fires, which is what it is for
  (`val_test_init` starts it before any code of the implementation under test).
  There is none on `Hang` or `PowerReset`.
* `SecureDispatch`: `WF(Next)`: the partition manager runs some partition that
  can run. Nothing is assumed about which.
* `DriverPartition`: weak fairness for the client, the server partition and the
  driver partition; a raised interrupt arrives, and a watchdog that runs bites.
* `TbsaDispatcher`: `WF(Program)`: the processor runs, and an operation that
  should reset the system does so or returns. Nothing forces the operation to
  choose the reset. A load that fails is retried for ever by the code; `Ends`
  is about the finitely many failures that `MaxFaults` allows.
* `TbsaHandlers`: `SF(Thread)`: between two interrupts of a timer the program
  takes a step (weak fairness would not do, as a pending interrupt holds the
  program up); `WF` of the interrupt and of the timer that was started.
* `TargetCfg`: weak fairness of the walk and the loop, which are one thread.
* `TbsaDebug`: `WF(Processor)`, `WF(Script)`: a processor that is not halted runs
  and a script that was started goes on. `Attach` has none: nobody need start it.

`CHECK_DEADLOCK FALSE` is set where the programs end: the dispatchers in standby
or after the report, the driver's test when it has its verdict. The modules
`TbsaHandlers`, `TargetCfg` and `TbsaDebug` have a step for their end instead, and
deadlock is checked.

## 5. What is proved

The proofs are about every value of the constants. Where a theorem needs to know
more of them than their types, the hypothesis is a definition at the end of the
module that the theorem is about (`SuiteAnnounces`, `HalvesFit`, `OneReset`,
`Careful`, `SuiteFits`, `DatabaseServes`, `InOrder`) or, for the tests one by one, in
`TbsaOutline` (`RightAlone`, `Tidy`, `UnmaskedFrom`). The MC module of its run assumes
that the run's own constants satisfy it, so that TLC evaluates it. Section 6 shows, for
most of these clauses, what goes wrong without them: none is there for the sake of a
proof. The inductive invariants were checked by TLC on the instances of the runs.

| Module | Hypothesis | Theorems |
|---|---|---|
| `ValDispatcherProofs` | - | `TypeCorrect`, `Invariance`, `PrefixDescribed` (`NvDescribesPrefix`), `ReportAccountsForAll` (`ReportComplete`), `HangsWatched` (`HangsAreWatched`), `BooksDisarmed` (`BooksChangeOnlyWhileDisarmed`), `Refinement` (`ImplementsSuite`) |
| `ValVerdictProofs` | `SuiteAnnounces` | `CalmVerdictsAreJust`; with `Steady`, `VerdictsAreJust` (`VerdictJust`) |
| | `Steady` | `StraightRefinement` (`ImplementsStraightSuite`) |
| `SecureDispatchProofs` | - | `TypeCorrect`, `Invariance`, `DriversTakeTurns` (`OneAtATime`), `ConnectionsAreClosed` (`NeverStillBusy`), `SuccessIsEarned` (`SuccessEarned`) |
| | `HalvesFit` | `GoodImplementationPasses` (`UndisturbedPasses`), `HalvesMeet` (`ForsakenOnlyWhenDisturbed`) |
| `DriverPartitionProofs` | - | `TypeCorrect`, `FaultsAreAnnounced` (`FaultIsAnnounced`), `StrayRepliesAreOfWrites` (`NoStrayReply`), `ConformingIsPassed` (`ConformingPasses`) |
| | `OneReset` | `PassesAreTried` (`PassMeansTried`) |
| `TbsaDispatcherProofs` | - | `TypeCorrect` |
| | `Careful` | `SecondRuns` (`SecondRunIsOwn`), `ReportsComplete` (`ReportComplete`), `Refinement` (`ImplementsSuite`), `Resumption` (`ProvokedResetsResume`) |
| `TbsaHandlersProofs` | `SuiteFits` | `TypeCorrect` |
| | `SuiteFits`, `RightAlone` | `HandlersAreOwn` (`HandlerIsOwn`), `FailuresStand` (`FailureStands`) |
| | `SuiteFits`, `Tidy` | `SuiteLeavesAsFound` (`LeavesAsFound`) |
| | `SuiteFits`, `RightAlone`, `UnmaskedFrom` | `OnlyFailedLeave` (`StaleOnlyFromFailed`) |
| `TargetCfgProofs` | - | `WalkIsExact` (`LookupExact`) |
| | `DatabaseServes` | `LoopsServe` (`Served`) |
| `TbsaDebugProofs` | `InOrder` | `NoAnswerIsLost` (`DebuggerIsUsed`) |

A `TypeCorrect` is `Spec => []TypeOK`, the others are `Spec =>` the property in
brackets, with `[]` if it is an invariant.

### 5.1 ValDispatcher

`ValDispatcherProofs` assumes `ConstantsAssumption` only: any list of tests and of
checks, any set of unsupported tests, any leftover counters, any number of faults
and resets. Its clause `NumTests < CntMod` is needed: with 256 tests an 8-bit
counter may wrap and `BumpTotal` (one more verdict makes the total one larger) is
false.

`NvDescribesPrefix` alone is not inductive: it speaks of the NV cells while a boot
signature is set, and says nothing of the moments at which they are being
rewritten. `IInv` adds

* `EntryInv`: while the first boot initialises the cells, `NV_BOOT` holds no
  signature, so that a reset starts the initialisation over;
* `LoopInv`: in the dispatcher `testPrev` follows `NV_TEST_ID_PREVIOUS`, the
  counters add up to it (plus one between `WriteCnt` and `WritePrev`), running a
  test happens under a boot signature and the bookkeeping without one;
* `WatchInv`: between `test_init` and `test_exit` the watchdog runs.

The heart of it: the two cells that cannot be written together are written only
while `NV_BOOT` is `BOOT_UNKNOWN`, so that a reset between them starts the suite
over instead of resuming it with cells that disagree (`BooksDisarmed`). The
refinement maps `done` to `NV_TEST_ID_PREVIOUS`, except that it is already one
more once the counters are written, and to zero where the next boot will start
over.

`ValVerdictProofs` is about what a boot signature *stands for*. After a reset the
dispatcher knows of the test only what `NV_BOOT` says; `VerdictJust` says that the
verdict it gives is the one that the checks, before and after any number of resets,
deserve. `VerdictInv` states for each place what is then true of the observers:
`SignatureInv` from the reset to the resumption (`expected_ns`: the whole
non-secure list was passed; `expected_s`: both lists; `reenter`: the first check;
`but_failed`: a check failed; `not_expected`: something hung), `NsInv`, `SecInv` and
`CheckInv` inside a list, `FinalInv` from the last check to the verdict. Two
hypotheses are needed, and both are facts of the world rather than of the model:

* `SuiteAnnounces`: the lists announce their resets as the framework can understand
  them. A signature does not say which check set it. `expected_ns` before the last
  check of the list would pass the checks after it untried; `expected_s` in the
  non-secure list passes the secure list untried; `reenter` in a non-secure list of
  one check comes back at the second check of the secure list, and skips its first;
  `cont` goes back to the first. A check that also accepts that its operation
  returns (`lax`, `quiet`) leaves its signature behind. The lists of the framework
  suite keep these rules where the implementation always panics; the checks that may
  survive instead (`I024`, `I076`, `I080` and `I073` in `MCValDispatcher`) do not, with
  the effects of section 6.
* `Calm`: no access has failed and no reset has come from outside so far (`Steady`:
  none can). With a fault `VerdictJust` is false, because of `val_framework.c:133`;
  with a reset from outside a test counts as a simulation error although nothing
  hung.

`CalmVerdictsAreJust` needs `Calm` in the state only, so it also covers what comes
before the first disturbance of a session in which there are some.
`StraightRefinement` is the other half of the refinement: as every step of the
bookkeeping then works, no reset finds `NV_BOOT` undecided, and the suite never
starts over. It needs nothing of the lists.

### 5.2 SecureDispatch

`SecureDispatchProofs` assumes `TestsAssumption` only, the type of `Tests`. In
particular nothing is assumed of how the two scripts of a check fit together: the
drivers keep their turns even with halves that do not match.

Neither property is inductive. `OneAtATime` needs to know that the two drivers are
never at work together: `TurnInv` says that the client partition is awake only
between the answer to the call that started it and the answer to the one that asks
for its result, while the non-secure side waits. `RequestInv` says, for each place
in the loop, to whom the driver's request goes and which one it is; so two pending
requests to one partition would put both drivers at work. `NeverStillBusy` needs
`BusyInv`: an open connection has a driver that is between its accepted call and
its disconnection, or a client partition that was stopped there. `ScriptInv`, that
a half which runs is one of the list, is what makes the requests well typed.

The second half of the module follows the results. `BehindInv` says that both halves of every
check that a driver has behind it succeeded, `HalvesInv` that a result which waits
to be collected is that of the check its driver is at (nothing is left over from
another one), `WorldsInv` what the non-secure side knows of the list of the client
partition, which it only sees as one status.

`GoodImplementationPasses` and `HalvesMeet` are the converse, and they are not true
of all lists. `HalvesFit` says that the server half of a check waits for what the
client half asks for, in its order, but for requests that may be denied. `test_i005`
and four others do not fit (section 6). The argument is that the two halves stay
*abreast*: `AbreastInv` says that there is a pairing of the server's steps with the
client's such that the server has done exactly those whose partners the client has
behind it. So the server never waits for a request that was made already, the
client never ends with a server step left over, and neither is forsaken. That this
lasts while other requests of the loop come and go needs `CleanInv` (nothing was
refused, no status is bad), `ServedInv`, `AskedInv`, `NeededInv` and `KeptInv`.

### 5.3 DriverPartition

`DriverPartitionProofs` is about all tests, both builds, isolating and open
implementations and any number of failures. The invariant follows the test, which
is always at the k-th operation of one of a few sequences (`Plans`): what is left
of a half, of `val_test_init` or `val_test_exit`, or of a half that has failed.
`Stage` says for each of them where the driver partition may be at that operation,
what `NV_BOOT` holds, what was tried so far, and, once the half has failed, what
excuses it. `ReadStage`, `WriteStage`, `EoiStage` and `IrqStage` are the tables for
the kinds of checks; each lemma moves one actor through them. A check need not find
`NV_BOOT` as the loop of the non-secure side leaves it: `Unset` says what it may find
when that loop is not the one that runs it, and `PassEarned` what a signature already
written says of the checks so far, so that a pass by a reset is earned there too.

Only `PassMeansTried` asks something of the tests. `OneReset` says that at most the
last check of a test ends in an expected reset: the reset ends the test, with a
pass, and checks after it would not be tried. A reset under the signature for a test to
be entered again does not end it, but goes on at the second check. The tests of the framework suite are
like that. `OpenIsolationCaught` is violated (section 4) and `Judged` is liveness.

### 5.4 TbsaDispatcher

`TypeCorrect` holds for every suite and any failing accesses. The other four are
about a `Careful` suite, where each clause keeps out one way in which a request for
a reset outlives the test that made it, or the counters outlive their test:

* a test that withdraws its request in its second run only must not have another way
  out of the first: it may not return without the reset, and as a non-secure half
  it may come to nothing but a pass otherwise;
* the first test makes no request. `val_nvram_init` and `val_nvram_get_last_id` do
  not clear `NV_TEST` when they clear the counters, so that a reset provoked by the
  first test resumes from whatever the cell holds. The suite starts with
  `test_b000`, which provokes nothing;
* the accesses whose failure section 6 describes do not fail, an unset `test_id` is
  not taken for the end of the list, and no field of an unset `boot_t` is taken for
  a request.

`IInv` says of every place which requests may stand in `NV_BOOT` and whose they are
(`OwnRequests`, `StandingInv`), what a reset would come to (`BootInv`, `PlaceInv`),
and that the counters add up to the last test except while the two are being
rewritten (`CountInv`). `SecondRunIsOwn` and `ReportComplete` follow, `Refinement`
maps `done` as in `ValDispatcher`, and `Resumption` is the same fact as an action
property.

### 5.5 TbsaHandlers

`SuiteFits` says that each step of a suite has an argument that its operation can
use; in particular that a step which passes over others, or repeats some, does not
count beyond its block. The point of `TypeCorrect` is the place: no jump - to the
cleanup, to the end of a hook, over steps, back, into the second run, to the other
half, or after a reset - leads outside the block that it lands in, whatever the
interrupt does in between.

The other four are true of the pool because of what each test does, step by step, and
of no suite of that shape alone. The theorems separate the two. What one test does
alone is a finite matter, whatever the other tests are and however often something
fails: its *outline* is the set of configurations that it goes through. That the tests,
put together, then do what the property says, with every interleaving of the interrupt
and the timer, with handlers of other tests in the tables and a kept entry shared by
all of them, is the theorem. So the hypotheses are about sets `outline` of
configurations that hold the beginnings of the tests and are closed under their steps:

* `RightAlone`: begun with tables, registers and requests as they may be, a test makes
  an access that should fault only where the HardFault entry is its own and the other
  fault handlers are off; after a failure it does not report success (but for
  `Overlooking`); and if nothing failed it leaves no entry of its own (but for
  `Careless`);
* `Tidy`: begun with everything as the suite found it, and with nothing failing, it
  ends so, also through the resets that it provokes;
* `UnmaskedFrom`: in the order of the suite, a test begins with the fault handlers on,
  unless a test that turns them off has failed.

They are not obviously true. TLC computes the outlines of all 38 tests and evaluates
the three on them, without a bound on failures or on the turns of a loop; if a test of
the pool loses its `Hide` or its `Put`, `RightAlone` or `Tidy` is false.

The argument. `Matches(c)` says that a configuration stands for the present state:
`Here` is its place, `TablesAre` and `RegsAre` what it says of tables and registers. It
speaks of an entry only as the test's own or not; the entry that
`val_interrupt_setup_handler` keeps, and `val_interrupt_restore_handler` writes back to
wherever it is told, may be of either world and of another test. Each action has a
lemma (`SetupHandlerFollows` .. `InterruptFollows`): its step leads to a state that a
step of the configuration stands for. `StepFollows` puts them together: a step ends the
suite, or is in `After` with no new failure, or in `Slips` with one, or is a reset that
the test provokes, or loads the next test. The inductive invariants are then short.
`AloneInv` and `TidyInv`: some configuration of the outline matches. `StaleInv`: every
entry, and the kept one, is of the test that is loaded, of one that failed, or of
`Careless`; this takes from `RightAlone` that a test which is over, and did not fail,
has none. `MaskInv`: until a test that turns the fault handlers off has failed,
the tests begin with them on. `StandInv`, that an entry is of the world of its table
and of a test that was loaded, is what makes a newly loaded test the owner of nothing.

### 5.6 TargetCfg

`WalkIsExact` is proved for every order of the groups, every layout whose
database is well formed and every set of loops.

It rests on `DatabaseAssumption`, which the run evaluates for its layouts: in a
database the sizes lead from cell to cell inside it, a header's size covers
records of its own group only, and no group has two headers (`WellFormed`). That
the generator writes such databases is checked on the layouts of the run; a proof
would need induction over the list of groups.

The argument. `LookupExact` speaks of the end of a walk only. `WalkInv` says of the
way there that no cell up to the present one is the one looked for, and that the
walk never rests on the header of the group it looks for, because it enters that
group in the turn in which it sees it. `NextCell` is the heart: a jump over a
header's size passes only records of another group, a jump from a record passes
nothing. `LoopAsksOrIsDone` says that a loop, whatever it does with its numbers,
begins each walk at the start of the database. The end marker can be stood on only
after entering an empty last group, which is the one way out of the database.

`LoopsServe` is about what the loops make of it: a search ends with the first instance
of its type, a loop over a component handles its instances in order, each once, and a
sweep handles each record of the group once in each pass, and nothing else but the
header, at most once for each wrap of its component number that a pass can begin or
end with (`Wraps`). `DatabaseServes` says what
they rely on: a header counts the records of its group and has zero for the other
count, a record counts the instances of its component, and these are numbered from 0 in
their order (`Tabulated`, which is how `targetConfigGen` fills the cells); and a loop
asks for the count that it needs (`Fits`). The loop of `test_m001` over one component
and that of `test_d007` over a zero do not fit, and do not do what they are for
(section 6).

`SearchInv` and `EachInv` say how far a loop over one component is. `SweepInv` is about
the loop that has no bound for its components: it goes on until it has *counted* as
many records as the header says, from whatever component number the pass before ended
at, while the eight-bit number wraps. It says that the records counted are those of the
components visited since the pass began, and that each of these has been handled once
more than the others. `CountedOn` and `CountedAll` are the counting: a component adds
its number of instances to the cardinality of the records visited, and when that is the
cardinality of all records, all have been visited. Sizes of finite sets take the place
of an induction over the database.

### 5.7 TbsaDebug

`NoAnswerIsLost` is proved for every target (any number of components and regions of
any kind, restricted to non-secure access or not, with the debugger absent or there),
every moment at which the debugger is attached, and every suite in the order of the
pool. `DebuggerIsUsed` is not inductive: it speaks of the verdict of a test, after the
exchanges of all its regions. The invariant says of each step of an exchange *whose
turn it is*. A test of the open port has a plan of nine steps for a region, that of the
closed port one of thirteen; `OpenStage(k)` and `ClosedStage(k)` say, after `k` of them,
whether both sides are at rest (`Idle`), the debugger has a request before it
(`Request`), an answer stands in the words (`Answer`), or the target has cleared the
flag (`Cleared`), and what the data word and the region hold then. `CheckInv` and
`IdleInv` say the same between the tests and at their start and end. So a request is
never written over an answer, and never waits for a script that is elsewhere. `LoopInv`
is about the loop over the regions: it has counted the components behind it, and if
`test_d002` has not failed it has met no secure region that the debugger could reach;
`CountOn` and `CountedAll` conclude that it ends when it has met all regions.

`InOrder` keeps out two orders of tests, and TLC finds the property violated in either.
The cold reset of `test_d004` clears what the program knows of the debugger
(`g_debug_test_start`), so that a test after it looks for the first word of the
debugger where the next one stands, and is skipped; in the pool it is the last one
that uses the debugger.
`test_d002` leaves the debug port open to non-secure memory only, so that `test_d001`
after it fails on secure regions. The pool has them in the other order.

### 5.8 What is only model-checked

* Every liveness property: `EventuallyReports`, `Ends`, `Judged`, `Reports`,
  `Returns`, `Concludes`. Fairness and `ENABLED` are beyond the provers used.
* That a suite, a list or a database of the repository is what a theorem asks for: the
  hypotheses are evaluated by TLC on the constants of the runs. That the generator
  writes such databases for every target would take an induction over its input, and
  the outlines of the tests are computed rather than proved closed.
* What the runs expect to be violated.

Scripts and hooks are sequences walked one element at a time, so that no recursion
is needed in the modules that are proved about; `MCTbsaHandlers` computes the outlines
recursively.

## 6. Further disagreements

Found while modelling, and not kept as runs of their own. Those of the first table
can be seen by giving the named constant the value in the right column, or by
dropping the named exception from the property.

| Where | What | How to see it |
|---|---|---|
| `api-tests/val/nspe/val_framework.c:133` | when the boot signature cannot be written before a check, the function returns with the status still `TEST_START`, which `val_test_exit` turns into a pass: `VerdictJust` fails | `MaxFaults = 1` in `DispatcherVerdicts.cfg` |
| `ff/ipc/test_i073/test_supp_i073.c:113` (also `i072`, `i074`, `i075`, `i084`..`i087`) | the server half returns success although the write was not stopped: `VerdictJust` fails | a `Lax` check in the suite of `DispatcherVerdicts.cfg` |
| `ff/ipc/test_i024/test_i024.c:82` | a quiet return leaves the announcement in `NV_BOOT`; a hang of the server half after it is taken for the expected reset | a `Quiet` check there |
| `dev_apis/crypto/test_c050/test_c050.c:153` | a hang after the announced reset resumes the same check for ever | drop the last line of `EventuallyReports` |
| `api-tests/val/nspe/val_dispatcher.c:420` | `BOOT_UNKNOWN` marks both the first boot (`val.h:181`) and the time between two tests: a reset there starts the whole suite over | `MaxResets = 1` with `ImplementsStraightSuite` |
| `ff/ipc/test_i005/test_supp_i005.c:45` (also `i006`, `i007`, `i010`, `i011`) | the server half waits for a connection that a refusal the specification allows never sends, and the test fails: `UndisturbedPasses` fails | a check with `client |-> <<"denied">>`, `server |-> <<"connect">>` |
| `ff/partition/common/driver_partition.c:600, 667` | the checks on heap and MMIO write the signature after the reply: the access may come first | drop `Announces` from `FaultIsAnnounced` |
| `driver_partition.c:448` | the wait for the second request takes any signal. A print of the server partition there (`server_partition.c:69`) is answered with a reply to a message that was replied to before (line 497): the partition is stopped with the signature of the expected fault set, and the test passes without the write that `docs/psa_ipc_testlist.md:92` describes | drop `~verbose` from `PassMeansTried` |
| `driver_partition.c:490` (also 544, 606, 673) | a signature that cannot be written is replied to with an error, and then the function goes on and replies again | `NoStrayReply` without its exception |
| `driver_partition.c:297, 383` | a check of `psa_eoi` that fails leaves the interrupt asserted; `driver_main` then enters its endless loop, and where the client was faster the watchdog is off by then: nothing resets the system | drop `LeftAsserted` from `Judged` |
| `driver_partition.c:665, 692` | the MMIO check reads through the value of the register as an address | `CompareMmio` |
| `tbsa-v8m/val/src/val_infra.c:299, 306` | after a provoked reset an unreadable `NV_BOOT` or `NV_TEST` starts the suite over with the old counters: `ReportComplete` fails | `"lastId"` or `"lastTest"` in `Flaky` |
| `val_infra.c:312` | whether the counters could be zeroed is not looked at | `"zeroCnt"` in `Flaky` |
| the second run and the exit hooks of the tests | an access that fails before the request is withdrawn leaves it to the next test: `SecondRunIsOwn` fails | `"payload"`, `"second"` or `"exit"` in `Flaky` |
| `tbsa-v8m/test_pool/timer/test_t002/secure.c:230` (also `t003`, `b004`) | the exit hook writes a `boot_t` of which one field is set | `UnsetFlags = {"wdogb"}` with `B004` before `T002` |
| `tbsa-v8m/val/src/val_dispatcher.c:83` | after a failed load `test_id` is looked at although it was never set | `UnsetIds = {0}` |
| `tbsa-v8m/val/src/val_interrupt.c:325, 355` | "restores the default handler" in fact writes what the last set-up found in another entry; `test_c001` never restores its timer handler, and `test_i002` puts that one back when the code of `test_c001` is gone | `Careless = {}` |
| `test_t003/non_secure.c:188` (also `c001`, `c010`, `t002`) | a failure is overwritten by a later pass: `FailureStands` fails | `Overlooking = {}` |
| `tbsa-v8m/test_pool/mem/test_m001` (98, 108) | "read all the memory ranges" always looks up the same component | a sweep with `fixed` |
| `test_pool/debug/test_d007` | the number of debug ports is read from the high byte of the group header's size, which is 0: the loop never runs and the test is always skipped | `Counted("each", "dpm", "header", "per")` |

Also seen while reading, outside what the models can show:

* a first test that asks for a reset resumes from whatever `NV_TEST` holds when
  the platform cannot tell a cold reset (the FVP's answer is always no);
* `val_get_fuse_info` ignores its argument `instance`; `val_spi_init` and
  `val_rtc_init` end only by a lookup that fails, so that a target on which all
  devices are found makes them fail; `test_d008/secure.c:65` asks for the first
  debug port without looking whether there is one, and `test_d001` to `d003` do
  not go back to the first component for the second debug port; `test_b007` fails
  where a memory component is absent and `test_b001` skips it, and `test_b001`
  counts the flash without reading it;
* the debugger script answers `LOCKED_READ` and `CLOSED_READ` before, or without,
  writing what it read, and stores only once for `CLOSED_WRITE` while the port is
  still open, so that `test_d003` fails on every target with a region the debugger
  may write; the second run of `test_d004` takes its loop variables from NV memory
  in every turn; the end of the sequence is never sent, so the script never ends;
  `val_dpm_get_state` is a stub that leaves its status uninitialised;
* `test_c050.c:186, 196, 199` read type, usage and algorithm from `attributes`
  and not from the `get_attributes` they have just fetched: after the reset these
  are still the initial ones, and a conforming implementation fails there.

## 7. What is not modelled

* The data set index and the key data of the persistent-key tests (planned,
  section 2): `ValDispatcher` has the announced reset and the resumption. A reset
  between the write of the next index and that of `BOOT_NOT_EXPECTED`
  (`test_c050.c:229`) resumes the new data set with the old signature.
* The crypto, storage and attestation tests: straight-line calls with an
  expected status, no state of the suite is involved beyond that status. With
  their data tables, the API headers they include (`crypto.h` and its companions
  are declarations and documentation), and the glue that wraps the API, this is
  the largest part of the repository by lines. Another large part is the platform
  directories, of which six are copies of one another but for their addresses;
  the models refer to one of them where they refer to any.
* What the framework tests and the TBSA test pool assert of the implementation
  or of the hardware. The waiting loops on a pending status that only a fault
  handler ends are in `TbsaHandlers`; in `TbsaDispatcher` a test is one operation.
* In `TbsaDispatcher`: a damaged test binary, a failing set-up of an interrupt
  handler before the second run of a test, the saved register `NV_SHCSR`. The
  last two are in `TbsaHandlers`, which in turn has no unprovoked reset.
  A test image whose marker is wrong (`val_test.c:175`) ends the suite as the end marker
  does. That the NV RAM is not in the configuration (`val_dispatcher.c:75`) cannot be
  found there: `val_nvram_init` makes the same lookup before, and ends in standby.
* In `TbsaHandlers`: interrupts other than the timer's; all timers that the tests
  look up are one. `test_t003` has one secure clock: each further one gets a request and
  a cold reset of its own, after which the suite is where it was after the first.
  `test_d004` and its like visit one region here, and all of them in `TbsaDebug`. The
  timer handler of `test_c001` returns with the interrupt pending for some times before
  it turns it off, which is a step without effect.
* In `TargetCfg`: a database of another version or of size 0 (`val_infra.c:136`), of
  which the walk only prints that it is wrong and goes on from its header, and an identifier out of range (`val_infra.c:210`), which no
  loop asks for.
* In `TbsaDebug`: more than one debug port, a debugger that is taken away.
  `test_d005` to `test_d008` do not use the debugger and are in the test pool. The
  port has a lock and can be opened and closed: `test_d004` passes over a port without
  a lock (`secure.c:201`), `test_d003` over one that is locked, and it does not open one
  that is not enabled (`secure.c:145`). The script reads at the address `data` in
  the branch for the closed port (`debugger_script.py:124`) and makes nothing of it.
* In `DriverPartition`: a build without a heap for the secure partitions
  (`SP_HEAP_MEM_SUPP`), in which the functions of the heap checks never reply; the sizes
  of messages, reads of NV memory, and the registers of UART, watchdog and interrupt
  source. Without `WATCHDOG_AVAILABLE`
  a partition that stops ends the session; the model has the watchdog.
* PAL drivers, attestation glue, build and configuration scripts other than the
  layout of the database: register accesses and text processing.
* Console output, but for the prints that reach the driver partition.
