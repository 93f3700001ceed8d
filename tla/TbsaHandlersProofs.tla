-------------------------- MODULE TbsaHandlersProofs --------------------------
(***************************************************************************)
(* Type correctness of TbsaHandlers, for every suite whose steps have the  *)
(* arguments that their operations use (SuiteFits, which the whole pool    *)
(* is).  The part that is not plain is the place: no jump of a hook - to   *)
(* its cleanup or end, over steps, back to repeat some, into the second    *)
(* run, or after a reset - leads outside the block that it lands in.       *)
(*                                                                         *)
(* Then the four invariants of the suite, for any number of failures and   *)
(* of repetitions, from what TbsaOutline says of each test alone: every    *)
(* state that is reached in a test matches a configuration of its outline. *)
(***************************************************************************)
EXTENDS TbsaOutline, TLAPS

\* TypeOK, by what its parts are about.
DeviceOK ==
    /\ vec \in [Worlds -> [Excs -> Handlers]] /\ undo \in Handlers
    /\ irq \in [on : BOOLEAN, pending : BOOLEAN, ns : BOOLEAN, running : BOOLEAN]
    /\ shcsr \in Shcsr /\ nvShcsr \in Shcsr /\ nvBoot \subseteq Flags

PlaceOK ==
    /\ test \in 1..NumTests
    /\ at \in [half : Worlds, block : Hooks, i : Nat \ {0}] /\ at.i <= Len(Block) + 1
    /\ rounds \in 0..MaxRounds

StaticsOK == saved \in [Worlds -> Shcsr] /\ described \subseteq Worlds /\ flag \in BOOLEAN

TallyOK ==
    /\ status \in Verdicts \cup {"pending"} /\ seen \in BOOLEAN /\ fails \in 0..MaxFails

BooksOK ==
    failed \subseteq 1..NumTests /\ mode \in {"run", "reported", "default", "astray", "hung"}

\* The type invariant, part by part.
LEMMA Parts == TypeOK <=> DeviceOK /\ PlaceOK /\ StaticsOK /\ TallyOK /\ BooksOK
  BY DEF TypeOK, DeviceOK, PlaceOK, StaticsOK, TallyOK, BooksOK

-----------------------------------------------------------------------------
(* Where a step may go *)

\* The blocks of a half, one by one.
LEMMA HookNames == Hooks = {"entry", "payload", "second", "cleanup", "exit"}
  <1>1. 1..5 = {1, 2, 3, 4, 5}
    OBVIOUS
  <1> QED BY <1>1 DEF Hooks, Blocks

\* The block that the place is in has a length, and so has every block that is gone to.
LEMMA BlockLength ==
    ASSUME SuiteFits, NEW n \in 1..NumTests, NEW w \in Worlds, NEW h \in Hooks
    PROVE  Len(Suite[n][w][h]) \in Nat
  BY DEF SuiteFits

\* A step that runs is one of its block, with an argument that fits.
LEMMA StepHere ==
    ASSUME SuiteFits, PlaceOK, ~AtEnd
    PROVE  Len(Block) \in Nat /\ at.i \in 1..Len(Block) /\ StepFits(Block, at.i)
  <1>1. at.half \in Worlds /\ at.block \in Hooks /\ at.i \in Nat \ {0} /\ test \in 1..NumTests
    BY DEF PlaceOK
  <1>2. Len(Block) \in Nat
    BY <1>1, BlockLength DEF Block
  <1>3. at.i \in 1..Len(Block)
    BY <1>1, <1>2 DEF AtEnd
  <1> QED BY <1>1, <1>2, <1>3 DEF SuiteFits, Block

\* The next step, or a later one up to the end.
LEMMA SkipFits ==
    ASSUME SuiteFits, PlaceOK, test' = test,
           NEW n \in Nat, at.i + n <= Len(Block) + 1, Skip(n)
    PROVE  PlaceOK'
  BY DEF PlaceOK, Skip, Block

\* The start of a hook.
LEMMA GoToFits ==
    ASSUME SuiteFits, PlaceOK, test' = test, NEW h \in Hooks, GoTo(h)
    PROVE  PlaceOK'
  <1>1. at' = [half |-> at.half, block |-> h, i |-> 1] /\ rounds' = 0
    BY DEF GoTo, PlaceOK
  <1>2. Len(Suite[test][at.half][h]) \in Nat
    BY BlockLength DEF PlaceOK
  <1> QED BY <1>1, <1>2, ConstantsAssumption DEF PlaceOK, Block

\* The start of a half, of a test that is loaded.
LEMMA StartFits ==
    ASSUME SuiteFits, test' \in 1..NumTests, NEW w \in Worlds, NEW h \in Hooks,
           at' = [half |-> w, block |-> h, i |-> 1], rounds' = 0
    PROVE  PlaceOK'
  <1>1. Len(Suite[test'][w][h]) \in Nat
    BY BlockLength
  <1> QED BY <1>1, ConstantsAssumption DEF PlaceOK, Block

\* The next statement of the block is in the block, or just behind it.
LEMMA AdvanceFits ==
    ASSUME SuiteFits, PlaceOK, test' = test, ~AtEnd, Advance
    PROVE  PlaceOK'
  BY StepHere, SkipFits DEF Advance

\* A hook that returns leads to the exit hook, or the exit hook to its end.
LEMMA LeaveFits ==
    ASSUME SuiteFits, PlaceOK, test' = test, ~AtEnd, Leave
    PROVE  PlaceOK'
  <1>1. CASE at.block = "exit"
    <2>1. Len(Block) + 1 - at.i \in Nat /\ at.i + (Len(Block) + 1 - at.i) <= Len(Block) + 1
      BY StepHere
    <2> QED BY <1>1, <2>1, SkipFits DEF Leave
  <1>2. CASE at.block # "exit"
    BY <1>2, GoToFits, HookNames DEF Leave
  <1> QED BY <1>1, <1>2

\* Wherever a failing step leads to, it is a place of the test.
LEMMA ElsewhereFits ==
    ASSUME SuiteFits, PlaceOK, test' = test, ~AtEnd, Elsewhere
    PROVE  PlaceOK'
  BY AdvanceFits, LeaveFits, GoToFits, HookNames DEF Elsewhere

\* What a step of the platform does to the bound and to the observer.
LEMMA TalliesFit ==
    ASSUME TallyOK, Works \/ Breaks
    PROVE  fails' \in 0..MaxFails /\ seen' \in BOOLEAN
  <1>1. fails' \in 0..MaxFails
    BY ConstantsAssumption DEF TallyOK, Works, Breaks
  <1>2. seen' \in BOOLEAN
    BY Zenon DEF TallyOK, Works, Breaks
  <1> QED BY <1>1, <1>2

\* A call that works or fails.
LEMMA JudgedFits ==
    ASSUME SuiteFits, TypeOK, test' = test, ~AtEnd, Accepts \/ Rejects
    PROVE  PlaceOK' /\ TallyOK'
  <1>1. PlaceOK /\ TallyOK
    BY Parts
  <1>2. CASE Accepts
    BY <1>1, <1>2, AdvanceFits DEF Accepts, Works, TallyOK
  <1>3. CASE Rejects
    BY <1>1, <1>3, ElsewhereFits, TalliesFit DEF Rejects, TallyOK, Verdicts
  <1> QED BY <1>2, <1>3

-----------------------------------------------------------------------------
(* What an entry may hold *)

\* Every vector names a handler.
LEMMA HandlersFit ==
    /\ \A n \in 0..NumTests, w \in Worlds, k \in Kinds : Handler(n, w, k) \in Handlers
    /\ SuiteFits =>
          DefaultTables \in [Worlds -> [Excs -> Handlers]] /\ Null \in Handlers
    /\ \A h \in Handlers : h.world \in Worlds
  <1>1. \A n \in 0..NumTests, w \in Worlds, k \in Kinds : Handler(n, w, k) \in Handlers
    BY DEF Handlers
  <1>2. ASSUME SuiteFits
        PROVE  DefaultTables \in [Worlds -> [Excs -> Handlers]] /\ Null \in Handlers
    <2>1. 0 \in 0..NumTests
      BY <1>2 DEF SuiteFits
    <2>2. \A w \in Worlds, e \in Excs : Default(w, e) \in Handlers
      BY <1>1, <2>1 DEF Default, Excs, Kinds
    <2>3. Null \in Handlers
      BY <1>1, <1>2, <2>1, ConstantsAssumption DEF Null, Kinds
    <2> QED BY <2>2, <2>3 DEF DefaultTables
  <1>3. \A h \in Handlers : h.world \in Worlds
    BY DEF Handlers, Handler
  <1> QED BY <1>1, <1>2, <1>3

\* What a reset leaves.
LEMMA RebootFits ==
    ASSUME SuiteFits, TypeOK, Reboot
    PROVE  TypeOK'
  <1>1. DeviceOK /\ PlaceOK /\ TallyOK /\ BooksOK
    BY Parts
  <1>2. DeviceOK'
    BY <1>1, HandlersFit DEF Reboot, DeviceOK, QuietIrq, Shcsr, nvVars
  <1>3. PlaceOK'
    <2>1. test' \in 1..NumTests
      BY <1>1 DEF Reboot, PlaceOK, SuiteFits
    <2> QED BY <2>1, StartFits, HookNames DEF Reboot, Worlds
  <1>4. StaticsOK'
    BY DEF Reboot, StaticsOK, Shcsr
  <1>5. TallyOK' /\ BooksOK'
    BY <1>1 DEF Reboot, TallyOK, BooksOK
  <1> QED BY <1>2, <1>3, <1>4, <1>5
          DEF TypeOK, DeviceOK, PlaceOK, StaticsOK, TallyOK, BooksOK

\* A fault that a handler takes.
LEMMA TakenFits ==
    ASSUME SuiteFits, TypeOK, test' = test, ~AtEnd, NEW h, TakenBy(h)
    PROVE  PlaceOK' /\ TallyOK' /\ mode' \in {"run", "reported", "default", "astray", "hung"}
  <1>1. PlaceOK /\ TallyOK /\ BooksOK
    BY Parts
  <1>2. CASE h.kind = "judge" /\ Excused /\ Advance /\ Works /\ UNCHANGED mode
    BY <1>1, <1>2, AdvanceFits DEF Excused, Works, TallyOK, BooksOK, Verdicts
  <1>3. CASE Accepts /\ UNCHANGED mode
    BY <1>1, <1>3, JudgedFits DEF BooksOK
  <1>4. CASE Lost(h) /\ Works /\ UNCHANGED <<at, rounds, status>>
    BY <1>1, <1>4 DEF Lost, Works, PlaceOK, Block, TallyOK
  <1> QED BY <1>2, <1>3, <1>4 DEF TakenBy
-----------------------------------------------------------------------------
(* The rest of a step *)

\* What a step leaves alone stays of its kind.
LEMMA Kept ==
    ASSUME TypeOK
    PROVE  /\ DeviceOK /\ PlaceOK /\ StaticsOK /\ TallyOK /\ BooksOK
           /\ UNCHANGED <<vectorVars, irq, shcsr, nvVars>> => DeviceOK'
           /\ UNCHANGED staticVars => StaticsOK'
           /\ UNCHANGED <<failed, mode>> => BooksOK'
           /\ UNCHANGED <<test, at, rounds>> => PlaceOK'
  <1>1. DeviceOK /\ PlaceOK /\ StaticsOK /\ TallyOK /\ BooksOK
    BY Parts
  <1>2. UNCHANGED <<vectorVars, irq, shcsr, nvVars>> => DeviceOK'
    BY <1>1 DEF DeviceOK, vectorVars, nvVars
  <1>3. UNCHANGED staticVars => StaticsOK'
    BY <1>1 DEF StaticsOK, staticVars
  <1>4. UNCHANGED <<failed, mode>> => BooksOK'
    BY <1>1 DEF BooksOK
  <1>5. UNCHANGED <<test, at, rounds>> => PlaceOK'
    BY <1>1 DEF PlaceOK, Block
  <1> QED BY <1>1, <1>2, <1>3, <1>4, <1>5

\* The parts make up the type invariant.
LEMMA Together ==
    ASSUME DeviceOK', PlaceOK', StaticsOK', TallyOK', BooksOK'
    PROVE  TypeOK'
  BY DEF TypeOK, DeviceOK, PlaceOK, StaticsOK, TallyOK, BooksOK

\* A call that works or fails, and touches nothing of the device, the statics or the books.
LEMMA CallFits ==
    ASSUME SuiteFits, TypeOK, ~AtEnd, Accepts \/ Rejects, DeviceOK', StaticsOK',
           UNCHANGED <<bookVars, mode>>
    PROVE  TypeOK'
  BY JudgedFits, Kept, Together DEF bookVars

-----------------------------------------------------------------------------
(* One lemma for each action *)

\* A handler is installed.
LEMMA SetupHandlerFits == SuiteFits /\ TypeOK /\ SetupHandler => TypeOK'
  <1> SUFFICES ASSUME SuiteFits, TypeOK, SetupHandler PROVE TypeOK'
    OBVIOUS
  <1> DEFINE e == Now.arg[1]  new == Handler(test, at.half, Now.arg[2])
  <1>1. ~AtEnd /\ e \in Excs /\ Now.arg[2] \in Kinds
    BY Kept, StepHere DEF SetupHandler, Steps, Runs, StepFits, Now
  <1>2. new \in Handlers
    BY <1>1, Kept, HandlersFit DEF PlaceOK
  <1>3. /\ undo' = vec[at.half][e] /\ vec' = [vec EXCEPT ![at.half][e] = new]
        /\ irq' = [irq EXCEPT !.on = @ \/ e = "TMR"] /\ UNCHANGED <<shcsr, nvVars>>
    BY DEF SetupHandler
  <1> HIDE DEF e, new
  <1>4. DeviceOK'
    <2>1. vec' \in [Worlds -> [Excs -> Handlers]] /\ undo' \in Handlers
      BY <1>1, <1>2, <1>3, Kept DEF DeviceOK, PlaceOK
    <2>2. irq' \in [on : BOOLEAN, pending : BOOLEAN, ns : BOOLEAN, running : BOOLEAN]
      BY <1>3, Kept DEF DeviceOK
    <2> QED BY <1>3, <2>1, <2>2, Kept DEF DeviceOK, nvVars
  <1> QED BY <1>1, <1>4, Kept, CallFits DEF SetupHandler

\* A handler is put back.
LEMMA RestoreHandlerFits == SuiteFits /\ TypeOK /\ RestoreHandler => TypeOK'
  <1> SUFFICES ASSUME SuiteFits, TypeOK, RestoreHandler PROVE TypeOK'
    OBVIOUS
  <1>1. ~AtEnd /\ Now.arg \in Excs
    BY Kept, StepHere DEF RestoreHandler, Steps, Runs, StepFits, Now
  <1>2. DeviceOK'
    <2>1. vec' \in [Worlds -> [Excs -> Handlers]]
      BY <1>1, Kept, HandlersFit DEF RestoreHandler, DeviceOK
    <2>2. irq' \in [on : BOOLEAN, pending : BOOLEAN, ns : BOOLEAN, running : BOOLEAN]
      BY Kept DEF RestoreHandler, DeviceOK
    <2> QED BY <2>1, <2>2, Kept DEF RestoreHandler, DeviceOK, nvVars
  <1> QED BY <1>1, <1>2, Kept, CallFits DEF RestoreHandler

\* The timer interrupt is enabled, disabled or cleared.
LEMMA ControlInterruptFits == SuiteFits /\ TypeOK /\ ControlInterrupt => TypeOK'
  <1> SUFFICES ASSUME SuiteFits, TypeOK, ControlInterrupt PROVE TypeOK'
    OBVIOUS
  <1>1. ~AtEnd
    BY DEF ControlInterrupt, Steps, Runs
  <1>2. irq' \in [on : BOOLEAN, pending : BOOLEAN, ns : BOOLEAN, running : BOOLEAN]
    BY Kept DEF ControlInterrupt, Control, DeviceOK
  <1>3. DeviceOK'
    BY <1>2, Kept DEF ControlInterrupt, DeviceOK, vectorVars, nvVars
  <1> QED BY <1>1, <1>3, Kept, CallFits DEF ControlInterrupt

\* An interrupt is given to a world.
LEMMA RouteHeldFits == SuiteFits /\ TypeOK /\ RouteHeld => TypeOK'
  <1> SUFFICES ASSUME SuiteFits, TypeOK, RouteHeld PROVE TypeOK'
    OBVIOUS
  <1>1. ~AtEnd /\ (Accepts \/ Rejects)
    BY DEF RouteHeld, Steps, Runs
  <1>2. irq' \in [on : BOOLEAN, pending : BOOLEAN, ns : BOOLEAN, running : BOOLEAN]
    BY Kept DEF RouteHeld, DeviceOK
  <1>3. DeviceOK'
    BY <1>2, Kept DEF RouteHeld, DeviceOK, vectorVars, nvVars
  <1> QED BY <1>1, <1>3, Kept, CallFits DEF RouteHeld

\* SHCSR is saved, cleared or put back.
LEMMA MaskFaultsFits == SuiteFits /\ TypeOK /\ MaskFaults => TypeOK'
  <1> SUFFICES ASSUME SuiteFits, TypeOK, MaskFaults PROVE TypeOK'
    OBVIOUS
  <1>1. ~AtEnd
    BY DEF MaskFaults, Steps, Runs
  <1>2. shcsr' \in Shcsr /\ saved' \in [Worlds -> Shcsr]
    BY Kept DEF MaskFaults, DeviceOK, StaticsOK, PlaceOK, Shcsr
  <1>3. DeviceOK' /\ StaticsOK'
    BY <1>2, Kept DEF MaskFaults, DeviceOK, StaticsOK, vectorVars, nvVars
  <1> QED BY <1>1, <1>3, CallFits DEF MaskFaults

\* SHCSR and the request of a second run are kept in NV memory.
LEMMA UseNvFits == SuiteFits /\ TypeOK /\ UseNv => TypeOK'
  <1> SUFFICES ASSUME SuiteFits, TypeOK, UseNv PROVE TypeOK'
    OBVIOUS
  <1>1. ~AtEnd /\ (Accepts \/ Rejects)
    BY DEF UseNv, Steps, Runs
  <1>2. Now.op = "request" => Now.arg \in Flags
    BY <1>1, Kept, StepHere DEF StepFits, Now
  <1>3. shcsr' \in Shcsr /\ nvShcsr' \in Shcsr /\ nvBoot' \subseteq Flags
    BY <1>2, Kept DEF UseNv, Steps, Runs, DeviceOK, nvVars
  <1>4. DeviceOK'
    BY <1>3, Kept DEF UseNv, DeviceOK, vectorVars
  <1> QED BY <1>1, <1>4, Kept, CallFits DEF UseNv

\* A hook looks for the request of a second run.
LEMMA AskNvFits == SuiteFits /\ TypeOK /\ AskNv => TypeOK'
  <1> SUFFICES ASSUME SuiteFits, TypeOK, AskNv PROVE TypeOK'
    OBVIOUS
  <1>1. ~AtEnd /\ DeviceOK' /\ StaticsOK'
    BY Kept DEF AskNv, Steps, Runs
  <1>2. CASE Rejects
    BY <1>1, <1>2, CallFits DEF AskNv
  <1>3. CASE Works /\ UNCHANGED status /\ (GoTo("second") \/ Advance)
    <2>1. PlaceOK'
      BY <1>1, <1>3, Kept, AdvanceFits, GoToFits, HookNames DEF AskNv, bookVars
    <2>2. TallyOK' /\ BooksOK'
      BY <1>3, Kept DEF AskNv, Works, TallyOK, bookVars
    <2> QED BY <1>1, <2>1, <2>2, Together
  <1> QED BY <1>2, <1>3 DEF AskNv

\* The clock is looked at once it is to be trusted.
LEMMA TrustClockFits == SuiteFits /\ TypeOK /\ TrustClock => TypeOK'
  <1> SUFFICES ASSUME SuiteFits, TypeOK, TrustClock PROVE TypeOK'
    OBVIOUS
  <1>1. ~AtEnd /\ test' = test
    BY DEF TrustClock, Steps, Runs, bookVars
  <1>2. DeviceOK' /\ StaticsOK' /\ BooksOK'
    BY Kept DEF TrustClock, DeviceOK, vectorVars, bookVars
  <1>3. PlaceOK'
    BY <1>1, Kept, AdvanceFits DEF TrustClock, Accepts
  <1>4. TallyOK'
    BY Kept, TalliesFit DEF TrustClock, Accepts, Works, TallyOK, Verdicts
  <1> QED BY <1>2, <1>3, <1>4, Together

\* A step that sets the status of the test.
LEMMA JudgePlainlyFits == SuiteFits /\ TypeOK /\ JudgePlainly => TypeOK'
  <1> SUFFICES ASSUME SuiteFits, TypeOK, JudgePlainly PROVE TypeOK'
    OBVIOUS
  <1>1. ~AtEnd /\ test' = test
    BY DEF JudgePlainly, Steps, Runs, bookVars
  <1>2. DeviceOK' /\ StaticsOK' /\ BooksOK'
    BY Kept DEF JudgePlainly, bookVars
  <1>3. PlaceOK'
    BY <1>1, Kept, AdvanceFits, ElsewhereFits DEF JudgePlainly, Accepts
  <1>4. Now.op = "verdict" => Now.arg \subseteq Verdicts
    BY <1>1, Kept, StepHere DEF StepFits, Now
  <1>5. status' \in Verdicts \cup {"pending"}
    BY <1>4, Kept DEF JudgePlainly, Steps, Runs, Accepts, TallyOK, Verdicts
  <1>6. fails' \in 0..MaxFails
    BY Kept DEF JudgePlainly, Accepts, Works, TallyOK
  <1>7. seen' \in BOOLEAN
    BY Kept DEF JudgePlainly, Accepts, Works, TallyOK
  <1> QED BY <1>2, <1>3, <1>5, <1>6, <1>7, Together DEF TallyOK

\* A call whose result is looked at, or not, and a return.
LEMMA JudgeCallFits == SuiteFits /\ TypeOK /\ JudgeCall => TypeOK'
  <1> SUFFICES ASSUME SuiteFits, TypeOK, JudgeCall PROVE TypeOK'
    OBVIOUS
  <1>1. ~AtEnd /\ test' = test
    BY DEF JudgeCall, Steps, Runs, bookVars
  <1>2. DeviceOK' /\ StaticsOK' /\ BooksOK'
    BY Kept DEF JudgeCall, bookVars
  <1>3. Advance \/ Elsewhere \/ Leave
    BY DEF JudgeCall, Accepts, Rejects
  <1>4. PlaceOK'
    BY <1>1, <1>3, Kept, AdvanceFits, ElsewhereFits, LeaveFits
  <1>5. status' \in Verdicts \cup {"pending"}
    BY Kept DEF JudgeCall, Accepts, Rejects, TallyOK, Verdicts
  <1>6. fails' \in 0..MaxFails /\ seen' \in BOOLEAN
    BY Kept, TalliesFit DEF JudgeCall, Accepts, Rejects
  <1> QED BY <1>2, <1>4, <1>5, <1>6, Together DEF TallyOK

\* A branch, and a loop over what the platform describes.
LEMMA LoopFits == SuiteFits /\ TypeOK /\ Loop => TypeOK'
  <1> SUFFICES ASSUME SuiteFits, TypeOK, Loop PROVE TypeOK'
    OBVIOUS
  <1>1. ~AtEnd /\ test' = test
    BY DEF Loop, Steps, Runs, bookVars
  <1>2. DeviceOK' /\ StaticsOK' /\ BooksOK' /\ TallyOK'
    BY Kept DEF Loop, Works, TallyOK, bookVars
  <1>3. Len(Block) \in Nat /\ at.i \in 1..Len(Block) /\ StepFits(Block, at.i)
    BY <1>1, Kept, StepHere
  <1>4. CASE Now.op = "maybe" /\ (Advance \/ Skip(Now.arg + 1))
    <2>1. Now.arg + 1 \in Nat /\ at.i + (Now.arg + 1) <= Len(Block) + 1
      BY <1>3, <1>4 DEF StepFits, Now
    <2> QED BY <1>1, <1>2, <1>4, <2>1, Kept, AdvanceFits, SkipFits, Together
  <1>5. CASE at' = [at EXCEPT !.i = @ + 1] /\ rounds' = 0
    BY <1>1, <1>2, <1>3, <1>5, Kept, Together, ConstantsAssumption DEF PlaceOK, Block
  <1>6. CASE /\ Now.op = "again" /\ rounds < MaxRounds
             /\ at' = [at EXCEPT !.i = @ - Now.arg] /\ rounds' = rounds + 1
    <2>1. at.i - Now.arg \in Nat \ {0} /\ at.i - Now.arg <= Len(Block) + 1
      BY <1>3, <1>6 DEF StepFits, Now
    <2>2. rounds' \in 0..MaxRounds
      BY <1>6, Kept, ConstantsAssumption DEF PlaceOK
    <2> QED BY <1>1, <1>2, <1>6, <2>1, <2>2, Kept, Together DEF PlaceOK, Block
  <1> QED BY <1>4, <1>5, <1>6 DEF Loop, Steps, Runs

\* val_test_initialize zeroes the statics of the half.
LEMMA InitializeFits == SuiteFits /\ TypeOK /\ Initialize => TypeOK'
  <1> SUFFICES ASSUME SuiteFits, TypeOK, Initialize PROVE TypeOK'
    OBVIOUS
  <1>1. ~AtEnd
    BY DEF Initialize, Steps, Runs
  <1>2. StaticsOK'
    BY Kept DEF Initialize, StaticsOK, PlaceOK, Shcsr
  <1> QED BY <1>1, <1>2, Kept, CallFits DEF Initialize

\* A descriptor is fetched.
LEMMA DescribeFits == SuiteFits /\ TypeOK /\ Describe => TypeOK'
  <1> SUFFICES ASSUME SuiteFits, TypeOK, Describe PROVE TypeOK'
    OBVIOUS
  <1>1. ~AtEnd /\ (Accepts \/ Rejects)
    BY DEF Describe, Steps, Runs
  <1>2. StaticsOK'
    BY Kept DEF Describe, StaticsOK, PlaceOK
  <1> QED BY <1>1, <1>2, Kept, CallFits DEF Describe

\* A descriptor is used, whether it was fetched or not.
LEMMA UseDescriptorFits == SuiteFits /\ TypeOK /\ UseDescriptor => TypeOK'
  <1> SUFFICES ASSUME SuiteFits, TypeOK, UseDescriptor PROVE TypeOK'
    OBVIOUS
  <1>1. ~AtEnd /\ test' = test
    BY DEF UseDescriptor, Steps, Runs, bookVars
  <1>2. DeviceOK' /\ StaticsOK' /\ BooksOK'
    BY Kept DEF UseDescriptor, BooksOK, bookVars
  <1>3. PlaceOK'
    BY <1>1, Kept, AdvanceFits, LeaveFits DEF UseDescriptor
  <1>4. TallyOK'
    BY Kept, TalliesFit DEF UseDescriptor, TallyOK, Verdicts
  <1> QED BY <1>2, <1>3, <1>4, Together

\* What a fault leaves alone, and what it may do to the test.
LEMMA FaultFits ==
    ASSUME SuiteFits, TypeOK, ~AtEnd, NoReboot,
           \/ \E h : TakenBy(h)
           \/ (Accepts \/ Rejects) /\ UNCHANGED mode
           \/ Breaks /\ Advance /\ status' \in {status, "fail"} /\ UNCHANGED mode
           \/ /\ Breaks /\ UNCHANGED <<at, rounds, status>>
              /\ mode' \in {"hung", "default", "astray"}
    PROVE  TypeOK'
  <1>1. test' = test /\ DeviceOK' /\ StaticsOK' /\ failed' = failed
    BY Kept DEF NoReboot, bookVars
  <1>2. CASE \E h : TakenBy(h)
    BY <1>1, <1>2, TakenFits, Kept, Together DEF BooksOK
  <1>3. CASE (Accepts \/ Rejects) /\ UNCHANGED mode
    BY <1>1, <1>3, CallFits DEF bookVars
  <1>4. CASE Breaks /\ Advance /\ status' \in {status, "fail"} /\ UNCHANGED mode
    <2>1. PlaceOK' /\ BooksOK'
      BY <1>1, <1>4, Kept, AdvanceFits
    <2>2. TallyOK'
      BY <1>4, Kept, TalliesFit DEF TallyOK, Verdicts
    <2> QED BY <1>1, <2>1, <2>2, Together
  <1>5. CASE Breaks /\ UNCHANGED <<at, rounds, status>> /\ mode' \in {"hung", "default", "astray"}
    <2>1. PlaceOK' /\ BooksOK'
      BY <1>1, <1>5, Kept DEF BooksOK
    <2>2. TallyOK'
      BY <1>5, Kept, TalliesFit DEF TallyOK
    <2> QED BY <1>1, <2>1, <2>2, Together
  <1> QED BY <1>2, <1>3, <1>4, <1>5

\* An access that should fault.
LEMMA ProbeFits == SuiteFits /\ TypeOK /\ Probe => TypeOK'
  BY FaultFits DEF Probe, Steps, Runs

\* An access that may fault, or should not.
LEMMA ProbeFreelyFits == SuiteFits /\ TypeOK /\ ProbeFreely => TypeOK'
  BY FaultFits DEF ProbeFreely, Steps, Runs, Lost

\* An access whose handler resets the system.
LEMMA TrapFits == SuiteFits /\ TypeOK /\ Trap => TypeOK'
  BY FaultFits, RebootFits DEF Trap, Steps, Runs

\* A reset that is asked for, or the bite of a watchdog.
LEMMA AskForResetFits == SuiteFits /\ TypeOK /\ AskForReset => TypeOK'
  BY FaultFits, RebootFits DEF AskForReset, Steps, Runs

\* A loop that waits for an interrupt.
LEMMA AwaitFits == SuiteFits /\ TypeOK /\ Await => TypeOK'
  <1> SUFFICES ASSUME SuiteFits, TypeOK, Await PROVE TypeOK'
    OBVIOUS
  <1>1. ~AtEnd /\ (Accepts \/ Rejects)
    BY DEF Await, Steps, Runs
  <1> QED BY <1>1, Kept, CallFits DEF Await

\* The timer makes its interrupt pending.
LEMMA TimerFiresFits == TypeOK /\ TimerFires => TypeOK'
  <1> SUFFICES ASSUME TypeOK, TimerFires PROVE TypeOK'
    OBVIOUS
  <1>1. DeviceOK'
    BY Kept DEF TimerFires, DeviceOK, vectorVars, nvVars
  <1>2. PlaceOK' /\ StaticsOK' /\ BooksOK'
    BY Kept DEF TimerFires, bookVars
  <1>3. TallyOK'
    BY Kept DEF TimerFires, TallyOK
  <1> QED BY <1>1, <1>2, <1>3, Together

\* A pending interrupt is taken.
LEMMA InterruptFits == TypeOK /\ Interrupt => TypeOK'
  <1> SUFFICES ASSUME TypeOK, Interrupt PROVE TypeOK'
    OBVIOUS
  <1>1. irq' \in [on : BOOLEAN, pending : BOOLEAN, ns : BOOLEAN, running : BOOLEAN]
    BY Kept DEF Interrupt, OwnInterrupt, QuietIrq, DeviceOK
  <1>2. DeviceOK'
    BY <1>1, Kept DEF Interrupt, DeviceOK, vectorVars, nvVars
  <1>3. StaticsOK'
    BY Kept DEF Interrupt, OwnInterrupt, StaticsOK
  <1>4. PlaceOK' /\ BooksOK'
    BY Kept DEF Interrupt, Lost, BooksOK, bookVars
  <1>5. TallyOK'
    BY Kept DEF Interrupt, OwnInterrupt, Excused, TallyOK, Verdicts
  <1> QED BY <1>2, <1>3, <1>4, <1>5, Together

\* A block is done: the framework calls the next hook.
LEMMA NextBlockFits == SuiteFits /\ TypeOK /\ NextBlock => TypeOK'
  <1> SUFFICES ASSUME SuiteFits, TypeOK, NextBlock PROVE TypeOK'
    OBVIOUS
  <1>1. DeviceOK' /\ StaticsOK' /\ BooksOK' /\ test' = test
    BY Kept DEF NextBlock, bookVars
  <1>2. \E h \in Hooks : GoTo(h)
    BY Kept, HookNames DEF NextBlock, PlaceOK
  <1>3. PlaceOK'
    BY <1>1, <1>2, Kept, GoToFits
  <1>4. TallyOK'
    BY Kept DEF NextBlock, TallyOK
  <1> QED BY <1>1, <1>3, <1>4, Together

\* The secure half is done: the non-secure one starts.
LEMMA NextHalfFits == SuiteFits /\ TypeOK /\ NextHalf => TypeOK'
  <1> SUFFICES ASSUME SuiteFits, TypeOK, NextHalf PROVE TypeOK'
    OBVIOUS
  <1>1. DeviceOK' /\ StaticsOK' /\ BooksOK' /\ test' \in 1..NumTests
    BY Kept DEF NextHalf, bookVars, PlaceOK
  <1>2. PlaceOK'
    BY <1>1, StartFits, HookNames DEF NextHalf, Worlds
  <1>3. TallyOK'
    BY Kept DEF NextHalf, TallyOK
  <1> QED BY <1>1, <1>2, <1>3, Together

\* A test is done: it is counted, and the next one is loaded.
LEMMA NextTestFits == SuiteFits /\ TypeOK /\ NextTest => TypeOK'
  <1> SUFFICES ASSUME SuiteFits, TypeOK, NextTest PROVE TypeOK'
    OBVIOUS
  <1>1. DeviceOK'
    BY Kept DEF NextTest
  <1>2. test' \in 1..NumTests
    BY Kept DEF NextTest, PlaceOK, SuiteFits
  <1>3. PlaceOK'
    BY <1>2, StartFits, HookNames DEF NextTest, Worlds
  <1>4. StaticsOK'
    BY DEF NextTest, StaticsOK, Shcsr
  <1>5. TallyOK'
    BY Kept DEF NextTest, TallyOK
  <1>6. BooksOK'
    BY Kept DEF NextTest, BooksOK, PlaceOK
  <1> QED BY <1>1, <1>3, <1>4, <1>5, <1>6, Together

-----------------------------------------------------------------------------
\* The first state has its type.
LEMMA InitFits == SuiteFits /\ Init => TypeOK
  <1> SUFFICES ASSUME SuiteFits, Init PROVE TypeOK
    OBVIOUS
  <1>1. DeviceOK
    BY HandlersFit DEF Init, DeviceOK, QuietIrq, Shcsr
  <1>2. test \in 1..NumTests /\ Len(Suite[test]["s"]["entry"]) \in Nat
    BY BlockLength, HookNames DEF Init, SuiteFits, Worlds
  <1>3. PlaceOK
    BY <1>2, HookNames, ConstantsAssumption DEF Init, PlaceOK, Block, Worlds
  <1>4. StaticsOK /\ BooksOK
    BY DEF Init, StaticsOK, BooksOK, Shcsr
  <1>5. fails \in 0..MaxFails
    BY ConstantsAssumption DEF Init
  <1>6. TallyOK
    BY <1>5 DEF Init, TallyOK, Verdicts
  <1> QED BY <1>1, <1>3, <1>4, <1>6, Parts

\* Every step keeps the type.
LEMMA StepsFit == SuiteFits /\ TypeOK /\ [Next]_vars => TypeOK'
  <1> SUFFICES ASSUME SuiteFits, TypeOK, [Next]_vars PROVE TypeOK'
    OBVIOUS
  <1>1. CASE Thread
    BY <1>1, SetupHandlerFits, RestoreHandlerFits, ControlInterruptFits, RouteHeldFits,
       MaskFaultsFits, UseNvFits, AskNvFits, TrustClockFits, JudgePlainlyFits, JudgeCallFits,
       LoopFits, InitializeFits, DescribeFits, UseDescriptorFits, ProbeFits, ProbeFreelyFits,
       TrapFits, AskForResetFits, AwaitFits, NextBlockFits, NextHalfFits, NextTestFits
    DEF Thread
  <1>2. CASE Interrupt
    BY <1>2, InterruptFits
  <1>3. CASE TimerFires
    BY <1>3, TimerFiresFits
  <1>4. CASE UNCHANGED vars
    <2>1. TallyOK'
      BY <1>4, Kept DEF vars, TallyOK
    <2> QED BY <1>4, <2>1, Kept, Together DEF vars, bookVars
  <1> QED BY <1>1, <1>2, <1>3, <1>4 DEF Next, Stopped

\* TypeOK, of val_interrupt.c, the statics of the tests and the place that the dispatcher is at.
THEOREM TypeCorrect == ASSUME SuiteFits PROVE Spec => []TypeOK
  BY InitFits, StepsFit, PTL DEF Spec

-----------------------------------------------------------------------------
(* States and outlines *)

\* An entry of a table is of the world of the table, and of a test that was loaded.
StandInv ==
    /\ \A w \in Worlds, e \in Excs : vec[w][e].world = w /\ vec[w][e].test <= test
    /\ undo.test <= test

\* The tables hold what a configuration says of them.
TablesAre(t) ==
    /\ \A w \in Worlds, e \in Excs :
          /\ vec[w][e].test = test <=> <<w, e>> \in t.own
          /\ vec[w][e].test = test => vec[w][e].kind \in KindsIn[test]
          /\ t.clean /\ <<w, e>> \notin t.own => Fine(vec[w][e], w, e)
    /\ undo.world \in t.worlds
    /\ undo.test = test <=> t.back
    /\ undo.test = test => undo.kind \in KindsIn[test]
    /\ t.clean /\ ~t.back => \A e \in t.excs : Fine(undo, undo.world, e)

\* The registers and NV memory have one of the values that it says.
RegsAre(r) ==
    /\ shcsr \in r.shcsr /\ nvShcsr \in r.nv /\ nvBoot \in r.boot /\ irq \in r.irq
    /\ \A w \in Worlds : saved[w] \in r.saved[w]

\* The state is one that the configuration stands for.
Matches(c) == c.place = Here /\ TablesAre(c.tables) /\ RegsAre(c.regs)

\* The places that follow are those that the steps lead to: the next step,
LEMMA OnIsAdvance ==
    ASSUME NEW p, p.at = at, Advance PROVE On(p) = Placed(p, at')
  BY DEF Advance, Skip, On, Moved

\* the start of a hook,
LEMMA ToIsGoTo ==
    ASSUME NEW p, NEW b, p.at = at, GoTo(b) PROVE To(p, b) = Placed(p, at')
  BY DEF GoTo, To

\* the end of a hook,
LEMMA LeftIsLeave ==
    ASSUME NEW p, p.at = at, p.test = test, Leave PROVE Left(p) = Placed(p, at')
  BY ToIsGoTo DEF Leave, Left, Skip, Moved, Block, BlockOf

\* and the place where a failing step leads to.
LEMMA AsideIsElsewhere ==
    ASSUME NEW p, p.at = at, p.test = test, Elsewhere PROVE Aside(p) = Placed(p, at')
  <1>1. NowOf(p) = Now
    BY DEF NowOf, Now, Block, BlockOf
  <1> QED BY <1>1, ToIsGoTo, OnIsAdvance, LeftIsLeave DEF Elsewhere, Aside

\* The place says which step is the next one.
LEMMA HereIs ==
    /\ Here.at = at /\ Here.test = test /\ Here.status = status /\ Here.seen = seen
    /\ Here.described = described
    /\ NowOf(Here) = Now /\ BlockOf(Here) = Block /\ (EndOf(Here) <=> AtEnd)
  BY DEF Here, NowOf, Now, Block, BlockOf, EndOf, AtEnd

\* What a step makes of the place, when a place like p has its verdict already.
LEMMA Goes ==
    ASSUME test' = test, NEW p, p.at = at, p.test = test, p.status = status', p.seen = seen',
           p.described = described'
    PROVE  /\ Advance => Here' = On(p)
           /\ Leave => Here' = Left(p)
           /\ Elsewhere => Here' = Aside(p)
           /\ \A b : GoTo(b) => Here' = To(p, b)
           /\ \A n : Skip(n) => Here' = Moved(p, n)
  <1>1. Here' = Placed(p, at')
    BY DEF Here, Placed
  <1>2. \A n : Skip(n) => Here' = Moved(p, n)
    BY <1>1 DEF Skip, Moved
  <1> QED BY <1>1, <1>2, OnIsAdvance, LeftIsLeave, AsideIsElsewhere, ToIsGoTo

\* What a verdict makes of a place.
LEMMA Forms ==
    \A p :
        /\ \A v : LET j == Judged(p, v)
                  IN  /\ j.test = p.test /\ j.at = p.at /\ j.status = v
                      /\ j.seen = p.seen /\ j.described = p.described
        /\ LET j == Seen(p)
           IN  /\ j.test = p.test /\ j.at = p.at /\ j.status = p.status
               /\ j.seen = TRUE /\ j.described = p.described
        /\ LET j == Failed(p)
           IN  /\ j.test = p.test /\ j.at = p.at /\ j.status = "fail"
               /\ j.seen = TRUE /\ j.described = p.described
        /\ \A d : LET j == Knowing(p, d)
                  IN  /\ j.test = p.test /\ j.at = p.at /\ j.status = p.status
                      /\ j.seen = p.seen /\ j.described = d
  BY DEF Judged, Seen, Failed, Knowing

\* Tables that are left alone still match,
LEMMA TablesStay ==
    ASSUME NEW t, TablesAre(t), UNCHANGED <<vectorVars, test>> PROVE TablesAre(t)'
  BY DEF TablesAre, vectorVars

\* and so do registers.
LEMMA RegsStay ==
    ASSUME NEW r, RegsAre(r), UNCHANGED <<irq, shcsr, nvVars, saved>> PROVE RegsAre(r)'
  BY DEF RegsAre, nvVars

\* When no interrupt is to be taken, the configuration at rest matches too.
LEMMA Resting ==
    ASSUME NEW c, Matches(c), ~(irq.on /\ irq.pending)
    PROVE  Matches(Rest(c)) /\ Rest(c).regs.irq # {} /\ Rest(c).place = c.place /\ Rest(c).tables = c.tables
  <1> DEFINE X == {x \in c.regs.irq : Calm(x)}
  <1>1. irq \in X
    BY DEF Matches, RegsAre, Calm
  <1>2. Rest(c) = Cfg(c.place, c.tables, IrqTo(c.regs, X))
    BY DEF Rest
  <1> HIDE DEF X
  <1>3. RegsAre(IrqTo(c.regs, X)) /\ IrqTo(c.regs, X).irq = X
    BY <1>1 DEF Matches, RegsAre, IrqTo, RegSets
  <1> QED BY <1>1, <1>2, <1>3 DEF Matches, Cfg

\* The interrupt, SHCSR, its copies and NV_BOOT change to one of what a configuration says.
LEMMA RegsGo ==
    ASSUME NEW r, RegsAre(r), NEW X
    PROVE  /\ irq' \in X /\ UNCHANGED <<shcsr, nvVars, saved>> => RegsAre(IrqTo(r, X))'
           /\ shcsr' \in X /\ UNCHANGED <<irq, nvVars, saved>> => RegsAre(ShcsrTo(r, X))'
           /\ nvShcsr' \in X /\ UNCHANGED <<irq, shcsr, nvBoot, saved>> => RegsAre(NvTo(r, X))'
           /\ nvBoot' \in X /\ UNCHANGED <<irq, shcsr, nvShcsr, saved>> => RegsAre(BootTo(r, X))'
  BY DEF RegsAre, nvVars, IrqTo, ShcsrTo, NvTo, BootTo, RegSets

\* The copy of SHCSR of a half likewise.
LEMMA SavedGoes ==
    ASSUME NEW r, RegsAre(r), NEW w \in Worlds, NEW X, StaticsOK, NEW x \in X,
           saved' = [saved EXCEPT ![w] = x], UNCHANGED <<irq, shcsr, nvVars>>
    PROVE  RegsAre(SavedTo(r, w, X))'
  BY DEF RegsAre, nvVars, SavedTo, RegSets, StaticsOK

\* The step is one of the outline, or the last of the suite.
Follows(q) == \/ mode' # "run"
              \/ fails' = fails /\ \E d \in Proper(q) : Matches(d)'
              \/ fails' = fails + 1 /\ \E d \in Breaking(q) : Matches(d)'

\* A configuration that matches has the step that the program is at.
LEMMA DoesIs ==
    ASSUME NEW q, Matches(q)
    PROVE  /\ q.place = Here /\ NowOf(q.place) = Now
           /\ \A op : Does(q, op) <=> ~AtEnd /\ Now.op = op
  BY HereIs DEF Matches, Does

\* A step that goes from place to place.
LEMMA GoesOn ==
    ASSUME NEW q, Matches(q), NEW p, Here' = p,
           UNCHANGED <<vectorVars, test, irq, shcsr, nvVars, saved>>
    PROVE  /\ fails' = fails /\ At(q, p) \in Proper(q) => Follows(q)
           /\ fails' = fails + 1 /\ At(q, p) \in Breaking(q) => Follows(q)
  <1>1. Matches(At(q, p))'
    BY TablesStay, RegsStay DEF Matches, At, Cfg
  <1> QED BY <1>1 DEF Follows

\* A step that also changes registers.
LEMMA GoesOnWith ==
    ASSUME NEW q, Matches(q), NEW p, Here' = p, NEW r, RegsAre(r)', UNCHANGED <<vectorVars, test>>
    PROVE  /\ fails' = fails /\ Cfg(p, q.tables, r) \in Proper(q) => Follows(q)
           /\ fails' = fails + 1 /\ Cfg(p, q.tables, r) \in Breaking(q) => Follows(q)
  <1>1. Matches(Cfg(p, q.tables, r))'
    BY TablesStay DEF Matches, Cfg
  <1> QED BY <1>1 DEF Follows

\* What a configuration that matches says of the step.
LEMMA PlaceIs ==
    ASSUME NEW q, Matches(q)
    PROVE  LET p == q.place
           IN  /\ p.at = at /\ p.test = test /\ p.status = status /\ p.seen = seen
               /\ p.described = described /\ NowOf(p) = Now
  BY DoesIs, HereIs

\* Where a call leads that works, and one that fails.
LEMMA CallGoes ==
    ASSUME NEW q, Matches(q), UNCHANGED <<test, described>>
    PROVE  /\ Accepts => Here' = On(q.place) /\ fails' = fails
           /\ Rejects => Here' = Aside(Failed(q.place)) /\ fails' = fails + 1
  <1> DEFINE p == q.place
  <1>1. p.at = at /\ p.test = test /\ p.status = status /\ p.seen = seen /\ p.described = described
    BY PlaceIs
  <1> HIDE DEF p
  <1>2. ASSUME Accepts PROVE Here' = On(p) /\ fails' = fails
    <2>1. p.status = status' /\ p.seen = seen' /\ p.described = described' /\ test' = test
      BY <1>1, <1>2 DEF Accepts, Works
    <2>2. Here' = On(p)
      BY <1>1, <1>2, <2>1, Goes DEF Accepts
    <2> QED BY <1>2, <2>2 DEF Accepts, Works
  <1>3. ASSUME Rejects PROVE Here' = Aside(Failed(p)) /\ fails' = fails + 1
    <2> DEFINE f == Failed(p)
    <2>1. /\ f.at = at /\ f.test = test /\ f.status = "fail" /\ f.seen = TRUE
          /\ f.described = described
      BY <1>1, Forms
    <2> HIDE DEF f
    <2>2. status' = "fail" /\ seen' = TRUE /\ Elsewhere /\ fails' = fails + 1
      BY <1>3 DEF Rejects, Breaks
    <2>3. f.status = status' /\ f.seen = seen' /\ f.described = described' /\ test' = test
      BY <2>1, <2>2
    <2>4. Here' = Aside(f)
      BY <2>1, <2>2, <2>3, Goes
    <2> QED BY <2>2, <2>4 DEF f
  <1> QED BY <1>2, <1>3 DEF p

\* A handler is set up: the entry is the test's own, and the one before it is kept.
LEMMA SetupHandlerFollows ==
    ASSUME SuiteFits, TypeOK, StandInv, NEW q, Matches(q), SetupHandler PROVE Follows(q)
  <1> PICK s, w, e, n : s = Now /\ w = at.half /\ e = Now.arg[1] /\ n = test
    OBVIOUS
  <1>1. ~AtEnd /\ Now.op = "setup" /\ e \in Excs /\ Now.arg[2] \in Kinds /\ w \in Worlds
    BY Kept, StepHere DEF SetupHandler, Steps, Runs, StepFits, Now, PlaceOK
  <1>2. /\ undo' = vec[w][e] /\ vec' = [vec EXCEPT ![w][e] = Handler(test, w, s.arg[2])]
        /\ irq' = [irq EXCEPT !.on = @ \/ e = "TMR"]
        /\ UNCHANGED <<shcsr, nvVars, test, saved, described>> /\ Accepts
    BY DEF SetupHandler, bookVars, staticVars
  <1> DEFINE r == IrqTo(q.regs, {[x EXCEPT !.on = @ \/ s.arg[1] = "TMR"] : x \in q.regs.irq})
             t == Installed(q.tables, w, e)
             p == On(q.place)
  <1>3. Here' = p /\ fails' = fails
    BY <1>2, CallGoes
  <1>4. RegsAre(r)'
    <2> DEFINE X == {[x EXCEPT !.on = @ \/ s.arg[1] = "TMR"] : x \in q.regs.irq}
    <2>1. irq' \in X
      BY <1>2 DEF Matches, RegsAre
    <2> HIDE DEF X
    <2>2. RegsAre(IrqTo(q.regs, X))'
      BY <1>2, <2>1, RegsGo DEF Matches
    <2> QED BY <2>2 DEF X
  <1>5. Handler(test, w, s.arg[2]).kind \in KindsIn[test]
    <2>1. Block = Suite[test][w][at.block] /\ at.block \in Hooks /\ at.i \in 1..Len(Block)
      BY <1>1, Kept, StepHere DEF Block, PlaceOK
    <2>2. test \in 1..NumTests
      BY Kept DEF PlaceOK
    <2> QED BY <1>1, <2>1, <2>2 DEF KindsIn, Handler, Now
  <1>6. TablesAre(t)'
    <2>1. vec \in [Worlds -> [Excs -> Handlers]]
      BY Kept DEF DeviceOK
    <2>2. vec'[w][e] = Handler(test, w, s.arg[2])
          /\ \A v \in Worlds, f \in Excs : <<v, f>> # <<w, e>> => vec'[v][f] = vec[v][f]
      BY <1>1, <1>2, <2>1
    <2>3. vec'[w][e].test = test /\ vec'[w][e].kind \in KindsIn[test]
      BY <1>5, <2>2 DEF Handler
    <2>4. TablesAre(q.tables)
      BY DEF Matches
    <2>5. undo'.world = w
      BY <1>1, <1>2 DEF StandInv
    <2>6. t.own = q.tables.own \cup {<<w, e>>} /\ t.worlds = {w} /\ t.excs = {e}
          /\ (t.back <=> <<w, e>> \in q.tables.own) /\ (t.clean <=> q.tables.clean)
      BY DEF Installed
    <2> HIDE DEF t
    <2>7. ASSUME NEW v \in Worlds, NEW f \in Excs
          PROVE  /\ vec'[v][f].test = test <=> <<v, f>> \in t.own
                 /\ vec'[v][f].test = test => vec'[v][f].kind \in KindsIn[test]
                 /\ t.clean /\ <<v, f>> \notin t.own => Fine(vec'[v][f], v, f)
      <3>1. CASE v = w /\ f = e
        BY <3>1, <2>3, <2>6
      <3>2. CASE <<v, f>> # <<w, e>>
        <4>1. vec'[v][f] = vec[v][f] /\ (<<v, f>> \in t.own <=> <<v, f>> \in q.tables.own)
          BY <3>2, <2>2, <2>6
        <4> QED BY <4>1, <2>4, <2>6 DEF TablesAre
      <3> QED BY <3>1, <3>2
    <2>8. /\ undo'.test = test <=> t.back
          /\ undo'.test = test => undo'.kind \in KindsIn[test]
          /\ t.clean /\ ~t.back => Fine(undo', w, e)
      BY <1>1, <1>2, <2>4, <2>6 DEF TablesAre
    <2> QED BY <1>2, <2>5, <2>6, <2>7, <2>8 DEF TablesAre
  <1>7. Cfg(p, t, r) \in Handling(q)
    BY <1>1, DoesIs, PlaceIs DEF Handling
  <1>8. Matches(Cfg(p, t, r))'
    BY <1>3, <1>4, <1>6 DEF Matches, Cfg
  <1> HIDE DEF p, t, r
  <1> QED BY <1>3, <1>7, <1>8 DEF Follows, Proper

\* A call that works or fails, and changes nothing that the outline keeps.
LEMMA CallFollows ==
    ASSUME NEW q, Matches(q), UNCHANGED <<vectorVars, test, irq, shcsr, nvVars, saved, described>>
    PROVE  /\ Accepts /\ At(q, On(q.place)) \in Proper(q) => Follows(q)
           /\ Rejects /\ At(q, Aside(Failed(q.place))) \in Breaking(q) => Follows(q)
  BY CallGoes, GoesOn

\* The kept entry goes back to the table of the world that it lies in.
LEMMA RestoreHandlerFollows ==
    ASSUME SuiteFits, TypeOK, StandInv, NEW q, Matches(q), RestoreHandler PROVE Follows(q)
  <1> PICK s, w, e : s = Now /\ w = undo.world /\ e = Now.arg
    OBVIOUS
  <1>1. ~AtEnd /\ Now.op = "restore" /\ e \in Excs /\ w \in Worlds /\ w \in q.tables.worlds
    BY Kept, StepHere, HandlersFit
       DEF RestoreHandler, Steps, Runs, StepFits, Now, DeviceOK, Matches, TablesAre
  <1>2. /\ vec' = [vec EXCEPT ![w][e] = undo]
        /\ irq' = [irq EXCEPT !.on = @ /\ e # "TMR"]
        /\ UNCHANGED <<undo, shcsr, nvVars, test, saved, described>> /\ Accepts
    BY DEF RestoreHandler, bookVars, staticVars
  <1> DEFINE r == IrqTo(q.regs, {[x EXCEPT !.on = @ /\ s.arg # "TMR"] : x \in q.regs.irq})
             t == Restored(q.tables, w, s.arg)
             p == On(q.place)
  <1>3. Here' = p /\ fails' = fails
    BY <1>2, CallGoes
  <1>4. RegsAre(r)'
    <2> DEFINE X == {[x EXCEPT !.on = @ /\ s.arg # "TMR"] : x \in q.regs.irq}
    <2>1. irq' \in X
      BY <1>2 DEF Matches, RegsAre
    <2> HIDE DEF X
    <2>2. RegsAre(IrqTo(q.regs, X))'
      BY <1>2, <2>1, RegsGo DEF Matches
    <2> QED BY <2>2 DEF X
  <1>5. TablesAre(t)'
    <2>1. vec \in [Worlds -> [Excs -> Handlers]]
      BY Kept DEF DeviceOK
    <2>2. vec'[w][e] = undo
          /\ \A v \in Worlds, f \in Excs : <<v, f>> # <<w, e>> => vec'[v][f] = vec[v][f]
      BY <1>1, <1>2, <2>1
    <2>3. TablesAre(q.tables)
      BY DEF Matches
    <2>4. /\ t.own = IF q.tables.back THEN q.tables.own \cup {<<w, e>>} ELSE q.tables.own \ {<<w, e>>}
          /\ t.worlds = q.tables.worlds /\ t.excs = q.tables.excs /\ t.back = q.tables.back
          /\ t.clean => q.tables.clean /\ (q.tables.back \/ e \in q.tables.excs)
      BY DEF Restored
    <2> HIDE DEF t
    <2>5. ASSUME NEW v \in Worlds, NEW f \in Excs
          PROVE  /\ vec'[v][f].test = test <=> <<v, f>> \in t.own
                 /\ vec'[v][f].test = test => vec'[v][f].kind \in KindsIn[test]
                 /\ t.clean /\ <<v, f>> \notin t.own => Fine(vec'[v][f], v, f)
      <3>1. CASE v = w /\ f = e
        <4>1. vec'[v][f] = undo /\ (<<v, f>> \in t.own <=> q.tables.back)
          BY <3>1, <2>2, <2>4
        <4>2. t.clean /\ ~q.tables.back => Fine(undo, v, f)
          BY <3>1, <2>3, <2>4 DEF TablesAre
        <4> QED BY <4>1, <4>2, <2>3 DEF TablesAre
      <3>2. CASE <<v, f>> # <<w, e>>
        <4>1. vec'[v][f] = vec[v][f] /\ (<<v, f>> \in t.own <=> <<v, f>> \in q.tables.own)
          BY <3>2, <2>2, <2>4
        <4> QED BY <4>1, <2>3, <2>4 DEF TablesAre
      <3> QED BY <3>1, <3>2
    <2>6. /\ undo'.world \in t.worlds /\ (undo'.test = test <=> t.back)
          /\ undo'.test = test => undo'.kind \in KindsIn[test]
          /\ t.clean /\ ~t.back => \A x \in t.excs : Fine(undo', undo'.world, x)
      BY <1>2, <2>3, <2>4 DEF TablesAre
    <2> QED BY <1>2, <2>5, <2>6 DEF TablesAre
  <1>6. Cfg(p, t, r) \in Handling(q)
    <2>1. Does(q, "restore") /\ NowOf(q.place) = s
      BY <1>1, DoesIs
    <2> HIDE DEF r
    <2>2. Cfg(p, t, r) \in {Cfg(On(q.place), Restored(q.tables, v, s.arg), r) : v \in q.tables.worlds}
      BY <1>1
    <2> QED BY <2>1, <2>2 DEF Handling, r
  <1>7. Matches(Cfg(p, t, r))'
    BY <1>3, <1>4, <1>5 DEF Matches, Cfg
  <1> HIDE DEF p, t, r
  <1> QED BY <1>3, <1>6, <1>7 DEF Follows, Proper

\* The timer interrupt is enabled, disabled, routed or cleared.
LEMMA ControlInterruptFollows ==
    ASSUME NEW q, Matches(q), ControlInterrupt PROVE Follows(q)
  <1> PICK s : s = Now
    OBVIOUS
  <1>1. /\ ~AtEnd /\ Now.op \in Controls /\ irq' = Controlled(s, irq)
        /\ UNCHANGED <<vectorVars, shcsr, nvVars, test, saved, described>> /\ Accepts
    BY
    DEF ControlInterrupt, Steps, Runs, Controls, Control, Controlled, bookVars,
        staticVars
  <1> DEFINE r == IrqTo(q.regs, {Controlled(s, x) : x \in q.regs.irq})
  <1>2. RegsAre(r)'
    BY <1>1, RegsGo DEF Matches, RegsAre
  <1>3. WithRegs(q, r) \in Controlling(q)
    BY <1>1, DoesIs DEF Controlling
  <1> HIDE DEF r
  <1> QED BY <1>1, <1>2, <1>3, CallGoes, GoesOnWith DEF Proper, WithRegs

\* An interrupt that should stay secure.
LEMMA RouteHeldFollows ==
    ASSUME NEW q, Matches(q), RouteHeld PROVE Follows(q)
  <1>1. /\ ~AtEnd /\ Now.op = "routeHeld"
        /\ UNCHANGED <<vectorVars, shcsr, nvVars, test, saved, described>>
    BY DEF RouteHeld, Steps, Runs, bookVars, staticVars
  <1>2. CASE Accepts /\ UNCHANGED irq
    <2>1. At(q, On(q.place)) \in Judging(q)
      BY <1>1, DoesIs DEF Judging, Plain
    <2> QED BY <1>1, <1>2, <2>1, CallFollows DEF Proper
  <1>3. CASE Rejects /\ irq' = [irq EXCEPT !.ns = TRUE]
    <2> DEFINE r == IrqTo(q.regs, {[x EXCEPT !.ns = TRUE] : x \in q.regs.irq})
    <2>1. RegsAre(r)'
      BY <1>1, <1>3, RegsGo DEF Matches, RegsAre
    <2>2. Cfg(Aside(Failed(q.place)), q.tables, r) \in Breaking(q)
      BY <1>1, DoesIs DEF Breaking
    <2> HIDE DEF r
    <2> QED BY <1>1, <1>3, <2>1, <2>2, CallGoes, GoesOnWith
  <1> QED BY <1>2, <1>3 DEF RouteHeld

\* SHCSR is read, hidden or put back.
LEMMA MaskFaultsFollows ==
    ASSUME TypeOK, NEW q, Matches(q), MaskFaults PROVE Follows(q)
  <1> PICK w : w = at.half
    OBVIOUS
  <1>1. /\ ~AtEnd /\ w \in Worlds
        /\ UNCHANGED <<vectorVars, irq, nvVars, test, described>> /\ Accepts
    BY Kept DEF MaskFaults, Steps, Runs, bookVars, PlaceOK
  <1>2. ASSUME NEW r, RegsAre(r)', WithRegs(q, r) \in Masked(q)
        PROVE  Follows(q)
    BY <1>1, <1>2, CallGoes, GoesOnWith DEF Proper, WithRegs
  <1>3. CASE Now.op = "save" /\ saved' = [saved EXCEPT ![at.half] = shcsr] /\ UNCHANGED shcsr
    <2> DEFINE r == SavedTo(q.regs, w, q.regs.shcsr)
    <2>1. RegsAre(r)'
      BY <1>1, <1>3, Kept, SavedGoes DEF Matches, RegsAre
    <2>2. WithRegs(q, r) \in Masked(q)
      BY <1>1, <1>3, DoesIs, PlaceIs DEF Masked
    <2> HIDE DEF r
    <2> QED BY <1>2, <2>1, <2>2
  <1>4. CASE Now.op = "hide" /\ shcsr' = "hidden" /\ UNCHANGED saved
    <2> DEFINE r == ShcsrTo(q.regs, {"hidden"})
    <2>1. RegsAre(r)'
      BY <1>1, <1>4, RegsGo DEF Matches, RegsAre
    <2>2. WithRegs(q, r) \in Masked(q)
      BY <1>1, <1>4, DoesIs, PlaceIs DEF Masked
    <2> HIDE DEF r
    <2> QED BY <1>2, <2>1, <2>2
  <1>5. CASE Now.op = "put" /\ shcsr' = saved[at.half] /\ UNCHANGED saved
    <2> DEFINE r == ShcsrTo(q.regs, q.regs.saved[w])
    <2>1. RegsAre(r)'
      BY <1>1, <1>5, RegsGo DEF Matches, RegsAre
    <2>2. WithRegs(q, r) \in Masked(q)
      BY <1>1, <1>5, DoesIs, PlaceIs DEF Masked
    <2> HIDE DEF r
    <2> QED BY <1>2, <2>1, <2>2
  <1> QED BY <1>3, <1>4, <1>5 DEF MaskFaults, Steps, Runs

\* SHCSR and the request of a second run are kept in NV memory.
LEMMA UseNvFollows ==
    ASSUME NEW q, Matches(q), UseNv PROVE Follows(q)
  <1> PICK f : f = Now.arg
    OBVIOUS
  <1>1. ~AtEnd /\ UNCHANGED <<vectorVars, irq, test, saved, described>>
    BY DEF UseNv, Steps, Runs, bookVars, staticVars
  <1>2. CASE /\ \E op \in {"saveNv", "putNv", "request", "withdraw", "writeFresh"} : Steps(op)
             /\ Rejects /\ UNCHANGED <<shcsr, nvVars>>
    <2>1. At(q, Aside(Failed(q.place))) \in Breaking(q)
      BY <1>1, <1>2, DoesIs DEF Breaking, Rejecting, Steps, Runs
    <2> QED BY <1>1, <1>2, <2>1, CallFollows
  <1>3. ASSUME Accepts, NEW r, RegsAre(r)', WithRegs(q, r) \in Masked(q) \cup Requesting(q)
        PROVE  Follows(q)
    BY <1>1, <1>3, CallGoes, GoesOnWith DEF Proper, WithRegs
  <1>4. CASE Accepts /\ Steps("saveNv") /\ nvShcsr' = shcsr /\ UNCHANGED <<shcsr, nvBoot>>
    <2> DEFINE r == NvTo(q.regs, q.regs.shcsr)
    <2>1. RegsAre(r)'
      BY <1>1, <1>4, RegsGo DEF Matches, RegsAre
    <2>2. WithRegs(q, r) \in Masked(q)
      BY <1>1, <1>4, DoesIs DEF Masked, Steps, Runs
    <2> HIDE DEF r
    <2> QED BY <1>3, <1>4, <2>1, <2>2
  <1>5. CASE Accepts /\ Steps("putNv") /\ shcsr' = nvShcsr /\ UNCHANGED nvVars
    <2> DEFINE r == ShcsrTo(q.regs, q.regs.nv)
    <2>1. RegsAre(r)'
      BY <1>1, <1>5, RegsGo DEF Matches, RegsAre
    <2>2. WithRegs(q, r) \in Masked(q)
      BY <1>1, <1>5, DoesIs DEF Masked, Steps, Runs
    <2> HIDE DEF r
    <2> QED BY <1>3, <1>5, <2>1, <2>2
  <1>6. CASE Accepts /\ Steps("request") /\ nvBoot' = nvBoot \cup {Now.arg}
             /\ UNCHANGED <<shcsr, nvShcsr>>
    <2> DEFINE r == BootTo(q.regs, {b \cup {f} : b \in q.regs.boot})
    <2>1. RegsAre(r)'
      BY <1>1, <1>6, RegsGo DEF Matches, RegsAre
    <2>2. WithRegs(q, r) \in Requesting(q)
      BY <1>1, <1>6, DoesIs DEF Requesting, Steps, Runs
    <2> HIDE DEF r
    <2> QED BY <1>3, <1>6, <2>1, <2>2
  <1>7. CASE Accepts /\ Steps("withdraw") /\ nvBoot' = nvBoot \ {Now.arg}
             /\ UNCHANGED <<shcsr, nvShcsr>>
    <2> DEFINE r == BootTo(q.regs, {b \ {f} : b \in q.regs.boot})
    <2>1. RegsAre(r)'
      BY <1>1, <1>7, RegsGo DEF Matches, RegsAre
    <2>2. WithRegs(q, r) \in Requesting(q)
      BY <1>1, <1>7, DoesIs DEF Requesting, Steps, Runs
    <2> HIDE DEF r
    <2> QED BY <1>3, <1>7, <2>1, <2>2
  <1>8. CASE Accepts /\ Steps("writeFresh") /\ nvBoot' = {} /\ UNCHANGED <<shcsr, nvShcsr>>
    <2> DEFINE r == BootTo(q.regs, {{}})
    <2>1. RegsAre(r)'
      BY <1>1, <1>8, RegsGo DEF Matches, RegsAre
    <2>2. WithRegs(q, r) \in Requesting(q)
      BY <1>1, <1>8, DoesIs DEF Requesting, Steps, Runs
    <2> HIDE DEF r
    <2> QED BY <1>3, <1>8, <2>1, <2>2
  <1> QED BY <1>2, <1>4, <1>5, <1>6, <1>7, <1>8 DEF UseNv

\* A hook looks for the request.
LEMMA AskNvFollows ==
    ASSUME NEW q, Matches(q), AskNv PROVE Follows(q)
  <1> DEFINE p == q.place
  <1>1. /\ UNCHANGED <<vectorVars, test, irq, shcsr, nvVars, saved, described>>
        /\ ~AtEnd /\ Now.op = "onRequest"
    BY DEF AskNv, Steps, Runs, bookVars, staticVars
  <1>2. /\ p.at = at /\ p.test = test /\ p.status = status /\ p.seen = seen
        /\ p.described = described
        /\ NowOf(p) = Now /\ nvBoot \in q.regs.boot
    BY PlaceIs DEF Matches, RegsAre
  <1>3. CASE Rejects
    <2>1. At(q, Aside(Failed(p))) \in Breaking(q)
      BY <1>1, DoesIs DEF Breaking, Rejecting
    <2> QED BY <1>1, <1>3, <2>1, CallFollows
  <1>4. CASE Works /\ UNCHANGED status /\ Now.arg \in nvBoot /\ GoTo("second")
    <2>1. At(q, To(p, "second")) \in Requesting(q)
      BY <1>1, <1>2, <1>4, DoesIs DEF Requesting
    <2>2. Here' = To(p, "second")
      BY <1>1, <1>2, <1>4, Goes DEF Works
    <2> HIDE DEF p
    <2> QED BY <1>1, <1>4, <2>1, <2>2, GoesOn DEF Proper, Works
  <1>5. CASE Works /\ UNCHANGED status /\ Now.arg \notin nvBoot /\ Advance
    <2>1. At(q, On(p)) \in Requesting(q)
      BY <1>1, <1>2, <1>5, DoesIs DEF Requesting
    <2>2. Here' = On(p)
      BY <1>1, <1>2, <1>5, Goes DEF Works
    <2> HIDE DEF p
    <2> QED BY <1>1, <1>5, <2>1, <2>2, GoesOn DEF Proper, Works
  <1> QED BY <1>3, <1>4, <1>5 DEF AskNv

\* The clock is looked at once it is to be trusted.
LEMMA TrustClockFollows ==
    ASSUME NEW q, Matches(q), TrustClock PROVE Follows(q)
  <1> PICK f : f = Now.arg
    OBVIOUS
  <1>1. /\ UNCHANGED <<vectorVars, test, irq, shcsr, nvShcsr, saved, described>>
        /\ ~AtEnd /\ Now.op = "trust"
    BY DEF TrustClock, Steps, Runs, bookVars, staticVars
  <1>2. CASE Accepts /\ UNCHANGED nvBoot
    <2>1. At(q, On(q.place)) \in Judging(q)
      BY <1>1, DoesIs DEF Judging, Plain
    <2> QED BY <1>1, <1>2, <2>1, CallFollows DEF Proper, nvVars
  <1>3. CASE Breaks /\ status' = "fail" /\ nvBoot' = nvBoot \ {Now.arg} /\ Advance
    <2> DEFINE r == BootTo(q.regs, {b \ {f} : b \in q.regs.boot})
               j == q.place
               p == Failed(j)
    <2>1. RegsAre(r)'
      BY <1>1, <1>3, RegsGo DEF Matches, RegsAre
    <2>2. Cfg(On(p), q.tables, r) \in Breaking(q)
      BY <1>1, DoesIs DEF Breaking
    <2>3. /\ p.at = at /\ p.test = test /\ p.status = status' /\ p.seen = seen'
          /\ p.described = described'
      <3>1. j.at = at /\ j.test = test /\ j.described = described
        BY PlaceIs
      <3> HIDE DEF j
      <3> QED BY <1>1, <1>3, <3>1 DEF Breaks, Failed, Judged, Seen
    <2> HIDE DEF r, p
    <2>4. Here' = On(p)
      BY <1>1, <1>3, <2>3, Goes
    <2> QED BY <1>1, <1>3, <2>1, <2>2, <2>4, GoesOnWith DEF Breaks
  <1> QED BY <1>2, <1>3 DEF TrustClock

\* A step that sets the status of the test.
LEMMA JudgePlainlyFollows ==
    ASSUME NEW q, Matches(q), JudgePlainly PROVE Follows(q)
  <1> DEFINE p == q.place
  <1>1. /\ UNCHANGED <<vectorVars, test, irq, shcsr, nvVars, saved, described>> /\ ~AtEnd
    BY DEF JudgePlainly, bookVars, staticVars, Steps, Runs
  <1>2. /\ p.at = at /\ p.test = test /\ p.status = status /\ p.seen = seen
        /\ p.described = described
        /\ NowOf(p) = Now /\ \A op : Does(q, op) <=> Now.op = op
    BY <1>1, DoesIs, PlaceIs
  <1> HIDE DEF p
  <1>3. CASE Steps("verdict") /\ status' \in Now.arg /\ Works /\ Advance
    <2>1. PICK v \in Now.arg : status' = v
      BY <1>3
    <2>2. Here' = On(Judged(p, v))
      BY <1>1, <1>2, <1>3, <2>1, Forms, Goes DEF Works
    <2>3. At(q, On(Judged(p, v))) \in Judging(q)
      BY <1>2, <1>3, <2>1 DEF Judging, p, Steps, Runs
    <2> QED BY <1>1, <1>3, <2>2, <2>3, GoesOn DEF Proper, Works
  <1>4. CASE Steps("expect") /\ status' = "pending" /\ Works /\ Advance
    <2>1. Here' = On(Judged(p, "pending"))
      BY <1>1, <1>2, <1>4, Forms, Goes DEF Works
    <2>2. At(q, On(Judged(p, "pending"))) \in Judging(q)
      BY <1>2, <1>4 DEF Judging, p, Steps, Runs
    <2> QED BY <1>1, <1>4, <2>1, <2>2, GoesOn DEF Proper, Works
  <1>5. CASE Steps("fail") /\ status' = "fail" /\ seen' = TRUE /\ UNCHANGED fails /\ Elsewhere
    <2>1. Here' = Aside(Failed(p))
      BY <1>1, <1>2, <1>5, Forms, Goes
    <2>2. At(q, Aside(Failed(p))) \in Judging(q)
      BY <1>2, <1>5 DEF Judging, p, Steps, Runs
    <2> QED BY <1>1, <1>5, <2>1, <2>2, GoesOn DEF Proper
  <1>6. CASE Steps("ifSeen") /\ seen /\ status' = "fail" /\ Works /\ Elsewhere
    <2> DEFINE j == Judged(p, "fail")
    <2>3. /\ j.at = at /\ j.test = test /\ j.status = status' /\ j.seen = seen'
          /\ j.described = described'
      BY <1>1, <1>2, <1>6 DEF Judged, Works
    <2> HIDE DEF j
    <2>1. Here' = Aside(j)
      BY <1>1, <1>6, <2>3, Goes
    <2> USE DEF j
    <2>2. At(q, Aside(Judged(p, "fail"))) \in Judging(q)
      BY <1>2, <1>6 DEF Judging, p, Steps, Runs
    <2> QED BY <1>1, <1>6, <2>1, <2>2, GoesOn DEF Proper, Works
  <1>7. CASE Steps("ifSeen") /\ ~seen /\ Accepts
    <2>1. At(q, On(p)) \in Judging(q)
      BY <1>2, <1>7 DEF Judging, p, Steps, Runs
    <2> QED BY <1>1, <1>7, <2>1, CallFollows DEF Proper, p
  <1> QED BY <1>3, <1>4, <1>5, <1>6, <1>7 DEF JudgePlainly

\* A call whose result is looked at, or not, and a return.
LEMMA JudgeCallFollows ==
    ASSUME NEW q, Matches(q), JudgeCall PROVE Follows(q)
  <1> DEFINE p == q.place
  <1>1. /\ UNCHANGED <<vectorVars, test, irq, shcsr, nvVars, saved, described>> /\ ~AtEnd
    BY DEF JudgeCall, bookVars, staticVars, Steps, Runs
  <1>2. /\ p.at = at /\ p.test = test /\ p.status = status /\ p.seen = seen
        /\ p.described = described
        /\ NowOf(p) = Now /\ \A op : Does(q, op) <=> Now.op = op
    BY <1>1, DoesIs, PlaceIs
  <1> HIDE DEF p
  <1>3. CASE Now.op \in Plain /\ Accepts
    <2>1. At(q, On(p)) \in Judging(q)
      BY <1>2, <1>3 DEF Judging, p
    <2> QED BY <1>1, <1>3, <2>1, CallFollows DEF Proper, p
  <1>4. CASE Steps("check") /\ Rejects
    <2>1. At(q, Aside(Failed(p))) \in Breaking(q)
      BY <1>2, <1>4 DEF Breaking, Rejecting, p, Steps, Runs
    <2> QED BY <1>1, <1>4, <2>1, CallFollows DEF p
  <1>5. CASE (Steps("quiet") \/ Steps("unheeded")) /\ Breaks /\ UNCHANGED status /\ Elsewhere
    <2>1. At(q, Aside(Seen(p))) \in Breaking(q)
      BY <1>2, <1>5 DEF Breaking, p, Steps, Runs
    <2>2. Here' = Aside(Seen(p))
      BY <1>1, <1>2, <1>5, Forms, Goes DEF Breaks
    <2> QED BY <1>1, <1>5, <2>1, <2>2, GoesOn DEF Breaks
  <1>6. CASE (Steps("return") \/ Steps("mayReturn")) /\ Works /\ UNCHANGED status /\ Leave
    <2>1. At(q, Left(p)) \in Judging(q)
      BY <1>2, <1>6 DEF Judging, p, Steps, Runs
    <2>2. Here' = Left(p)
      BY <1>1, <1>2, <1>6, Goes DEF Works
    <2> QED BY <1>1, <1>6, <2>1, <2>2, GoesOn DEF Works, Proper
  <1>7. CASE Steps("maySkip") /\ Works /\ status' = "skip" /\ Elsewhere
    <2>1. At(q, Aside(Judged(p, "skip"))) \in Judging(q)
      BY <1>2, <1>7 DEF Judging, p, Steps, Runs
    <2>2. Here' = Aside(Judged(p, "skip"))
      BY <1>1, <1>2, <1>7, Forms, Goes DEF Works
    <2> QED BY <1>1, <1>7, <2>1, <2>2, GoesOn DEF Works, Proper
  <1> QED BY <1>3, <1>4, <1>5, <1>6, <1>7 DEF JudgeCall, Plain, Steps, Runs

\* A branch, and a loop.
LEMMA LoopFollows ==
    ASSUME NEW q, Matches(q), Loop PROVE Follows(q)
  <1> DEFINE p == q.place
  <1> PICK n : n = Now.arg
    OBVIOUS
  <1>1. /\ UNCHANGED <<vectorVars, test, irq, shcsr, nvVars, saved, described, status>> /\ ~AtEnd
        /\ Works
    BY DEF Loop, bookVars, staticVars, Steps, Runs
  <1>2. /\ p.at = at /\ p.test = test /\ p.status = status /\ p.seen = seen
        /\ p.described = described
        /\ NowOf(p) = Now /\ \A op : Does(q, op) <=> Now.op = op
    BY <1>1, DoesIs, PlaceIs
  <1> HIDE DEF p
  <1>3. ASSUME NEW d, Here' = d, At(q, d) \in Judging(q)
        PROVE  Follows(q)
    BY <1>1, <1>3, GoesOn DEF Proper, Works
  <1>4. CASE Now.op \in {"maybe", "again"} /\ Skip(1)
    <2>1. At(q, On(p)) \in Judging(q)
      BY <1>2, <1>4 DEF Judging, p, Plain
    <2>2. Here' = On(p)
      BY <1>1, <1>2, <1>4, Goes DEF Works, Advance
    <2> QED BY <1>3, <2>1, <2>2
  <1>5. CASE Steps("maybe") /\ Skip(Now.arg + 1)
    <2>1. At(q, Moved(p, n + 1)) \in Judging(q)
      BY <1>2, <1>5 DEF Judging, p, Steps, Runs
    <2>2. Here' = Moved(p, n + 1)
      BY <1>1, <1>2, <1>5, Goes DEF Works
    <2> QED BY <1>3, <2>1, <2>2
  <1>6. CASE Steps("again") /\ at' = [at EXCEPT !.i = @ - Now.arg]
    <2>1. At(q, Placed(p, [p.at EXCEPT !.i = @ - n])) \in Judging(q)
      BY <1>2, <1>6 DEF Judging, p, Steps, Runs
    <2>2. Here' = Placed(p, [p.at EXCEPT !.i = @ - n])
      BY <1>1, <1>2, <1>6 DEF Works, Placed, Here
    <2> QED BY <1>3, <2>1, <2>2
  <1>7. CASE Steps("again") /\ at' = [at EXCEPT !.i = @ + 1]
    <2>1. At(q, On(p)) \in Judging(q)
      BY <1>2, <1>7 DEF Judging, p, Plain, Steps, Runs
    <2>2. Here' = On(p)
      BY <1>1, <1>2, <1>7 DEF Works, On, Moved, Placed, Here
    <2> QED BY <1>3, <2>1, <2>2
  <1> QED BY <1>4, <1>5, <1>6, <1>7 DEF Loop, Advance, Steps, Runs

\* val_test_initialize zeroes the statics of the half.
LEMMA InitializeFollows ==
    ASSUME TypeOK, NEW q, Matches(q), Initialize PROVE Follows(q)
  <1> DEFINE j == q.place
  <1> PICK w : w = at.half
    OBVIOUS
  <1>1. /\ UNCHANGED <<vectorVars, test, irq, shcsr, nvVars>> /\ ~AtEnd /\ Now.op = "clear" /\ Accepts
        /\ w \in Worlds /\ described' = described \ {w} /\ saved' = [saved EXCEPT ![w] = "hidden"]
    BY Kept DEF Initialize, bookVars, Steps, Runs, PlaceOK
  <1>2. j.at = at /\ j.test = test /\ j.status = status /\ j.seen = seen /\ j.described = described
    BY PlaceIs
  <1> DEFINE r == SavedTo(q.regs, w, {"hidden"})
             p == Knowing(j, j.described \ {w})
  <1>3. RegsAre(r)'
    BY <1>1, Kept, SavedGoes DEF Matches
  <1>4. Cfg(On(p), q.tables, r) \in Describing(q)
    BY <1>1, <1>2, DoesIs DEF Describing
  <1> HIDE DEF r, j
  <1>5. /\ p.at = at /\ p.test = test /\ p.status = status' /\ p.seen = seen'
        /\ p.described = described'
    BY <1>1, <1>2 DEF Knowing, Accepts, Works
  <1> HIDE DEF p
  <1>6. Here' = On(p)
    BY <1>1, <1>5, Goes DEF Accepts
  <1> QED BY <1>1, <1>3, <1>4, <1>6, GoesOnWith DEF Accepts, Works, Proper

\* A descriptor is fetched.
LEMMA DescribeFollows ==
    ASSUME NEW q, Matches(q), Describe PROVE Follows(q)
  <1> DEFINE j == q.place
  <1> PICK w : w = at.half
    OBVIOUS
  <1>1. /\ UNCHANGED <<vectorVars, test, irq, shcsr, nvVars, saved>> /\ ~AtEnd /\ Now.op = "describe"
    BY DEF Describe, bookVars, Steps, Runs
  <1>2. j.at = at /\ j.test = test /\ j.status = status /\ j.seen = seen /\ j.described = described
    BY PlaceIs
  <1>3. CASE Accepts /\ described' = described \cup {at.half}
    <2> DEFINE p == Knowing(j, j.described \cup {w})
    <2>1. At(q, On(p)) \in Describing(q)
      BY <1>1, <1>2, DoesIs DEF Describing
    <2> HIDE DEF j
    <2>2. /\ p.at = at /\ p.test = test /\ p.status = status' /\ p.seen = seen'
          /\ p.described = described'
      BY <1>2, <1>3 DEF Knowing, Accepts, Works
    <2> HIDE DEF p
    <2>3. Here' = On(p)
      BY <1>1, <1>3, <2>2, Goes DEF Accepts
    <2> QED BY <1>1, <1>3, <2>1, <2>3, GoesOn DEF Accepts, Works, Proper
  <1>4. CASE Rejects /\ UNCHANGED described
    <2>1. At(q, Aside(Failed(q.place))) \in Breaking(q)
      BY <1>1, DoesIs DEF Breaking, Rejecting
    <2> QED BY <1>1, <1>4, <2>1, CallFollows
  <1> QED BY <1>3, <1>4 DEF Describe

\* A descriptor is used, whether it was fetched or not.
LEMMA UseDescriptorFollows ==
    ASSUME NEW q, Matches(q), mode = "run", UseDescriptor PROVE Follows(q)
  <1> DEFINE j == q.place
  <1>1. /\ UNCHANGED <<vectorVars, test, irq, shcsr, nvVars, saved, described>> /\ ~AtEnd
        /\ Now.op = "useDesc" /\ Works
    BY DEF UseDescriptor, bookVars, staticVars, Steps, Runs
  <1>2. j.at = at /\ j.test = test /\ j.status = status /\ j.seen = seen /\ j.described = described
    BY PlaceIs
  <1>3. CASE at.half \in described /\ Advance /\ UNCHANGED <<status, mode>>
    <2>1. At(q, On(j)) \in Describing(q)
      BY <1>1, <1>2, <1>3, DoesIs DEF Describing
    <2> HIDE DEF j
    <2>2. Here' = On(j)
      BY <1>1, <1>2, <1>3, Goes DEF Works
    <2> QED BY <1>1, <2>1, <2>2, GoesOn DEF Works, Proper
  <1>4. CASE at.half \notin described /\ Leave /\ status' = "fail" /\ UNCHANGED mode
    <2> DEFINE p == Judged(j, "fail")
    <2>1. At(q, Left(p)) \in Describing(q)
      BY <1>1, <1>2, <1>4, DoesIs DEF Describing
    <2> HIDE DEF j
    <2>2. /\ p.at = at /\ p.test = test /\ p.status = status' /\ p.seen = seen'
          /\ p.described = described'
      BY <1>1, <1>2, <1>4 DEF Judged, Works
    <2> HIDE DEF p
    <2>3. Here' = Left(p)
      BY <1>1, <1>4, <2>2, Goes
    <2> QED BY <1>1, <2>1, <2>3, GoesOn DEF Works, Proper
  <1>5. CASE mode' = "astray"
    BY <1>5 DEF Follows
  <1> QED BY <1>3, <1>4, <1>5 DEF UseDescriptor

\* A handler that takes a fault.
LEMMA TakenFollows ==
    ASSUME TypeOK, NEW q, Matches(q), NoReboot, ~AtEnd, Now.op \in {"probe", "trap"},
           NEW h \in FaultHandlers, TakenBy(h)
    PROVE  Follows(q)
  <1> DEFINE j == q.place
  <1>1. UNCHANGED <<vectorVars, test, irq, shcsr, nvVars, saved, described>>
    BY DEF NoReboot, bookVars, staticVars
  <1>2. j.at = at /\ j.test = test /\ j.status = status /\ j.seen = seen /\ j.described = described
    BY PlaceIs
  <1>3. ASSUME h.test = test
        PROVE  OwnFault(q) /\ \A k : h.kind = k => ByTest(q, k)
    <2>1. test # 0
      BY Kept DEF PlaceOK
    <2>2. h = vec["s"]["HF"]
      BY <1>3, <2>1 DEF FaultHandlers, Default, Handler
    <2> QED BY <1>2, <1>3, <2>2 DEF Matches, TablesAre, OwnFault, ByTest, Worlds, Excs
  <1>4. CASE h.test = test /\ h.kind = "judge" /\ Excused /\ Advance /\ Works
    <2> DEFINE p == ExcusedAt(j)
    <2>1. At(q, On(p)) \in Faulting(q)
      BY <1>3, <1>4, DoesIs DEF Faulting
    <2> HIDE DEF j
    <2>2. /\ p.at = at /\ p.test = test /\ p.status = status' /\ p.seen = seen'
          /\ p.described = described'
      BY <1>1, <1>2, <1>4 DEF ExcusedAt, Excused, Judged, Works
    <2> HIDE DEF p
    <2>3. Here' = On(p)
      BY <1>1, <1>4, <2>2, Goes
    <2> QED BY <1>1, <1>4, <2>1, <2>3, GoesOn DEF Works, Proper
  <1>5. CASE h.test = test /\ h.kind = "pass over" /\ Accepts
    <2>1. At(q, On(j)) \in Faulting(q)
      BY <1>3, <1>5, DoesIs DEF Faulting
    <2> QED BY <1>1, <1>5, <2>1, CallFollows DEF Proper
  <1>6. CASE Lost(h)
    BY <1>6 DEF Follows, Lost
  <1> QED BY <1>4, <1>5, <1>6 DEF TakenBy

\* An access that should fault.
LEMMA ProbeFollows ==
    ASSUME TypeOK, NEW q, Matches(q), Probe PROVE Follows(q)
  <1> DEFINE j == q.place
  <1>1. UNCHANGED <<vectorVars, test, irq, shcsr, nvVars, saved, described>>
        /\ NoReboot /\ ~AtEnd /\ Now.op = "probe"
    BY DEF Probe, NoReboot, bookVars, staticVars, Steps, Runs
  <1>2. /\ j.at = at /\ j.test = test /\ j.status = status /\ j.seen = seen
        /\ j.described = described
        /\ NowOf(j) = Now
    BY PlaceIs
  <1>3. CASE \E h \in FaultHandlers : TakenBy(h)
    BY <1>1, <1>3, TakenFollows
  <1>4. CASE Now.arg = "timed" /\ Rejects
    <2>1. At(q, Aside(Failed(q.place))) \in Breaking(q)
      BY <1>1, <1>2, <1>4, DoesIs DEF Breaking
    <2> QED BY <1>1, <1>4, <2>1, CallFollows
  <1>5. CASE mode' = "hung"
    BY <1>5 DEF Follows
  <1>6. CASE Now.arg = "ignored" /\ Breaks /\ Advance /\ UNCHANGED status
    <2> DEFINE p == Seen(j)
    <2>1. At(q, On(p)) \in Breaking(q)
      BY <1>1, <1>2, <1>6, DoesIs DEF Breaking
    <2> HIDE DEF j
    <2>2. /\ p.at = at /\ p.test = test /\ p.status = status' /\ p.seen = seen'
          /\ p.described = described'
      BY <1>1, <1>2, <1>6 DEF Seen, Breaks
    <2> HIDE DEF p
    <2>3. Here' = On(p)
      BY <1>1, <1>6, <2>2, Goes
    <2> QED BY <1>1, <1>6, <2>1, <2>3, GoesOn DEF Breaks
  <1> QED BY <1>3, <1>4, <1>5, <1>6 DEF Probe

\* An access that may fault, or should not.
LEMMA ProbeFreelyFollows ==
    ASSUME TypeOK, NEW q, Matches(q), ProbeFreely PROVE Follows(q)
  <1> DEFINE j == q.place
  <1>1. UNCHANGED <<vectorVars, test, irq, shcsr, nvVars, saved, described>>
        /\ NoReboot /\ ~AtEnd /\ Now.op = "probe" /\ Now.arg \in {"optional", "unwanted"}
    BY DEF ProbeFreely, NoReboot, bookVars, staticVars, Steps, Runs
  <1>2. /\ j.at = at /\ j.test = test /\ j.status = status /\ j.seen = seen
        /\ j.described = described
        /\ NowOf(j) = Now
    BY PlaceIs
  <1>3. CASE \E h \in FaultHandlers : TakenBy(h)
    BY <1>1, <1>3, TakenFollows
  <1>4. CASE Accepts
    <2>1. At(q, On(j)) \in Faulting(q)
      BY <1>1, <1>2, DoesIs DEF Faulting
    <2> QED BY <1>1, <1>4, <2>1, CallFollows DEF Proper
  <1>5. CASE Now.arg = "unwanted" /\ Breaks /\ status' = "fail" /\ Advance
    <2> DEFINE p == Failed(j)
    <2>1. At(q, On(p)) \in Breaking(q)
      BY <1>1, <1>2, <1>5, DoesIs DEF Breaking
    <2> HIDE DEF j
    <2>2. /\ p.at = at /\ p.test = test /\ p.status = status' /\ p.seen = seen'
          /\ p.described = described'
      BY <1>1, <1>2, <1>5 DEF Failed, Judged, Seen, Breaks
    <2> HIDE DEF p
    <2>3. Here' = On(p)
      BY <1>1, <1>5, <2>2, Goes
    <2> QED BY <1>1, <1>5, <2>1, <2>3, GoesOn DEF Breaks
  <1>6. CASE \E h \in FaultHandlers : Lost(h)
    BY <1>6 DEF Follows, Lost
  <1> QED BY <1>3, <1>4, <1>5, <1>6 DEF ProbeFreely

\* An access whose handler resets the system.
LEMMA TrapFollows ==
    ASSUME TypeOK, NEW q, Matches(q), Trap
    PROVE  Follows(q) \/ (Resets(q) /\ Reboot)
  <1> DEFINE j == q.place
  <1>1. ~AtEnd /\ Now.op = "trap"
    BY DEF Trap, Steps, Runs
  <1>2. /\ j.at = at /\ j.test = test /\ j.status = status /\ j.seen = seen
        /\ j.described = described
        /\ NowOf(j) = Now
    BY PlaceIs
  <1>3. ASSUME NoReboot PROVE UNCHANGED <<vectorVars, test, irq, shcsr, nvVars, saved, described>>
    BY <1>3 DEF NoReboot, bookVars, staticVars
  <1>4. CASE \E h \in FaultHandlers : h.test = test /\ h.kind = "reset" /\ Reboot
    <2> PICK h \in FaultHandlers : h.test = test /\ h.kind = "reset" /\ Reboot
      BY <1>4
    <2>1. test # 0
      BY Kept DEF PlaceOK
    <2>2. h = vec["s"]["HF"]
      BY <2>1 DEF FaultHandlers, Default, Handler
    <2>3. OwnFault(q) /\ ByTest(q, "reset")
      BY <1>2, <2>2 DEF Matches, TablesAre, OwnFault, ByTest, Worlds, Excs
    <2> QED BY <1>1, <2>3, DoesIs DEF Resets
  <1>5. CASE NoReboot /\ \E h \in FaultHandlers : TakenBy(h)
    BY <1>1, <1>5, TakenFollows
  <1>6. CASE NoReboot /\ Now.to = "next" /\ Accepts
    <2>1. At(q, On(j)) \in Faulting(q)
      BY <1>1, <1>2, <1>6, DoesIs DEF Faulting
    <2> QED BY <1>3, <1>6, <2>1, CallFollows DEF Proper
  <1>7. CASE NoReboot /\ Now.to # "next" /\ Breaks /\ Advance /\ UNCHANGED status
    <2> DEFINE p == Seen(j)
    <2>1. At(q, On(p)) \in Breaking(q)
      BY <1>1, <1>2, <1>7, DoesIs DEF Breaking
    <2> HIDE DEF j
    <2>2. /\ p.at = at /\ p.test = test /\ p.status = status' /\ p.seen = seen'
          /\ p.described = described'
      BY <1>2, <1>3, <1>7 DEF Seen, Breaks
    <2> HIDE DEF p
    <2>3. Here' = On(p)
      BY <1>3, <1>7, <2>2, Goes
    <2> QED BY <1>3, <1>7, <2>1, <2>3, GoesOn DEF Breaks
  <1> QED BY <1>4, <1>5, <1>6, <1>7 DEF Trap

\* A reset that is asked for, or the bite of a watchdog.
LEMMA AskForResetFollows ==
    ASSUME NEW q, Matches(q), AskForReset
    PROVE  Follows(q) \/ (Resets(q) /\ Reboot)
  <1> DEFINE j == q.place
  <1>1. ~AtEnd /\ Now.op \in {"coldReset", "watchdog"}
    BY DEF AskForReset, Steps, Runs
  <1>2. /\ j.at = at /\ j.test = test /\ j.status = status /\ j.seen = seen
        /\ j.described = described
    BY PlaceIs
  <1>3. CASE Reboot
    BY <1>1, <1>3, DoesIs DEF Resets
  <1>4. CASE NoReboot /\ Breaks /\ Advance /\ UNCHANGED status
    <2> DEFINE p == Seen(j)
    <2>1. At(q, On(p)) \in Breaking(q)
      BY <1>1, DoesIs DEF Breaking
    <2> HIDE DEF j
    <2>2. UNCHANGED <<vectorVars, test, irq, shcsr, nvVars, saved, described>>
      BY <1>4 DEF NoReboot, bookVars, staticVars
    <2>3. /\ p.at = at /\ p.test = test /\ p.status = status' /\ p.seen = seen'
          /\ p.described = described'
      BY <1>2, <1>4, <2>2 DEF Seen, Breaks
    <2> HIDE DEF p
    <2>4. Here' = On(p)
      BY <1>4, <2>2, <2>3, Goes
    <2> QED BY <1>4, <2>1, <2>2, <2>4, GoesOn DEF Breaks
  <1> QED BY <1>3, <1>4 DEF AskForReset

\* A loop that waits for an interrupt.
LEMMA AwaitFollows ==
    ASSUME NEW q, Matches(q), Await PROVE Follows(q)
  <1>1. /\ UNCHANGED <<vectorVars, test, irq, shcsr, nvVars, saved, described>> /\ ~AtEnd
        /\ Now.op \in {"awaitStatus", "awaitFlag"}
    BY DEF Await, bookVars, staticVars, Steps, Runs
  <1>2. CASE Rejects
    <2>1. At(q, Aside(Failed(q.place))) \in Breaking(q)
      BY <1>1, DoesIs DEF Breaking, Rejecting
    <2> QED BY <1>1, <1>2, <2>1, CallFollows
  <1>3. CASE Accepts /\ (Now.op = "awaitStatus" => status # "pending")
    <2>1. At(q, On(q.place)) \in Judging(q)
      BY <1>1, <1>3, DoesIs, PlaceIs DEF Judging, Plain
    <2> QED BY <1>1, <1>3, <2>1, CallFollows DEF Proper
  <1> QED BY <1>2, <1>3 DEF Await, Steps, Runs

\* A block is done: the framework calls the next hook.
LEMMA NextBlockFollows ==
    ASSUME TypeOK, NEW q, Matches(q), NextBlock
    PROVE  fails' = fails /\ \E d \in NextHook(q) : Matches(d)'
  <1> DEFINE p == q.place
  <1>1. /\ UNCHANGED <<vectorVars, test, irq, shcsr, nvVars, saved, described, status, seen, fails>>
        /\ AtEnd
    BY DEF NextBlock, BlockEnds, bookVars, staticVars
  <1>2. /\ p.at = at /\ p.test = test /\ p.status = status /\ p.seen = seen
        /\ p.described = described
        /\ EndOf(p)
    BY <1>1, DoesIs, PlaceIs, HereIs
  <1>3. ASSUME NEW b, GoTo(b), At(q, To(p, b)) \in NextHook(q)
        PROVE  \E d \in NextHook(q) : Matches(d)'
    <2> HIDE DEF p
    <2>1. Here' = To(p, b)
      BY <1>1, <1>2, <1>3, Goes
    <2>2. Matches(At(q, To(p, b)))'
      BY <1>1, <2>1, TablesStay, RegsStay DEF Matches, At, Cfg
    <2> QED BY <1>3, <2>2
  <1>4. CASE at.block = "entry" /\ GoTo(IF status = "pass" THEN "payload" ELSE "exit")
    <2> PICK b : b = IF status = "pass" THEN "payload" ELSE "exit"
      OBVIOUS
    <2>1. At(q, To(p, b)) \in NextHook(q)
      BY <1>2, <1>4 DEF NextHook
    <2> QED BY <1>1, <1>3, <1>4, <2>1
  <1>5. CASE at.block = "payload" /\ GoTo("second")
    <2>1. At(q, To(p, "second")) \in NextHook(q)
      BY <1>2, <1>5 DEF NextHook
    <2> QED BY <1>1, <1>3, <1>5, <2>1
  <1>6. CASE at.block = "second" /\ GoTo("cleanup")
    <2>1. At(q, To(p, "cleanup")) \in NextHook(q)
      BY <1>2, <1>6 DEF NextHook
    <2> QED BY <1>1, <1>3, <1>6, <2>1
  <1>7. CASE at.block = "cleanup" /\ GoTo("exit")
    <2>1. At(q, To(p, "exit")) \in NextHook(q)
      BY <1>2, <1>7 DEF NextHook
    <2> QED BY <1>1, <1>3, <1>7, <2>1
  <1>8. at.block \in {"entry", "payload", "second", "cleanup"}
    BY Kept, HookNames DEF NextBlock, PlaceOK
  <1> QED BY <1>4, <1>5, <1>6, <1>7, <1>8 DEF NextBlock

\* The secure half is done: the non-secure one starts.
LEMMA NextHalfFollows ==
    ASSUME NEW q, Matches(q), NextHalf
    PROVE  fails' = fails /\ \E d \in NextHook(q) : Matches(d)'
  <1> DEFINE p == q.place
             a == [half |-> "ns", block |-> (IF p.status = "pass" THEN "entry" ELSE "exit"), i |-> 1]
  <1>1. /\ UNCHANGED <<vectorVars, test, irq, shcsr, nvVars, saved, described, status, seen, fails>>
        /\ AtEnd /\ at.block = "exit" /\ at.half = "s"
    BY DEF NextHalf, BlockEnds, bookVars, staticVars
  <1>2. /\ p.at = at /\ p.test = test /\ p.status = status /\ p.seen = seen
        /\ p.described = described
        /\ EndOf(p)
    BY <1>1, DoesIs, PlaceIs, HereIs
  <1>3. At(q, Placed(p, a)) \in NextHook(q)
    BY <1>1, <1>2 DEF NextHook
  <1>4. at' = a
    BY <1>2 DEF NextHalf
  <1> HIDE DEF p, a
  <1>5. Here' = Placed(p, a)
    BY <1>1, <1>2, <1>4 DEF Here, Placed
  <1>6. Matches(At(q, Placed(p, a)))'
    BY <1>1, <1>5, TablesStay, RegsStay DEF Matches, At, Cfg
  <1> QED BY <1>1, <1>3, <1>6

\* The timer makes its interrupt pending.
LEMMA TimerFiresFollows ==
    ASSUME NEW c, Matches(c), TimerFires
    PROVE  fails' = fails /\ \E d \in Due(c) : Matches(d)'
  <1> DEFINE ready == {x \in c.regs.irq : x.running /\ ~x.pending}
             r == IrqTo(c.regs, c.regs.irq \cup {[x EXCEPT !.pending = TRUE] : x \in ready})
  <1>1. irq \in ready /\ irq' = [irq EXCEPT !.pending = TRUE] /\ irq \in c.regs.irq
        /\ UNCHANGED <<vectorVars, test, shcsr, nvVars, saved, fails>>
    BY DEF TimerFires, Matches, RegsAre, bookVars, staticVars
  <1>2. Here' = c.place
    BY DEF TimerFires, Matches, Here, bookVars, staticVars
  <1>3. RegsAre(r)'
    BY <1>1, RegsGo DEF Matches
  <1>4. Cfg(c.place, c.tables, r) \in Due(c)
    BY <1>1 DEF Due
  <1> HIDE DEF r
  <1>5. Matches(Cfg(c.place, c.tables, r))'
    BY <1>1, <1>2, <1>3, TablesStay DEF Matches, Cfg
  <1> QED BY <1>1, <1>4, <1>5

\* A pending interrupt is taken, by the handler of the test or by one that ends the run.
LEMMA InterruptFollows ==
    ASSUME TypeOK, NEW c, Matches(c), Interrupt
    PROVE  mode' # "run" \/ (fails' = fails /\ \E d \in Interrupted(c) : Matches(d)')
  <1> DEFINE w == IF irq.ns THEN "ns" ELSE "s"
             h == vec[w]["TMR"]
             taken == TakenHere(c)
             X == {[x EXCEPT !.pending = FALSE] : x \in taken}
             Y == {[QuietIrq EXCEPT !.ns = x.ns] : x \in taken}
             Z == {[x EXCEPT !.pending = FALSE, !.running = FALSE] : x \in taken}
             j == c.place
  <1>1. /\ UNCHANGED <<vectorVars, test, shcsr, nvVars, at, saved, described, seen, fails>>
        /\ irq.on /\ irq.pending /\ irq \in c.regs.irq
    BY DEF Interrupt, Matches, RegsAre, bookVars
  <1>2. /\ j.at = at /\ j.test = test /\ j.status = status /\ j.seen = seen
        /\ j.described = described
    BY PlaceIs
  <1>3. CASE h.test # test
    BY <1>3 DEF Interrupt, Lost
  <1>4. CASE h.test = test /\ OwnInterrupt(h.kind)
    <2>1. w \in Worlds /\ TablesAre(c.tables)
      BY DEF Worlds, Matches
    <2>2. <<w, "TMR">> \in c.tables.own /\ h.kind \in KindsIn[test]
      BY <1>4, <2>1 DEF TablesAre, Excs
    <2>3. irq \in taken /\ taken # {}
      BY <1>1, <2>2 DEF TakenHere
    <2>4. ByTest(c, h.kind)
      BY <1>2, <2>2 DEF ByTest
    <2> HIDE DEF h, taken
    <2>5. ASSUME NEW p, Here' = p, NEW S, irq' \in S, Cfg(p, c.tables, IrqTo(c.regs, S)) \in Interrupted(c)
          PROVE  fails' = fails /\ \E d \in Interrupted(c) : Matches(d)'
      <3>1. RegsAre(IrqTo(c.regs, S))'
        BY <1>1, <2>5, RegsGo DEF Matches
      <3>2. Matches(Cfg(p, c.tables, IrqTo(c.regs, S)))'
        BY <1>1, <2>5, <3>1, TablesStay DEF Matches, Cfg
      <3> QED BY <1>1, <2>5, <3>2
    <2>6. CASE h.kind = "count" /\ UNCHANGED status
               /\ irq' \in {[irq EXCEPT !.pending = FALSE], [QuietIrq EXCEPT !.ns = irq.ns]}
      <3>1. irq' \in X \cup Y
        BY <2>3, <2>6
      <3>2. Cfg(j, c.tables, IrqTo(c.regs, X \cup Y)) \in Interrupted(c)
        BY <2>3, <2>4, <2>6 DEF Interrupted, taken
      <3>3. Here' = j
        BY <1>1, <2>6 DEF Here, Matches
      <3> QED BY <2>5, <3>1, <3>2, <3>3
    <2>7. CASE h.kind = "flag" /\ UNCHANGED status /\ irq' = [irq EXCEPT !.pending = FALSE]
      <3>1. irq' \in X
        BY <2>3, <2>7
      <3>2. Cfg(j, c.tables, IrqTo(c.regs, X)) \in Interrupted(c)
        BY <2>3, <2>4, <2>7 DEF Interrupted, taken
      <3>3. Here' = j
        BY <1>1, <2>7 DEF Here, Matches
      <3> QED BY <2>5, <3>1, <3>2, <3>3
    <2>8. CASE h.kind = "stop" /\ Excused /\ irq' = [irq EXCEPT !.pending = FALSE, !.running = FALSE]
      <3>1. irq' \in Z
        BY <2>3, <2>8
      <3>2. Cfg(ExcusedAt(j), c.tables, IrqTo(c.regs, Z)) \in Interrupted(c)
        BY <2>3, <2>4, <2>8 DEF Interrupted, taken
      <3> HIDE DEF j
      <3>3. Here' = ExcusedAt(j)
        BY <1>1, <1>2, <2>8 DEF Here, ExcusedAt, Excused, Judged
      <3> QED BY <2>5, <3>1, <3>2, <3>3
    <2> QED BY <1>4, <2>6, <2>7, <2>8 DEF OwnInterrupt
  <1> QED BY <1>3, <1>4 DEF Interrupt

\* One step, of a configuration that matches: the outline has the next one, the system is
\* rebooted, or the test is done.
LEMMA StepFollows ==
    ASSUME SuiteFits, TypeOK, StandInv, mode = "run", NEW c, Matches(c), [Next]_vars
    PROVE  \/ mode' # "run"
           \/ fails' = fails /\ \E d \in After(c) \cup {c} : Matches(d)'
           \/ fails' = fails + 1 /\ \E d \in Slips(c) : Matches(d)'
           \/ Resets(c) /\ Reboot
           \/ NextTest
  <1> DEFINE q == Rest(c)
  <1>1. CASE Thread /\ ~NextTest
    <2>1. ~(irq.on /\ irq.pending)
      BY <1>1
      DEF Thread, SetupHandler, RestoreHandler, ControlInterrupt, RouteHeld,
          MaskFaults, UseNv,
         AskNv, TrustClock, JudgePlainly, JudgeCall, Loop, Initialize, Describe, UseDescriptor, Probe,
         ProbeFreely, Trap, AskForReset, Await, NextBlock, NextHalf, BlockEnds, Steps
    <2>2. Matches(q) /\ q.regs.irq # {} /\ q.place = c.place /\ q.tables = c.tables
      BY <2>1, Resting
    <2> HIDE DEF q
    <2>3. CASE Follows(q)
      BY <2>2, <2>3 DEF Follows, After, Slips, q
    <2>4. CASE Resets(q) /\ Reboot
      BY <2>2, <2>4 DEF Resets, Does, OwnFault, ByTest
    <2>5. CASE fails' = fails /\ \E d \in NextHook(q) : Matches(d)'
      BY <2>2, <2>5 DEF After, q
    <2> QED BY <1>1, <2>2, <2>3, <2>4, <2>5, SetupHandlerFollows, RestoreHandlerFollows,
         ControlInterruptFollows, RouteHeldFollows, MaskFaultsFollows, UseNvFollows, AskNvFollows,
         TrustClockFollows, JudgePlainlyFollows, JudgeCallFollows, LoopFollows, InitializeFollows,
         DescribeFollows, UseDescriptorFollows, ProbeFollows, ProbeFreelyFollows, TrapFollows,
         AskForResetFollows, AwaitFollows, NextBlockFollows, NextHalfFollows
       DEF Thread
  <1>2. CASE Interrupt
    BY <1>2, InterruptFollows DEF After
  <1>3. CASE TimerFires
    BY <1>3, TimerFiresFollows DEF After
  <1>4. CASE UNCHANGED vars
    <2>1. Here' = Here /\ fails' = fails
      BY <1>4 DEF vars, Here, bookVars, staticVars
    <2>2. Matches(c)'
      BY <1>4, <2>1, TablesStay, RegsStay DEF vars, Matches, bookVars, staticVars
    <2> QED BY <2>1, <2>2
  <1> QED BY <1>1, <1>2, <1>3, <1>4 DEF Next, Stopped

-----------------------------------------------------------------------------
(* What holds between the tests *)

\* A state other than "run" is the last one.
LEMMA Halted ==
    ASSUME mode # "run", [Next]_vars PROVE UNCHANGED vars
  BY
  DEF Next, Stopped, Thread, SetupHandler, RestoreHandler, ControlInterrupt, RouteHeld,
      MaskFaults,
     UseNv, AskNv, TrustClock, JudgePlainly, JudgeCall, Loop, Initialize, Describe, UseDescriptor, Probe,
     ProbeFreely, Trap, AskForReset, Await, NextBlock, NextHalf, NextTest, TestEnds, BlockEnds, Steps, Runs,
     Interrupt, TimerFires

\* What becomes of the tables.
LEMMA TablesGo ==
    ASSUME [Next]_vars
    PROVE  SetupHandler \/ RestoreHandler \/ Reboot \/ NextTest \/ UNCHANGED <<vectorVars, bookVars>>
  BY DEF Next, Stopped, Thread, ControlInterrupt, RouteHeld, MaskFaults,
     UseNv, AskNv, TrustClock, JudgePlainly, JudgeCall, Loop, Initialize, Describe, UseDescriptor, Probe,
     ProbeFreely, Trap, AskForReset, Await, NextBlock, NextHalf, NoReboot,
     Interrupt, TimerFires, vars

\* Default entries are of no test.
LEMMA DefaultIs ==
    /\ \A w \in Worlds, e \in Excs : DefaultTables[w][e] = Default(w, e)
    /\ \A w, e : Default(w, e).world = w /\ Default(w, e).test = 0
    /\ Null.test = 0
  BY DEF DefaultTables, Default, Null, Handler

\* The number of a test that an entry names.
LEMMA HandlerTests == \A h \in Handlers : h.test \in 0..NumTests
  BY DEF Handlers, Handler

\* No step puts an entry into the table of another world, or of a test to come.
LEMMA StandStep ==
    ASSUME SuiteFits, TypeOK, StandInv, [Next]_vars PROVE StandInv'
  <1>1. /\ vec \in [Worlds -> [Excs -> Handlers]] /\ undo \in Handlers /\ test \in 1..NumTests
        /\ at.half \in Worlds /\ undo.world \in Worlds /\ NumTests \in Nat
        /\ undo.test \in Nat /\ \A w \in Worlds, e \in Excs : vec[w][e].test \in Nat
    <2>1. /\ vec \in [Worlds -> [Excs -> Handlers]] /\ undo \in Handlers /\ test \in 1..NumTests
          /\ at.half \in Worlds /\ NumTests \in Nat
      BY Kept DEF DeviceOK, PlaceOK, SuiteFits
    <2>2. \A h \in Handlers : h.test \in Nat /\ h.world \in Worlds
      BY <2>1, HandlersFit, HandlerTests
    <2> QED BY <2>1, <2>2
  <1>2. CASE SetupHandler
    <2> PICK w, e : w = at.half /\ e = Now.arg[1]
      OBVIOUS
    <2>1. e \in Excs
      BY <1>2, Kept, StepHere DEF SetupHandler, Steps, Runs, StepFits, Now
    <2>2. PICK k : vec' = [vec EXCEPT ![w][e] = Handler(test, w, k)]
      BY <1>2 DEF SetupHandler
    <2>3. undo' = vec[w][e] /\ test' = test
      BY <1>2 DEF SetupHandler, bookVars
    <2>4. Handler(test, w, k).world = w /\ Handler(test, w, k).test = test
      BY DEF Handler
    <2>5. \A v \in Worlds, f \in Excs :
              vec'[v][f] = IF v = w /\ f = e THEN Handler(test, w, k) ELSE vec[v][f]
      BY <1>1, <2>1, <2>2
    <2>6. \A v \in Worlds, f \in Excs : vec'[v][f].world = v /\ vec'[v][f].test <= test
      BY <1>1, <2>4, <2>5 DEF StandInv
    <2> QED BY <1>1, <2>1, <2>3, <2>6 DEF StandInv
  <1>3. CASE RestoreHandler
    <2> PICK w, e : w = undo.world /\ e = Now.arg
      OBVIOUS
    <2>1. e \in Excs
      BY <1>3, Kept, StepHere DEF RestoreHandler, Steps, Runs, StepFits, Now
    <2>2. vec' = [vec EXCEPT ![w][e] = undo] /\ undo' = undo /\ test' = test
      BY <1>3 DEF RestoreHandler, bookVars
    <2>3. \A v \in Worlds, f \in Excs : vec'[v][f] = IF v = w /\ f = e THEN undo ELSE vec[v][f]
      BY <1>1, <2>1, <2>2
    <2> QED BY <1>1, <2>2, <2>3 DEF StandInv
  <1>4. CASE Reboot
    <2>1. vec' = DefaultTables /\ undo' = Null /\ test' \in {1, test}
      BY <1>4 DEF Reboot
    <2> QED BY <1>1, <2>1, DefaultIs DEF StandInv
  <1>5. CASE NextTest
    <2>1. UNCHANGED <<vec, undo>> /\ test' \in {test, test + 1}
      BY <1>5 DEF NextTest, vectorVars
    <2> QED BY <1>1, <2>1 DEF StandInv
  <1>6. CASE UNCHANGED <<vectorVars, bookVars>>
    BY <1>6 DEF StandInv, vectorVars, bookVars
  <1> QED BY <1>2, <1>3, <1>4, <1>5, <1>6, TablesGo

\* Nor are there any in the beginning.
LEMMA StandInit == ASSUME SuiteFits, Init PROVE StandInv
  BY DefaultIs DEF Init, StandInv

\* A test that is loaded, or started again.
LEMMA LoadedNext ==
    ASSUME SuiteFits, TypeOK', at' = EntryOf, seen' = FALSE, described' = {},
           saved' = [w \in Worlds |-> "junk"],
           \A w \in Worlds, e \in Excs : vec'[w][e].test # test', undo'.test # test',
           NEW n, n = test', NEW st, st = status',
           NEW clean \in BOOLEAN, clean => \A w \in Worlds, e \in Excs : Fine(vec'[w][e], w, e),
           NEW s, NEW k, NEW b, NEW x, shcsr' \in s, nvShcsr' \in k, nvBoot' \in b, irq' \in x
    PROVE  Matches(Loaded(n, st, clean, Regs(s, k, b, x)))'
  <1> DEFINE r == Regs(s, k, b, x)
             t == Untouched(clean)
  <1>1. RegsAre(r)'
    BY DEF RegsAre, Regs, RegSets
  <1>2. t.own = {} /\ t.worlds = Worlds /\ ~t.back /\ t.excs = {} /\ (t.clean <=> clean)
    BY DEF Untouched
  <1>3. undo'.world \in Worlds
    BY HandlersFit DEF TypeOK
  <1> HIDE DEF r, t
  <1>4. TablesAre(t)'
    BY <1>2, <1>3 DEF TablesAre
  <1>5. Here' = [test |-> n, at |-> EntryOf, status |-> st, seen |-> FALSE, described |-> {}]
    BY DEF Here
  <1> QED BY <1>1, <1>4, <1>5 DEF Loaded, Matches, Cfg, r, t

\* A reset leaves no entry of a test.
LEMMA RebootBegins ==
    ASSUME TypeOK, TypeOK', Reboot
    PROVE  /\ at' = EntryOf /\ seen' = FALSE /\ described' = {}
           /\ saved' = [w \in Worlds |-> "junk"]
           /\ \A w \in Worlds, e \in Excs : vec'[w][e] = Default(w, e) /\ vec'[w][e].test # test'
           /\ undo' = Null /\ undo'.test # test'
  <1>1. /\ \A w \in Worlds, e \in Excs : vec'[w][e] = Default(w, e)
        /\ undo' = Null /\ test' # 0
    BY DefaultIs DEF Reboot, TypeOK
  <1> QED BY <1>1, DefaultIs DEF Reboot, EntryOf

\* After a reset.
LEMMA RestartedNext ==
    ASSUME SuiteFits, TypeOK, TypeOK', NEW c, Matches(c), Reboot
    PROVE  \E b \in c.regs.boot : Matches(Restarted(c, b))'
  <1>1. PICK b \in c.regs.boot : b = nvBoot
    BY DEF Matches, RegsAre
  <1>2. PICK n : n = IF b = {} THEN 1 ELSE c.place.test
    OBVIOUS
  <1>3. n = test' /\ c.place.status = status'
    BY <1>1, <1>2, PlaceIs DEF Reboot
  <1>4. \A w \in Worlds, e \in Excs : Fine(vec'[w][e], w, e)
    BY RebootBegins DEF Fine
  <1>6. /\ shcsr' \in {"found"} /\ nvShcsr' \in c.regs.nv /\ nvBoot' \in {b} /\ irq' \in {QuietIrq}
    BY <1>1 DEF Reboot, Matches, RegsAre, nvVars
  <1>7. PICK st : st = c.place.status
    OBVIOUS
  <1>8. PICK k : k = c.regs.nv
    OBVIOUS
  <1>9. Matches(Loaded(n, st, TRUE, Regs({"found"}, k, {b}, {QuietIrq})))'
    <2>1. PICK s, x, y : s = {"found"} /\ x = {QuietIrq} /\ y = {b}
      OBVIOUS
    <2>2. shcsr' \in s /\ nvShcsr' \in k /\ nvBoot' \in y /\ irq' \in x /\ n = test' /\ st = status'
      BY <1>3, <1>6, <1>7, <1>8, <2>1
    <2>3. Matches(Loaded(n, st, TRUE, Regs(s, k, y, x)))'
      BY <1>4, <2>2, RebootBegins, LoadedNext
    <2> QED BY <2>1, <2>3
  <1> QED BY <1>2, <1>7, <1>8, <1>9 DEF Restarted

\* The next test begins with no entry of its own.
LEMMA NextTestBegins ==
    ASSUME SuiteFits, TypeOK, StandInv, NextTest, mode' = "run"
    PROVE  /\ test' = test + 1 /\ test < NumTests /\ status' = status
           /\ at' = EntryOf /\ seen' = FALSE /\ described' = {} /\ saved' = [w \in Worlds |-> "junk"]
           /\ \A w \in Worlds, e \in Excs : vec'[w][e].test # test'
           /\ undo'.test # test'
           /\ UNCHANGED <<vec, undo, irq, shcsr, nvShcsr, nvBoot, fails>>
  <1>1. test < NumTests /\ test' = test + 1
    BY DEF NextTest
  <1>2. test \in Nat /\ undo.test \in Nat /\ \A w \in Worlds, e \in Excs : vec[w][e].test \in Nat
    <2>1. /\ vec \in [Worlds -> [Excs -> Handlers]] /\ undo \in Handlers /\ test \in 1..NumTests
          /\ NumTests \in Nat
      BY Kept DEF DeviceOK, PlaceOK, SuiteFits
    <2>2. \A h \in Handlers : h.test \in Nat
      BY <2>1, HandlerTests
    <2> QED BY <2>1, <2>2
  <1>3. UNCHANGED <<vec, undo, irq, shcsr, nvShcsr, nvBoot, fails>>
    BY DEF NextTest, vectorVars, nvVars
  <1>4. undo.test # test + 1 /\ \A w \in Worlds, e \in Excs : vec[w][e].test # test + 1
    BY <1>2 DEF StandInv
  <1> QED BY <1>1, <1>3, <1>4 DEF NextTest, EntryOf

-----------------------------------------------------------------------------
(* The four invariants of the pool *)

\* What a program that runs is at.
AloneInv(O) == mode = "run" => \E c \in O : Matches(c)

\* The first state is in the outline of the first test.
LEMMA AloneInit ==
    ASSUME SuiteFits, NEW O, RightAlone(O), Init, TypeOK PROVE AloneInv(O)
  <1> DEFINE c == Loaded(1, "pass", FALSE, Whatever)
  <1>1. c \in O
    <2>1. 1 \in 1..NumTests /\ "pass" \in Statuses
      BY DEF Statuses, SuiteFits, Verdicts
    <2> QED BY <2>1 DEF RightAlone
  <1>2. c.place = Here
    BY DEF Loaded, Cfg, Here, Init, EntryOf
  <1>3. RegsAre(c.regs)
    BY DEF Loaded, Cfg, Whatever, Regs, RegSets, RegsAre, TypeOK, Irqs, Init
  <1>4. TablesAre(c.tables)
    BY DefaultIs, ConstantsAssumption
    DEF Loaded, Cfg, Untouched, TablesAre, Init, Null, Handler
  <1> HIDE DEF c
  <1> QED BY <1>1, <1>2, <1>3, <1>4 DEF AloneInv, Matches

\* Every step stays in the outlines, whatever fails.
LEMMA AloneStep ==
    ASSUME SuiteFits, NEW O, RightAlone(O), TypeOK, TypeOK', StandInv, AloneInv(O), [Next]_vars
    PROVE  AloneInv(O)'
  <1> SUFFICES ASSUME mode' = "run" PROVE \E c \in O : Matches(c)'
    BY DEF AloneInv
  <1>1. mode = "run"
    BY Halted DEF vars
  <1>2. PICK c \in O : Matches(c)
    BY <1>1 DEF AloneInv
  <1>3. After(c) \cup Slips(c) \cup {c} \subseteq O
    BY DEF RightAlone
  <1>4. ASSUME /\ at' = EntryOf /\ seen' = FALSE /\ described' = {}
               /\ saved' = [w \in Worlds |-> "junk"]
               /\ \A w \in Worlds, e \in Excs : vec'[w][e].test # test'
               /\ undo'.test # test'
        PROVE  \E d \in O : Matches(d)'
    <2>1. test' \in 1..NumTests /\ status' \in Statuses
          /\ shcsr' \in Shcsr /\ nvShcsr' \in Shcsr /\ nvBoot' \in SUBSET Flags /\ irq' \in Irqs
      BY DEF TypeOK, Statuses, Irqs
    <2>2. PICK n \in 1..NumTests, st \in Statuses : n = test' /\ st = status'
      BY <2>1
    <2>3. Matches(Loaded(n, st, FALSE, Whatever))'
      BY <1>4, <2>1, <2>2, LoadedNext DEF Whatever
    <2> QED BY <2>2, <2>3 DEF RightAlone
  <1>5. CASE Reboot
    BY <1>4, <1>5, RebootBegins
  <1>6. CASE NextTest
    BY <1>4, <1>6, NextTestBegins
  <1> QED BY <1>1, <1>2, <1>3, <1>5, <1>6, StepFollows

\* HandlerIsOwn, and FailureStands, by the outline.
LEMMA AloneShows ==
    ASSUME SuiteFits, NEW O, RightAlone(O), TypeOK, AloneInv(O)
    PROVE  HandlerIsOwn /\ FailureStands
  <1>1. ASSUME Steps("trap") \/ Steps("probe")
        PROVE  vec["s"]["HF"].test = test /\ shcsr = "hidden"
    <2>1. mode = "run" /\ ~AtEnd /\ Now.op \in {"trap", "probe"}
      BY <1>1 DEF Steps, Runs
    <2>2. PICK c \in O : Matches(c)
      BY <2>1 DEF AloneInv
    <2>3. OwnFault(c) /\ c.regs.shcsr = {"hidden"}
      BY <2>1, <2>2, DoesIs DEF RightAlone, OwnThere
    <2> QED BY <2>2, <2>3 DEF Matches, TablesAre, RegsAre, OwnFault, Worlds, Excs
  <1>2. ASSUME TestEnds, seen, test \notin Overlooking
        PROVE  status # "pass"
    <2>1. PICK c \in O : Matches(c)
      BY <1>2 DEF AloneInv, TestEnds, BlockEnds
    <2>2. IsOver(c.place) /\ c.place.seen /\ c.place.test = test /\ c.place.status = status
      BY <1>2, <2>1, DoesIs, HereIs DEF IsOver, TestEnds, BlockEnds
    <2>3. Stands(c)
      BY DEF RightAlone
    <2> QED BY <1>2, <2>2, <2>3 DEF Stands
  <1> QED BY <1>1, <1>2 DEF HandlerIsOwn, FailureStands

\* HandlerIsOwn: an access that should fault finds the HardFault handler of its own test and the
\* other fault handlers off, whatever failed in the tests before (val_interrupt_setup_handler).
THEOREM HandlersAreOwn ==
    ASSUME SuiteFits, NEW CONSTANT outline, RightAlone(outline) PROVE Spec => []HandlerIsOwn
  <1> DEFINE Inv == TypeOK /\ StandInv /\ AloneInv(outline)
  <1>1. Init => Inv
    BY InitFits, StandInit, AloneInit
  <1>2. Inv /\ [Next]_vars => Inv'
    BY StepsFit, StandStep, AloneStep
  <1>3. Inv => HandlerIsOwn
    BY AloneShows
  <1> QED BY <1>1, <1>2, <1>3, PTL DEF Spec

\* FailureStands: a check that failed is what the test reports (val_err_check_set, tbsa_dispatcher).
THEOREM FailuresStand ==
    ASSUME SuiteFits, NEW CONSTANT outline, RightAlone(outline) PROVE Spec => []FailureStands
  <1> DEFINE Inv == TypeOK /\ StandInv /\ AloneInv(outline)
  <1>1. Init => Inv
    BY InitFits, StandInit, AloneInit
  <1>2. Inv /\ [Next]_vars => Inv'
    BY StepsFit, StandStep, AloneStep
  <1>3. Inv => FailureStands
    BY AloneShows
  <1> QED BY <1>1, <1>2, <1>3, PTL DEF Spec

\* Unless something failed, a program that runs is at what it puts back.
TidyInv(O) == mode = "run" /\ fails = 0 => \E c \in O : Matches(c)

\* The first state is in the outline of a test that finds everything in order.
LEMMA TidyInit ==
    ASSUME SuiteFits, NEW O, Tidy(O), Init, TypeOK PROVE TidyInv(O)
  <1> DEFINE c == Loaded(1, "pass", TRUE, AsFound)
  <1>1. c \in O
    <2>1. 1 \in 1..NumTests /\ "pass" \in Statuses
      BY DEF Statuses, SuiteFits, Verdicts
    <2> QED BY <2>1 DEF Tidy
  <1>2. c.place = Here
    BY DEF Loaded, Cfg, Here, Init, EntryOf
  <1>3. RegsAre(c.regs)
    <2>1. QuietIrq \in Irqs /\ ~QuietIrq.on /\ ~QuietIrq.ns /\ ~QuietIrq.running
      BY DEF QuietIrq, Irqs
    <2>2. irq \in AsFound.irq
      BY <2>1 DEF AsFound, Regs, RegSets, Init
    <2> QED BY <2>2 DEF Loaded, Cfg, AsFound, Regs, RegSets, RegsAre, TypeOK, Init
  <1>4. TablesAre(c.tables)
    BY DefaultIs, ConstantsAssumption
    DEF Loaded, Cfg, Untouched, TablesAre, Init, Null, Handler, Fine
  <1> HIDE DEF c
  <1> QED BY <1>1, <1>2, <1>3, <1>4 DEF TidyInv, Matches

\* What a test that was put in order shows at its end.
LEMMA TidyEnds ==
    ASSUME TypeOK, NEW c, Matches(c), PutsBack(c), TestEnds
    PROVE  /\ \A w \in Worlds, e \in Excs :
                 Fine(vec[w][e], w, e) \/ (e = "TMR" /\ vec[w][e].test \in Careless)
           /\ shcsr = "found" /\ nvBoot = {} /\ irq \in AsFound.irq
  <1>1. IsOver(c.place) /\ c.place.test = test
    BY DoesIs, HereIs DEF IsOver, TestEnds, BlockEnds
  <1>2. /\ shcsr = "found" /\ nvBoot = {} /\ irq \in AsFound.irq
    BY <1>1 DEF PutsBack, Matches, RegsAre, AsFound, Regs, RegSets
  <1>3. ASSUME NEW w \in Worlds, NEW e \in Excs
        PROVE  Fine(vec[w][e], w, e) \/ (e = "TMR" /\ vec[w][e].test \in Careless)
    <2>1. CASE <<w, e>> \in c.tables.own
      <3>1. test \in Careless /\ e = "TMR"
        BY <1>1, <2>1 DEF PutsBack
      <3> QED BY <2>1, <3>1 DEF Matches, TablesAre
    <2>2. CASE <<w, e>> \notin c.tables.own
      BY <1>1, <2>2 DEF PutsBack, Matches, TablesAre
    <2> QED BY <2>1, <2>2
  <1> QED BY <1>2, <1>3

\* A failure is counted.
LEMMA FailsGrow ==
    ASSUME [Next]_vars PROVE fails' \in {fails, fails + 1}
  BY
  DEF Next, Stopped, Thread, SetupHandler, RestoreHandler, ControlInterrupt, RouteHeld,
      MaskFaults,
     UseNv, AskNv, TrustClock, JudgePlainly, JudgeCall, Loop, Initialize, Describe, UseDescriptor, Probe,
     ProbeFreely, Trap, AskForReset, Await, NextBlock, NextHalf, NextTest, Reboot, TakenBy,
     Interrupt, TimerFires, Accepts, Rejects, Works, Breaks, vars

\* Without a failure every step stays in these outlines: the next test finds everything in order.
LEMMA TidyStep ==
    ASSUME SuiteFits, NEW O, Tidy(O), TypeOK, TypeOK', StandInv, TidyInv(O), [Next]_vars
    PROVE  TidyInv(O)'
  <1> SUFFICES ASSUME mode' = "run", fails' = 0 PROVE \E c \in O : Matches(c)'
    BY DEF TidyInv
  <1>1. mode = "run"
    BY Halted DEF vars
  <1>2. fails = 0 /\ fails' # fails + 1
    BY FailsGrow, ConstantsAssumption DEF TypeOK
  <1>3. PICK c \in O : Matches(c)
    BY <1>1, <1>2 DEF TidyInv
  <1>4. CASE Resets(c) /\ Reboot
    BY <1>3, <1>4, RestartedNext DEF Tidy
  <1>5. CASE NextTest
    <2>1. /\ test' \in 1..NumTests /\ status' \in Statuses /\ nvShcsr' \in Shcsr
      BY DEF TypeOK, Statuses
    <2>2. PICK n \in 1..NumTests, st \in Statuses : n = test' /\ st = status'
      BY <2>1
    <2>3. /\ UNCHANGED <<vec, irq, shcsr, nvBoot>>
      BY <1>5, NextTestBegins
    <2>4. TestEnds /\ PutsBack(c)
      BY <1>5 DEF NextTest, Tidy
    <2>5. /\ \A w \in Worlds, e \in Excs : Fine(vec'[w][e], w, e)
          /\ shcsr' = "found" /\ nvBoot' = {} /\ irq' \in AsFound.irq
      BY <1>3, <2>3, <2>4, TidyEnds DEF Fine
    <2>6. Matches(Loaded(n, st, TRUE, AsFound))'
      <3>1. PICK s, k, b, x : s = {"found"} /\ k = Shcsr /\ b = {{}} /\ x = AsFound.irq
        OBVIOUS
      <3>2. AsFound = Regs(s, k, b, x)
        BY <3>1 DEF AsFound, Regs, RegSets
      <3>3. shcsr' \in s /\ nvShcsr' \in k /\ nvBoot' \in b /\ irq' \in x
        BY <2>1, <2>5, <3>1
      <3>4. Matches(Loaded(n, st, TRUE, Regs(s, k, b, x)))'
        BY <1>5, <2>2, <2>5, <3>3, NextTestBegins, LoadedNext
      <3> QED BY <3>2, <3>4
    <2> QED BY <2>2, <2>6 DEF Tidy
  <1> QED BY <1>1, <1>2, <1>3, <1>4, <1>5, StepFollows DEF Tidy

\* LeavesAsFound: a suite without failures has, after each test, the tables, SHCSR, the interrupt
\* and NV_BOOT as it found them (val_interrupt_restore_handler and the exit hooks).
THEOREM SuiteLeavesAsFound ==
    ASSUME SuiteFits, NEW CONSTANT outline, Tidy(outline) PROVE Spec => []LeavesAsFound
  <1> DEFINE Inv == TypeOK /\ StandInv /\ TidyInv(outline)
  <1>1. Init => Inv
    BY InitFits, StandInit, TidyInit
  <1>2. Inv /\ [Next]_vars => Inv'
    BY StepsFit, StandStep, TidyStep
  <1>3. Inv => LeavesAsFound
    <2> SUFFICES ASSUME Inv, TestEnds, fails = 0
                 PROVE  /\ \A w \in Worlds, e \in Excs :
                              vec[w][e] = Default(w, e) \/ (e = "TMR" /\ vec[w][e].test \in Careless)
                        /\ shcsr = "found" /\ nvBoot = {} /\ [irq EXCEPT !.pending = FALSE] = QuietIrq
      BY DEF LeavesAsFound
    <2>1. PICK c \in outline : Matches(c)
      BY DEF TidyInv, TestEnds, BlockEnds
    <2>2. PutsBack(c)
      BY DEF Tidy
    <2>3. irq \in AsFound.irq
      BY <2>1, <2>2, TidyEnds
    <2>4. [irq EXCEPT !.pending = FALSE] = QuietIrq
      <3>1. irq \in Irqs /\ irq.on = FALSE /\ irq.ns = FALSE /\ irq.running = FALSE
        BY <2>3 DEF AsFound, Regs, RegSets, Irqs
      <3>2. PICK x : x = [irq EXCEPT !.pending = FALSE]
        OBVIOUS
      <3>3. x \in Irqs /\ x.on = FALSE /\ x.pending = FALSE /\ x.ns = FALSE /\ x.running = FALSE
        BY <3>1, <3>2 DEF Irqs
      <3>4. x = [on |-> FALSE, pending |-> FALSE, ns |-> FALSE, running |-> FALSE]
        BY <3>3 DEF Irqs
      <3> QED BY <3>2, <3>4 DEF QuietIrq
    <2> QED BY <2>1, <2>2, <2>4, TidyEnds DEF Fine
  <1> QED BY <1>1, <1>2, <1>3, PTL DEF Spec

-----------------------------------------------------------------------------
\* An entry of another test is of one that failed, or that never puts it back.
StaleInv ==
    /\ \A w \in Worlds, e \in Excs : vec[w][e].test \in {0, test} \cup failed \cup Careless
    /\ undo.test \in {0, test} \cup failed \cup Careless

\* No step leaves an entry of a test that did not fail.
LEMMA StaleStep ==
    ASSUME SuiteFits, NEW O, RightAlone(O), TypeOK, StandInv, AloneInv(O), StaleInv, [Next]_vars
    PROVE  StaleInv'
  <1>1. vec \in [Worlds -> [Excs -> Handlers]] /\ at.half \in Worlds /\ undo.world \in Worlds
    BY Kept, HandlersFit DEF DeviceOK, PlaceOK
  <1>2. CASE SetupHandler
    <2> PICK w, e : w = at.half /\ e = Now.arg[1]
      OBVIOUS
    <2>1. e \in Excs
      BY <1>2, Kept, StepHere DEF SetupHandler, Steps, Runs, StepFits, Now
    <2>2. PICK k : vec' = [vec EXCEPT ![w][e] = Handler(test, w, k)]
      BY <1>2 DEF SetupHandler
    <2>3. undo' = vec[w][e] /\ test' = test /\ failed' = failed
      BY <1>2 DEF SetupHandler, bookVars
    <2>4. Handler(test, w, k).test = test
      BY DEF Handler
    <2>5. \A v \in Worlds, f \in Excs :
              vec'[v][f] = IF v = w /\ f = e THEN Handler(test, w, k) ELSE vec[v][f]
      BY <1>1, <2>1, <2>2
    <2> QED BY <1>1, <2>1, <2>3, <2>4, <2>5 DEF StaleInv
  <1>3. CASE RestoreHandler
    <2> PICK w, e : w = undo.world /\ e = Now.arg
      OBVIOUS
    <2>1. e \in Excs
      BY <1>3, Kept, StepHere DEF RestoreHandler, Steps, Runs, StepFits, Now
    <2>2. vec' = [vec EXCEPT ![w][e] = undo] /\ undo' = undo /\ test' = test /\ failed' = failed
      BY <1>3 DEF RestoreHandler, bookVars
    <2>3. \A v \in Worlds, f \in Excs : vec'[v][f] = IF v = w /\ f = e THEN undo ELSE vec[v][f]
      BY <1>1, <2>1, <2>2
    <2> QED BY <2>2, <2>3 DEF StaleInv
  <1>4. CASE Reboot
    <2>1. vec' = DefaultTables /\ undo' = Null
      BY <1>4 DEF Reboot
    <2> QED BY <2>1, DefaultIs DEF StaleInv
  <1>5. CASE NextTest
    <2>1. /\ UNCHANGED <<vec, undo>> /\ TestEnds
          /\ failed' = IF seen \/ status = "fail" THEN failed \cup {test} ELSE failed
      BY <1>5 DEF NextTest, vectorVars
    <2>2. PICK c \in O : Matches(c)
      BY <2>1 DEF AloneInv, TestEnds, BlockEnds
    <2>3. IsOver(c.place) /\ c.place.test = test /\ c.place.seen = seen /\ c.place.status = status
      BY <2>1, <2>2, DoesIs, HereIs DEF IsOver, TestEnds, BlockEnds
    <2>4. ASSUME test \notin failed' \cup Careless
          PROVE  /\ \A w \in Worlds, e \in Excs : vec[w][e].test # test
                 /\ undo.test # test
      <3>1. NoneLeft(c) /\ ~seen /\ status # "fail"
        BY <2>1, <2>4 DEF RightAlone
      <3>2. c.tables.own = {} /\ ~c.tables.back
        BY <2>3, <2>4, <3>1 DEF NoneLeft
      <3> QED BY <2>2, <3>2 DEF Matches, TablesAre
    <2> QED BY <2>1, <2>4 DEF StaleInv
  <1>6. CASE UNCHANGED <<vectorVars, bookVars>>
    BY <1>6 DEF StaleInv, vectorVars, bookVars
  <1> QED BY <1>2, <1>3, <1>4, <1>5, <1>6, TablesGo

\* Until a test that turns the fault handlers off fails, each test begins with them on.
MaskInv(O) ==
    \/ failed \cap Masking # {}
    \/ AloneInv(O) /\ (at = EntryOf => shcsr = "found")

\* The fault handlers are on at first.
LEMMA MaskInit ==
    ASSUME SuiteFits, NEW O, UnmaskedFrom(O), Init, TypeOK PROVE MaskInv(O)
  <1> DEFINE c == Loaded(1, "pass", FALSE, Regs({"found"}, {"junk"}, {{}}, Irqs))
  <1>1. c \in O
    BY DEF UnmaskedFrom
  <1>2. c.place = Here
    BY DEF Loaded, Cfg, Here, Init, EntryOf
  <1>3. RegsAre(c.regs)
    BY DEF Loaded, Cfg, Regs, RegSets, RegsAre, TypeOK, Irqs, Init
  <1>4. TablesAre(c.tables)
    BY DefaultIs, ConstantsAssumption
    DEF Loaded, Cfg, Untouched, TablesAre, Init, Null, Handler
  <1> HIDE DEF c
  <1> QED BY <1>1, <1>2, <1>3, <1>4 DEF AloneInv, Matches, MaskInv, Init

\* A run that ends here leaves place and SHCSR as they are.
LEMMA HaltsThere ==
    ASSUME [Next]_vars, mode' # mode PROVE NextTest \/ UNCHANGED <<at, shcsr>>
  BY
  DEF Next, Stopped, Thread, SetupHandler, RestoreHandler, ControlInterrupt, RouteHeld,
      MaskFaults,
     UseNv, AskNv, TrustClock, JudgePlainly, JudgeCall, Loop, Initialize, Describe, UseDescriptor, Probe,
     ProbeFreely, Trap, AskForReset, Await, NextBlock, NextHalf, Reboot, NoReboot, TakenBy,
     Interrupt, TimerFires, vars

\* A failed test stays one.
LEMMA FailedGrows ==
    ASSUME [Next]_vars PROVE failed \subseteq failed'
  BY
  DEF Next, Stopped, Thread, SetupHandler, RestoreHandler, ControlInterrupt, RouteHeld,
      MaskFaults,
     UseNv, AskNv, TrustClock, JudgePlainly, JudgeCall, Loop, Initialize, Describe, UseDescriptor, Probe,
     ProbeFreely, Trap, AskForReset, Await, NextBlock, NextHalf, NextTest, Reboot, NoReboot, bookVars,
     Interrupt, TimerFires, vars

\* Only the failure of a test that turns them off leaves them off for the next one.
LEMMA MaskStep ==
    ASSUME SuiteFits, NEW O, UnmaskedFrom(O), TypeOK, TypeOK', StandInv, MaskInv(O), [Next]_vars
    PROVE  MaskInv(O)'
  <1> SUFFICES ASSUME failed \cap Masking = {}, failed' \cap Masking = {}
               PROVE  AloneInv(O)' /\ (at' = EntryOf => shcsr' = "found")
    BY FailedGrows DEF MaskInv
  <1>1. AloneInv(O) /\ (at = EntryOf => shcsr = "found")
    BY DEF MaskInv
  <1>2. CASE mode # "run"
    <2>1. UNCHANGED vars
      BY <1>2, Halted
    <2> QED BY <1>1, <1>2, <2>1 DEF AloneInv, vars
  <1>3. CASE mode = "run"
    <2>1. PICK c \in O : Matches(c)
      BY <1>1, <1>3 DEF AloneInv
    <2>2. ASSUME NEW d \in O, Matches(d)'
          PROVE  AloneInv(O)' /\ (at' = EntryOf => shcsr' = "found")
      <3>1. d.place.at = EntryOf => d.regs.shcsr = {"found"}
        BY DEF UnmaskedFrom
      <3>2. d.place.at = at' /\ shcsr' \in d.regs.shcsr
        BY <2>2 DEF Matches, RegsAre, Here
      <3> QED BY <2>2, <3>1, <3>2 DEF AloneInv
    <2>3. CASE mode' # "run" /\ ~NextTest
      BY <1>1, <1>3, <2>3, HaltsThere DEF AloneInv
    <2>4. CASE Resets(c) /\ Reboot
      <3>1. PICK b \in c.regs.boot : Matches(Restarted(c, b))'
        BY <2>1, <2>4, RestartedNext
      <3>2. Restarted(c, b) \in O
        BY <2>1, <2>4 DEF UnmaskedFrom
      <3> QED BY <2>2, <3>1, <3>2
    <2>5. CASE NextTest
      <3>1. /\ IsOver(c.place) /\ c.place.test = test /\ c.place.seen = seen /\ c.place.status = status
            /\ shcsr' = shcsr
        BY <2>1, <2>5, DoesIs, HereIs DEF IsOver, NextTest, TestEnds, BlockEnds
      <3>2. ~Spared(c)
        BY <2>5, <3>1 DEF NextTest, Spared
      <3>3. shcsr' = "found"
        <4>1. c.regs.shcsr = {"found"}
          BY <2>1, <3>1, <3>2 DEF UnmaskedFrom
        <4> QED BY <2>1, <3>1, <4>1 DEF Matches, RegsAre
      <3>4. CASE mode' # "run"
        BY <3>3, <3>4 DEF AloneInv
      <3>5. CASE mode' = "run"
        <4>1. PICK n, st, s, k, b, x : /\ n = test + 1 /\ st = c.place.status /\ s = {"found"}
                                       /\ k = c.regs.nv /\ b = c.regs.boot /\ x = Irqs
          OBVIOUS
        <4>2. Loaded(n, st, FALSE, Regs(s, k, b, x)) \in O
          BY <2>1, <2>5, <3>1, <3>2, <3>5, <4>1, NextTestBegins DEF UnmaskedFrom
        <4>3. /\ shcsr' \in s /\ nvShcsr' \in k /\ nvBoot' \in b /\ irq' \in x
              /\ n = test' /\ st = status'
          BY <2>1, <2>5, <3>1, <3>3, <3>5, <4>1, NextTestBegins
          DEF Matches, RegsAre, TypeOK, Irqs
        <4>4. Matches(Loaded(n, st, FALSE, Regs(s, k, b, x)))'
          BY <2>5, <3>5, <4>3, NextTestBegins, LoadedNext
        <4> QED BY <2>2, <4>2, <4>4
      <3> QED BY <3>4, <3>5
    <2> QED BY <1>3, <2>1, <2>2, <2>3, <2>4, <2>5, StepFollows DEF UnmaskedFrom
  <1> QED BY <1>2, <1>3

\* StaleOnlyFromFailed: a handler of another test that is still in a table, or fault handlers that
\* are off when a test is loaded, were left by a test that failed (the exit hooks of the pool).
THEOREM OnlyFailedLeave ==
    ASSUME SuiteFits, NEW CONSTANT alone, RightAlone(alone),
           NEW CONSTANT ordered, UnmaskedFrom(ordered)
    PROVE  Spec => []StaleOnlyFromFailed
  <1> DEFINE Inv == /\ TypeOK /\ StandInv /\ AloneInv(alone) /\ StaleInv /\ MaskInv(ordered)
  <1>1. Init => Inv
    <2>1. Init => StaleInv
      BY DefaultIs DEF Init, StaleInv
    <2> QED BY <2>1, InitFits, StandInit, AloneInit, MaskInit
  <1>2. Inv /\ [Next]_vars => Inv'
    BY StepsFit, StandStep, AloneStep, StaleStep, MaskStep
  <1>3. Inv => StaleOnlyFromFailed
    BY DEF StaleInv, MaskInv, StaleOnlyFromFailed, EntryOf
  <1> QED BY <1>1, <1>2, <1>3, PTL DEF Spec
=============================================================================
