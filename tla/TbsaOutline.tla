------------------------------ MODULE TbsaOutline ------------------------------
(***************************************************************************)
(* The outline of a test: what can be said at each of its steps of the     *)
(* test alone, whatever the other tests of the suite do.  A configuration  *)
(* has the place in the test, which entries of the vector tables are its   *)
(* own, and the values that the registers and NV memory may have there.    *)
(* The steps on configurations follow the actions of TbsaHandlers; a set   *)
(* that is closed under them stands for every run of every test, with any  *)
(* number of failures and of repetitions of a loop.                        *)
(*                                                                         *)
(* TbsaHandlersProofs shows that a suite whose tests are right by their    *)
(* outlines is right; the instance computes the outlines of the pool.      *)
(***************************************************************************)
EXTENDS TbsaHandlers

-----------------------------------------------------------------------------
(* Places: the position in a test, and what it has judged. *)

Irqs   == [on : BOOLEAN, pending : BOOLEAN, ns : BOOLEAN, running : BOOLEAN]
Statuses == Verdicts \cup {"pending"}
EntryOf  == [half |-> "s", block |-> "entry", i |-> 1]

Here == [test |-> test, at |-> at, status |-> status, seen |-> seen, described |-> described]

BlockOf(p) == Suite[p.test][p.at.half][p.at.block]
EndOf(p)   == p.at.i > Len(BlockOf(p))
NowOf(p)   == BlockOf(p)[p.at.i]
IsOver(p)  == EndOf(p) /\ p.at.block = "exit" /\ p.at.half = "ns"

Placed(p, a) ==
    [test |-> p.test, at |-> a, status |-> p.status, seen |-> p.seen, described |-> p.described]
Judged(p, v) ==
    [test |-> p.test, at |-> p.at, status |-> v, seen |-> p.seen, described |-> p.described]
Seen(p) ==
    [test |-> p.test, at |-> p.at, status |-> p.status, seen |-> TRUE, described |-> p.described]
Knowing(p, d) ==
    [test |-> p.test, at |-> p.at, status |-> p.status, seen |-> p.seen, described |-> d]

Moved(p, n) == Placed(p, [p.at EXCEPT !.i = @ + n])
On(p)       == Moved(p, 1)
To(p, b)    == Placed(p, [p.at EXCEPT !.block = b, !.i = 1])
Left(p)     == IF p.at.block = "exit" THEN Moved(p, Len(BlockOf(p)) + 1 - p.at.i) ELSE To(p, "exit")
Aside(p)    == CASE NowOf(p).to = "cleanup" -> To(p, "cleanup")
                 [] NowOf(p).to = "next"    -> On(p)
                 [] OTHER                   -> Left(p)
Failed(p)   == Judged(Seen(p), "fail")
ExcusedAt(p) == Judged(p, IF p.status = "pending" THEN "pass" ELSE "fail")

-----------------------------------------------------------------------------
(* Tables: own, the entries that are the test's; worlds, those that the kept entry may be of;   *)
(* back, whether that one is the test's own; excs, the exceptions that it is the entry of;      *)
(* clean, whether every other entry is as the suite found it.                                   *)

Untouched(clean) == [own |-> {}, worlds |-> Worlds, back |-> FALSE, excs |-> {}, clean |-> clean]

Installed(t, w, e) ==
    [own |-> t.own \cup {<<w, e>>}, worlds |-> {w}, back |-> <<w, e>> \in t.own, excs |-> {e},
     clean |-> t.clean]
Restored(t, w, e) ==
    [own |-> IF t.back THEN t.own \cup {<<w, e>>} ELSE t.own \ {<<w, e>>},
     worlds |-> t.worlds, back |-> t.back, excs |-> t.excs,
     clean |-> t.clean /\ (t.back \/ e \in t.excs)]

\* What the handlers of a test do.
KindsIn ==
    [n \in 1..NumTests |->
        {k \in Kinds : \E w \in Worlds, b \in Hooks : \E i \in 1..Len(Suite[n][w][b]) :
            Suite[n][w][b][i].op = "setup" /\ Suite[n][w][b][i].arg[2] = k}]

\* An entry as the suite found it.
Fine(h, w, e) == h = Default(w, e) \/ (e = "TMR" /\ h.test \in Careless)

-----------------------------------------------------------------------------
(* Registers: the values that SHCSR, its copies, NV_BOOT and the interrupt may have. *)

RegSets(s, v, n, b, x) == [shcsr |-> s, saved |-> v, nv |-> n, boot |-> b, irq |-> x]

ShcsrTo(r, s) == RegSets(s, r.saved, r.nv, r.boot, r.irq)
SavedTo(r, w, s) ==
    RegSets(r.shcsr, [v \in Worlds |-> IF v = w THEN s ELSE r.saved[v]], r.nv, r.boot, r.irq)
NvTo(r, n)    == RegSets(r.shcsr, r.saved, n, r.boot, r.irq)
BootTo(r, b)  == RegSets(r.shcsr, r.saved, r.nv, b, r.irq)
IrqTo(r, x)   == RegSets(r.shcsr, r.saved, r.nv, r.boot, x)

Regs(s, n, b, x) == RegSets(s, [w \in Worlds |-> {"junk"}], n, b, x)

Whatever == Regs(Shcsr, Shcsr, SUBSET Flags, Irqs)
AsFound  == Regs({"found"}, Shcsr, {{}}, {x \in Irqs : ~x.on /\ ~x.ns /\ ~x.running})

Calm(x) == ~(x.on /\ x.pending)

-----------------------------------------------------------------------------
(* Configurations *)

Cfg(p, t, r) == [place |-> p, tables |-> t, regs |-> r]
Loaded(n, st, clean, r) ==
    Cfg([test |-> n, at |-> EntryOf, status |-> st, seen |-> FALSE, described |-> {}],
        Untouched(clean), r)

At(c, p)        == Cfg(p, c.tables, c.regs)
Does(c, op)     == ~EndOf(c.place) /\ NowOf(c.place).op = op
WithRegs(c, r)  == Cfg(On(c.place), c.tables, r)
ByTest(c, k)    == k \in KindsIn[c.place.test]
OwnFault(c)     == <<"s", "HF">> \in c.tables.own

\* A step is taken when no interrupt is.
Rest(c) == Cfg(c.place, c.tables, IrqTo(c.regs, {x \in c.regs.irq : Calm(x)}))

Handling(c) ==
    LET s == NowOf(c.place)
        w == c.place.at.half
    IN  (IF Does(c, "setup")
         THEN {Cfg(On(c.place), Installed(c.tables, w, s.arg[1]),
                   IrqTo(c.regs, {[x EXCEPT !.on = @ \/ s.arg[1] = "TMR"] : x \in c.regs.irq}))}
         ELSE {})
        \cup
        (IF Does(c, "restore")
         THEN {Cfg(On(c.place), Restored(c.tables, v, s.arg),
                   IrqTo(c.regs, {[x EXCEPT !.on = @ /\ s.arg # "TMR"] : x \in c.regs.irq}))
                 : v \in c.tables.worlds}
         ELSE {})

Controls == {"route", "pend", "unpend", "irqOn", "irqOff", "timerOn", "timerOff"}
Controlled(s, x) == CASE s.op = "route"    -> [x EXCEPT !.ns = s.arg = "ns"]
                      [] s.op = "pend"     -> [x EXCEPT !.pending = TRUE]
                      [] s.op = "unpend"   -> [x EXCEPT !.pending = FALSE]
                      [] s.op = "irqOn"    -> [x EXCEPT !.on = TRUE]
                      [] s.op = "irqOff"   -> [x EXCEPT !.on = FALSE]
                      [] s.op = "timerOn"  -> [x EXCEPT !.running = TRUE]
                      [] s.op = "timerOff" -> [x EXCEPT !.running = FALSE]

Controlling(c) ==
    IF \E op \in Controls : Does(c, op)
    THEN {WithRegs(c, IrqTo(c.regs, {Controlled(NowOf(c.place), x) : x \in c.regs.irq}))}
    ELSE {}

Masked(c) ==
    LET r == c.regs
        w == c.place.at.half
    IN  (IF Does(c, "save")   THEN {WithRegs(c, SavedTo(r, w, r.shcsr))} ELSE {})
        \cup (IF Does(c, "hide")   THEN {WithRegs(c, ShcsrTo(r, {"hidden"}))} ELSE {})
        \cup (IF Does(c, "put")    THEN {WithRegs(c, ShcsrTo(r, r.saved[w]))} ELSE {})
        \cup (IF Does(c, "saveNv") THEN {WithRegs(c, NvTo(r, r.shcsr))} ELSE {})
        \cup (IF Does(c, "putNv")  THEN {WithRegs(c, ShcsrTo(r, r.nv))} ELSE {})

Requesting(c) ==
    LET r == c.regs
        f == NowOf(c.place).arg
    IN  (IF Does(c, "request")
         THEN {WithRegs(c, BootTo(r, {b \cup {f} : b \in r.boot}))} ELSE {})
        \cup (IF Does(c, "withdraw")
              THEN {WithRegs(c, BootTo(r, {b \ {f} : b \in r.boot}))} ELSE {})
        \cup (IF Does(c, "writeFresh") THEN {WithRegs(c, BootTo(r, {{}}))} ELSE {})
        \cup (IF Does(c, "onRequest")
              THEN (IF \E b \in r.boot : f \in b THEN {At(c, To(c.place, "second"))} ELSE {})
                   \cup (IF \E b \in r.boot : f \notin b THEN {At(c, On(c.place))} ELSE {})
              ELSE {})

Plain == {"routeHeld", "check", "quiet", "unheeded", "trust", "awaitFlag", "maySkip", "mayReturn",
          "maybe", "again"}

Judging(c) ==
    LET s == NowOf(c.place)
        p == c.place
    IN  (IF \E op \in Plain : Does(c, op) THEN {At(c, On(p))} ELSE {})
        \cup (IF Does(c, "verdict") THEN {At(c, On(Judged(p, v))) : v \in s.arg} ELSE {})
        \cup (IF Does(c, "expect") THEN {At(c, On(Judged(p, "pending")))} ELSE {})
        \cup (IF Does(c, "fail") THEN {At(c, Aside(Failed(p)))} ELSE {})
        \cup (IF Does(c, "ifSeen")
              THEN {At(c, IF p.seen THEN Aside(Judged(p, "fail")) ELSE On(p))} ELSE {})
        \cup (IF Does(c, "return") \/ Does(c, "mayReturn") THEN {At(c, Left(p))} ELSE {})
        \cup (IF Does(c, "maySkip") THEN {At(c, Aside(Judged(p, "skip")))} ELSE {})
        \cup (IF Does(c, "maybe") THEN {At(c, Moved(p, s.arg + 1))} ELSE {})
        \cup (IF Does(c, "again") THEN {At(c, Placed(p, [p.at EXCEPT !.i = @ - s.arg]))} ELSE {})
        \cup (IF Does(c, "awaitStatus") /\ p.status # "pending" THEN {At(c, On(p))} ELSE {})

Describing(c) ==
    LET w == c.place.at.half
        p == c.place
    IN  (IF Does(c, "clear")
         THEN {Cfg(On(Knowing(p, p.described \ {w})), c.tables, SavedTo(c.regs, w, {"hidden"}))}
         ELSE {})
        \cup (IF Does(c, "describe") THEN {At(c, On(Knowing(p, p.described \cup {w})))} ELSE {})
        \cup (IF Does(c, "useDesc")
              THEN {At(c, IF w \in p.described THEN On(p) ELSE Left(Judged(p, "fail")))} ELSE {})

Faulting(c) ==
    LET s == NowOf(c.place)
        p == c.place
    IN  (IF (Does(c, "probe") \/ Does(c, "trap")) /\ OwnFault(c) /\ ByTest(c, "judge")
         THEN {At(c, On(ExcusedAt(p)))} ELSE {})
        \cup (IF (Does(c, "probe") \/ Does(c, "trap")) /\ OwnFault(c) /\ ByTest(c, "pass over")
              THEN {At(c, On(p))} ELSE {})
        \cup (IF \/ Does(c, "probe") /\ s.arg \in {"optional", "unwanted"}
                 \/ Does(c, "trap") /\ s.to = "next"
              THEN {At(c, On(p))} ELSE {})

\* From a hook to the next one.
NextHook(c) ==
    LET p == c.place
    IN  CASE ~EndOf(p)              -> {}
          [] p.at.block = "entry"   ->
                {At(c, To(p, IF p.status = "pass" THEN "payload" ELSE "exit"))}
          [] p.at.block = "payload" -> {At(c, To(p, "second"))}
          [] p.at.block = "second"  -> {At(c, To(p, "cleanup"))}
          [] p.at.block = "cleanup" -> {At(c, To(p, "exit"))}
          [] p.at.block = "exit" /\ p.at.half = "s" ->
                {At(c, Placed(p, [half  |-> "ns",
                                  block |-> (IF p.status = "pass" THEN "entry" ELSE "exit"),
                                  i     |-> 1]))}
          [] OTHER -> {}

\* The interrupts that the test's own handler takes.
TakenHere(c) == {x \in c.regs.irq : x.on /\ x.pending
                                   /\ <<IF x.ns THEN "ns" ELSE "s", "TMR">> \in c.tables.own}
Interrupted(c) ==
    LET taken == TakenHere(c)
    IN  IF taken = {} THEN {}
        ELSE (IF ByTest(c, "count")
              THEN {Cfg(c.place, c.tables,
                        IrqTo(c.regs, {[x EXCEPT !.pending = FALSE] : x \in taken}
                                   \cup {[QuietIrq EXCEPT !.ns = x.ns] : x \in taken}))} ELSE {})
             \cup (IF ByTest(c, "flag")
                   THEN {Cfg(c.place, c.tables,
                             IrqTo(c.regs, {[x EXCEPT !.pending = FALSE] : x \in taken}))} ELSE {})
             \cup (IF ByTest(c, "stop")
                   THEN {Cfg(ExcusedAt(c.place), c.tables,
                             IrqTo(c.regs, {[x EXCEPT !.pending = FALSE, !.running = FALSE]
                                               : x \in taken}))}
                   ELSE {})

Due(c) ==
    LET ready == {x \in c.regs.irq : x.running /\ ~x.pending}
    IN  IF ready = {} THEN {}
        ELSE {Cfg(c.place, c.tables,
                   IrqTo(c.regs, c.regs.irq \cup {[x EXCEPT !.pending = TRUE] : x \in ready}))}

\* The steps of the test when nothing fails, and those with which something fails.
Proper(c) == Handling(c) \cup Controlling(c) \cup Masked(c) \cup Requesting(c) \cup Judging(c)
                 \cup Describing(c) \cup Faulting(c)
Rejecting == {"saveNv", "putNv", "request", "withdraw", "writeFresh", "onRequest", "check",
              "describe", "awaitStatus", "awaitFlag"}

Breaking(c) ==
    LET s == NowOf(c.place)
        p == c.place
    IN  (IF Does(c, "routeHeld")
         THEN {Cfg(Aside(Failed(p)), c.tables,
                   IrqTo(c.regs, {[x EXCEPT !.ns = TRUE] : x \in c.regs.irq}))}
         ELSE {})
        \cup (IF (\E op \in Rejecting : Does(c, op)) \/ (Does(c, "probe") /\ s.arg = "timed")
              THEN {At(c, Aside(Failed(p)))} ELSE {})
        \cup (IF Does(c, "trust")
              THEN {Cfg(On(Failed(p)), c.tables,
                        BootTo(c.regs, {b \ {s.arg} : b \in c.regs.boot}))} ELSE {})
        \cup (IF Does(c, "quiet") \/ Does(c, "unheeded") THEN {At(c, Aside(Seen(p)))} ELSE {})
        \cup (IF \/ Does(c, "probe") /\ s.arg = "ignored"
                 \/ Does(c, "trap") /\ s.to # "next"
                 \/ Does(c, "coldReset") \/ Does(c, "watchdog")
              THEN {At(c, On(Seen(p)))} ELSE {})
        \cup (IF Does(c, "probe") /\ s.arg = "unwanted" THEN {At(c, On(Failed(p)))} ELSE {})

After(c) == Interrupted(c) \cup Due(c) \cup
                {d \in Proper(Rest(c)) \cup NextHook(Rest(c)) : Rest(c).regs.irq # {}}
Slips(c) == {d \in Breaking(Rest(c)) : Rest(c).regs.irq # {}}

\* A reset that the test provokes, and how the test it leads to begins.
Resets(c) == \/ Does(c, "coldReset")
             \/ Does(c, "watchdog")
             \/ Does(c, "trap") /\ OwnFault(c) /\ ByTest(c, "reset")
Restarted(c, b) ==
    Loaded(IF b = {} THEN 1 ELSE c.place.test, c.place.status, TRUE,
           Regs({"found"}, c.regs.nv, {b}, {QuietIrq}))

-----------------------------------------------------------------------------
(* Outlines *)

\* A test makes an access that should fault when the fault handler is its own and the others are
\* off; it does not report success after a failure, but for those that are known to; and when
\* nothing failed it leaves no handler of its own.
OwnThere(c)  == Does(c, "trap") \/ Does(c, "probe") => OwnFault(c) /\ c.regs.shcsr = {"hidden"}
Stands(c)    == IsOver(c.place) /\ c.place.seen /\ c.place.test \notin Overlooking =>
                    c.place.status # "pass"
NoneLeft(c)  == /\ IsOver(c.place) /\ ~c.place.seen /\ c.place.status # "fail"
                /\ c.place.test \notin Careless
                => c.tables.own = {} /\ ~c.tables.back

\* The tests are right whatever they begin with, and whatever fails in them.
RightAlone(outline) ==
    /\ \A n \in 1..NumTests, st \in Statuses : Loaded(n, st, FALSE, Whatever) \in outline
    /\ \A c \in outline : /\ After(c) \subseteq outline /\ Slips(c) \subseteq outline
                          /\ OwnThere(c) /\ Stands(c) /\ NoneLeft(c)

\* A test that nothing fails in puts back what it changes.
PutsBack(c) ==
    IsOver(c.place) =>
        /\ c.tables.clean
        /\ c.tables.own \subseteq (IF c.place.test \in Careless THEN Worlds \X {"TMR"} ELSE {})
        /\ c.regs.shcsr \subseteq AsFound.shcsr /\ c.regs.boot \subseteq AsFound.boot
        /\ c.regs.irq \subseteq AsFound.irq

Tidy(outline) ==
    /\ \A n \in 1..NumTests, st \in Statuses : Loaded(n, st, TRUE, AsFound) \in outline
    /\ \A c \in outline :
          /\ After(c) \subseteq outline /\ PutsBack(c)
          /\ Resets(c) => \A b \in c.regs.boot : Restarted(c, b) \in outline

\* The tests in their order: the fault handlers are on when a test begins, until one of those
\* that turn them off has failed.
Spared(c) == c.place.test \in Masking /\ (c.place.seen \/ c.place.status = "fail")

UnmaskedFrom(outline) ==
    /\ Loaded(1, "pass", FALSE, Regs({"found"}, {"junk"}, {{}}, Irqs)) \in outline
    /\ \A c \in outline :
          /\ After(c) \subseteq outline /\ Slips(c) \subseteq outline
          /\ c.place.at = EntryOf => c.regs.shcsr = {"found"}
          /\ Resets(c) => \A b \in c.regs.boot : Restarted(c, b) \in outline
          /\ IsOver(c.place) /\ ~Spared(c) =>
                /\ c.regs.shcsr = {"found"}
                /\ c.place.test < NumTests =>
                      Loaded(c.place.test + 1, c.place.status, FALSE,
                             Regs({"found"}, c.regs.nv, c.regs.boot, Irqs)) \in outline
=============================================================================
