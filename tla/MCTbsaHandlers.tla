---------------------------- MODULE MCTbsaHandlers ----------------------------
(* An instance of TbsaHandlers: the whole pool, with the outlines of its   *)
(* tests, as the least sets that hold the beginnings of the tests and are  *)
(* closed under their steps.                                               *)
EXTENDS TbsaOutline

P == INSTANCE TbsaTestPool
Pool == P!Pool

\* test_c001 is the tenth of the pool.
CarelessOfPool == {n \in 1..Len(Pool) : Pool[n].s = P!C001S}

\* test_c001, test_c010, test_t002 and test_t003.
OverlookingOfPool == {n \in 1..Len(Pool) : Pool[n].s \in {P!C001S, P!C010S, P!T002S, P!T003S}}

\* The pool is what the theorems ask of a suite.
ASSUME PoolFits == Suite = Pool => SuiteFits

-----------------------------------------------------------------------------
(* The outlines of the pool *)

\* What a test can begin with: "alone", anything; "tidy", everything as the suite found it;
\* "ordered", what the tests before it left.
Starts(kind) ==
    CASE kind = "alone"   -> {Loaded(n, st, FALSE, Whatever) : n \in 1..NumTests, st \in Statuses}
      [] kind = "tidy"    -> {Loaded(n, st, TRUE, AsFound) : n \in 1..NumTests, st \in Statuses}
      [] kind = "ordered" -> {Loaded(1, "pass", FALSE, Regs({"found"}, {"junk"}, {{}}, Irqs))}

Follow(kind, c) == After(c) \cup (IF kind = "tidy" THEN {} ELSE Slips(c))

Begin(kind, c) ==
    (IF kind # "alone" /\ Resets(c) THEN {Restarted(c, b) : b \in c.regs.boot} ELSE {})
    \cup
    (IF kind = "ordered" /\ IsOver(c.place) /\ ~Spared(c) /\ c.place.test < NumTests
     THEN {Loaded(c.place.test + 1, c.place.status, FALSE,
                  Regs({"found"}, c.regs.nv, c.regs.boot, Irqs))}
     ELSE {})

\* What follows from some configurations, within their test; and from the tests that some
\* begin, one test after another.
RECURSIVE Within(_, _, _), Through(_, _, _)
Within(kind, done, new) ==
    IF new = {} THEN done
    ELSE LET next == UNION {Follow(kind, c) : c \in new}
         IN  Within(kind, done \cup new, next \ (done \cup new))
Through(kind, done, starts) ==
    IF starts = {} THEN done
    ELSE LET n      == CHOOSE m \in 1..NumTests : \E s \in starts : s.place.test = m
             here   == {s \in starts : s.place.test = n}
             o      == Within(kind, {}, here)
             begins == UNION {Begin(kind, c) : c \in o}
         IN  Through(kind, done \cup o, (starts \cup begins) \ (done \cup o))
Outline(kind) == Through(kind, {}, Starts(kind))

\* The tests of the pool are right alone, tidy, and leave the fault handlers on.
ASSUME PoolIsRight    == Suite = Pool => RightAlone(Outline("alone"))
ASSUME PoolIsTidy     == Suite = Pool => Tidy(Outline("tidy"))
ASSUME PoolIsUnmasked == Suite = Pool => UnmaskedFrom(Outline("ordered"))
=============================================================================
