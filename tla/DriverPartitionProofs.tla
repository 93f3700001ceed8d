------------------------ MODULE DriverPartitionProofs ------------------------
(***************************************************************************)
(* Proofs about DriverPartition, for all tests, both builds, isolating and *)
(* open implementations and any number of failures.                        *)
(*                                                                         *)
(* The invariant follows the test.  It is always at some operation of one  *)
(* of a few sequences: what is left of the half of its check, of           *)
(* val_test_init or val_test_exit, or of a half that has failed.  Each     *)
(* place says where the driver partition may be then, what NV_BOOT holds,  *)
(* what was tried so far, and, once the half has failed, what excuses it.  *)
(***************************************************************************)
EXTENDS DriverPartition, SequenceTheorems, TLAPS

\* The sequences that the test works through, each from its start, and what is left
\* of one at its k-th operation.
Ends  == {"exitPass", "exitFail", "closeExit"}
Plans == {"init", "but", "closeDog", "closeTest", "closeNv", "failure"} \cup Ends \cup TestFns

Plan(s) ==
    CASE s = "init"      -> TestInit
      [] s = "exitPass"  -> TestExit("pass")
      [] s = "exitFail"  -> TestExit("fail")
      [] s = "closeExit" -> <<Op("watchdog", "close", "none"), Result("fail")>>
      [] s = "but"       -> SetFlag("but_failed") \o <<Failure>>
      [] s = "closeDog"  -> <<Op("watchdog", "close", "none"), Failure>>
      [] s = "closeTest" -> <<Close, Failure>>
      [] s = "closeNv"   -> <<Op("nvmem", "close", "none"), Failure>>
      [] s = "failure"   -> <<Failure>>
      [] OTHER           -> Script[s]

Rest(s, k) == SubSeq(Plan(s), k, Len(Plan(s)))

At     == req["tester"].at
Taken  == At = "taken"

\* What excuses a test that fails, and what a test that passes has tried.
Excused      == disturbed \/ faults > 0 \/ verbose \/ \E i \in DOMAIN test : ~Announces(i)
TriedUpTo(n) == verbose \/ 1..n \subseteq tried

\* Nothing is under way in the driver partition, and nothing can stop it.
Calm == pc = "wait" /\ intr = "off"

\* A reset now would pass the test only if this check was tried, and go on with its second
\* check only if the first one was.
PassEarned ==
    /\ nvBoot \in {"expected_ns", "expected_s"} => TriedUpTo(chk)
    /\ nvBoot = "reenter" => TriedUpTo(1)

\* The check has not announced a reset yet: NV_BOOT holds what it began with.
Unset ==
    /\ nvBoot \in {"not_expected", "but_failed", "reenter"}
    /\ nvBoot = "reenter" => TriedUpTo(1)

\* The half has failed.
Failed ==
    /\ Excused /\ ~Taken
    /\ \/ Calm
       \/ pc \in {"wait", "stopped"} /\ PassEarned
       \/ pc = "stray" /\ test[chk] \in WriteFns /\ PassEarned
       \/ pc = "grant" /\ test[chk] = "wr_data" /\ Unset /\ intr = "off"

\* A write check whose caller has the address.
Granted ==
    /\ intr = "off" /\ ~Taken
    /\ \/ pc = "second" /\ nvBoot = "expected_s"
       \/ pc = "announce" /\ Unset /\ test[chk] # "wr_data"
       \/ pc = "stray" /\ Unset /\ Excused /\ test[chk] # "wr_data"
       \/ pc = "stray" /\ nvBoot = "expected_s" /\ verbose

ReadStage(k) ==
    /\ k \in 1..8 /\ Calm /\ ~Taken
    /\ (k = 5 /\ At = "ok") \/ k \in {6, 7, 8} => nvBoot = "reenter"
    /\ At = "refused" => k \in {2, 5} /\ Excused
    /\ k = 8 => TriedUpTo(chk)

WriteStage(k) ==
    /\ k \in 1..6
    /\ k = 1 \/ (k = 2 /\ At \in {"none", "sent"}) => Calm /\ Unset /\ At # "refused"
    /\ k = 2 /\ Taken =>
          /\ intr = "off"
          /\ \/ pc = "announce" /\ test[chk] = "wr_data" /\ Unset
             \/ pc = "grant" /\ test[chk] = "wr_data" /\ nvBoot = "expected_s"
             \/ pc = "grant" /\ test[chk] # "wr_data" /\ Unset
    /\ k = 2 /\ At = "refused" =>
          /\ Excused
          /\ \/ pc \in {"grant", "stray"} /\ test[chk] = "wr_data" /\ Unset /\ intr = "off"
             \/ Calm
    /\ (k = 2 /\ At = "ok") \/ k = 3 \/ (k = 4 /\ At \in {"none", "sent"}) => Granted
    /\ k = 4 /\ Taken =>
          /\ intr = "off"
          /\ \/ pc = "doubt"
             \/ pc = "compare" /\ nvBoot = "but_failed"
             \/ pc = "stopped" /\ nvBoot = "but_failed" /\ Excused
    /\ k = 4 /\ At \in {"ok", "refused"} => Calm /\ (At = "refused" => Excused)
    /\ (k = 4 /\ At = "ok") \/ k >= 5 => nvBoot = "but_failed"
    /\ k >= 5 => Calm /\ ~Taken /\ At # "refused"
    /\ k >= 4 => TriedUpTo(chk)

EoiStage(k) ==
    /\ k \in 1..4
    /\ k = 1 \/ (k = 2 /\ At \in {"none", "sent"}) => Calm /\ Unset /\ At # "refused"
    /\ k = 2 /\ Taken =>
          \/ pc \in {"eoi", "eoi_intr", "eoi_wait"} /\ Unset
          \/ pc = "eoi_now" /\ nvBoot = "expected_ns"
          \/ pc = "stopped" /\ nvBoot = "expected_ns" /\ TriedUpTo(chk)
    /\ (k = 2 /\ At \in {"ok", "refused"}) \/ k > 2 =>
          Excused /\ ~Taken /\ pc \in {"wait", "stopped"} /\ PassEarned

IrqStage(k) ==
    /\ k \in 1..4 /\ Unset
    /\ ~Taken => Calm \/ At = "refused"
    /\ Taken => k = 2 /\ ((pc = "irq" /\ intr = "off") \/ pc = "irq_wait")
    /\ At = "refused" => k = 2 /\ Excused /\ pc \in {"wait", "stopped"}
    /\ (k = 2 /\ At = "ok") \/ k > 2 => TriedUpTo(chk)

Stage(s, k) ==
    \/ s = "init" /\ k \in 1..7 /\ Calm /\ ~Taken /\ printed = Len(PrintScript)
          /\ TriedUpTo(chk - 1) /\ (At = "refused" => Excused)
    \/ s = "exitPass" /\ k \in 1..4 /\ Calm /\ ~Taken /\ TriedUpTo(chk) /\ chk = Len(test)
          /\ (At = "refused" => Excused)
    \/ s = "exitFail" /\ k \in 1..4 /\ Failed
    \/ s \in {"closeExit", "closeDog", "closeTest", "closeNv"} /\ k \in 1..2 /\ Failed
    \/ s = "but" /\ k \in 1..4 /\ Calm /\ Failed
    \/ s = "failure" /\ k = 1 /\ Failed
    \/ s = test[chk] /\ TriedUpTo(chk - 1) /\
          \/ s = "rd" /\ ReadStage(k)
          \/ s \in WriteFns /\ WriteStage(k)
          \/ s \in {"eoi", "eoi_intr"} /\ EoiStage(k)
          \/ s = "irq" /\ IrqStage(k)

\* Each actor is blocked in the next request of its sequence, if in any; only a call is
\* kept waiting or refused, and the printer's requests are answered at once.
RequestInv(s, k) ==
    /\ At # "none" =>
          k <= Len(Plan(s)) /\ req["tester"].op = Plan(s)[k] /\ Plan(s)[k].svc \in Services
    /\ At \in {"taken", "refused"} => req["tester"].op.type = "call"

PrintInv ==
    /\ req["printer"].at \in {"none", "sent", "ok"}
    /\ req["printer"].at # "none" => req["printer"].op.svc = "uart" /\ printed < Len(PrintScript)
    /\ ~verbose => printed = Len(PrintScript)

DriverInv ==
    /\ pc \notin {"wait", "stopped", "stray"} => msg = "tester"
    /\ pc = "irq" \/ pc = "irq_wait" => test[chk] = "irq"
    /\ nvBoot = "expected_s" => test[chk] \in WriteFns
    /\ nvBoot = "expected_ns" => test[chk] \in {"eoi", "eoi_intr"}
    /\ ~modified

\* The test is at the k-th operation of s.
Place(s, k) == todo = Rest(s, k) /\ Stage(s, k) /\ RequestInv(s, k)

\* A test without a verdict is somewhere in one of the sequences.
Running == \E s \in Plans : \E k \in 1..8 : Place(s, k)

\* What a verdict says of the test.
Verdict ==
    /\ verdict = "pass" =>
          TriedUpTo(chk) /\ (chk = Len(test) \/ test[chk] \notin {"rd", "irq"})
    /\ verdict \in {"fail", "sim_error"} => Excused

IInv ==
    /\ TypeOK /\ Verdict
    /\ IF verdict = "none" THEN PrintInv /\ DriverInv /\ Running
                           ELSE FaultIsAnnounced /\ NoStrayReply

(* ------------------------- Lemmas on the scripts ----------------------- *)

\* Concatenation, written out; the same for the two that follow.
LEMMA Cat31 == \A a, b, c, d : <<a, b, c>> \o <<d>> = <<a, b, c, d>>
  <1> SUFFICES ASSUME NEW a, NEW b, NEW c, NEW d
               PROVE  <<a, b, c>> \o <<d>> = <<a, b, c, d>>
    OBVIOUS
  <1> DEFINE S == {a, b, c, d}
             t == <<a, b, c>> \o <<d>>
  <1>1. /\ t \in Seq(S) /\ Len(t) = 4
        /\ \A i \in 1..4 : t[i] = IF i <= 3 THEN <<a, b, c>>[i] ELSE <<d>>[i - 3]
    BY <<a, b, c>> \in Seq(S), <<d>> \in Seq(S), Len(<<a, b, c>>) = 3, Len(<<d>>) = 1,
       ConcatProperties
  <1>2. \A i \in 1..4 : t[i] = <<a, b, c, d>>[i]
    BY <1>1
  <1> QED BY <1>1, <1>2, <<a, b, c, d>> \in Seq(S), Len(<<a, b, c, d>>) = 4, SeqEqual

\* Two sequences of three.
LEMMA Cat33 == \A a, b, c, d, e, f : <<a, b, c>> \o <<d, e, f>> = <<a, b, c, d, e, f>>
  <1> SUFFICES ASSUME NEW a, NEW b, NEW c, NEW d, NEW e, NEW f
               PROVE  <<a, b, c>> \o <<d, e, f>> = <<a, b, c, d, e, f>>
    OBVIOUS
  <1> DEFINE S == {a, b, c, d, e, f}
             t == <<a, b, c>> \o <<d, e, f>>
  <1>1. /\ t \in Seq(S) /\ Len(t) = 6
        /\ \A i \in 1..6 : t[i] = IF i <= 3 THEN <<a, b, c>>[i] ELSE <<d, e, f>>[i - 3]
    BY <<a, b, c>> \in Seq(S), <<d, e, f>> \in Seq(S), Len(<<a, b, c>>) = 3,
       Len(<<d, e, f>>) = 3, ConcatProperties
  <1>2. \A i \in 1..6 : t[i] = <<a, b, c, d, e, f>>[i]
    BY <1>1
  <1> QED BY <1>1, <1>2, <<a, b, c, d, e, f>> \in Seq(S), Len(<<a, b, c, d, e, f>>) = 6,
             SeqEqual

\* A seventh element.
LEMMA Cat61 ==
    \A a, b, c, d, e, f, g :
        <<a, b, c, d, e, f>> \o <<g>> = <<a, b, c, d, e, f, g>>
  <1> SUFFICES ASSUME NEW a, NEW b, NEW c, NEW d, NEW e, NEW f, NEW g
               PROVE  <<a, b, c, d, e, f>> \o <<g>> = <<a, b, c, d, e, f, g>>
    OBVIOUS
  <1> DEFINE S == {a, b, c, d, e, f, g}
             t == <<a, b, c, d, e, f>> \o <<g>>
  <1>1. /\ t \in Seq(S) /\ Len(t) = 7
        /\ \A i \in 1..7 : t[i] = IF i <= 6 THEN <<a, b, c, d, e, f>>[i] ELSE <<g>>[i - 6]
    BY <<a, b, c, d, e, f>> \in Seq(S), <<g>> \in Seq(S), Len(<<a, b, c, d, e, f>>) = 6,
       Len(<<g>>) = 1, ConcatProperties
  <1>2. \A i \in 1..7 : t[i] = <<a, b, c, d, e, f, g>>[i]
    BY <1>1
  <1> QED BY <1>1, <1>2, <<a, b, c, d, e, f, g>> \in Seq(S),
             Len(<<a, b, c, d, e, f, g>>) = 7, SeqEqual

\* The sequences, written out.
LEMMA PlanInit ==
    Plan("init") = <<Op("watchdog", "connect", "none"), Op("watchdog", "call", "init"),
                     Op("watchdog", "close", "none"), Op("watchdog", "connect", "none"),
                     Op("watchdog", "call", "enable"), Op("watchdog", "close", "none"),
                     FirstCheck>>
  <1> DEFINE a == Op("watchdog", "connect", "none")
             b == Op("watchdog", "call", "init")
             c == Op("watchdog", "close", "none")
             d == Op("watchdog", "call", "enable")
  <1>1. Plan("init") = <<a, b, c>> \o <<a, d, c>> \o <<FirstCheck>>
    BY DEF Plan, TestInit, CallDog
  <1> HIDE DEF a, b, c, d
  <1>2. Plan("init") = <<a, b, c, a, d, c, FirstCheck>>
    BY <1>1, Cat33, Cat61
  <1> QED BY <1>2 DEF a, b, c, d

\* val_test_exit, and a refused call to stop the watchdog.
LEMMA PlanExit ==
    /\ Plan("exitPass") = <<Op("watchdog", "connect", "none"), Op("watchdog", "call", "disable"),
                            Op("watchdog", "close", "none"), Result("pass")>>
    /\ Plan("exitFail") = <<Op("watchdog", "connect", "none"), Op("watchdog", "call", "disable"),
                            Op("watchdog", "close", "none"), Result("fail")>>
    /\ Plan("closeExit") = <<Op("watchdog", "close", "none"), Result("fail")>>
  BY Cat31 DEF Plan, TestExit, CallDog

\* A read check, the failure after a read that returned, and a refused call to the NV memory.
LEMMA PlanRead ==
    /\ Plan("rd") = <<Connect, Op("test", "call", "rd"), Close, Op("nvmem", "connect", "none"),
                      Op("nvmem", "call", "reenter"), Op("nvmem", "close", "none"),
                      Access("read")>>
    /\ Plan("but") = <<Op("nvmem", "connect", "none"), Op("nvmem", "call", "but_failed"),
                       Op("nvmem", "close", "none"), Failure>>
    /\ Plan("closeNv") = <<Op("nvmem", "close", "none"), Failure>>
  <1> DEFINE a == Op("nvmem", "connect", "none")
             b == Op("nvmem", "call", "reenter")
             c == Op("nvmem", "close", "none")
             d == Op("test", "call", "rd")
             e == Op("nvmem", "call", "but_failed")
  <1>1. /\ Plan("rd") = <<Connect, d, Close>> \o <<a, b, c>> \o <<Access("read")>>
        /\ Plan("but") = <<a, e, c>> \o <<Failure>>
        /\ Plan("closeNv") = <<c, Failure>>
    BY DEF Plan, Script, SetFlag
  <1> HIDE DEF a, b, c, d, e
  <1>2. /\ Plan("rd") = <<Connect, d, Close, a, b, c, Access("read")>>
        /\ Plan("but") = <<a, e, c, Failure>>
    BY <1>1, Cat31, Cat33, Cat61
  <1> QED BY <1>1, <1>2 DEF a, b, c, d, e

\* A write check.
LEMMA PlanWrite ==
    ASSUME NEW f \in WriteFns
    PROVE  Plan(f) = <<Connect, Op("test", "call", f), Access("write"),
                       Op("test", "call", "status"), Close>>
  BY DEF Plan, Script, WriteScript, WriteFns

\* A check of psa_eoi.
LEMMA PlanEoi ==
    ASSUME NEW f \in {"eoi", "eoi_intr"}
    PROVE  Plan(f) = <<Connect, Op("test", "call", f), Close, Failure>>
  BY DEF Plan, Script

\* A check of interrupt routing.
LEMMA PlanIrq == Plan("irq") = <<Connect, Op("test", "call", "irq"), Close>>
  BY DEF Plan, Script

\* What is left to a half that fails.
LEMMA PlanFailures ==
    /\ Plan("closeDog") = <<Op("watchdog", "close", "none"), Failure>>
    /\ Plan("closeTest") = <<Close, Failure>>
    /\ Plan("failure") = <<Failure>>
  BY DEF Plan

\* How long they are.
LEMMA PlanLength ==
    /\ Len(Plan("init")) = 7 /\ Len(Plan("rd")) = 7
    /\ \A f \in WriteFns : Len(Plan(f)) = 5
    /\ \A s \in {"exitPass", "exitFail", "but", "eoi", "eoi_intr"} : Len(Plan(s)) = 4
    /\ Len(Plan("irq")) = 3
    /\ \A s \in {"closeExit", "closeDog", "closeTest", "closeNv"} : Len(Plan(s)) = 2
    /\ Len(Plan("failure")) = 1
  <1>1. Len(Plan("init")) = 7
    BY PlanInit
  <1>2. Len(Plan("rd")) = 7 /\ Len(Plan("but")) = 4 /\ Len(Plan("closeNv")) = 2
    BY PlanRead
  <1>3. \A f \in WriteFns : Len(Plan(f)) = 5
    BY PlanWrite
  <1>4. Len(Plan("exitPass")) = 4 /\ Len(Plan("exitFail")) = 4 /\ Len(Plan("closeExit")) = 2
    BY PlanExit
  <1>5. \A f \in {"eoi", "eoi_intr"} : Len(Plan(f)) = 4
    BY PlanEoi
  <1>6. Len(Plan("irq")) = 3
    BY PlanIrq
  <1>7. Len(Plan("closeDog")) = 2 /\ Len(Plan("closeTest")) = 2 /\ Len(Plan("failure")) = 1
    BY PlanFailures
  <1> QED BY <1>1, <1>2, <1>3, <1>4, <1>5, <1>6, <1>7

\* They consist of operations.
LEMMA PlanType == \A s \in Plans : Plan(s) \in Seq(Ops)
  <1>a. /\ FirstCheck \in Ops /\ Result("pass") \in Ops /\ Result("fail") \in Ops
        /\ Access("read") \in Ops /\ Access("write") \in Ops /\ Failure \in Ops
    BY DEF Ops
  <1>b. /\ \A x \in {"init", "enable", "disable"} : Op("watchdog", "call", x) \in Ops
        /\ Op("watchdog", "connect", "none") \in Ops /\ Op("watchdog", "close", "none") \in Ops
        /\ \A x \in Flags : Op("nvmem", "call", x) \in Ops
        /\ Op("nvmem", "connect", "none") \in Ops /\ Op("nvmem", "close", "none") \in Ops
        /\ \A x \in TestFns \cup {"status"} : Op("test", "call", x) \in Ops
        /\ Op("test", "connect", "none") \in Ops /\ Op("test", "close", "none") \in Ops
    BY DEF Ops, Op
  <1>c. Connect \in Ops /\ Close \in Ops
    BY <1>b DEF Connect, Close
  <1>1. Plan("init") \in Seq(Ops)
    <2>1. Op("watchdog", "call", "init") \in Ops /\ Op("watchdog", "call", "enable") \in Ops
      BY <1>b
    <2>2. <<Op("watchdog", "connect", "none"), Op("watchdog", "call", "init"),
            Op("watchdog", "close", "none"), Op("watchdog", "connect", "none"),
            Op("watchdog", "call", "enable"), Op("watchdog", "close", "none"),
            FirstCheck>> \in Seq(Ops)
      BY <1>a, <1>b, <2>1
    <2> QED BY <2>2, PlanInit
  <1>2. /\ Plan("exitPass") \in Seq(Ops)
        /\ Plan("exitFail") \in Seq(Ops)
        /\ Plan("closeExit") \in Seq(Ops)
    <2>1. Op("watchdog", "call", "disable") \in Ops
      BY <1>b
    <2>2. <<Op("watchdog", "connect", "none"), Op("watchdog", "call", "disable"),
            Op("watchdog", "close", "none"), Result("pass")>> \in Seq(Ops)
      BY <1>a, <1>b, <2>1
    <2>3. <<Op("watchdog", "connect", "none"), Op("watchdog", "call", "disable"),
            Op("watchdog", "close", "none"), Result("fail")>> \in Seq(Ops)
      BY <1>a, <1>b, <2>1
    <2>4. <<Op("watchdog", "close", "none"), Result("fail")>> \in Seq(Ops)
      BY <1>a, <1>b, <2>1
    <2> QED BY <2>2, <2>3, <2>4, PlanExit
  <1>3. Plan("rd") \in Seq(Ops) /\ Plan("but") \in Seq(Ops) /\ Plan("closeNv") \in Seq(Ops)
    <2>1. /\ Op("test", "call", "rd") \in Ops /\ Op("nvmem", "call", "reenter") \in Ops
          /\ Op("nvmem", "call", "but_failed") \in Ops
      BY <1>b DEF TestFns, Flags
    <2>2. <<Connect, Op("test", "call", "rd"), Close, Op("nvmem", "connect", "none"),
            Op("nvmem", "call", "reenter"), Op("nvmem", "close", "none"),
            Access("read")>> \in Seq(Ops)
      BY <1>a, <1>b, <1>c, <2>1
    <2>3. <<Op("nvmem", "connect", "none"), Op("nvmem", "call", "but_failed"),
            Op("nvmem", "close", "none"), Failure>> \in Seq(Ops)
      BY <1>a, <1>b, <1>c, <2>1
    <2>4. <<Op("nvmem", "close", "none"), Failure>> \in Seq(Ops)
      BY <1>a, <1>b, <1>c, <2>1
    <2> QED BY <2>2, <2>3, <2>4, PlanRead
  <1>4. \A f \in WriteFns : Plan(f) \in Seq(Ops)
    <2> SUFFICES ASSUME NEW f \in WriteFns PROVE Plan(f) \in Seq(Ops)
      OBVIOUS
    <2>1. Op("test", "call", f) \in Ops /\ Op("test", "call", "status") \in Ops
      BY <1>b DEF TestFns
    <2>2. <<Connect, Op("test", "call", f), Access("write"),
            Op("test", "call", "status"), Close>> \in Seq(Ops)
      BY <1>a, <1>c, <2>1
    <2> QED BY <2>2, PlanWrite
  <1>5. \A f \in {"eoi", "eoi_intr"} : Plan(f) \in Seq(Ops)
    <2> SUFFICES ASSUME NEW f \in {"eoi", "eoi_intr"} PROVE Plan(f) \in Seq(Ops)
      OBVIOUS
    <2>1. Op("test", "call", f) \in Ops
      BY <1>b DEF TestFns
    <2>2. <<Connect, Op("test", "call", f), Close, Failure>> \in Seq(Ops)
      BY <1>a, <1>c, <2>1
    <2> QED BY <2>2, PlanEoi
  <1>6. Plan("irq") \in Seq(Ops)
    <2>1. Op("test", "call", "irq") \in Ops
      BY <1>b DEF TestFns
    <2>2. <<Connect, Op("test", "call", "irq"), Close>> \in Seq(Ops)
      BY <1>c, <2>1
    <2> QED BY <2>2, PlanIrq
  <1>7. /\ Plan("closeDog") \in Seq(Ops)
        /\ Plan("closeTest") \in Seq(Ops)
        /\ Plan("failure") \in Seq(Ops)
    <2>1. <<Op("watchdog", "close", "none"), Failure>> \in Seq(Ops)
      BY <1>a, <1>b, <1>c
    <2>2. <<Close, Failure>> \in Seq(Ops)
      BY <1>a, <1>b, <1>c
    <2>3. <<Failure>> \in Seq(Ops)
      BY <1>a, <1>b, <1>c
    <2> QED BY <2>1, <2>2, <2>3, PlanFailures
  <1> QED BY <1>1, <1>2, <1>3, <1>4, <1>5, <1>6, <1>7 DEF Plans, Ends, TestFns

\* One operation is taken off after the other.
LEMMA RestSteps ==
    ASSUME NEW s \in Plans, NEW k \in Nat \ {0}
    PROVE  /\ k <= Len(Plan(s)) => /\ Rest(s, k) # <<>> /\ Head(Rest(s, k)) = Plan(s)[k]
                                   /\ Tail(Rest(s, k)) = Rest(s, k + 1)
                                   /\ Len(Rest(s, k)) = Len(Plan(s)) - k + 1
           /\ k > Len(Plan(s)) => Rest(s, k) = <<>>
           /\ Rest(s, k) \in Seq(Ops)
           /\ Rest(s, 1) = Plan(s)
  <1>1. Plan(s) \in Seq(Ops) /\ Len(Plan(s)) \in Nat
    BY PlanType, LenProperties
  <1>2. \A i \in k..Len(Plan(s)) : Plan(s)[i] \in Ops
    BY <1>1, ElementOfSeq
  <1>3. /\ Rest(s, k) \in Seq(Ops)
        /\ Len(Rest(s, k)) = IF k <= Len(Plan(s)) THEN Len(Plan(s)) - k + 1 ELSE 0
    BY <1>1, <1>2, SubSeqProperties DEF Rest
  <1>4. ASSUME k <= Len(Plan(s))
        PROVE  Head(Rest(s, k)) = Plan(s)[k] /\ Tail(Rest(s, k)) = Rest(s, k + 1)
    BY <1>1, <1>4, HeadTailOfSubSeq DEF Rest
  <1>5. Rest(s, 1) = Plan(s)
    BY <1>1, SubSeqFull DEF Rest
  <1>6. k > Len(Plan(s)) => Rest(s, k) = <<>>
    BY <1>1, SubSeqEmpty DEF Rest
  <1>7. k <= Len(Plan(s)) => Rest(s, k) # <<>>
    BY <1>1, <1>3
  <1> QED BY <1>1, <1>3, <1>4, <1>5, <1>6, <1>7

\* Where in the sequences each kind of operation is.
Places(s, k, o) ==
    /\ o.svc \in Services \cup {"cpu"} /\ o.svc # "uart"
    /\ o.svc = "watchdog" =>
          /\ s \in {"init", "closeDog"} \cup Ends
          /\ o.type = "call" => (s = "init" /\ o.arg \in {"init", "enable"})
                                \/ (s \in {"exitPass", "exitFail"} /\ o.arg = "disable")
    /\ o.svc = "nvmem" =>
          /\ (s = "rd" /\ k \in {4, 5, 6}) \/ (s = "but" /\ k < 4) \/ (s = "closeNv" /\ k = 1)
          /\ o.type = "call" => (s = "rd" /\ k = 5 /\ o.arg = "reenter")
                                \/ (s = "but" /\ k = 2 /\ o.arg = "but_failed")
    /\ o.svc = "test" =>
          /\ s \in TestFns \cup {"closeTest"}
          /\ o.type = "call" =>
                (s \in TestFns /\ k = 2 /\ o.arg = s) \/ (s \in WriteFns /\ k = 4 /\ o.arg = "status")
          /\ o.type # "call" => k # 2 /\ k # 4
    /\ o.type = "call" => o.svc # "cpu" /\ o.arg # "none"
    /\ o.svc # "cpu" => o.type \in {"connect", "call", "close"}
    /\ o = Access("read")  <=> s = "rd" /\ k = 7
    /\ o = Access("write") <=> s \in WriteFns /\ k = 3
    /\ o = FirstCheck <=> s = "init" /\ k = 7
    /\ o = Result("pass") <=> s = "exitPass" /\ k = 4
    /\ o = Result("fail") <=> (s = "exitFail" /\ k = 4) \/ (s = "closeExit" /\ k = 2)
    /\ o = Failure <=>
          \/ s \in {"but", "eoi", "eoi_intr"} /\ k = 4
          \/ s \in {"closeDog", "closeTest", "closeNv"} /\ k = 2
          \/ s = "failure"
    /\ o.svc = "cpu" =>
          o \in {Access("read"), Access("write"), FirstCheck, Result("pass"), Result("fail"), Failure}

\* Each operation of each sequence is where Places says.
LEMMA PlanPlaces == \A s \in Plans : \A k \in 1..Len(Plan(s)) : Places(s, k, Plan(s)[k])
  <1> USE
      DEF Places, Op, Access, FirstCheck, Result, Failure, Connect, Close, Services,
          Ends,
              TestFns, WriteFns
  <1>1. \A k \in 1..7 : Places("init", k, Plan("init")[k])
    BY PlanInit
  <1>2. \A k \in 1..4 : /\ Places("exitPass", k, Plan("exitPass")[k])
                        /\ Places("exitFail", k, Plan("exitFail")[k])
    BY PlanExit
  <1>3. \A k \in 1..2 : Places("closeExit", k, Plan("closeExit")[k])
    BY PlanExit
  <1>4. \A k \in 1..7 : Places("rd", k, Plan("rd")[k])
    BY PlanRead
  <1>5. \A k \in 1..4 : Places("but", k, Plan("but")[k])
    BY PlanRead
  <1>6. \A k \in 1..2 : Places("closeNv", k, Plan("closeNv")[k])
    BY PlanRead
  <1>7. \A f \in WriteFns : \A k \in 1..5 : Places(f, k, Plan(f)[k])
    BY PlanWrite
  <1>8. \A f \in {"eoi", "eoi_intr"} : \A k \in 1..4 : Places(f, k, Plan(f)[k])
    BY PlanEoi
  <1>9. \A k \in 1..3 : Places("irq", k, Plan("irq")[k])
    BY PlanIrq
  <1>10. \A s \in {"closeDog", "closeTest"} : \A k \in 1..2 : Places(s, k, Plan(s)[k])
    BY PlanFailures
  <1>11. Places("failure", 1, Plan("failure")[1])
    BY PlanFailures
  <1> HIDE DEF Places
  <1> SUFFICES ASSUME NEW s \in Plans, NEW k \in 1..Len(Plan(s)) PROVE Places(s, k, Plan(s)[k])
    OBVIOUS
  <1>12. CASE s \in {"init", "rd", "irq", "failure"}
    BY <1>1, <1>4, <1>9, <1>11, <1>12, PlanLength
  <1>13. CASE s \in {"exitPass", "exitFail", "but", "eoi", "eoi_intr"}
    BY <1>2, <1>5, <1>8, <1>13, PlanLength
  <1>14. CASE s \in {"closeExit", "closeNv", "closeDog", "closeTest"}
    BY <1>3, <1>6, <1>10, <1>14, PlanLength
  <1>15. CASE s \in WriteFns
    BY <1>7, <1>15, PlanLength
  <1> QED BY <1>12, <1>13, <1>14, <1>15 DEF Plans

\* What comes after a refused call.
LEMMA Refusals ==
    ASSUME NEW s \in Plans, NEW k \in 1..Len(Plan(s)), Plan(s)[k].type = "call"
    PROVE  /\ s = "init" => AfterRefusal(Plan(s)[k]) = Plan("closeDog")
           /\ s \in {"exitPass", "exitFail"} => AfterRefusal(Plan(s)[k]) = Plan("closeExit")
           /\ (s = "rd" /\ k = 5) \/ s = "but" => AfterRefusal(Plan(s)[k]) = Plan("closeNv")
           /\ s \in WriteFns \cup {"rd"} /\ k = 2 => AfterRefusal(Plan(s)[k]) = Plan("failure")
           /\ (s \in WriteFns /\ k = 4) \/ s = "irq" =>
                 AfterRefusal(Plan(s)[k]) = Plan("closeTest")
  <1> DEFINE o == Plan(s)[k]
  <1>1. Places(s, k, o)
    BY PlanPlaces
  <1>2. \/ o.svc = "watchdog" /\ s = "init" /\ o.arg \in {"init", "enable"}
        \/ o.svc = "watchdog" /\ s \in {"exitPass", "exitFail"} /\ o.arg = "disable"
        \/ o.svc = "nvmem" /\ ((s = "rd" /\ k = 5) \/ s = "but") /\ o.arg \in {"reenter", "but_failed"}
        \/ o.svc = "test" /\ s \in TestFns /\ k = 2 /\ o.arg = s
        \/ o.svc = "test" /\ s \in WriteFns /\ k = 4 /\ o.arg = "status"
    BY <1>1 DEF Places, Services
  <1> HIDE DEF o
  <1>3. CASE s = "init"
    BY <1>2, <1>3, PlanFailures DEF AfterRefusal, o, TestFns, WriteFns
  <1>4. CASE s \in {"exitPass", "exitFail"}
    BY <1>2, <1>4, PlanExit DEF AfterRefusal, o, TestFns, WriteFns
  <1>5. CASE s = "but" \/ (s = "rd" /\ k = 5)
    BY <1>2, <1>5, PlanRead DEF AfterRefusal, o, TestFns, WriteFns
  <1>6. CASE s \in WriteFns \cup {"rd"} /\ k = 2
    BY <1>2, <1>6, PlanFailures DEF AfterRefusal, o, TestFns, WriteFns
  <1>7. CASE (s \in WriteFns /\ k = 4) \/ s = "irq"
    BY <1>2, <1>7, PlanFailures DEF AfterRefusal, o, TestFns, WriteFns, Close
  <1> QED BY <1>3, <1>4, <1>5, <1>6, <1>7 DEF WriteFns
\* What the test did, and what excuses it, is not undone.
LEMMA Growth ==
    ASSUME TypeOK, Next
    PROVE  /\ test' = test /\ verbose' = verbose /\ verdict = "none"
           /\ tried \subseteq tried'
           /\ Excused => Excused'
           /\ \A n \in Nat : TriedUpTo(n) => TriedUpTo(n)'
           /\ verbose \/ disturbed' \/ faults' # faults => Excused'
           /\ \A n \in Nat : verbose => TriedUpTo(n)'
  <1>1. test' = test /\ verbose' = verbose /\ verdict = "none"
    BY
    DEF Next, Client, Server, Driver, Leaves, SendRequest, GotAnswer, AccessFaults,
        ReadReturns,
           WriteReturns, EndCheck, EnterOrLeave, SendPrint, PrintAnswered, ServeUart,
           ServeWatchdog, ServeNvmem, TakeTest, Unexpected, Announce, Grant, SecondRequest, Doubt,
           Compare, CompareMmio, Generate, Interrupt, IrqRouting, EoiWait, EoiAnnounce, EoiStops,
           EoiReturns, Stopped
  <1>2. faults' = faults \/ faults' = faults + 1
    BY
    DEF Next, Client, Server, Driver, Leaves, SendRequest, GotAnswer, AccessFaults,
        ReadReturns,
           WriteReturns, EndCheck, EnterOrLeave, SendPrint, PrintAnswered, ServeUart,
           ServeWatchdog, ServeNvmem, TakeTest, Unexpected, Announce, Grant, SecondRequest, Doubt,
           Compare, CompareMmio, Generate, Interrupt, IrqRouting, EoiWait, EoiAnnounce, EoiStops,
           EoiReturns, Stopped, WriteBoot
  <1>3. tried \subseteq tried'
    BY
    DEF Next, Client, Server, Driver, Leaves, SendRequest, GotAnswer, AccessFaults,
        ReadReturns,
           WriteReturns, EndCheck, EnterOrLeave, SendPrint, PrintAnswered, ServeUart,
           ServeWatchdog, ServeNvmem, TakeTest, Unexpected, Announce, Grant, SecondRequest, Doubt,
           Compare, CompareMmio, Generate, Interrupt, IrqRouting, EoiWait, EoiAnnounce, EoiStops,
           EoiReturns, Stopped, obsVars, Tried
  <1>3b. ASSUME ~IrqRouting PROVE disturbed' = disturbed \/ disturbed' = TRUE
    BY <1>3b
    DEF Next, Client, Server, Driver, Leaves, SendRequest, GotAnswer, AccessFaults,
        ReadReturns,
           WriteReturns, EndCheck, EnterOrLeave, SendPrint, PrintAnswered, ServeUart,
           ServeWatchdog, ServeNvmem, TakeTest, Unexpected, Announce, Grant, SecondRequest, Doubt,
           Compare, CompareMmio, Generate, Interrupt, EoiWait, EoiAnnounce, EoiStops,
           EoiReturns, Stopped, obsVars
  <1>3c. disturbed => disturbed'
    BY <1>3b DEF IrqRouting, obsVars
  <1>4. faults \in Nat /\ faults' \in Nat
    BY <1>2, TestsAssumption DEF TypeOK
  <1>5. Excused => Excused'
    BY <1>1, <1>2, <1>3c, <1>4 DEF Excused, Announces
  <1>6. verbose \/ disturbed' \/ faults' # faults => Excused'
    BY <1>1, <1>2, <1>4 DEF Excused
  <1> QED BY <1>1, <1>3, <1>5, <1>6 DEF TriedUpTo

\* The same for the check that the test is at.
LEMMA Kept ==
    ASSUME TypeOK, Next, chk' = chk
    PROVE  /\ TriedUpTo(chk) => TriedUpTo(chk)'
           /\ TriedUpTo(chk - 1) => TriedUpTo(chk - 1)'
           /\ Excused => Excused'
           /\ TriedUpTo(1) => TriedUpTo(1)'
           /\ nvBoot' = nvBoot => (Unset => Unset' /\ PassEarned') /\ (PassEarned => PassEarned')
  <1>1. /\ TriedUpTo(chk) => TriedUpTo(chk)'
        /\ TriedUpTo(chk - 1) => TriedUpTo(chk - 1)'
        /\ Excused => Excused'
        /\ TriedUpTo(1) => TriedUpTo(1)'
    BY Growth DEF TriedUpTo
  <1>2. ASSUME nvBoot' = nvBoot
        PROVE  (Unset => Unset' /\ PassEarned') /\ (PassEarned => PassEarned')
    BY <1>1, <1>2 DEF Unset, PassEarned
  <1> QED BY <1>1, <1>2

\* Where the variables are, in so many words.
LEMMA Ranges ==
    ASSUME TypeOK
    PROVE  /\ faults \in 0..MaxFaults /\ MaxFaults \in Nat /\ dog \in BOOLEAN
           /\ chk \in 1..Len(test) /\ Len(test) \in Nat /\ test[chk] \in TestFns
           /\ At \in {"none", "sent", "taken", "ok", "refused"}
  <1>1. test \in Seq(TestFns) /\ MaxFaults \in Nat
    BY TestsAssumption DEF TypeOK
  <1>2. Len(test) \in Nat /\ chk \in 1..Len(test) /\ test[chk] \in TestFns
    BY <1>1, LenProperties, ElementOfSeq DEF TypeOK
  <1> QED BY <1>1, <1>2 DEF TypeOK, At, Actors

\* What the place of a test says of its properties.
LEMMA PlaceShows ==
    ASSUME TypeOK, verdict = "none", Running
    PROVE  FaultIsAnnounced /\ NoStrayReply
  <1>1. PICK s \in Plans, k \in 1..8 : Place(s, k)
    BY DEF Running
  <1>a. At \in {"none", "sent", "taken", "ok", "refused"}
    BY DEF TypeOK, At, Actors
  <1>2. pc = "stray" => test[chk] \in WriteFns
    BY <1>1, <1>a
    DEF Place, Stage, ReadStage, WriteStage, EoiStage, IrqStage, Failed, Granted, Calm,
                Taken, RequestInv, Services, WriteFns
  <1>3. ASSUME Accessing, Announces(chk)
        PROVE  nvBoot = IF Head(todo) = Access("read") THEN "reenter" ELSE "expected_s"
    <2>1. k <= Len(Plan(s)) /\ Head(todo) = Plan(s)[k]
      BY <1>1, <1>3, RestSteps, PlanType, LenProperties DEF Accessing, Place
    <2>2. Places(s, k, Plan(s)[k]) /\ k \in 1..Len(Plan(s))
      BY <2>1, PlanPlaces, PlanType, LenProperties
    <2>3. CASE Head(todo) = Access("read")
      <3>1. s = "rd" /\ k = 7
        BY <2>1, <2>2, <2>3 DEF Places
      <3> QED BY <1>1, <2>3, <3>1 DEF Place, Stage, ReadStage, WriteFns
    <2>4. CASE Head(todo) = Access("write")
      <3>1. s \in WriteFns /\ k = 3
        BY <2>1, <2>2, <2>4 DEF Places
      <3>2. Granted /\ test[chk] = "wr_data"
        BY <1>1, <1>3, <3>1 DEF Place, Stage, WriteStage, WriteFns, Announces
      <3>3. At = "none"
        BY <1>1, <2>1, <2>4 DEF Place, RequestInv, Access, Op, Services
      <3> QED BY <2>4, <3>2, <3>3 DEF Granted, Access, Op
    <2> QED BY <1>3, <2>3, <2>4 DEF Accessing
  <1> QED BY <1>2, <1>3 DEF FaultIsAnnounced, NoStrayReply


(* ------------------------------ The steps ------------------------------ *)

Steps == [Actors -> [op : Ops, at : {"none", "sent", "taken", "ok", "refused"}]]

\* A request moves on.
LEMMA Moves ==
    ASSUME req \in Steps, NEW p \in Actors, NEW a \in {"none", "sent", "taken", "ok", "refused"},
           req' = [req EXCEPT ![p].at = a]
    PROVE  /\ req' \in Steps /\ req'[p].at = a /\ req'[p].op = req[p].op
           /\ \A q \in Actors \ {p} : req'[q] = req[q]
  BY DEF Steps

\* The tester is never in the way of a print, nor the printer in that of a request.
LEMMA Callers ==
    ASSUME IInv, verdict = "none", NEW v \in Services, NEW p \in Sent(v)
    PROVE  /\ p \in Actors /\ req[p].at = "sent" /\ req[p].op.svc = v
           /\ IF v = "uart" THEN p = "printer" ELSE p = "tester"
  <1>1. PICK s \in Plans, k \in 1..8 : Place(s, k)
    BY DEF IInv, Running
  <1>2. p \in Actors /\ req[p].at = "sent" /\ req[p].op.svc = v
    BY DEF Sent
  <1>3. CASE p = "printer"
    BY <1>2, <1>3 DEF IInv, PrintInv
  <1>4. CASE p = "tester"
    <2>1. k \in 1..Len(Plan(s)) /\ req["tester"].op = Plan(s)[k]
      BY <1>1, <1>2, <1>4, PlanType, LenProperties DEF Place, RequestInv, At
    <2>2. Places(s, k, Plan(s)[k])
      BY <2>1, PlanPlaces
    <2> QED BY <1>2, <1>4, <2>1, <2>2 DEF Places
  <1> QED BY <1>2, <1>3, <1>4 DEF Actors

\* The reply to a message that driver_main holds, and to one that it does not.
LEMMA Replies ==
    ASSUME IInv, verdict = "none", pc \notin {"wait", "stopped", "stray"},
           NEW a \in {"ok", "refused"}, NEW next, Reply(a, next)
    PROVE  /\ req' \in Steps /\ req'["printer"] = req["printer"]
           /\ req'["tester"].op = req["tester"].op
           /\ IF Taken THEN At' = a /\ pc' = next ELSE At' = At /\ pc' = "stray"
  <1>1. msg = "tester" /\ msg \in Actors /\ req \in Steps
    BY DEF IInv, DriverInv, TypeOK, Actors, Steps
  <1>2. CASE Taken
    <2>1. req' = [req EXCEPT !["tester"].at = a] /\ pc' = next
      BY <1>1, <1>2 DEF Reply, Taken, At, Goto
    <2> QED BY <1>1, <1>2, <2>1, Moves DEF At, Actors
  <1>3. CASE ~Taken
    BY <1>1, <1>3 DEF Reply, Taken, At, Goto
  <1> QED BY <1>2, <1>3

\* It is enough to say where a step leads.
LEMMA Leads ==
    ASSUME IInv, Next, verdict' = "none", TypeOK', PrintInv', DriverInv',
           NEW s \in Plans, NEW k \in 1..8, Place(s, k)'
    PROVE  IInv'
  BY DEF IInv, Running, Verdict

\* A step of the driver partition leaves the test where it is.
LEMMA Serves ==
    ASSUME IInv, Next, UNCHANGED <<clientVars, test, verbose, secure, verdict>>,
           nvBoot' \in Flags, tried' \subseteq DOMAIN test, disturbed' \in BOOLEAN,
           faults' \in 0..MaxFaults, pc' \in {"wait", "announce", "grant", "second", "doubt",
                "compare", "irq", "irq_wait", "eoi_intr", "eoi_wait", "eoi", "eoi_now",
                "stopped", "stray"},
           msg' \in Actors \cup {"none"}, intr' \in {"off", "raised", "asserted"},
           dog' \in BOOLEAN, modified' = modified, DriverInv',
           req' \in Steps, \A p \in Actors : req'[p].op = req[p].op,
           req'["printer"].at = req["printer"].at \/ req'["printer"].at = "ok",
           req["printer"].at = "none" => req'["printer"].at = "none",
           At = "none" <=> At' = "none",
           At' \in {"taken", "refused"} => req["tester"].op.type = "call",
           \A s \in Plans : \A k \in 1..8 : Place(s, k) => Stage(s, k)'
    PROVE  IInv'
  <1>1. PICK s \in Plans, k \in 1..8 : Place(s, k)
    BY Growth DEF IInv, Running
  <1>2. verdict' = "none" /\ verdict = "none"
    BY Growth DEF IInv
  <1>3. TypeOK'
    BY DEF IInv, TypeOK, DriverInv, Steps, clientVars
  <1>4. PrintInv'
    BY <1>2, <1>3 DEF IInv, PrintInv, clientVars, Actors, TypeOK
  <1>5. RequestInv(s, k)'
    BY <1>1, <1>2 DEF Place, RequestInv, At, Actors
  <1>6. Place(s, k)'
    BY <1>1, <1>5 DEF Place, clientVars
  <1> QED BY <1>2, <1>3, <1>4, <1>6, Leads

\* The stage of a test is made of these.
LEMMA Sameness ==
    ASSUME NEW s, NEW k,
           UNCHANGED <<nvBoot, test, chk, verbose, pc, intr, printed, tried, disturbed, faults, At>>
    PROVE  Stage(s, k) => Stage(s, k)'
  <1>1. /\ Taken' = Taken /\ Excused' = Excused /\ Calm' = Calm
        /\ TriedUpTo(chk)' = TriedUpTo(chk) /\ TriedUpTo(chk - 1)' = TriedUpTo(chk - 1)
        /\ TriedUpTo(1)' = TriedUpTo(1)
    BY DEF Taken, Excused, Announces, Calm, TriedUpTo
  <1>2. Unset' = Unset /\ PassEarned' = PassEarned
    BY <1>1 DEF Unset, PassEarned
  <1>3. Failed' = Failed /\ Granted' = Granted
    BY <1>1, <1>2 DEF Failed, Granted
  <1>4. /\ ReadStage(k)' = ReadStage(k) /\ WriteStage(k)' = WriteStage(k)
        /\ EoiStage(k)' = EoiStage(k) /\ IrqStage(k)' = IrqStage(k)
    BY <1>1, <1>2, <1>3 DEF ReadStage, WriteStage, EoiStage, IrqStage
  <1> QED BY <1>1, <1>2, <1>3, <1>4 DEF Stage

\* driver_main answers a print; the tester is not affected.
LEMMA ServeUartStep == ASSUME IInv, ServeUart PROVE IInv'
  <1>1. verdict = "none" /\ Next
    BY DEF ServeUart, Leaves, Next, Driver
  <1>2. PICK p \in Sent("uart") : msg' = p /\ req' = [req EXCEPT ![p].at = "ok"]
    BY DEF ServeUart
  <1>3. p = "printer" /\ req[p].at = "sent"
    BY <1>1, <1>2, Callers DEF Services
  <1>4. /\ req' \in Steps /\ req'["printer"].at = "ok" /\ req'["tester"] = req["tester"]
        /\ \A q \in Actors : req'[q].op = req[q].op
    BY <1>2, <1>3, Moves DEF IInv, TypeOK, Steps, Actors
  <1>5. At' = At
    BY <1>4 DEF At
  <1>6. \A s \in Plans : \A k \in 1..8 : Place(s, k) => Stage(s, k)'
    BY <1>5, Sameness DEF ServeUart, Leaves, Place, clientVars, obsVars
  <1>7. DriverInv'
    BY <1>1, <1>2, <1>3 DEF ServeUart, Turn, Leaves, IInv, DriverInv, clientVars
  <1>8. At' \in {"taken", "refused"} => req["tester"].op.type = "call"
    BY <1>1, <1>5 DEF IInv, Running, Place, RequestInv
  <1> QED BY <1>1, <1>2, <1>3, <1>4, <1>5, <1>6, <1>7, <1>8, Serves
          DEF ServeUart, Leaves, IInv, TypeOK, clientVars, obsVars, Actors

\* What the test asks of the driver partition, and where it is then.
LEMMA Asked ==
    ASSUME IInv, verdict = "none", NEW v \in Services \ {"uart"}, NEW p \in Sent(v),
           NEW s \in Plans, NEW k \in 1..8, Place(s, k)
    PROVE  /\ p = "tester" /\ At = "sent" /\ k <= Len(Plan(s)) /\ Stage(s, k)
           /\ Places(s, k, req["tester"].op) /\ req["tester"].op.svc = v
  <1>1. p = "tester" /\ At = "sent" /\ req["tester"].op.svc = v /\ v # "cpu"
    BY Callers DEF At, Services
  <1>2. k \in 1..Len(Plan(s)) /\ req["tester"].op = Plan(s)[k] /\ Stage(s, k)
    BY <1>1, PlanType, LenProperties DEF Place, RequestInv
  <1> QED BY <1>1, <1>2, PlanPlaces

\* driver_main starts or stops the watchdog, or fails to, which excuses the test.
LEMMA ServeWatchdogStep == ASSUME IInv, ServeWatchdog PROVE IInv'
  <1>1. verdict = "none" /\ Next
    BY DEF ServeWatchdog, Leaves, Next, Driver
  <1>2. PICK p \in Sent("watchdog"), a \in {"ok", "refused"} :
           /\ msg' = p /\ req' = [req EXCEPT ![p].at = a] /\ dog' \in BOOLEAN
           /\ a = "refused" => req[p].op.type = "call" /\ faults' # faults
           /\ faults' \in 0..MaxFaults
    <2>1. PICK p \in Sent("watchdog") :
             /\ msg' = p
             /\ \/ /\ req' = [req EXCEPT ![p].at = "ok"] /\ UNCHANGED faults
                   /\ dog' = IF req[p].op.type = "call" THEN req[p].op.arg = "enable" ELSE dog
                \/ /\ req[p].op.type = "call" /\ faults < MaxFaults /\ faults' = faults + 1
                   /\ req' = [req EXCEPT ![p].at = "refused"] /\ UNCHANGED dog
      BY DEF ServeWatchdog
    <2>2. faults \in 0..MaxFaults /\ MaxFaults \in Nat /\ dog \in BOOLEAN
      BY Ranges DEF IInv
    <2>3. dog' \in BOOLEAN
      BY <2>1, <2>2
    <2>4. faults' \in 0..MaxFaults
      BY <2>1, <2>2
    <2> QED BY <2>1, <2>2, <2>3, <2>4
  <1>3. p = "tester" /\ At = "sent"
    BY <1>1, <1>2, Callers DEF Services, At
  <1>4. /\ req' \in Steps /\ At' = a /\ req'["printer"] = req["printer"]
        /\ \A q \in Actors : req'[q].op = req[q].op
    BY <1>2, <1>3, Moves DEF IInv, TypeOK, Steps, Actors, At
  <1>5. ASSUME NEW s \in Plans, NEW k \in 1..8, Place(s, k) PROVE Stage(s, k)'
    <2>1. /\ s \in {"init", "closeDog"} \cup Ends
          /\ Stage(s, k) /\ At = "sent"
      BY <1>1, <1>2, <1>5, Asked DEF Places, Services
    <2>2. a = "refused" => Excused'
      BY <1>1, <1>2, Growth DEF IInv
    <2>3. (Excused => Excused') /\ (TriedUpTo(chk) => TriedUpTo(chk)')
          /\ (TriedUpTo(chk - 1) => TriedUpTo(chk - 1)')
          /\ (nvBoot' = nvBoot => (Unset => Unset' /\ PassEarned') /\ (PassEarned => PassEarned'))
      BY <1>1, Kept DEF ServeWatchdog, Leaves, clientVars, IInv
    <2>4. UNCHANGED <<pc, intr, nvBoot, chk, test, printed>>
      BY DEF ServeWatchdog, Leaves, clientVars
    <2>5. Failed /\ ~Taken' => Failed'
      BY <2>3, <2>4 DEF Failed, Calm
    <2> QED BY <1>2, <1>4, <2>1, <2>2, <2>3, <2>4, <2>5
            DEF Stage, Calm, Taken, Ends, TestFns, WriteFns
  <1>6. DriverInv'
    BY <1>1, <1>2, <1>3 DEF ServeWatchdog, Turn, Leaves, IInv, DriverInv, clientVars
  <1> QED BY <1>1, <1>2, <1>3, <1>4, <1>5, <1>6, Serves
          DEF ServeWatchdog, Leaves, IInv, TypeOK, clientVars, obsVars, Actors, At

\* driver_main writes NV_BOOT for a client: "reenter" before the read that should fault,
\* "but_failed" after one that did not; or fails to, which excuses the test.
LEMMA ServeNvmemStep == ASSUME IInv, ServeNvmem PROVE IInv'
  <1>1. verdict = "none" /\ Next
    BY DEF ServeNvmem, Leaves, Next, Driver
  <1>2. PICK p \in Sent("nvmem"), a \in {"ok", "refused"} :
           /\ msg' = p /\ req' = [req EXCEPT ![p].at = a]
           /\ IF a = "ok" /\ req[p].op.type = "call" THEN nvBoot' = req[p].op.arg
                                                     ELSE nvBoot' = nvBoot
           /\ a = "refused" => req[p].op.type = "call" /\ faults' # faults
           /\ faults' \in 0..MaxFaults
    <2>1. PICK p \in Sent("nvmem") :
             /\ msg' = p
             /\ \/ /\ req[p].op.type # "call"
                   /\ req' = [req EXCEPT ![p].at = "ok"] /\ UNCHANGED <<nvBoot, faults>>
                \/ /\ req[p].op.type = "call"
                   /\ WriteBoot(req[p].op.arg, req' = [req EXCEPT ![p].at = "ok"],
                                               req' = [req EXCEPT ![p].at = "refused"])
      BY DEF ServeNvmem
    <2>2. faults \in 0..MaxFaults /\ MaxFaults \in Nat
      BY Ranges DEF IInv
    <2>3. faults' \in 0..MaxFaults
      BY <2>1, <2>2 DEF WriteBoot
    <2> QED BY <2>1, <2>2, <2>3 DEF WriteBoot
  <1>3. p = "tester" /\ At = "sent"
    BY <1>1, <1>2, Callers DEF Services, At
  <1>4. /\ req' \in Steps /\ At' = a /\ req'["printer"] = req["printer"]
        /\ \A q \in Actors : req'[q].op = req[q].op
    BY <1>2, <1>3, Moves DEF IInv, TypeOK, Steps, Actors, At
  <1>5. PICK s \in Plans, k \in 1..8 : Place(s, k)
    BY <1>1 DEF IInv, Running
  <1>6. ASSUME NEW s1 \in Plans, NEW k1 \in 1..8, Place(s1, k1)
        PROVE  Stage(s1, k1)' /\ (nvBoot' = nvBoot \/ nvBoot' \in {"reenter", "but_failed"})
    <2>1. /\ \/ s1 = "rd" /\ k1 \in {4, 5, 6}
             \/ s1 = "but" /\ k1 < 4
             \/ s1 = "closeNv" /\ k1 = 1
          /\ req["tester"].op.type = "call" =>
                \/ s1 = "rd" /\ k1 = 5 /\ req["tester"].op.arg = "reenter"
                \/ s1 = "but" /\ k1 = 2 /\ req["tester"].op.arg = "but_failed"
          /\ Stage(s1, k1)
      BY <1>1, <1>2, <1>6, Asked DEF Places, Services
    <2>2. a = "refused" => Excused'
      BY <1>1, <1>2, Growth DEF IInv
    <2>3. /\ Excused => Excused'
          /\ TriedUpTo(chk) => TriedUpTo(chk)'
          /\ TriedUpTo(chk - 1) => TriedUpTo(chk - 1)'
          /\ nvBoot' = nvBoot => (Unset => Unset' /\ PassEarned') /\ (PassEarned => PassEarned')
      BY <1>1, Kept DEF ServeNvmem, Leaves, clientVars, IInv
    <2>4. UNCHANGED <<pc, intr, chk, test, printed>>
      BY DEF ServeNvmem, Leaves, clientVars
    <2>5. nvBoot' = nvBoot \/ nvBoot' \in {"reenter", "but_failed"}
      BY <1>2, <1>3, <2>1
    <2>6. CASE s1 = "rd"
      <3>1. ReadStage(k1) /\ k1 \in {4, 5, 6} /\ test[chk] = "rd" /\ TriedUpTo(chk - 1)
        BY <2>1, <2>6 DEF Stage, WriteFns, Ends
      <3>2. ReadStage(k1)'
        <4>1. k1 = 5 /\ req["tester"].op.type = "call" => req["tester"].op.arg = "reenter"
          BY <2>1, <2>6
        <4>2. k1 # 5 => a = "ok" /\ nvBoot' = nvBoot
          BY <1>2, <1>3, <2>1, <2>6
        <4>3. k1 = 5 => req["tester"].op.type = "call"
          <5>1. ASSUME k1 = 5 PROVE req["tester"].op = Plan("rd")[5]
            BY <1>3, <1>6, <2>6, <5>1 DEF Place, RequestInv
          <5> QED BY <5>1, PlanRead DEF Op
        <4>4. k1 = 5 /\ a = "ok" => nvBoot' = "reenter"
          BY <1>2, <1>3, <4>1, <4>3
        <4> QED BY <1>2, <1>3, <1>4, <2>2, <2>4, <3>1, <4>2, <4>4
                DEF ReadStage, Calm, Taken
      <3> QED BY <2>3, <2>4, <2>5, <2>6, <3>1, <3>2 DEF Stage
    <2>7. CASE s1 \in {"but", "closeNv"}
      <3>1. Failed /\ (s1 = "but" => Calm /\ k1 \in 1..4) /\ (s1 = "closeNv" => k1 \in 1..2)
        BY <2>1, <2>7 DEF Stage, TestFns, WriteFns
      <3>2. s1 = "closeNv" => nvBoot' = nvBoot
        BY <1>2, <1>3, <2>1, <2>7
      <3>3. Failed'
        BY <1>2, <1>4, <2>3, <2>4, <2>7, <3>1, <3>2 DEF Failed, Taken, Calm
      <3> QED BY <2>4, <2>5, <2>7, <3>1, <3>3 DEF Stage, Calm
    <2> QED BY <2>1, <2>6, <2>7
  <1>7. nvBoot' = nvBoot \/ nvBoot' \in {"reenter", "but_failed"}
    BY <1>5, <1>6
  <1>8. DriverInv'
    BY <1>1, <1>2, <1>3, <1>7 DEF ServeNvmem, Turn, Leaves, IInv, DriverInv, clientVars
  <1> QED BY <1>1, <1>2, <1>3, <1>4, <1>6, <1>7, <1>8, Serves
          DEF ServeNvmem, Leaves, IInv, TypeOK, clientVars, obsVars, Actors, At, Flags

\* driver_main takes a request for a check; the function that it calls is that of the check.
LEMMA TakeTestStep == ASSUME IInv, TakeTest PROVE IInv'
  <1>1. verdict = "none" /\ Next /\ pc = "wait"
    BY DEF TakeTest, Turn, Leaves, Next, Driver
  <1>2. PICK p \in Sent("test"), a \in {"ok", "taken", "refused"} :
           /\ msg' = p /\ req' = [req EXCEPT ![p].at = a] /\ faults' \in 0..MaxFaults
           /\ \/ a = "ok" /\ pc' = pc /\ (req[p].op.type = "call" => req[p].op.arg = "rd")
              \/ /\ a = "refused" /\ pc' = pc /\ faults' # faults /\ req[p].op.type = "call"
                 /\ req[p].op.arg \in {"rd", "wr_mmio"}
              \/ /\ a = "taken" /\ req[p].op.type = "call" /\ req[p].op.arg \in TestFns \ {"rd"}
                 /\ pc' = IF req[p].op.arg \in WriteFns
                          THEN IF req[p].op.arg = "wr_data" THEN "announce" ELSE "grant"
                          ELSE req[p].op.arg
    <2>1. PICK p \in Sent("test") :
             /\ msg' = p
             /\ \/ /\ req[p].op.type # "call"
                   /\ req' = [req EXCEPT ![p].at = "ok"] /\ UNCHANGED <<pc, faults>>
                \/ /\ req[p].op.type = "call" /\ req[p].op.arg = "rd"
                   /\ req' = [req EXCEPT ![p].at = "ok"] /\ UNCHANGED <<pc, faults>>
                \/ /\ req[p].op.type = "call" /\ req[p].op.arg \in {"rd", "wr_mmio"}
                   /\ faults < MaxFaults /\ faults' = faults + 1
                   /\ req' = [req EXCEPT ![p].at = "refused"] /\ UNCHANGED pc
                \/ /\ req[p].op.type = "call" /\ req[p].op.arg \in TestFns \ {"rd"}
                   /\ req' = [req EXCEPT ![p].at = "taken"] /\ UNCHANGED faults
                   /\ Goto(IF req[p].op.arg \in WriteFns
                           THEN IF req[p].op.arg \in FlagFirst THEN "announce" ELSE "grant"
                           ELSE req[p].op.arg)
      BY DEF TakeTest
    <2>2. faults \in 0..MaxFaults /\ MaxFaults \in Nat
      BY Ranges DEF IInv
    <2>3. faults' \in 0..MaxFaults
      BY <2>1, <2>2
    <2>4. faults + 1 # faults
      BY <2>2
    <2> QED BY <2>1, <2>3, <2>4 DEF Goto, FlagFirst
  <1>3. p = "tester" /\ At = "sent"
    BY <1>1, <1>2, Callers DEF Services, At
  <1>4. /\ req' \in Steps /\ At' = a /\ req'["printer"] = req["printer"]
        /\ \A q \in Actors : req'[q].op = req[q].op
    <2>1. req \in Steps /\ p \in Actors /\ "printer" \in Actors \ {p}
      BY <1>3 DEF IInv, TypeOK, Steps, Actors
    <2>2. /\ req' \in Steps /\ req'[p].at = a /\ req'[p].op = req[p].op
          /\ \A q \in Actors \ {p} : req'[q] = req[q]
      BY <1>2, <2>1, Moves
    <2> QED BY <1>3, <2>1, <2>2 DEF At
  <1>5. PICK s \in Plans, k \in 1..8 : Place(s, k)
    BY <1>1 DEF IInv, Running
  <1>6. ASSUME NEW s1 \in Plans, NEW k1 \in 1..8, Place(s1, k1)
        PROVE  Stage(s1, k1)' /\ (a = "taken" => req["tester"].op.arg = test[chk])
    <2>1. /\ s1 \in TestFns \cup {"closeTest"} /\ Stage(s1, k1)
          /\ req["tester"].op.type # "call" => k1 # 2 /\ k1 # 4
          /\ req["tester"].op.type = "call" =>
                \/ s1 \in TestFns /\ k1 = 2 /\ req["tester"].op.arg = s1
                \/ s1 \in WriteFns /\ k1 = 4 /\ req["tester"].op.arg = "status"
          /\ k1 <= Len(Plan(s1))
      BY <1>1, <1>2, <1>6, Asked DEF Places, Services
    <2>a. a = "refused" => Excused'
      BY <1>1, <1>2, Growth DEF IInv
    <2>2. /\ Excused => Excused'
          /\ TriedUpTo(chk) => TriedUpTo(chk)'
          /\ TriedUpTo(chk - 1) => TriedUpTo(chk - 1)'
          /\ nvBoot' = nvBoot => (Unset => Unset' /\ PassEarned') /\ (PassEarned => PassEarned')
      BY <1>1, Kept DEF TakeTest, Leaves, clientVars, IInv
    <2>3. UNCHANGED <<nvBoot, intr, chk, test, printed>>
      BY DEF TakeTest, Leaves, clientVars
    <2>4. CASE s1 = "closeTest"
      <3>1. Failed /\ k1 \in 1..2 /\ a = "ok" /\ pc' = pc
        BY <1>2, <1>3, <2>1, <2>4 DEF Stage, TestFns, WriteFns
      <3>2. Failed'
        BY <1>4, <2>2, <2>3, <3>1 DEF Failed, Taken, Calm
      <3> QED BY <2>4, <3>1, <3>2 DEF Stage
    <2>5. CASE s1 = "rd"
      <3>1. ReadStage(k1) /\ test[chk] = "rd" /\ TriedUpTo(chk - 1) /\ k1 \in 1..7
        <4>1. ReadStage(k1) /\ test[chk] = "rd" /\ TriedUpTo(chk - 1)
          BY <2>1, <2>5 DEF Stage, WriteFns, Ends
        <4>2. k1 <= 7
          BY <2>1, <2>5, PlanLength
        <4> QED BY <4>1, <4>2 DEF ReadStage
      <3>2. a \in {"ok", "refused"} /\ pc' = pc /\ k1 # 5 /\ (a = "refused" => k1 = 2)
        <4>1. k1 # 5
          <5>1. Places(s1, k1, req["tester"].op) /\ req["tester"].op.svc = "test"
            BY <1>1, <1>2, <1>6, Asked DEF Services
          <5>2. Places("rd", 5, Plan("rd")[5]) /\ Plan("rd")[5].svc = "nvmem"
            BY PlanRead, PlanPlaces, PlanLength DEF Plans, TestFns, Op
          <5>3. req["tester"].op = Plan(s1)[k1]
            BY <1>3, <1>6 DEF Place, RequestInv
          <5> QED BY <2>5, <5>1, <5>2, <5>3
        <4> QED BY <1>2, <1>3, <2>1, <2>5, <4>1 DEF WriteFns
      <3>3. ReadStage(k1)'
        BY <1>1, <1>3, <1>4, <2>a, <2>2, <2>3, <3>1, <3>2 DEF ReadStage, Calm, Taken
      <3> QED BY <2>2, <2>3, <2>5, <3>1, <3>2, <3>3, <1>2, <1>3, <2>1 DEF Stage, TestFns
    <2>6. CASE s1 \in WriteFns
      <3>1. WriteStage(k1) /\ test[chk] = s1 /\ TriedUpTo(chk - 1) /\ k1 \in 1..5
        <4>1. WriteStage(k1) /\ test[chk] = s1 /\ TriedUpTo(chk - 1)
          BY <2>1, <2>6 DEF Stage, WriteFns, Ends
        <4>2. k1 <= 5
          BY <2>1, <2>6, PlanLength
        <4> QED BY <4>1, <4>2 DEF WriteStage
      <3>2. k1 # 4 /\ k1 # 3
        <4>1. k1 # 4
          BY <1>1, <1>3, <3>1 DEF WriteStage, Granted
        <4>2. k1 # 3
          BY <1>1, <1>3, <3>1 DEF WriteStage, Granted
        <4> QED BY <4>1, <4>2
      <3>3. WriteStage(k1)'
        <4>1. CASE k1 = 2
          BY <1>1, <1>2, <1>3, <1>4, <2>1, <2>a, <2>2, <2>3, <2>6, <3>1, <4>1
             DEF WriteStage, Calm, Taken, WriteFns
        <4>2. CASE k1 \in {1, 5}
          <5>1. a = "ok" /\ pc' = pc
            BY <1>2, <1>3, <2>1, <4>2
          <5> QED BY <1>1, <1>3, <1>4, <2>2, <2>3, <3>1, <4>2, <5>1
                  DEF WriteStage, Calm, Taken
        <4> QED BY <3>1, <3>2, <4>1, <4>2 DEF WriteStage
      <3> QED BY <2>1, <2>2, <2>3, <2>6, <3>1, <3>2, <3>3, <1>2, <1>3
              DEF Stage, TestFns, WriteFns
    <2>7. CASE s1 \in {"eoi", "eoi_intr"}
      <3>1. EoiStage(k1) /\ test[chk] = s1 /\ TriedUpTo(chk - 1)
        BY <2>1, <2>7, PlanLength DEF Stage, WriteFns, Ends
      <3>2. EoiStage(k1)'
        <4>1. CASE k1 = 2
          BY <1>1, <1>2, <1>3, <1>4, <2>1, <2>2, <2>3, <2>7, <3>1, <4>1
             DEF EoiStage, Calm, Taken, WriteFns
        <4>2. CASE k1 # 2
          <5>1. a = "ok" /\ pc' = pc
            BY <1>2, <1>3, <2>1, <2>7, <4>2 DEF WriteFns
          <5> QED BY <1>1, <1>3, <1>4, <2>2, <2>3, <3>1, <4>2, <5>1
                  DEF EoiStage, Calm, Taken
        <4> QED BY <4>1, <4>2
      <3> QED BY <2>1, <2>2, <2>3, <2>7, <3>1, <3>2, <1>2, <1>3
              DEF Stage, TestFns, WriteFns
    <2>8. CASE s1 = "irq"
      <3>1. IrqStage(k1) /\ test[chk] = s1 /\ TriedUpTo(chk - 1)
        BY <2>1, <2>8, PlanLength DEF Stage, WriteFns, Ends
      <3>2. IrqStage(k1)'
        <4>1. CASE k1 = 2
          BY <1>1, <1>2, <1>3, <1>4, <2>1, <2>2, <2>3, <2>8, <3>1, <4>1
             DEF IrqStage, Calm, Taken, WriteFns
        <4>2. CASE k1 # 2
          <5>1. a = "ok" /\ pc' = pc
            BY <1>2, <1>3, <2>1, <2>8, <4>2 DEF WriteFns
          <5> QED BY <1>1, <1>3, <1>4, <2>2, <2>3, <3>1, <4>2, <5>1
                  DEF IrqStage, Calm, Taken
        <4> QED BY <4>1, <4>2
      <3> QED BY <2>1, <2>2, <2>3, <2>8, <3>1, <3>2, <1>2, <1>3
              DEF Stage, TestFns, WriteFns
    <2> QED BY <2>1, <2>4, <2>5, <2>6, <2>7, <2>8 DEF TestFns
  <1>7. a = "taken" => req["tester"].op.arg = test[chk]
    BY <1>5, <1>6
  <1>8. DriverInv'
    <2>1. DriverInv /\ msg' = "tester" /\ UNCHANGED <<nvBoot, test, chk, modified>>
      BY <1>1, <1>2, <1>3 DEF TakeTest, Leaves, IInv, clientVars
    <2>2. pc' = "irq" \/ pc' = "irq_wait" => test[chk] = "irq"
      BY <1>1, <1>2, <1>3, <1>7 DEF WriteFns, TestFns
    <2> QED BY <2>1, <2>2 DEF DriverInv
  <1>9. pc' \in {"wait", "announce", "grant", "irq", "eoi", "eoi_intr"}
    BY <1>1, <1>2 DEF TestFns, WriteFns
  <1> QED BY <1>1, <1>2, <1>3, <1>4, <1>6, <1>7, <1>8, <1>9, Serves
          DEF TakeTest, Leaves, IInv, TypeOK, clientVars, obsVars, Actors, At, Flags

\* A check that came to the operation it is about, like those before it.
LEMMA TriedNow ==
    ASSUME TypeOK, Next, chk' = chk, Tried, TriedUpTo(chk - 1)
    PROVE  TriedUpTo(chk)'
  <1>1. verbose' = verbose /\ tried' = tried \cup {chk}
    BY Growth DEF Tried
  <1>2. chk \in Nat
    BY Ranges
  <1> QED BY <1>1, <1>2 DEF TriedUpTo

\* Where the tester is while the driver partition works on a check, or has stopped in one.
LEMMA Busy ==
    ASSUME IInv, verdict = "none", NEW s \in Plans, NEW k \in 1..8, Place(s, k)
    PROVE  /\ pc \in {"announce", "second", "doubt", "compare"} =>
                 s = test[chk] /\ s \in WriteFns /\ TriedUpTo(chk - 1) /\ WriteStage(k)
           /\ pc \in {"eoi", "eoi_intr", "eoi_wait", "eoi_now"} =>
                 s = test[chk] /\ s \in {"eoi", "eoi_intr"} /\ TriedUpTo(chk - 1) /\ EoiStage(k)
           /\ pc \in {"irq", "irq_wait"} =>
                 s = test[chk] /\ s = "irq" /\ TriedUpTo(chk - 1) /\ IrqStage(k)
           /\ pc = "grant" => \/ s = test[chk] /\ s \in WriteFns /\ TriedUpTo(chk - 1) /\ WriteStage(k)
                              \/ Failed /\ s # "init" /\ s # "exitPass" /\ s # "but" /\ s # test[chk]
           /\ At \in {"none", "sent", "taken", "ok", "refused"}
  <1>1. Stage(s, k) /\ At \in {"none", "sent", "taken", "ok", "refused"}
    BY Ranges DEF Place, IInv
  <1>2. CASE s = test[chk]
    <2>1. /\ TriedUpTo(chk - 1) /\ s \in TestFns
          /\ \/ s = "rd" /\ ReadStage(k)
             \/ s \in WriteFns /\ WriteStage(k)
             \/ s \in {"eoi", "eoi_intr"} /\ EoiStage(k)
             \/ s = "irq" /\ IrqStage(k)
      BY <1>1, <1>2, Ranges DEF Stage, IInv, TestFns, WriteFns
    <2>2. CASE s = "rd"
      BY <1>1, <2>1, <2>2 DEF ReadStage, Calm, WriteFns
    <2>3. CASE s \in WriteFns
      <3>1. WriteStage(k)
        BY <2>1, <2>3 DEF WriteFns
      <3>2. pc \in {"wait", "announce", "grant", "second", "doubt", "compare", "stopped", "stray"}
        <4>1. CASE k \in {1, 5, 6}
          BY <3>1, <4>1 DEF WriteStage, Calm
        <4>2. CASE k = 2
          BY <1>1, <3>1, <4>2 DEF WriteStage, Calm, Taken, Granted
        <4>3. CASE k = 3
          BY <3>1, <4>3 DEF WriteStage, Granted
        <4>4. CASE k = 4
          BY <1>1, <3>1, <4>4 DEF WriteStage, Calm, Taken, Granted
        <4> QED BY <3>1, <4>1, <4>2, <4>3, <4>4 DEF WriteStage
      <3> QED BY <1>1, <1>2, <2>1, <2>3, <3>1, <3>2
    <2>4. CASE s \in {"eoi", "eoi_intr"}
      <3>1. EoiStage(k)
        BY <2>1, <2>4 DEF WriteFns
      <3>2. pc \in {"wait", "eoi", "eoi_intr", "eoi_wait", "eoi_now", "stopped"}
        BY <1>1, <3>1 DEF EoiStage, Calm, Taken
      <3> QED BY <1>1, <1>2, <2>1, <2>4, <3>1, <3>2
    <2>5. CASE s = "irq"
      BY <1>1, <1>2, <2>1, <2>5 DEF IrqStage, Calm, WriteFns
    <2> QED BY <2>1, <2>2, <2>3, <2>4, <2>5
  <1>3. CASE s # test[chk]
    <2>1. Calm \/ (Failed /\ s # "init" /\ s # "exitPass" /\ s # "but")
      BY <1>1, <1>3 DEF Stage, Ends
    <2> QED BY <1>1, <1>3, <2>1 DEF Calm, Failed
  <1> QED BY <1>2, <1>3

\* The driver partition works on the message of the tester that it took last, or on none.
LEMMA Works ==
    ASSUME IInv, Next, pc \notin {"wait", "stopped", "stray"},
           UNCHANGED <<clientVars, test, verbose, secure, verdict, msg, dog, modified>>,
           nvBoot' \in {nvBoot, "but_failed", IF pc = "eoi" THEN "expected_ns" ELSE "expected_s"},
           pc' \in {"wait", "announce", "grant", "second", "compare", "irq_wait", "eoi_wait",
                    "eoi", "eoi_now", "stopped", "stray"},
           pc' = "irq_wait" => pc \in {"irq", "irq_wait"},
           nvBoot' = "expected_s" /\ nvBoot # "expected_s" => test[chk] \in WriteFns,
           nvBoot' = "expected_ns" /\ nvBoot # "expected_ns" => test[chk] \in {"eoi", "eoi_intr"},
           intr' \in {"off", "raised", "asserted"}, faults' \in {faults, faults + 1},
           faults' # faults => faults < MaxFaults,
           tried' \in {tried, tried \cup {chk}}, disturbed' \in BOOLEAN,
           req' \in Steps, req'["printer"] = req["printer"],
           req'["tester"].op = req["tester"].op,
           At' = At \/ (Taken /\ At' \in {"ok", "refused"}),
           \A s \in Plans : \A k \in 1..8 : Place(s, k) => Stage(s, k)'
    PROVE  IInv'
  <1>1. verdict = "none"
    BY Growth DEF IInv
  <1>2. At' \in {"taken", "refused"} => req["tester"].op.type = "call"
    BY <1>1 DEF IInv, Running, Place, RequestInv, Taken
  <1>3. faults' \in 0..MaxFaults
    BY Ranges DEF IInv
  <1>4. DriverInv'
    BY <1>1 DEF IInv, DriverInv, clientVars
  <1>5. tried' \subseteq DOMAIN test
    BY DEF IInv, TypeOK
  <1>6. nvBoot' \in Flags /\ msg' \in Actors \cup {"none"} /\ dog' \in BOOLEAN
    BY DEF IInv, TypeOK, Flags
  <1>7. (\A p \in Actors : req'[p].op = req[p].op) /\ (At = "none" <=> At' = "none")
    BY DEF Actors, Taken
  <1> QED BY <1>2, <1>3, <1>4, <1>5, <1>6, <1>7, Serves

\* A message sent while the tester has none for the driver partition is a print.
LEMMA Between ==
    ASSUME IInv, verdict = "none", Signals # {},
           At = "sent" => Sent("test") = {} /\ req["tester"].op.svc = "test"
    PROVE  verbose /\ Excused
  <1>1. PICK v \in Services : \E p \in Sent(v) : TRUE
    BY DEF Signals
  <1>2. PICK p \in Sent(v) : TRUE
    BY <1>1
  <1>3. p = "printer" /\ req[p].at = "sent"
    BY <1>1, <1>2, Callers DEF At, Services, Sent, Actors
  <1> QED BY <1>3, TestsAssumption DEF IInv, TypeOK, PrintInv, Excused, Sent

\* driver_main stops at the interrupt: only a psa_eoi check whose half has failed leaves it.
LEMMA UnexpectedStep == ASSUME IInv, Unexpected PROVE IInv'
  <1>1. verdict = "none" /\ Next /\ pc = "wait" /\ intr = "asserted" /\ pc' = "stopped"
    BY DEF Unexpected, Leaves, Next, Driver, Goto
  <1>2. UNCHANGED <<clientVars, test, verbose, secure, verdict, nvBoot, tried, disturbed, faults,
                    msg, intr, dog, modified, req, At>>
    BY DEF Unexpected, Leaves, obsVars, At
  <1>3. ASSUME NEW s \in Plans, NEW k \in 1..8, Place(s, k) PROVE Stage(s, k)'
    <2>1. Stage(s, k) /\ At \in {"none", "sent", "taken", "ok", "refused"}
      BY <1>3, Ranges DEF Place, IInv
    <2>2. (Excused => Excused') /\ (TriedUpTo(chk) => TriedUpTo(chk)')
          /\ (TriedUpTo(chk - 1) => TriedUpTo(chk - 1)')
          /\ (nvBoot' = nvBoot => (Unset => Unset' /\ PassEarned') /\ (PassEarned => PassEarned'))
      BY <1>1, <1>2, Kept DEF clientVars, IInv
    <2>3. Failed => Failed'
      BY <1>1, <1>2, <2>2 DEF Failed, Calm, Taken, clientVars
    <2>4. ~Calm
      BY <1>1 DEF Calm
    <2>5. CASE s = test[chk] /\ TriedUpTo(chk - 1)
      <3>1. ~ReadStage(k) /\ ~WriteStage(k)
        BY <1>1, <2>1, <2>4 DEF ReadStage, WriteStage, Taken, Granted, Calm
      <3>2. EoiStage(k) => EoiStage(k)'
        BY <1>1, <1>2, <2>1, <2>2, <2>4 DEF EoiStage, Taken, clientVars
      <3>3. IrqStage(k) => IrqStage(k)'
        BY <1>1, <1>2, <2>1, <2>2, <2>4 DEF IrqStage, Taken, clientVars
      <3> QED BY <1>2, <2>1, <2>2, <2>3, <2>4, <2>5, <3>1, <3>2, <3>3 DEF Stage, clientVars
    <2> QED BY <1>2, <2>1, <2>2, <2>3, <2>4, <2>5 DEF Stage, clientVars
  <1>4. DriverInv'
    BY <1>1, <1>2 DEF IInv, DriverInv, clientVars
  <1>5. At \in {"taken", "refused"} => req["tester"].op.type = "call"
    BY <1>1 DEF IInv, Running, Place, RequestInv
  <1> QED BY <1>1, <1>2, <1>3, <1>4, <1>5, Serves DEF IInv, TypeOK, Steps, At

\* A write check announces the reset, before or after the caller has the address.
LEMMA AnnounceStep == ASSUME IInv, Announce PROVE IInv'
  <1>1. /\ verdict = "none" /\ Next /\ pc = "announce"
        /\ UNCHANGED <<clientVars, test, verbose, secure, verdict, tried, disturbed, msg, intr,
                       dog, modified>>
    BY DEF Announce, Leaves, Next, Driver, obsVars
  <1> DEFINE next == IF test[chk] = "wr_data" THEN "grant" ELSE "second"
  <1>2. \/ nvBoot' = "expected_s" /\ faults' = faults /\ pc' = next /\ req' = req
        \/ /\ faults < MaxFaults /\ faults' = faults + 1 /\ nvBoot' = nvBoot /\ Reply("refused", next)
    BY DEF Announce, WriteBoot, WithFlagFirst, FlagFirst, Goto
  <1>3. /\ req' \in Steps /\ req'["printer"] = req["printer"]
        /\ req'["tester"].op = req["tester"].op
        /\ \/ nvBoot' = "expected_s" /\ faults' = faults /\ pc' = next /\ At' = At
           \/ /\ faults < MaxFaults /\ faults' = faults + 1 /\ nvBoot' = nvBoot
              /\ IF Taken THEN At' = "refused" /\ pc' = next ELSE At' = At /\ pc' = "stray"
    BY <1>1, <1>2, Replies DEF IInv, TypeOK, Steps, At
  <1>4. /\ (faults' # faults => Excused') /\ (Excused => Excused')
        /\ (TriedUpTo(chk) => TriedUpTo(chk)') /\ (TriedUpTo(chk - 1) => TriedUpTo(chk - 1)')
        /\ (nvBoot' = nvBoot => (Unset => Unset' /\ PassEarned') /\ (PassEarned => PassEarned'))
    BY <1>1, Kept, Growth DEF IInv, clientVars
  <1>5. ASSUME NEW s \in Plans, NEW k \in 1..8, Place(s, k)
        PROVE  Stage(s, k)' /\ test[chk] \in WriteFns
    <2>1. /\ s = test[chk] /\ s \in WriteFns /\ TriedUpTo(chk - 1) /\ WriteStage(k)
          /\ At \in {"none", "sent", "taken", "ok", "refused"}
      BY <1>1, <1>5, Busy
    <2>2. WriteStage(k)'
      BY <1>1, <1>3, <1>4, <2>1, Ranges
         DEF WriteStage, Granted, Taken, Calm, clientVars, WriteFns, IInv
    <2> QED BY <1>1, <1>4, <2>1, <2>2 DEF Stage, clientVars, WriteFns
  <1>6. test[chk] \in WriteFns
    BY <1>1, <1>5 DEF IInv, Running
  <1> QED BY <1>1, <1>3, <1>5, <1>6, Works DEF IInv, TypeOK, Taken

\* The address goes to the caller, or the reply is stray: to a caller that was refused before.
LEMMA GrantStep == ASSUME IInv, Grant PROVE IInv'
  <1>1. /\ verdict = "none" /\ Next /\ pc = "grant"
        /\ UNCHANGED <<clientVars, test, verbose, secure, verdict, tried, disturbed, msg, intr,
                       dog, modified, nvBoot, faults>>
    BY DEF Grant, Leaves, Next, Driver, obsVars
  <1> DEFINE next == IF test[chk] = "wr_data" THEN "second" ELSE "announce"
  <1>2. Reply("ok", next)
    BY DEF Grant, WithFlagFirst, FlagFirst
  <1>3. /\ req' \in Steps /\ req'["printer"] = req["printer"]
        /\ req'["tester"].op = req["tester"].op
        /\ IF Taken THEN At' = "ok" /\ pc' = next ELSE At' = At /\ pc' = "stray"
    BY <1>1, <1>2, Replies
  <1>4. /\ Excused => Excused'
        /\ (TriedUpTo(chk) => TriedUpTo(chk)') /\ (TriedUpTo(chk - 1) => TriedUpTo(chk - 1)')
        /\ (nvBoot' = nvBoot => (Unset => Unset' /\ PassEarned') /\ (PassEarned => PassEarned'))
    BY <1>1, Kept DEF IInv, clientVars
  <1>5. ASSUME NEW s \in Plans, NEW k \in 1..8, Place(s, k) PROVE Stage(s, k)'
    <2>1. CASE s = test[chk] /\ s \in WriteFns /\ TriedUpTo(chk - 1) /\ WriteStage(k)
      <3>1. WriteStage(k)'
        BY <1>1, <1>3, <1>4, <2>1, Ranges
           DEF WriteStage, Granted, Taken, Calm, clientVars, WriteFns, IInv
      <3> QED BY <1>1, <1>4, <2>1, <3>1 DEF Stage, clientVars, WriteFns
    <2>2. CASE Failed /\ s # "init" /\ s # "exitPass" /\ s # "but" /\ s # test[chk]
      <3>1. Failed'
        BY <1>1, <1>3, <1>4, <2>2
        DEF Failed, Taken, Calm, clientVars, WriteFns
      <3>2. Stage(s, k)
        BY <1>5 DEF Place
      <3> QED BY <2>2, <3>1, <3>2 DEF Stage, Ends
    <2> QED BY <1>1, <1>5, <2>1, <2>2, Busy
  <1> QED BY <1>1, <1>3, <1>5, Works DEF IInv, TypeOK, Taken

\* The second wait of a write check gets the request of the caller, or that of a print.
LEMMA SecondRequestStep == ASSUME IInv, SecondRequest PROVE IInv'
  <1>1. /\ verdict = "none" /\ Next /\ pc = "second" /\ Signals # {}
        /\ UNCHANGED <<clientVars, test, verbose, secure, verdict, tried, disturbed, intr, dog, modified,
                       nvBoot, faults>>
    BY DEF SecondRequest, Leaves, Next, Driver, obsVars
  <1>2. /\ Excused => Excused'
        /\ (TriedUpTo(chk) => TriedUpTo(chk)') /\ (TriedUpTo(chk - 1) => TriedUpTo(chk - 1)')
        /\ (nvBoot' = nvBoot => (Unset => Unset' /\ PassEarned') /\ (PassEarned => PassEarned'))
    BY <1>1, Kept DEF IInv, clientVars
  <1>3. PICK s \in Plans, k \in 1..8 : Place(s, k)
    BY <1>1 DEF IInv, Running
  <1>4. ASSUME NEW s1 \in Plans, NEW k1 \in 1..8, Place(s1, k1)
        PROVE  /\ s1 = test[chk] /\ s1 \in WriteFns /\ TriedUpTo(chk - 1) /\ WriteStage(k1)
               /\ At \in {"none", "sent", "ok"} /\ Granted
               /\ At = "sent" => k1 = 4 /\ req["tester"].op = Op("test", "call", "status")
    <2>1. /\ s1 = test[chk] /\ s1 \in WriteFns /\ TriedUpTo(chk - 1) /\ WriteStage(k1)
          /\ At \in {"none", "sent", "taken", "ok", "refused"}
      BY <1>1, <1>4, Busy
    <2>2. Granted /\ At # "taken" /\ At # "refused" /\ k1 \in {2, 3, 4} /\ (k1 = 2 => At = "ok")
      <3>1. k1 \in {2, 3, 4}
        BY <1>1, <2>1 DEF WriteStage, Calm
      <3>2. (k1 = 2 /\ At = "ok") \/ k1 = 3 \/ (k1 = 4 /\ At \in {"none", "sent"})
        BY <1>1, <2>1, <3>1 DEF WriteStage, Calm, Taken
      <3>3. Granted
        BY <2>1, <3>2 DEF WriteStage
      <3>4. At # "refused"
        <4>1. k1 = 3 => At = "none"
          BY <1>4, <2>1, PlanWrite DEF Place, RequestInv, Access, Op, Services
        <4> QED BY <3>2, <4>1
      <3> QED BY <3>1, <3>2, <3>3, <3>4 DEF Granted, Taken
    <2>3. ASSUME At = "sent" PROVE k1 = 4 /\ req["tester"].op = Op("test", "call", "status")
      <3>1. req["tester"].op = Plan(s1)[k1] /\ req["tester"].op.svc \in Services
        BY <1>4, <2>3 DEF Place, RequestInv
      <3>2. k1 \in {3, 4}
        BY <2>2, <2>3
      <3>3. Plan(s1)[3] = Access("write") /\ Plan(s1)[4] = Op("test", "call", "status")
        BY <2>1, PlanWrite
      <3> QED BY <3>1, <3>2, <3>3 DEF Access, Op, Services
    <2> QED BY <2>1, <2>2, <2>3
  <1>5. CASE Sent("test") # {}
    <2>1. PICK p \in Sent("test") :
             /\ msg' = p
             /\ \/ /\ req[p].op.type = "call"
                   /\ req' = [req EXCEPT ![p].at = "taken"] /\ Goto("doubt")
                \/ /\ req[p].op.type # "call"
                   /\ req' = [req EXCEPT ![p].at = "ok"] /\ Goto("wait")
      BY <1>5 DEF SecondRequest
    <2>2. p = "tester" /\ At = "sent" /\ req[p].op.type = "call"
      <3>1. p = "tester" /\ At = "sent"
        BY <1>1, <2>1, Callers DEF Services, At
      <3> QED BY <1>3, <1>4, <3>1 DEF Op
    <2>3. /\ req' \in Steps /\ At' = "taken" /\ req'["printer"] = req["printer"]
          /\ \A q \in Actors : req'[q].op = req[q].op
          /\ pc' = "doubt" /\ msg' = "tester"
      BY <2>1, <2>2, Moves DEF IInv, TypeOK, Steps, Actors, At, Goto
    <2>4. ASSUME NEW s1 \in Plans, NEW k1 \in 1..8, Place(s1, k1) PROVE Stage(s1, k1)'
      <3>1. /\ s1 = test[chk] /\ s1 \in WriteFns /\ TriedUpTo(chk - 1) /\ WriteStage(k1)
            /\ Granted /\ k1 = 4
        BY <2>2, <2>4, <1>4
      <3>2. intr = "off"
        BY <3>1 DEF Granted
      <3>3. WriteStage(k1)'
        BY <1>1, <1>2, <2>3, <3>1, <3>2 DEF WriteStage, Taken, clientVars
      <3> QED BY <1>1, <1>2, <3>1, <3>3 DEF Stage, clientVars, WriteFns
    <2>5. DriverInv'
      BY <1>1, <2>3 DEF IInv, DriverInv, clientVars
    <2> QED BY <1>1, <2>2, <2>3, <2>4, <2>5, Serves DEF IInv, TypeOK, At, Actors
  <1>6. CASE Sent("test") = {}
    <2>1. Reply("refused", "wait") /\ msg' = msg
      BY <1>6 DEF SecondRequest
    <2>2. ~Taken /\ verbose
      <3>1. At = "sent" => req["tester"].op.svc = "test"
        BY <1>3, <1>4 DEF Op
      <3>2. verbose
        BY <1>1, <1>6, <3>1, Between
      <3>3. ~Taken
        BY <1>3, <1>4 DEF Taken
      <3> QED BY <3>2, <3>3
    <2>3. /\ req' \in Steps /\ req'["printer"] = req["printer"]
          /\ req'["tester"].op = req["tester"].op /\ At' = At /\ pc' = "stray"
      BY <1>1, <2>1, <2>2, Replies
    <2>4. ASSUME NEW s1 \in Plans, NEW k1 \in 1..8, Place(s1, k1) PROVE Stage(s1, k1)'
      <3>1. s1 = test[chk] /\ s1 \in WriteFns /\ TriedUpTo(chk - 1) /\ WriteStage(k1) /\ Granted
        BY <2>4, <1>4
      <3>2. Granted' /\ At \in {"none", "sent", "ok"} /\ nvBoot = "expected_s"
        BY <1>1, <1>4, <2>2, <2>3, <2>4, <3>1 DEF Granted, Taken
      <3>3. WriteStage(k1)'
        BY <1>1, <1>2, <2>3, <3>1, <3>2 DEF WriteStage, Taken, clientVars, Calm
      <3> QED BY <1>1, <1>2, <3>1, <3>3 DEF Stage, clientVars, WriteFns
    <2> QED BY <1>1, <2>1, <2>3, <2>4, Works DEF IInv, TypeOK
  <1> QED BY <1>5, <1>6

\* The caller is still there: the signature is withdrawn, or the caller is refused.
LEMMA DoubtStep == ASSUME IInv, Doubt PROVE IInv'
  <1>1. /\ verdict = "none" /\ Next /\ pc = "doubt"
        /\ UNCHANGED <<clientVars, test, verbose, secure, verdict, tried, disturbed, msg, intr,
                       dog, modified>>
    BY DEF Doubt, Leaves, Next, Driver, obsVars
  <1>2. \/ nvBoot' = "but_failed" /\ faults' = faults /\ pc' = "compare" /\ req' = req
        \/ /\ faults < MaxFaults /\ faults' = faults + 1 /\ nvBoot' = nvBoot
           /\ Reply("refused", "wait")
    BY DEF Doubt, WriteBoot, Goto
  <1>3. /\ req' \in Steps /\ req'["printer"] = req["printer"]
        /\ req'["tester"].op = req["tester"].op
        /\ \/ nvBoot' = "but_failed" /\ faults' = faults /\ pc' = "compare" /\ At' = At
           \/ /\ faults < MaxFaults /\ faults' = faults + 1 /\ nvBoot' = nvBoot
              /\ IF Taken THEN At' = "refused" /\ pc' = "wait" ELSE At' = At /\ pc' = "stray"
    BY <1>1, <1>2, Replies DEF IInv, TypeOK, Steps, At
  <1>4. /\ (faults' # faults => Excused') /\ (Excused => Excused')
        /\ (TriedUpTo(chk) => TriedUpTo(chk)') /\ (TriedUpTo(chk - 1) => TriedUpTo(chk - 1)')
        /\ (nvBoot' = nvBoot => (Unset => Unset' /\ PassEarned') /\ (PassEarned => PassEarned'))
    BY <1>1, Kept, Growth DEF IInv, clientVars
  <1>5. ASSUME NEW s \in Plans, NEW k \in 1..8, Place(s, k) PROVE Stage(s, k)'
    <2>1. s = test[chk] /\ s \in WriteFns /\ TriedUpTo(chk - 1) /\ WriteStage(k)
          /\ At \in {"none", "sent", "taken", "ok", "refused"}
      BY <1>1, <1>5, Busy
    <2>2. k = 4 /\ Taken /\ intr = "off"
      BY <1>1, <2>1 DEF WriteStage, Granted, Calm, Taken
    <2>3. WriteStage(k)'
      BY <1>1, <1>3, <1>4, <2>1, <2>2, Ranges
         DEF WriteStage, Taken, Calm, clientVars, IInv
    <2> QED BY <1>1, <1>4, <2>1, <2>3 DEF Stage, clientVars, WriteFns
  <1> QED BY <1>1, <1>3, <1>5, Works DEF IInv, TypeOK, Taken

\* The caller learns whether the data changed; for MMIO anything may be found.
LEMMA CompareStep == ASSUME IInv, Compare \/ CompareMmio PROVE IInv'
  <1>1. /\ verdict = "none" /\ Next /\ pc = "compare"
        /\ UNCHANGED <<clientVars, test, verbose, secure, verdict, tried, disturbed, msg, intr,
                       dog, modified, nvBoot, faults>>
    BY DEF Compare, CompareMmio, Leaves, Next, Driver, obsVars
  <1>2. \/ Reply("ok", "wait")
        \/ Reply("refused", "wait") /\ test[chk] = "wr_mmio"
        \/ pc' = "stopped" /\ req' = req /\ test[chk] = "wr_mmio"
    BY DEF Compare, CompareMmio, Goto, IInv, DriverInv, Leaves
  <1>3. Taken
    <2>1. PICK s \in Plans, k \in 1..8 : Place(s, k)
      BY <1>1 DEF IInv, Running
    <2>2. WriteStage(k) /\ At \in {"none", "sent", "taken", "ok", "refused"}
      BY <1>1, <2>1, Busy
    <2> QED BY <1>1, <2>2 DEF WriteStage, Granted, Calm, Taken
  <1>4. /\ req' \in Steps /\ req'["printer"] = req["printer"]
        /\ req'["tester"].op = req["tester"].op
        /\ \/ At' = "ok" /\ pc' = "wait"
           \/ At' = "refused" /\ pc' = "wait" /\ test[chk] = "wr_mmio"
           \/ At' = "taken" /\ pc' = "stopped" /\ test[chk] = "wr_mmio"
    BY <1>1, <1>2, <1>3, Replies DEF IInv, TypeOK, Steps, At, Taken
  <1>5. /\ Excused => Excused'
        /\ (TriedUpTo(chk) => TriedUpTo(chk)') /\ (TriedUpTo(chk - 1) => TriedUpTo(chk - 1)')
        /\ (nvBoot' = nvBoot => (Unset => Unset' /\ PassEarned') /\ (PassEarned => PassEarned'))
    BY <1>1, Kept DEF IInv, clientVars
  <1>6. test[chk] = "wr_mmio" => Excused
    BY DEF Excused, Announces, IInv, TypeOK
  <1>7. ASSUME NEW s \in Plans, NEW k \in 1..8, Place(s, k) PROVE Stage(s, k)'
    <2>1. s = test[chk] /\ s \in WriteFns /\ TriedUpTo(chk - 1) /\ WriteStage(k)
      BY <1>1, <1>7, Busy
    <2>2. k = 4 /\ intr = "off" /\ nvBoot = "but_failed"
      BY <1>1, <1>3, <2>1 DEF WriteStage, Granted, Calm, Taken
    <2>3. WriteStage(k)'
      BY <1>1, <1>4, <1>5, <1>6, <2>1, <2>2 DEF WriteStage, Taken, Calm, clientVars
    <2> QED BY <1>1, <1>5, <2>1, <2>3 DEF Stage, clientVars, WriteFns
  <1> QED BY <1>1, <1>3, <1>4, <1>7, Works DEF IInv, TypeOK, Taken

\* The interrupt is raised.
LEMMA GenerateStep == ASSUME IInv, Generate PROVE IInv'
  <1>1. /\ verdict = "none" /\ Next /\ pc \in {"irq", "eoi_intr"}
        /\ pc' = IF pc = "irq" THEN "irq_wait" ELSE "eoi_wait"
        /\ intr' = "raised"
        /\ UNCHANGED <<clientVars, test, verbose, secure, verdict, tried, disturbed, msg, dog, modified,
                       nvBoot, faults, req, At>>
    BY DEF Generate, Leaves, Next, Driver, obsVars, Goto, At
  <1>2. /\ Excused => Excused'
        /\ (TriedUpTo(chk) => TriedUpTo(chk)') /\ (TriedUpTo(chk - 1) => TriedUpTo(chk - 1)')
        /\ (nvBoot' = nvBoot => (Unset => Unset' /\ PassEarned') /\ (PassEarned => PassEarned'))
    BY <1>1, Kept DEF IInv, clientVars
  <1>3. ASSUME NEW s \in Plans, NEW k \in 1..8, Place(s, k) PROVE Stage(s, k)'
    <2>1. CASE pc = "irq"
      <3>1. s = test[chk] /\ s = "irq" /\ TriedUpTo(chk - 1) /\ IrqStage(k)
        BY <1>1, <1>3, <2>1, Busy
      <3>2. IrqStage(k)'
        BY <1>1, <1>2, <2>1, <3>1 DEF IrqStage, Calm, Taken, clientVars
      <3> QED BY <1>1, <1>2, <3>1, <3>2 DEF Stage, clientVars
    <2>2. CASE pc = "eoi_intr"
      <3>1. s = test[chk] /\ s \in {"eoi", "eoi_intr"} /\ TriedUpTo(chk - 1) /\ EoiStage(k)
        BY <1>1, <1>3, <2>2, Busy
      <3>2. EoiStage(k)'
        BY <1>1, <1>2, <2>2, <3>1 DEF EoiStage, Calm, Taken, clientVars
      <3> QED BY <1>1, <1>2, <3>1, <3>2 DEF Stage, clientVars
    <2> QED BY <1>1, <2>1, <2>2
  <1> QED BY <1>1, <1>3, Works DEF IInv, TypeOK, Steps

\* The interrupt is asserted: only where it was raised.
LEMMA InterruptStep == ASSUME IInv, Interrupt PROVE IInv'
  <1>1. /\ verdict = "none" /\ Next /\ intr = "raised" /\ intr' = "asserted"
        /\ UNCHANGED <<clientVars, test, verbose, secure, verdict, nvBoot, tried, disturbed,
                       faults, pc, msg, dog, modified, req, At>>
    BY DEF Interrupt, Leaves, Next, Driver, obsVars, At
  <1>2. /\ Excused => Excused'
        /\ (TriedUpTo(chk) => TriedUpTo(chk)') /\ (TriedUpTo(chk - 1) => TriedUpTo(chk - 1)')
        /\ (nvBoot' = nvBoot => (Unset => Unset' /\ PassEarned') /\ (PassEarned => PassEarned'))
    BY <1>1, Kept DEF IInv, clientVars
  <1>3. ASSUME NEW s \in Plans, NEW k \in 1..8, Place(s, k) PROVE Stage(s, k)'
    <2>1. Stage(s, k) /\ At \in {"none", "sent", "taken", "ok", "refused"}
      BY <1>3, Ranges DEF Place, IInv
    <2>2. ~Calm /\ intr # "off"
      BY <1>1 DEF Calm
    <2>3. Failed => Failed'
      BY <1>1, <1>2, <2>2 DEF Failed, Calm, Taken, clientVars
    <2>4. CASE s = test[chk] /\ TriedUpTo(chk - 1)
      <3>1. ~ReadStage(k) /\ ~WriteStage(k)
        BY <2>1, <2>2 DEF ReadStage, WriteStage, Taken, Granted
      <3>2. EoiStage(k) => EoiStage(k)'
        BY <1>1, <1>2, <2>1, <2>2 DEF EoiStage, Taken, clientVars
      <3>3. IrqStage(k) => IrqStage(k)'
        BY <1>1, <1>2, <2>1, <2>2 DEF IrqStage, Taken, clientVars
      <3> QED BY <1>1, <1>2, <2>1, <2>2, <2>3, <2>4, <3>1, <3>2, <3>3
              DEF Stage, clientVars
    <2> QED BY <1>1, <2>1, <2>2, <2>3, <2>4 DEF Stage, clientVars
  <1>4. DriverInv'
    BY <1>1 DEF IInv, DriverInv, clientVars
  <1>5. At \in {"taken", "refused"} => req["tester"].op.type = "call"
    BY <1>1 DEF IInv, Running, Place, RequestInv
  <1> QED BY <1>1, <1>3, <1>4, <1>5, Serves DEF IInv, TypeOK, Steps, At

\* The wait of the routing check ends with the interrupt or, in a verbose build, a print.
LEMMA IrqRoutingStep == ASSUME IInv, IrqRouting PROVE IInv'
  <1>1. /\ verdict = "none" /\ Next /\ pc = "irq_wait"
        /\ UNCHANGED <<clientVars, test, verbose, secure, verdict, msg, dog, modified, nvBoot, faults>>
    BY DEF IrqRouting, Leaves, Next, Driver
  <1>2. PICK a \in {"ok", "refused"} :
           /\ Reply(a, "wait") /\ intr' \in {"off", "asserted"}
           /\ \/ a = "ok" /\ intr' = "off" /\ Tried /\ disturbed' = disturbed
              \/ a = "refused" /\ Tried /\ disturbed' = TRUE
              \/ a = "refused" /\ Signals # {} /\ UNCHANGED <<tried, disturbed>>
    BY DEF IrqRouting, obsVars
  <1>3. ASSUME NEW s \in Plans, NEW k \in 1..8, Place(s, k)
        PROVE  /\ s = test[chk] /\ s = "irq" /\ TriedUpTo(chk - 1) /\ IrqStage(k) /\ Taken /\ k = 2
               /\ Unset
    <2>1. s = test[chk] /\ s = "irq" /\ TriedUpTo(chk - 1) /\ IrqStage(k)
      BY <1>1, <1>3, Busy
    <2> QED BY <1>1, <2>1 DEF IrqStage, Calm
  <1>4. Taken
    BY <1>1, <1>3 DEF IInv, Running
  <1>5. /\ req' \in Steps /\ req'["printer"] = req["printer"]
        /\ req'["tester"].op = req["tester"].op /\ At' = a /\ pc' = "wait"
    BY <1>1, <1>2, <1>4, Replies
  <1>6. disturbed' \in BOOLEAN
    BY <1>2 DEF IInv, TypeOK
  <1>7. a = "refused" => Excused'
    <2>1. CASE disturbed'
      BY <1>1, <2>1, Growth DEF IInv
    <2>2. CASE a = "refused" /\ Signals # {}
      <3>1. Excused
        BY <1>1, <1>4, <2>2, Between DEF Taken
      <3> QED BY <1>1, <3>1, Growth DEF IInv
    <2> QED BY <1>2, <2>1, <2>2
  <1>8. a = "ok" => TriedUpTo(chk)'
    <2>1. TriedUpTo(chk - 1)
      BY <1>1, <1>3 DEF IInv, Running
    <2> QED BY <1>1, <1>2, <2>1, TriedNow DEF IInv, clientVars
  <1>9. ASSUME NEW s \in Plans, NEW k \in 1..8, Place(s, k) PROVE Stage(s, k)'
    <2>1. s = test[chk] /\ s = "irq" /\ TriedUpTo(chk - 1) /\ k = 2
      BY <1>3, <1>9
    <2>2. TriedUpTo(chk - 1)' /\ Unset'
      BY <1>1, <1>3, <1>9, <2>1, Kept DEF IInv, clientVars
    <2>3. IrqStage(k)'
      BY <1>1, <1>2, <1>5, <1>7, <1>8, <2>1, <2>2 DEF IrqStage, Calm, Taken, clientVars
    <2> QED BY <1>1, <2>1, <2>2, <2>3 DEF Stage, clientVars
  <1> QED BY <1>1, <1>2, <1>4, <1>5, <1>6, <1>9, Works DEF Tried

\* The interrupt that psa_eoi is to be tried with came.
LEMMA EoiWaitStep == ASSUME IInv, EoiWait PROVE IInv'
  <1>1. /\ verdict = "none" /\ Next /\ pc = "eoi_wait" /\ pc' = "eoi"
        /\ UNCHANGED <<clientVars, test, verbose, secure, verdict, tried, disturbed, msg, intr,
                       dog, modified, nvBoot, faults, req, At>>
    BY DEF EoiWait, Leaves, Next, Driver, obsVars, Goto, At
  <1>2. /\ Excused => Excused'
        /\ (TriedUpTo(chk) => TriedUpTo(chk)') /\ (TriedUpTo(chk - 1) => TriedUpTo(chk - 1)')
        /\ (nvBoot' = nvBoot => (Unset => Unset' /\ PassEarned') /\ (PassEarned => PassEarned'))
    BY <1>1, Kept DEF IInv, clientVars
  <1>3. ASSUME NEW s \in Plans, NEW k \in 1..8, Place(s, k) PROVE Stage(s, k)'
    <2>1. s = test[chk] /\ s \in {"eoi", "eoi_intr"} /\ TriedUpTo(chk - 1) /\ EoiStage(k)
      BY <1>1, <1>3, Busy
    <2>2. EoiStage(k)'
      BY <1>1, <1>2, <2>1 DEF EoiStage, Calm, Taken, clientVars
    <2> QED BY <1>1, <1>2, <2>1, <2>2 DEF Stage, clientVars
  <1> QED BY <1>1, <1>3, Works DEF IInv, TypeOK, Steps

\* The stop of the partition is announced, or the caller is refused.
LEMMA EoiAnnounceStep == ASSUME IInv, EoiAnnounce PROVE IInv'
  <1>1. /\ verdict = "none" /\ Next /\ pc = "eoi"
        /\ UNCHANGED <<clientVars, test, verbose, secure, verdict, tried, disturbed, msg, intr,
                       dog, modified>>
    BY DEF EoiAnnounce, Leaves, Next, Driver, obsVars
  <1>2. \/ nvBoot' = "expected_ns" /\ faults' = faults /\ pc' = "eoi_now" /\ req' = req
        \/ /\ faults < MaxFaults /\ faults' = faults + 1 /\ nvBoot' = nvBoot
           /\ Reply("refused", "wait")
    BY DEF EoiAnnounce, WriteBoot, Goto
  <1>3. ASSUME NEW s \in Plans, NEW k \in 1..8, Place(s, k)
        PROVE  /\ s = test[chk] /\ s \in {"eoi", "eoi_intr"} /\ TriedUpTo(chk - 1)
               /\ k = 2 /\ Taken /\ Unset
    <2>1. s = test[chk] /\ s \in {"eoi", "eoi_intr"} /\ TriedUpTo(chk - 1) /\ EoiStage(k)
          /\ At \in {"none", "sent", "taken", "ok", "refused"}
      BY <1>1, <1>3, Busy
    <2> QED BY <1>1, <2>1 DEF EoiStage, Calm, Taken
  <1>4. Taken /\ test[chk] \in {"eoi", "eoi_intr"}
    BY <1>1, <1>3 DEF IInv, Running
  <1>5. /\ req' \in Steps /\ req'["printer"] = req["printer"]
        /\ req'["tester"].op = req["tester"].op
        /\ \/ nvBoot' = "expected_ns" /\ faults' = faults /\ pc' = "eoi_now" /\ At' = "taken"
           \/ /\ faults < MaxFaults /\ faults' = faults + 1 /\ nvBoot' = nvBoot
              /\ At' = "refused" /\ pc' = "wait"
    BY <1>1, <1>2, <1>4, Replies DEF IInv, TypeOK, Steps, At, Taken
  <1>6. (faults' # faults => Excused') /\ (TriedUpTo(chk - 1) => TriedUpTo(chk - 1)')
        /\ (nvBoot' = nvBoot => (Unset => Unset' /\ PassEarned') /\ (PassEarned => PassEarned'))
    BY <1>1, Kept, Growth DEF IInv, clientVars
  <1>7. ASSUME NEW s \in Plans, NEW k \in 1..8, Place(s, k) PROVE Stage(s, k)'
    <2>1. /\ s = test[chk] /\ s \in {"eoi", "eoi_intr"} /\ TriedUpTo(chk - 1)
          /\ k = 2 /\ Unset
      BY <1>3, <1>7
    <2>2. EoiStage(k)'
      BY <1>1, <1>5, <1>6, <2>1, Ranges
      DEF EoiStage, Calm, Taken, clientVars, IInv
    <2> QED BY <1>1, <1>6, <2>1, <2>2 DEF Stage, clientVars
  <1> QED BY <1>1, <1>4, <1>5, <1>7, Works DEF IInv, TypeOK, Taken

\* psa_eoi stops the partition, or returns and the caller is refused.
LEMMA EoiStep == ASSUME IInv, EoiStops \/ EoiReturns PROVE IInv'
  <1>1. /\ verdict = "none" /\ Next /\ pc = "eoi_now" /\ Tried
        /\ UNCHANGED <<clientVars, test, verbose, secure, verdict, msg, intr, dog, modified>>
    BY DEF EoiStops, EoiReturns, Leaves, Next, Driver
  <1>2. \/ pc' = "stopped" /\ UNCHANGED <<disturbed, nvBoot, faults, req>>
        \/ /\ disturbed' = TRUE /\ Reply("refused", "wait")
           /\ \/ nvBoot' = "but_failed" /\ faults' = faults
              \/ nvBoot' = nvBoot /\ faults < MaxFaults /\ faults' = faults + 1
    BY DEF EoiStops, EoiReturns, WriteBoot, Goto, Leaves
  <1>3. ASSUME NEW s \in Plans, NEW k \in 1..8, Place(s, k)
        PROVE  /\ s = test[chk] /\ s \in {"eoi", "eoi_intr"} /\ TriedUpTo(chk - 1)
               /\ k = 2 /\ Taken /\ nvBoot = "expected_ns"
    <2>1. s = test[chk] /\ s \in {"eoi", "eoi_intr"} /\ TriedUpTo(chk - 1) /\ EoiStage(k)
          /\ At \in {"none", "sent", "taken", "ok", "refused"}
      BY <1>1, <1>3, Busy
    <2> QED BY <1>1, <2>1 DEF EoiStage, Calm, Taken
  <1>4. Taken /\ TriedUpTo(chk - 1)
    BY <1>1, <1>3 DEF IInv, Running
  <1>5. TriedUpTo(chk)'
    BY <1>1, <1>4, TriedNow DEF IInv, clientVars
  <1>6. /\ req' \in Steps /\ req'["printer"] = req["printer"]
        /\ req'["tester"].op = req["tester"].op
        /\ \/ pc' = "stopped" /\ At' = "taken" /\ nvBoot' = nvBoot /\ disturbed' = disturbed
              /\ faults' = faults
           \/ /\ pc' = "wait" /\ At' = "refused" /\ disturbed' = TRUE
              /\ \/ nvBoot' = "but_failed" /\ faults' = faults
                 \/ nvBoot' = nvBoot /\ faults < MaxFaults /\ faults' = faults + 1
    BY <1>1, <1>2, <1>4, Replies DEF IInv, TypeOK, Steps, At, Taken
  <1>7. (disturbed' => Excused') /\ (TriedUpTo(chk - 1) => TriedUpTo(chk - 1)')
        /\ (nvBoot' = nvBoot => (Unset => Unset' /\ PassEarned') /\ (PassEarned => PassEarned'))
    BY <1>1, Kept, Growth DEF IInv, clientVars
  <1>8. ASSUME NEW s \in Plans, NEW k \in 1..8, Place(s, k) PROVE Stage(s, k)'
    <2>1. /\ s = test[chk] /\ s \in {"eoi", "eoi_intr"} /\ TriedUpTo(chk - 1)
          /\ k = 2 /\ nvBoot = "expected_ns"
      BY <1>3, <1>8
    <2>2. EoiStage(k)'
      BY <1>1, <1>5, <1>6, <1>7, <2>1 DEF EoiStage, Calm, Taken, PassEarned, clientVars
    <2> QED BY <1>1, <1>7, <2>1, <2>2 DEF Stage, clientVars
  <1> QED BY <1>1, <1>4, <1>6, <1>8, Works DEF IInv, TypeOK, Tried, Taken

\* The request that the tester is blocked in, and where it is then.
LEMMA Asking ==
    ASSUME IInv, verdict = "none", NEW s \in Plans, NEW k \in 1..8, Place(s, k)
    PROVE  /\ todo # <<>> => k \in 1..Len(Plan(s)) /\ Head(todo) = Plan(s)[k]
                             /\ Places(s, k, Head(todo)) /\ Tail(todo) = Rest(s, k + 1)
                             /\ Head(todo) \in Ops
           /\ todo = <<>> => k > Len(Plan(s)) /\ At = "none"
           /\ At # "none" => todo # <<>> /\ req["tester"].op = Head(todo)
                             /\ Head(todo).svc # "cpu"
           /\ todo # <<>> /\ Head(todo).svc = "cpu" => At = "none"
           /\ Stage(s, k)
  <1>1. todo = Rest(s, k) /\ RequestInv(s, k) /\ Len(Plan(s)) \in Nat /\ k \in Nat \ {0}
    BY PlanType, LenProperties DEF Place
  <1>2. ASSUME k <= Len(Plan(s))
        PROVE  /\ todo # <<>> /\ k \in 1..Len(Plan(s)) /\ Head(todo) = Plan(s)[k]
               /\ Places(s, k, Head(todo)) /\ Tail(todo) = Rest(s, k + 1) /\ Head(todo) \in Ops
    <2>1. todo # <<>> /\ Head(todo) = Plan(s)[k] /\ Tail(todo) = Rest(s, k + 1)
      BY <1>1, <1>2, RestSteps
    <2>2. k \in 1..Len(Plan(s))
      BY <1>1, <1>2
    <2> QED BY <2>1, <2>2, PlanPlaces, PlanType, ElementOfSeq
  <1>3. k > Len(Plan(s)) => todo = <<>> /\ At = "none"
    BY <1>1, RestSteps DEF RequestInv
  <1>4. At # "none" => k <= Len(Plan(s)) /\ req["tester"].op = Plan(s)[k] /\ Plan(s)[k].svc # "cpu"
    BY <1>1 DEF RequestInv, Services
  <1> QED BY <1>1, <1>2, <1>3, <1>4 DEF Place

\* The tester sends its next request.
LEMMA SendRequestStep == ASSUME IInv, SendRequest PROVE IInv'
  <1>1. /\ verdict = "none" /\ Next /\ todo # <<>> /\ Head(todo).svc \in Services /\ At = "none"
        /\ req' = [req EXCEPT !["tester"] = [op |-> Head(todo), at |-> "sent"]]
        /\ UNCHANGED <<clientVars, test, verbose, secure, verdict, nvBoot, tried, disturbed,
                       faults, pc, msg, intr, dog, modified>>
    BY DEF SendRequest, Leaves, Next, Client, obsVars, driverVars, At
  <1>2. PICK s \in Plans, k \in 1..8 : Place(s, k)
    BY <1>1 DEF IInv, Running
  <1>3. /\ k \in 1..Len(Plan(s)) /\ Head(todo) = Plan(s)[k] /\ Head(todo) \in Ops /\ Stage(s, k)
    BY <1>1, <1>2, Asking
  <1>4. /\ req' \in Steps /\ req'["printer"] = req["printer"]
        /\ req'["tester"] = [op |-> Head(todo), at |-> "sent"] /\ At' = "sent"
    BY <1>1, <1>3 DEF IInv, TypeOK, Steps, Actors, At
  <1>5. /\ (Excused => Excused') /\ (TriedUpTo(chk) => TriedUpTo(chk)')
        /\ (TriedUpTo(chk - 1) => TriedUpTo(chk - 1)')
        /\ (nvBoot' = nvBoot => (Unset => Unset' /\ PassEarned') /\ (PassEarned => PassEarned'))
    BY <1>1, Kept DEF IInv, clientVars
  <1>6. Stage(s, k)'
    <2>1. (Failed => Failed') /\ (Calm => Calm') /\ ~Taken /\ ~Taken'
      BY <1>1, <1>4, <1>5 DEF Failed, Calm, Taken, clientVars
    <2>2. ReadStage(k) => ReadStage(k)'
      BY <1>1, <1>4, <1>5, <2>1 DEF ReadStage, clientVars
    <2>3. WriteStage(k) => WriteStage(k)'
      <3>1. Granted => Granted'
        BY <1>1, <1>4, <1>5, <2>1, Growth DEF Granted, clientVars, IInv
      <3> QED BY <1>1, <1>4, <1>5, <2>1, <3>1 DEF WriteStage, clientVars
    <2>4. EoiStage(k) => EoiStage(k)'
      BY <1>1, <1>4, <1>5, <2>1 DEF EoiStage, clientVars
    <2>5. IrqStage(k) => IrqStage(k)'
      BY <1>1, <1>4, <1>5, <2>1 DEF IrqStage, clientVars
    <2> QED BY <1>1, <1>3, <1>4, <1>5, <2>1, <2>2, <2>3, <2>4, <2>5
            DEF Stage, clientVars
  <1>7. Place(s, k)'
    BY <1>1, <1>2, <1>3, <1>4, <1>6 DEF Place, RequestInv, clientVars
  <1>8. TypeOK'
    BY <1>1, <1>4 DEF IInv, TypeOK, clientVars, Steps
  <1>9. PrintInv' /\ DriverInv'
    BY <1>1, <1>4 DEF IInv, PrintInv, DriverInv, clientVars
  <1> QED BY <1>1, <1>7, <1>8, <1>9, Leads

\* An answered request is followed by the next operation, a refused one by the end of the half.
LEMMA GotAnswerStep == ASSUME IInv, GotAnswer PROVE IInv'
  <1>1. /\ verdict = "none" /\ Next /\ At \in {"ok", "refused"}
        /\ todo' = IF At = "refused" /\ Head(todo).arg \notin {"eoi", "eoi_intr"}
                   THEN AfterRefusal(Head(todo)) ELSE Tail(todo)
        /\ req' = [req EXCEPT !["tester"] = NoRequest]
        /\ UNCHANGED <<chk, printed, test, verbose, secure, verdict, nvBoot, tried, disturbed,
                       faults, pc, msg, intr, dog, modified>>
    BY DEF GotAnswer, Leaves, Next, Client, obsVars, driverVars, At
  <1>2. PICK s \in Plans, k \in 1..8 : Place(s, k)
    BY <1>1 DEF IInv, Running
  <1>3. /\ k \in 1..Len(Plan(s)) /\ Head(todo) = Plan(s)[k] /\ Stage(s, k)
        /\ Places(s, k, Head(todo)) /\ Tail(todo) = Rest(s, k + 1) /\ Head(todo).svc # "cpu"
        /\ At = "refused" => Head(todo).type = "call"
    <2>1. todo # <<>> /\ req["tester"].op = Head(todo) /\ Head(todo).svc # "cpu"
      BY <1>1, <1>2, Asking
    <2> QED BY <1>1, <1>2, <2>1, Asking DEF Place, RequestInv
  <1>4. /\ req' \in Steps /\ req'["printer"] = req["printer"] /\ At' = "none"
    <2>1. NoRequest \in [op : Ops, at : {"none", "sent", "taken", "ok", "refused"}]
      BY DEF NoRequest, Ops, Op
    <2> QED BY <1>1, <2>1 DEF IInv, TypeOK, Steps, Actors, At, NoRequest
  <1>5. /\ (Excused => Excused') /\ (TriedUpTo(chk) => TriedUpTo(chk)')
        /\ (TriedUpTo(chk - 1) => TriedUpTo(chk - 1)')
        /\ (nvBoot' = nvBoot => (Unset => Unset' /\ PassEarned') /\ (PassEarned => PassEarned'))
    BY <1>1, Kept DEF IInv
  <1>6. (Failed => Failed') /\ (Calm => Calm') /\ ~Taken /\ ~Taken'
    BY <1>1, <1>4, <1>5 DEF Failed, Calm, Taken
  <1>7. PrintInv' /\ DriverInv'
    BY <1>1, <1>4 DEF IInv, PrintInv, DriverInv
  <1>8. ASSUME NEW s1 \in Plans, NEW k1 \in 1..8, todo' = Rest(s1, k1), Stage(s1, k1)'
        PROVE  IInv'
    <2>1. todo' \in Seq(Ops)
      BY <1>8, RestSteps
    <2>2. TypeOK'
      BY <1>1, <1>4, <2>1 DEF IInv, TypeOK, Steps
    <2>3. Place(s1, k1)'
      BY <1>4, <1>8 DEF Place, RequestInv
    <2> QED BY <1>1, <1>7, <2>2, <2>3, Leads
  <1>9. CASE At = "ok" \/ Head(todo).arg \in {"eoi", "eoi_intr"}
    <2>1. todo' = Rest(s, k + 1)
      BY <1>1, <1>3, <1>9
    <2>2. /\ k + 1 \in 1..8 /\ (s = "rd" => k < 7) /\ (s \in WriteFns => k # 3)
          /\ (s \in {"eoi", "eoi_intr"} => k < 4) /\ s # "failure"
          /\ (s = "init" => k < 7) /\ (s \in {"exitPass", "exitFail", "but"} => k < 4)
          /\ (s \in {"closeExit", "closeDog", "closeTest", "closeNv"} => k < 2)
          /\ (At = "refused" => s \in {"eoi", "eoi_intr"} /\ k = 2)
      <3>1. /\ s \in {"init", "rd"} => k \in 1..7
            /\ s \in {"exitPass", "exitFail", "but", "eoi", "eoi_intr"} => k \in 1..4
            /\ s \in {"closeExit", "closeDog", "closeTest", "closeNv"} => k \in 1..2
            /\ s \in WriteFns => k \in 1..5
            /\ s = "irq" => k \in 1..3
        <4>1. k \in 1..Len(Plan(s))
          BY <1>3
        <4>2. CASE s \in {"init", "rd", "irq"}
          BY <4>1, <4>2, PlanLength DEF WriteFns
        <4>3. CASE s \in {"exitPass", "exitFail", "but", "eoi", "eoi_intr"}
          BY <4>1, <4>3, PlanLength DEF WriteFns
        <4>4. CASE s \in {"closeExit", "closeDog", "closeTest", "closeNv"}
          BY <4>1, <4>4, PlanLength DEF WriteFns
        <4>5. CASE s \in WriteFns
          BY <4>1, <4>5, PlanLength DEF WriteFns
        <4> QED BY <4>2, <4>3, <4>4, <4>5
      <3>2. /\ ~(s = "init" /\ k = 7) /\ ~(s = "rd" /\ k = 7) /\ ~(s \in WriteFns /\ k = 3)
            /\ ~(s \in {"exitPass", "exitFail", "but", "eoi", "eoi_intr"} /\ k = 4)
            /\ ~(s \in {"closeExit", "closeDog", "closeTest", "closeNv"} /\ k = 2)
            /\ s # "failure"
        BY <1>3 DEF Places, Access, FirstCheck, Result, Failure, Op
      <3>3. At = "refused" => s \in {"eoi", "eoi_intr"} /\ k = 2
        BY <1>1, <1>3, <1>9 DEF Places, Services, WriteFns
      <3> QED BY <3>1, <3>2, <3>3 DEF Plans, Ends, TestFns, WriteFns
    <2>3. CASE s = test[chk] /\ TriedUpTo(chk - 1)
      <3>0. s \in TestFns
        BY <2>3, Ranges DEF IInv
      <3>1. CASE s = "rd"
        <4>1. ReadStage(k)
          BY <1>3, <3>1 DEF Stage, Ends, WriteFns
        <4>2. ReadStage(k + 1)'
          BY <1>1, <1>4, <1>5, <1>6, <2>2, <3>1, <4>1 DEF ReadStage
        <4> QED BY <1>1, <1>5, <1>8, <2>1, <2>2, <2>3, <3>1, <4>2 DEF Stage
      <3>2. CASE s \in WriteFns
        <4>1. WriteStage(k)
          BY <1>3, <3>2 DEF Stage, Ends, WriteFns
        <4>a. At = "ok" /\ k \in {1, 2, 4, 5}
          <5>1. k \in 1..5
            BY <1>3, <3>2, PlanLength
          <5> QED BY <1>1, <2>2, <3>2, <5>1 DEF WriteFns
        <4>2. WriteStage(k + 1)'
          <5>1. Granted => Granted'
            BY <1>1, <1>4, <1>5, <1>6, Growth DEF Granted, IInv
          <5> QED BY <1>1, <1>4, <1>5, <1>6, <4>1, <4>a, <5>1 DEF WriteStage
        <4> QED BY <1>1, <1>5, <1>8, <2>1, <2>2, <2>3, <3>2, <4>2 DEF Stage
      <3>3. CASE s \in {"eoi", "eoi_intr"}
        <4>1. EoiStage(k)
          BY <1>3, <3>3 DEF Stage, Ends, WriteFns
        <4>2. EoiStage(k + 1)'
          BY <1>1, <1>4, <1>5, <1>6, <2>2, <3>3, <4>1 DEF EoiStage
        <4> QED BY <1>1, <1>5, <1>8, <2>1, <2>2, <2>3, <3>3, <4>2 DEF Stage
      <3>4. CASE s = "irq"
        <4>1. IrqStage(k) /\ k \in 1..3
          BY <1>3, <3>4, PlanLength DEF Stage, Ends, WriteFns
        <4>2. IrqStage(k + 1)'
          BY <1>1, <1>4, <1>5, <1>6, <2>2, <3>4, <4>1 DEF IrqStage
        <4> QED BY <1>1, <1>5, <1>8, <2>1, <2>2, <2>3, <3>4, <4>2 DEF Stage
      <3> QED BY <3>0, <3>1, <3>2, <3>3, <3>4 DEF TestFns
    <2>4. CASE ~(s = test[chk] /\ TriedUpTo(chk - 1))
      <3>1. Stage(s, k + 1)'
        BY <1>1, <1>3, <1>4, <1>5, <1>6, <2>2, <2>4 DEF Stage, Calm
      <3> QED BY <1>8, <2>1, <2>2, <3>1
    <2> QED BY <2>3, <2>4
  <1>10. CASE At = "refused" /\ Head(todo).arg \notin {"eoi", "eoi_intr"}
    <2>1. /\ todo' = AfterRefusal(Plan(s)[k]) /\ Plan(s)[k].type = "call"
          /\ \/ s = "init"
             \/ s \in {"exitPass", "exitFail"}
             \/ (s = "rd" /\ k = 5) \/ s = "but"
             \/ s \in WriteFns \cup {"rd"} /\ k = 2
             \/ (s \in WriteFns /\ k = 4) \/ s = "irq"
      BY <1>1, <1>3, <1>10 DEF Places, Services, TestFns
    <2>2. Failed'
      <3>1. CASE s = "init" \/ s = "exitPass"
        <4>1. Calm /\ Excused
          BY <1>3, <1>10, <3>1 DEF Stage, TestFns, WriteFns, Ends
        <4> QED BY <1>5, <1>6, <4>1 DEF Failed
      <3>2. CASE s \in {"exitFail", "but"}
        <4>1. Failed /\ (s = "but" => Calm)
          BY <1>3, <3>2 DEF Stage, TestFns, WriteFns, Ends
        <4> QED BY <1>6, <3>2, <4>1 DEF Failed
      <3>3. CASE s = "rd"
        <4>1. ReadStage(k)
          BY <1>3, <3>3 DEF Stage, TestFns, WriteFns, Ends
        <4> QED BY <1>5, <1>6, <1>10, <4>1 DEF ReadStage, Failed
      <3>4. CASE s \in WriteFns
        <4>1. WriteStage(k) /\ test[chk] = s /\ k \in {2, 4}
          BY <1>3, <2>1, <3>4 DEF Stage, TestFns, WriteFns, Ends
        <4>2. k = 4 => Calm /\ Excused
          BY <1>10, <4>1 DEF WriteStage
        <4>3. k = 2 => Failed
          <5>1. Unset => PassEarned
            BY DEF Unset, PassEarned
          <5> QED BY <1>6, <1>10, <4>1, <5>1 DEF WriteStage, Failed, WriteFns
        <4> QED BY <1>5, <1>6, <3>4, <4>1, <4>2, <4>3 DEF Failed
      <3>5. CASE s = "irq"
        <4>1. IrqStage(k)
          BY <1>3, <3>5 DEF Stage, TestFns, WriteFns, Ends
        <4>2. Unset => PassEarned
          BY DEF Unset, PassEarned
        <4> QED BY <1>5, <1>6, <1>10, <4>1, <4>2 DEF IrqStage, Failed
      <3> QED BY <2>1, <3>1, <3>2, <3>3, <3>4, <3>5
    <2>3. PICK s1 \in {"closeDog", "closeExit", "closeNv", "failure", "closeTest"} :
             todo' = Plan(s1)
      BY <1>3, <2>1, Refusals
    <2>4. todo' = Rest(s1, 1) /\ s1 \in Plans
      BY <2>3, RestSteps DEF Plans, Ends
    <2>5. Stage(s1, 1)'
      BY <2>2, <2>3 DEF Stage
    <2> QED BY <1>8, <2>4, <2>5
  <1> QED BY <1>1, <1>9, <1>10

\* A read that should fault returns: the half goes on to its end, or fails.
LEMMA ReadReturnsStep == ASSUME IInv, ReadReturns PROVE IInv'
  <1>1. /\ verdict = "none" /\ Next /\ todo # <<>> /\ Head(todo) = Access("read") /\ Tried
        /\ \/ todo' = Tail(todo) /\ disturbed' = disturbed
           \/ todo' = SetFlag("but_failed") \o <<Failure>> /\ disturbed' = TRUE
        /\ UNCHANGED <<nvBoot, chk, printed, test, verbose, secure, verdict, faults, req, At, pc, msg,
                       intr, dog, modified>>
    BY DEF ReadReturns, Leaves, Next, Client, driverVars, Accessing, At
  <1>2. PICK s \in Plans, k \in 1..8 : Place(s, k)
    BY <1>1 DEF IInv, Running
  <1>3. /\ s = "rd" /\ k = 7 /\ Tail(todo) = Rest("rd", 8) /\ At = "none" /\ Stage("rd", 7)
    <2>1. /\ Places(s, k, Head(todo)) /\ Tail(todo) = Rest(s, k + 1) /\ Stage(s, k)
          /\ At # "none" => Head(todo).svc # "cpu"
      BY <1>1, <1>2, Asking
    <2>2. s = "rd" /\ k = 7
      BY <1>1, <2>1 DEF Places
    <2> QED BY <1>1, <2>1, <2>2 DEF Access, Op
  <1>4. test[chk] = "rd" /\ TriedUpTo(chk - 1) /\ ReadStage(7)
    BY <1>3 DEF Stage, Ends, WriteFns
  <1>5. TriedUpTo(chk)' /\ TriedUpTo(chk - 1)' /\ (disturbed' => Excused')
    BY <1>1, <1>4, TriedNow, Kept, Growth DEF IInv
  <1>6. Calm' /\ ~Taken'
    BY <1>1, <1>3, <1>4 DEF ReadStage, Calm, Taken
  <1>7. PICK s1 \in Plans, k1 \in 1..8 : todo' = Rest(s1, k1) /\ Stage(s1, k1)'
    <2>1. CASE todo' = Tail(todo)
      <3>1. ReadStage(8)'
        BY <1>1, <1>3, <1>4, <1>5, <1>6 DEF ReadStage
      <3>2. Stage("rd", 8)'
        BY <1>1, <1>4, <1>5, <3>1 DEF Stage
      <3> QED BY <1>2, <1>3, <2>1, <3>2
    <2>2. CASE todo' = SetFlag("but_failed") \o <<Failure>> /\ disturbed' = TRUE
      <3>1. todo' = Rest("but", 1)
        BY <2>2, RestSteps, SMTT(20) DEF Plans, Plan
      <3>2. Stage("but", 1)'
        BY <1>5, <1>6, <2>2 DEF Stage, Failed
      <3> QED BY <3>1, <3>2 DEF Plans
    <2> QED BY <1>1, <2>1, <2>2
  <1>8. TypeOK'
    <2>1. todo' \in Seq(Ops)
      BY <1>7, RestSteps
    <2> QED BY <1>1, <2>1 DEF IInv, TypeOK, Tried
  <1>9. Place(s1, k1)'
    BY <1>1, <1>3, <1>7 DEF Place, RequestInv
  <1>10. PrintInv' /\ DriverInv'
    BY <1>1 DEF IInv, PrintInv, DriverInv
  <1> QED BY <1>1, <1>8, <1>9, <1>10, Leads

\* A write that should fault returns: the half asks what became of the data.
LEMMA WriteReturnsStep == ASSUME IInv, WriteReturns PROVE IInv'
  <1>1. /\ verdict = "none" /\ Next /\ todo # <<>> /\ Head(todo) = Access("write") /\ Tried
        /\ todo' = Tail(todo) /\ modified' = FALSE
        /\ UNCHANGED <<nvBoot, chk, printed, test, verbose, secure, verdict, faults, req, At, pc, msg,
                       intr, dog, disturbed>>
    BY DEF WriteReturns, Leaves, Next, Client, Accessing, At, SendsAddress
  <1>2. PICK s \in Plans, k \in 1..8 : Place(s, k)
    BY <1>1 DEF IInv, Running
  <1>3. /\ s \in WriteFns /\ k = 3 /\ Tail(todo) = Rest(s, 4) /\ At = "none" /\ Stage(s, 3)
    <2>1. /\ Places(s, k, Head(todo)) /\ Tail(todo) = Rest(s, k + 1) /\ Stage(s, k)
          /\ At # "none" => Head(todo).svc # "cpu"
      BY <1>1, <1>2, Asking
    <2>2. s \in WriteFns /\ k = 3
      BY <1>1, <2>1 DEF Places
    <2> QED BY <1>1, <2>1, <2>2 DEF Access, Op
  <1>4. test[chk] = s /\ TriedUpTo(chk - 1) /\ Granted
    BY <1>3 DEF Stage, Ends, WriteFns, WriteStage
  <1>5. TriedUpTo(chk)' /\ TriedUpTo(chk - 1)' /\ (Excused => Excused') /\ (Unset => Unset')
    BY <1>1, <1>4, TriedNow, Kept DEF IInv
  <1>6. Granted' /\ ~Taken'
    BY <1>1, <1>3, <1>4, <1>5, Growth DEF Granted, Taken, IInv
  <1>7. todo' = Rest(s, 4) /\ Stage(s, 4)'
    <2>1. WriteStage(4)'
      BY <1>1, <1>3, <1>5, <1>6 DEF WriteStage, Taken
    <2> QED BY <1>1, <1>3, <1>4, <1>5, <2>1 DEF Stage
  <1>8. TypeOK'
    <2>1. todo' \in Seq(Ops)
      BY <1>2, <1>7, RestSteps
    <2> QED BY <1>1, <2>1 DEF IInv, TypeOK, Tried
  <1>9. Place(s, 4)'
    BY <1>1, <1>3, <1>7 DEF Place, RequestInv
  <1>10. PrintInv' /\ DriverInv'
    BY <1>1 DEF IInv, PrintInv, DriverInv
  <1> QED BY <1>1, <1>8, <1>9, <1>10, <1>2, Leads

\* Where a half that has come to its end is.
LEMMA HalfDone ==
    ASSUME IInv, verdict = "none", NEW s \in Plans, NEW k \in 1..8, Place(s, k)
    PROVE  /\ todo = <<>> => At = "none" /\ Calm /\ TriedUpTo(chk) /\ Unset
           /\ todo = <<Failure>> => At = "none" /\ Failed
  <1>1. ASSUME todo = <<>> PROVE At = "none" /\ Calm /\ TriedUpTo(chk) /\ Unset
    <2>1. k > Len(Plan(s)) /\ At = "none" /\ Stage(s, k)
      BY <1>1, Asking
    <2>2. /\ s \in {"init", "rd"} => k > 7
          /\ s \in {"exitPass", "exitFail", "but", "eoi", "eoi_intr"} => k > 4
          /\ s \in {"closeExit", "closeDog", "closeTest", "closeNv"} => k > 2
          /\ s \in WriteFns => k > 5
          /\ s = "irq" => k > 3
          /\ s = "failure" => k > 1
      <3>1. CASE s \in {"init", "rd", "irq", "failure"}
        BY <2>1, <3>1, PlanLength DEF WriteFns
      <3>2. CASE s \in {"exitPass", "exitFail", "but", "eoi", "eoi_intr"}
        BY <2>1, <3>2, PlanLength DEF WriteFns
      <3>3. CASE s \in {"closeExit", "closeDog", "closeTest", "closeNv"}
        BY <2>1, <3>3, PlanLength DEF WriteFns
      <3>4. CASE s \in WriteFns
        BY <2>1, <3>4, PlanLength DEF WriteFns
      <3> QED BY <3>1, <3>2, <3>3, <3>4
    <2>3. \/ s = "rd" /\ ReadStage(k) /\ k = 8
          \/ s \in WriteFns /\ WriteStage(k) /\ k = 6
          \/ s = "irq" /\ IrqStage(k) /\ k = 4
      <3>1. ~(s \in {"eoi", "eoi_intr"} /\ EoiStage(k))
        BY <2>2 DEF EoiStage
      <3>2. s = test[chk]
        BY <2>1, <2>2 DEF Stage
      <3>3. /\ s = "rd" => ReadStage(k) /\ k = 8
            /\ s \in WriteFns => WriteStage(k) /\ k = 6
            /\ s = "irq" => IrqStage(k) /\ k = 4
            /\ s \in {"eoi", "eoi_intr"} => EoiStage(k)
        BY <2>1, <2>2 DEF Stage, WriteFns, Ends, ReadStage, WriteStage, IrqStage
      <3> QED BY <3>1, <3>2, <3>3, Ranges DEF TestFns, IInv
    <2>4. At = "none" /\ Calm /\ TriedUpTo(chk)
      BY <2>1, <2>3 DEF ReadStage, WriteStage, IrqStage, Taken
    <2>5. TriedUpTo(1)
      BY <2>4, Ranges DEF TriedUpTo, IInv
    <2> QED BY <2>3, <2>4, <2>5 DEF ReadStage, WriteStage, IrqStage, Unset
  <1>2. ASSUME todo = <<Failure>> PROVE At = "none" /\ Failed
    <2>1. todo # <<>> /\ Head(todo) = Failure /\ Failure.svc = "cpu"
      BY <1>2 DEF Failure, Op
    <2>2. Places(s, k, Failure) /\ Stage(s, k) /\ At = "none"
      BY <2>1, Asking
    <2>3. \/ s \in {"but", "eoi", "eoi_intr"} /\ k = 4
          \/ s \in {"closeDog", "closeTest", "closeNv"} /\ k = 2
          \/ s = "failure"
      BY <2>2 DEF Places
    <2>4. CASE s \in {"eoi", "eoi_intr"} /\ k = 4
      <3>1. EoiStage(4)
        BY <2>2, <2>4 DEF Stage, WriteFns, Ends
      <3> QED BY <2>2, <3>1 DEF EoiStage, Failed, Taken
    <2>5. CASE ~(s \in {"eoi", "eoi_intr"})
      <3>1. Failed
        BY <2>2, <2>3, <2>5 DEF Stage, WriteFns, TestFns
      <3> QED BY <2>2, <3>1
    <2> QED BY <2>3, <2>4, <2>5
  <1> QED BY <1>1, <1>2

\* A check starts where no other is under way.
LEMMA Starts ==
    ASSUME IInv, Next, NEW i \in DOMAIN test, StartCheck(i), nvBoot' \in Flags, Unset',
           UNCHANGED <<test, verbose, secure, verdict, tried, disturbed, faults, req, pc, msg,
                       intr, dog, modified>>,
           Calm, At = "none", req["printer"].at = "none" \/ ~verbose, TriedUpTo(i - 1)
    PROVE  IInv'
  <1>1. /\ verdict = "none" /\ chk' = i /\ todo' = Script[test[i]]
        /\ printed' = IF verbose THEN 0 ELSE Len(PrintScript)
    BY Growth DEF IInv, StartCheck
  <1>2. test[i] \in TestFns /\ test[i] \in Plans /\ i \in Nat \ {0}
    <2>1. test \in Seq(TestFns)
      BY TestsAssumption DEF IInv, TypeOK
    <2>2. Len(test) \in Nat /\ i \in 1..Len(test) /\ test[i] \in TestFns
      BY <2>1, LenProperties, ElementOfSeq
    <2> QED BY <2>2 DEF Plans
  <1>3. todo' = Rest(test[i], 1) /\ todo' \in Seq(Ops)
    <2>1. Plan(test[i]) = Script[test[i]]
      BY <1>2 DEF Plan, TestFns, WriteFns
    <2>2. Rest(test[i], 1) = Plan(test[i]) /\ Rest(test[i], 1) \in Seq(Ops)
      BY <1>2, RestSteps
    <2> QED BY <1>1, <2>1, <2>2
  <1>4. Len(PrintScript) = 3
    BY DEF PrintScript
  <1>5. TypeOK'
    BY <1>1, <1>2, <1>3, <1>4 DEF IInv, TypeOK, Flags
  <1>6. PrintInv'
    BY <1>1, <1>4 DEF IInv, PrintInv, TypeOK
  <1>7. DriverInv'
    BY <1>1 DEF IInv, DriverInv, Calm, Unset
  <1>8. Stage(test[i], 1)'
    <2>1. Calm' /\ At' = "none" /\ ~Taken'
      BY DEF Calm, At, Taken
    <2>2. TriedUpTo(i - 1)'
      BY DEF TriedUpTo
    <2>3. ReadStage(1)' /\ WriteStage(1)' /\ EoiStage(1)' /\ IrqStage(1)'
      BY <1>1, <2>1 DEF ReadStage, WriteStage, EoiStage, IrqStage
    <2>4. TriedUpTo(chk - 1)'
      BY <1>1, <2>2 DEF TriedUpTo
    <2> QED BY <1>1, <1>2, <2>3, <2>4 DEF Stage, TestFns
  <1>9. Place(test[i], 1)'
    BY <1>3, <1>8 DEF Place, RequestInv, At
  <1> QED BY <1>1, <1>2, <1>5, <1>6, <1>7, <1>9, Leads

\* A half that is done leads to the next check or to val_test_exit, a failed one to val_test_exit.
LEMMA EndCheckStep == ASSUME IInv, EndCheck PROVE IInv'
  <1>1. /\ verdict = "none" /\ Next /\ printed = Len(PrintScript) /\ todo \in {<<>>, <<Failure>>}
        /\ UNCHANGED <<test, verbose, secure, verdict, tried, disturbed, faults, req, At, pc, msg,
                       intr, dog, modified>>
    BY DEF EndCheck, Leaves, Next, Client, driverVars, obsVars, At
  <1>2. /\ todo = <<>> => At = "none" /\ Calm /\ TriedUpTo(chk) /\ Unset
        /\ todo = <<Failure>> => At = "none" /\ Failed
    BY <1>1, HalfDone DEF IInv, Running
  <1>3. CASE todo = <<>> /\ chk < Len(test)
    <2>1. StartCheck(chk + 1) /\ nvBoot' \in {nvBoot, "not_expected"}
      BY <1>3 DEF EndCheck
    <2>2. chk + 1 \in DOMAIN test
      BY <1>3, Ranges, TestsAssumption DEF IInv, TypeOK
    <2>3. req["printer"].at = "none"
      BY <1>1 DEF IInv, PrintInv
    <2> DEFINE i == chk + 1
    <2>4. StartCheck(i) /\ i \in DOMAIN test
      BY <2>1, <2>2
    <2>6. TriedUpTo(i - 1)
      <3>1. i - 1 = chk
        BY Ranges DEF IInv
      <3> QED BY <1>2, <1>3, <3>1 DEF TriedUpTo
    <2>5. Calm /\ At = "none"
      BY <1>2, <1>3
    <2>7. nvBoot' \in Flags /\ Unset'
      <3>1. TriedUpTo(1)' = TriedUpTo(1)
        BY <1>1 DEF TriedUpTo
      <3>2. Unset'
        BY <1>2, <1>3, <2>1, <3>1 DEF Unset
      <3> QED BY <3>2 DEF Unset, Flags
    <2> HIDE DEF i
    <2> QED BY <1>1, <2>3, <2>4, <2>5, <2>6, <2>7, Starts
  <1>4. CASE ~(todo = <<>> /\ chk < Len(test))
    <2>1. /\ todo' = TestExit(IF todo = <<>> THEN "pass" ELSE "fail")
          /\ UNCHANGED <<chk, printed, nvBoot>>
      BY <1>4 DEF EndCheck
    <2>2. /\ (Excused => Excused') /\ (TriedUpTo(chk) => TriedUpTo(chk)')
          /\ (PassEarned => PassEarned') /\ (Unset => Unset')
          /\ (Calm => Calm') /\ ~Taken' /\ At' = "none"
      BY <1>1, <1>2, <2>1, Kept DEF IInv, Calm, Taken
    <2>3. PICK s \in {"exitPass", "exitFail"} : todo' = Plan(s) /\ Stage(s, 1)'
      <3>1. CASE todo = <<>>
        <4>1. chk = Len(test)
          BY <1>4, <3>1, Ranges DEF IInv
        <4>2. Stage("exitPass", 1)'
          BY <1>1, <1>2, <2>1, <2>2, <3>1, <4>1 DEF Stage
        <4> QED BY <2>1, <3>1, <4>2 DEF Plan
      <3>2. CASE todo = <<Failure>>
        <4>1. Failed'
          BY <1>1, <1>2, <2>1, <2>2, <3>2 DEF Failed, Taken, Calm
        <4>2. Stage("exitFail", 1)'
          BY <4>1 DEF Stage
        <4>3. todo # <<>>
          BY <3>2
        <4> QED BY <2>1, <4>2, <4>3 DEF Plan
      <3> QED BY <1>1, <3>1, <3>2
    <2>4. s \in Plans /\ todo' = Rest(s, 1) /\ todo' \in Seq(Ops)
      BY <2>3, RestSteps DEF Plans, Ends
    <2>5. TypeOK'
      BY <1>1, <2>1, <2>4 DEF IInv, TypeOK
    <2>6. Place(s, 1)'
      BY <2>2, <2>3, <2>4 DEF Place, RequestInv
    <2>7. PrintInv' /\ DriverInv'
      BY <1>1, <2>1 DEF IInv, PrintInv, DriverInv
    <2> QED BY <1>1, <2>4, <2>5, <2>6, <2>7, Leads
  <1> QED BY <1>3, <1>4

\* val_test_init leads to the check, val_test_exit to the verdict.
LEMMA EnterOrLeaveStep == ASSUME IInv, EnterOrLeave PROVE IInv'
  <1>1. /\ verdict = "none" /\ Next
        /\ UNCHANGED <<test, verbose, secure, tried, disturbed, faults, req, At, pc, msg, intr,
                       dog, modified>>
    BY DEF EnterOrLeave, Leaves, Next, Client, driverVars, obsVars, At
  <1>2. PICK s \in Plans, k \in 1..8 : Place(s, k)
    BY <1>1 DEF IInv, Running
  <1>3. CASE /\ todo = <<FirstCheck>> /\ StartCheck(chk) /\ nvBoot' = "not_expected"
             /\ UNCHANGED verdict
    <2>1. todo # <<>> /\ Head(todo) = FirstCheck /\ FirstCheck.svc = "cpu"
      BY <1>3 DEF FirstCheck, Op
    <2>2. Places(s, k, FirstCheck) /\ Stage(s, k) /\ At = "none"
      BY <1>1, <1>2, <2>1, Asking
    <2>3. s = "init"
      BY <2>2 DEF Places
    <2>4. Calm /\ TriedUpTo(chk - 1) /\ printed = Len(PrintScript)
      BY <2>2, <2>3 DEF Stage, Ends, TestFns, WriteFns
    <2>5. req["printer"].at = "none"
      BY <1>1, <2>4 DEF IInv, PrintInv
    <2>6. chk \in DOMAIN test
      BY DEF IInv, TypeOK
    <2>7. nvBoot' \in Flags /\ Unset'
      BY <1>3 DEF Unset, Flags
    <2> QED BY <1>1, <1>3, <2>2, <2>4, <2>5, <2>6, <2>7, Starts
  <1>4. CASE \E v \in {"pass", "fail"} :
                todo = <<Result(v)>> /\ verdict' = v /\ UNCHANGED <<clientVars, nvBoot>>
    <2>1. PICK v \in {"pass", "fail"} :
             todo = <<Result(v)>> /\ verdict' = v /\ UNCHANGED <<clientVars, nvBoot>>
      BY <1>4
    <2>2. todo # <<>> /\ Head(todo) = Result(v) /\ Result(v).svc = "cpu"
      BY <2>1 DEF Result, Op
    <2>3. Places(s, k, Result(v)) /\ Stage(s, k)
      BY <1>2, <2>2, <1>1, Asking
    <2>4. /\ (Excused => Excused') /\ (TriedUpTo(chk) => TriedUpTo(chk)')
      BY <1>1, <2>1, Kept DEF IInv, clientVars
    <2>5. Verdict'
      <3>1. CASE v = "pass"
        <4>1. s = "exitPass" /\ k = 4
          BY <2>3, <3>1 DEF Places
        <4>2. TriedUpTo(chk) /\ chk = Len(test)
          BY <2>3, <4>1 DEF Stage, Ends, TestFns, WriteFns
        <4> QED BY <1>1, <2>1, <2>4, <3>1, <4>2 DEF Verdict, clientVars
      <3>2. CASE v = "fail"
        <4>1. s \in {"exitFail", "closeExit"}
          BY <2>3, <3>2 DEF Places
        <4>2. Excused
          BY <2>3, <4>1 DEF Stage, Ends, TestFns, WriteFns, Failed
        <4> QED BY <1>1, <2>1, <2>4, <3>2, <4>2 DEF Verdict
      <3> QED BY <3>1, <3>2
    <2>6. TypeOK'
      BY <1>1, <2>1 DEF IInv, TypeOK, clientVars
    <2>7. NoStrayReply'
      <3>1. NoStrayReply
        BY <1>1, PlaceShows DEF IInv
      <3> QED BY <1>1, <2>1, <3>1 DEF NoStrayReply, clientVars
    <2>8. FaultIsAnnounced'
      <3>1. Head(todo) # Access("read") /\ Head(todo) # Access("write")
        BY <2>2 DEF Result, Access, Op
      <3> QED BY <2>1, <3>1 DEF FaultIsAnnounced, Accessing, clientVars
    <2> QED BY <2>1, <2>5, <2>6, <2>7, <2>8 DEF IInv
  <1> QED BY <1>3, <1>4 DEF EnterOrLeave

\* The prints of the server partition leave the tester where it is.
LEMMA PrintStep == ASSUME IInv, SendPrint \/ PrintAnswered PROVE IInv'
  <1>1. /\ verdict = "none" /\ Next
        /\ UNCHANGED <<chk, todo, test, verbose, secure, verdict, nvBoot, tried, disturbed, faults,
                       pc, msg, intr, dog, modified>>
    BY
    DEF SendPrint, PrintAnswered, Leaves, Next, Server, driverVars, obsVars, clientVars
  <1>2. Len(PrintScript) = 3 /\ printed \in 0..3
    BY DEF PrintScript, IInv, TypeOK
  <1>3. \A i \in 1..3 : PrintScript[i] \in Ops /\ PrintScript[i].svc = "uart"
    <2>1. \A i \in 1..3 : PrintScript[i] \in Ops
      BY <1>2 DEF Ops, PrintScript
    <2> QED BY <2>1 DEF PrintScript, Op
  <1>4. /\ printed < 3 /\ printed' \in 0..3 /\ req' \in Steps /\ At' = At
        /\ req'["tester"] = req["tester"]
        /\ \/ /\ printed' = printed /\ req'["printer"].at = "sent"
              /\ req'["printer"].op.svc = "uart"
           \/ req'["printer"].at = "none"
    <2>1. CASE SendPrint
      <3>1. /\ printed < 3 /\ printed' = printed
            /\ req' = [req EXCEPT !["printer"] = [op |-> PrintScript[printed + 1], at |-> "sent"]]
        BY <1>2, <2>1 DEF SendPrint, Leaves, clientVars
      <3>2. PrintScript[printed + 1] \in Ops /\ PrintScript[printed + 1].svc = "uart"
        BY <1>2, <1>3, <3>1
      <3> QED BY <1>2, <3>1, <3>2 DEF IInv, TypeOK, Steps, Actors, At
    <2>2. CASE PrintAnswered
      <3>1. /\ printed' = printed + 1 /\ req' = [req EXCEPT !["printer"] = NoRequest]
            /\ req["printer"].at = "ok"
        BY <2>2 DEF PrintAnswered
      <3>2. printed < 3
        BY <1>1, <1>2, <3>1 DEF IInv, PrintInv
      <3>3. NoRequest \in [op : Ops, at : {"none", "sent", "taken", "ok", "refused"}]
        BY DEF NoRequest, Ops, Op
      <3> QED BY <1>2, <3>1, <3>2, <3>3 DEF IInv, TypeOK, Steps, Actors, At, NoRequest
    <2> QED BY <2>1, <2>2
  <1>5. PICK s \in Plans, k \in 1..8 : Place(s, k)
    BY <1>1 DEF IInv, Running
  <1>6. Stage(s, k) /\ s # "init"
    BY <1>2, <1>4, <1>5 DEF Place, Stage, Ends, TestFns, WriteFns
  <1>7. Stage(s, k)'
    <2>1. /\ Taken' = Taken /\ Excused' = Excused /\ Calm' = Calm
          /\ TriedUpTo(chk)' = TriedUpTo(chk) /\ TriedUpTo(chk - 1)' = TriedUpTo(chk - 1)
          /\ TriedUpTo(1)' = TriedUpTo(1)
      BY <1>1, <1>4 DEF Taken, Excused, Announces, Calm, TriedUpTo
    <2>4. Unset' = Unset /\ PassEarned' = PassEarned
      BY <1>1, <2>1 DEF Unset, PassEarned
    <2>2. Failed' = Failed /\ Granted' = Granted
      BY <1>1, <2>1, <2>4 DEF Failed, Granted
    <2>3. /\ ReadStage(k)' = ReadStage(k) /\ WriteStage(k)' = WriteStage(k)
          /\ EoiStage(k)' = EoiStage(k) /\ IrqStage(k)' = IrqStage(k)
      BY <1>1, <1>4, <2>1, <2>2, <2>4 DEF ReadStage, WriteStage, EoiStage, IrqStage
    <2> QED BY <1>1, <1>4, <1>6, <2>1, <2>2, <2>3 DEF Stage
  <1>8. TypeOK'
    BY <1>1, <1>2, <1>4 DEF IInv, TypeOK, Steps
  <1>9. PrintInv' /\ DriverInv'
    <2>1. PrintInv'
      BY <1>1, <1>2, <1>4 DEF IInv, PrintInv
    <2> QED BY <1>1, <2>1 DEF IInv, DriverInv
  <1>10. Place(s, k)'
    BY <1>1, <1>4, <1>5, <1>7 DEF Place, RequestInv
  <1> QED BY <1>1, <1>8, <1>9, <1>10, Leads

\* A test starts, or is run again, at the first operation of val_test_init.
LEMMA InitStarts == "init" \in Plans /\ TestInit = Rest("init", 1) /\ TestInit \in Seq(Ops)
  <1>1. "init" \in Plans
    BY DEF Plans
  <1>2. Plan("init") = TestInit
    BY DEF Plan
  <1> QED BY <1>1, <1>2, RestSteps

\* A reset is a pass only when the checks were tried, and a failure only when it is excused.
LEMMA Resets ==
    ASSUME IInv, Next, Reset, UNCHANGED <<verbose, secure, test, faults>>,
           disturbed' \in BOOLEAN, tried' \subseteq DOMAIN test,
           nvBoot \in {"not_expected", "but_failed"} => Excused,
           nvBoot \in {"expected_ns", "expected_s"} => verbose \/ 1..chk \subseteq tried',
           nvBoot = "reenter" => verbose \/ 1..1 \subseteq tried'
    PROVE  IInv'
  <1>1. /\ verdict = "none" /\ (Excused => Excused') /\ NoStrayReply /\ FaultIsAnnounced
        /\ DriverInv /\ PrintInv
    BY Growth, PlaceShows DEF IInv
  <1>2. /\ req' \in Steps /\ At' = "none" /\ req'["printer"].at = "none"
        /\ pc' = "wait" /\ msg' = "none" /\ intr' = "off" /\ dog' = FALSE /\ modified' = FALSE
    BY DEF Reset, NoRequest, Steps, Ops, Op, Actors, At, Goto
  <1>3. CASE nvBoot = "reenter" /\ Len(test) > 1
    <2>1. /\ chk' = 2 /\ todo' = TestInit /\ printed' = Len(PrintScript)
          /\ UNCHANGED <<nvBoot, verdict>>
      BY <1>3 DEF Reset, StartTest
    <2>2. "init" \in Plans /\ todo' = Rest("init", 1) /\ todo' \in Seq(Ops)
      BY <2>1, InitStarts
    <2>3. 2 \in DOMAIN test
      BY <1>3, Ranges, TestsAssumption DEF IInv, TypeOK
    <2>4. TypeOK'
      <3>1. Len(PrintScript) = 3
        BY DEF PrintScript
      <3>2. chk' \in DOMAIN test' /\ tried' \subseteq DOMAIN test'
        BY <2>1, <2>3
      <3>3. /\ printed' \in 0..Len(PrintScript) /\ test' \in Tests
            /\ verbose' \in Verbose /\ secure' \in BOOLEAN
            /\ faults' \in 0..MaxFaults /\ nvBoot' \in Flags /\ verdict' = "none"
        BY <1>1, <2>1, <3>1 DEF IInv, TypeOK
      <3> QED BY <1>2, <2>2, <3>2, <3>3 DEF TypeOK, Steps
    <2>5. PrintInv' /\ DriverInv'
      BY <1>2, <1>3, <2>1 DEF PrintInv, DriverInv
    <2>6. Stage("init", 1)'
      <3>1. TriedUpTo(chk - 1)'
        <4>1. chk' - 1 = 1
          BY <2>1
        <4>2. verbose' = verbose /\ (verbose \/ 1..1 \subseteq tried')
          BY <1>3
        <4> QED BY <4>1, <4>2 DEF TriedUpTo
      <3> QED BY <1>2, <2>1, <3>1 DEF Stage, Calm, Taken
    <2>7. Place("init", 1)'
      BY <1>2, <2>2, <2>6 DEF Place, RequestInv
    <2> QED BY <1>1, <2>1, <2>2, <2>4, <2>5, <2>7, Leads
  <1>4. CASE ~(nvBoot = "reenter" /\ Len(test) > 1)
    <2>1. /\ verdict' = IF nvBoot = "not_expected" THEN "sim_error"
                        ELSE IF nvBoot = "but_failed" THEN "fail" ELSE "pass"
          /\ UNCHANGED <<chk, todo, nvBoot, printed>>
      BY <1>4 DEF Reset
    <2>2. TypeOK'
      BY <1>2, <2>1 DEF IInv, TypeOK, Steps
    <2>3. FaultIsAnnounced' /\ NoStrayReply'
      BY <1>1, <1>2, <2>1 DEF FaultIsAnnounced, NoStrayReply, Accessing, Announces
    <2>4. Verdict'
      <3>1. CASE nvBoot \in {"not_expected", "but_failed"}
        BY <1>1, <2>1, <3>1 DEF Verdict
      <3>2. CASE nvBoot \notin {"not_expected", "but_failed"}
        <4>1. nvBoot \in {"expected_ns", "expected_s", "reenter"}
          BY <3>2 DEF IInv, TypeOK, Flags
        <4>2. chk = Len(test) \/ test[chk] \notin {"rd", "irq"}
          BY <1>1, <1>4, <4>1, Ranges DEF DriverInv, WriteFns, IInv
        <4>3. TriedUpTo(chk)'
          <5>1. nvBoot = "reenter" => chk = 1
            BY <1>4, Ranges DEF IInv
          <5> QED BY <2>1, <4>1, <5>1 DEF TriedUpTo
        <4> QED BY <2>1, <3>2, <4>2, <4>3 DEF Verdict
      <3> QED BY <3>1, <3>2
    <2> QED BY <2>1, <2>2, <2>3, <2>4 DEF IInv
  <1> QED BY <1>3, <1>4

\* The access faults: its reset was announced, or the check is one that announces it too late.
LEMMA AccessFaultsStep == ASSUME IInv, AccessFaults PROVE IInv'
  <1>1. /\ verdict = "none" /\ Next /\ Accessing /\ Tried /\ Reset
        /\ UNCHANGED <<verbose, secure, test, faults, disturbed>>
    BY DEF AccessFaults, Leaves, Next, Client
  <1>2. PICK s \in Plans, k \in 1..8 : Place(s, k)
    BY <1>1 DEF IInv, Running
  <1>3. Places(s, k, Head(todo)) /\ Stage(s, k)
    BY <1>1, <1>2, Asking DEF Accessing
  <1>4. /\ s = test[chk] /\ TriedUpTo(chk - 1)
        /\ nvBoot \in {"not_expected", "but_failed"} => Excused
    <2>1. CASE Head(todo) = Access("read")
      <3>1. s = "rd" /\ k = 7
        BY <1>3, <2>1 DEF Places
      <3> QED BY <1>3, <3>1 DEF Stage, WriteFns, Ends, ReadStage
    <2>2. CASE Head(todo) = Access("write")
      <3>1. s \in WriteFns /\ k = 3
        BY <1>3, <2>2 DEF Places
      <3>2. s = test[chk] /\ TriedUpTo(chk - 1) /\ Granted
        BY <1>3, <3>1 DEF Stage, WriteFns, Ends, WriteStage
      <3>3. test[chk] # "wr_data" => Excused
        BY <3>1, <3>2 DEF WriteFns, Excused, Announces, IInv, TypeOK
      <3> QED BY <3>2, <3>3 DEF Granted
    <2> QED BY <1>1, <2>1, <2>2 DEF Accessing
  <1>5. (verbose \/ 1..chk \subseteq tried') /\ (verbose \/ 1..1 \subseteq tried')
    <2>1. chk \in Nat /\ chk >= 1
      BY Ranges DEF IInv
    <2>2. verbose \/ 1..chk \subseteq tried'
      BY <1>1, <1>4, <2>1 DEF Tried, TriedUpTo
    <2> QED BY <2>1, <2>2
  <1>6. disturbed' \in BOOLEAN /\ tried' \subseteq DOMAIN test
    BY <1>1 DEF IInv, TypeOK, Tried
  <1> QED BY <1>1, <1>4, <1>5, <1>6, Resets

\* The watchdog resets the system after the partition was stopped.
LEMMA StoppedStep == ASSUME IInv, Stopped PROVE IInv'
  <1>1. /\ verdict = "none" /\ Next /\ pc \in {"stopped", "stray"} /\ Reset
        /\ UNCHANGED <<verbose, secure, test, faults, disturbed, tried>>
    BY DEF Stopped, Leaves, Next, Driver, obsVars
  <1>2. PICK s \in Plans, k \in 1..8 : Place(s, k)
    BY <1>1 DEF IInv, Running
  <1>3. Stage(s, k) /\ At \in {"none", "sent", "taken", "ok", "refused"}
    BY <1>2, Ranges DEF Place, IInv
  <1>4. /\ nvBoot \in {"not_expected", "but_failed"} => Excused
        /\ nvBoot \in {"expected_ns", "expected_s"} => TriedUpTo(chk)
        /\ nvBoot = "reenter" => TriedUpTo(1)
    <2>1. ~Calm
      BY <1>1 DEF Calm
    <2>2. CASE Failed
      BY <1>1, <2>1, <2>2 DEF Failed, PassEarned
    <2>3. CASE WriteStage(k)
      <3>1. CASE Granted
        BY <1>1, <3>1 DEF Granted, Excused, TriedUpTo, Unset
      <3>2. CASE ~Granted
        <4>1. (k = 2 /\ At = "refused") \/ (k = 4 /\ Taken)
          <5>1. k \in {2, 3, 4}
            BY <2>1, <2>3 DEF WriteStage
          <5>2. k # 3 /\ (k = 2 => At \in {"taken", "refused"}) /\ (k = 4 => Taken)
            BY <1>3, <2>1, <2>3, <3>2, <5>1 DEF WriteStage, Taken
          <5>3. ~(k = 2 /\ Taken)
            BY <1>1, <2>3 DEF WriteStage
          <5> QED BY <5>1, <5>2, <5>3 DEF Taken
        <4> QED BY <1>1, <2>1, <2>3, <4>1 DEF WriteStage, Unset
      <3> QED BY <3>1, <3>2
    <2>4. CASE EoiStage(k)
      BY <1>1, <1>3, <2>1, <2>4 DEF EoiStage, PassEarned, Taken
    <2>5. CASE IrqStage(k)
      BY <1>1, <1>3, <2>1, <2>5 DEF IrqStage, Unset, Taken
    <2>6. ~ReadStage(k)
      BY <2>1 DEF ReadStage
    <2> QED BY <1>3, <2>1, <2>2, <2>3, <2>4, <2>5, <2>6 DEF Stage
  <1>5. /\ nvBoot \in {"expected_ns", "expected_s"} => verbose \/ 1..chk \subseteq tried'
        /\ nvBoot = "reenter" => verbose \/ 1..1 \subseteq tried'
    BY <1>1, <1>4 DEF TriedUpTo
  <1>6. disturbed' \in BOOLEAN /\ tried' \subseteq DOMAIN test
    BY <1>1 DEF IInv, TypeOK
  <1> QED BY <1>1, <1>4, <1>5, <1>6, Resets

(* ------------------------------ Theorems ------------------------------- *)

\* A test starts with val_test_init.
LEMMA Initially == Init => IInv
  <1> SUFFICES ASSUME Init PROVE IInv
    OBVIOUS
  <1>1. "init" \in Plans /\ todo = Rest("init", 1) /\ todo \in Seq(Ops)
    BY InitStarts DEF Init
  <1>2. test \in Seq(TestFns) /\ test # <<>> /\ verbose \in BOOLEAN /\ MaxFaults \in Nat
    BY TestsAssumption DEF Init
  <1>3. 1 \in DOMAIN test
    BY <1>2
  <1>4. NoRequest \in [op : Ops, at : {"none", "sent", "taken", "ok", "refused"}]
    BY DEF NoRequest, Ops, Op
  <1>5. Len(PrintScript) = 3
    BY DEF PrintScript
  <1>6. TypeOK
    <2>1. req \in [Actors -> [op : Ops, at : {"none", "sent", "taken", "ok", "refused"}]]
      BY <1>4 DEF Init
    <2>2. faults \in 0..MaxFaults /\ printed \in 0..Len(PrintScript)
      BY <1>2, <1>5 DEF Init
    <2>3. chk \in DOMAIN test /\ tried \subseteq DOMAIN test
      BY <1>3 DEF Init
    <2> QED BY <1>1, <2>1, <2>2, <2>3 DEF Init, TypeOK, Flags
  <1>7. At = "none" /\ req["printer"].at = "none"
    BY DEF Init, At, NoRequest, Actors
  <1>8. Stage("init", 1)
    BY <1>7 DEF Init, Stage, Calm, Taken, TriedUpTo
  <1>9. Place("init", 1)
    BY <1>1, <1>7, <1>8 DEF Place, RequestInv
  <1>10. PrintInv /\ DriverInv
    BY <1>7 DEF Init, PrintInv, DriverInv
  <1> QED BY <1>1, <1>6, <1>9, <1>10 DEF IInv, Running, Verdict, Init

\* Every step preserves the invariant.
LEMMA Inductive == IInv /\ [Next]_vars => IInv'
  <1> SUFFICES ASSUME IInv, [Next]_vars PROVE IInv'
    OBVIOUS
  <1>1. CASE Client
    BY <1>1, SendRequestStep, GotAnswerStep, AccessFaultsStep, ReadReturnsStep,
        WriteReturnsStep,
       EndCheckStep, EnterOrLeaveStep DEF Client
  <1>2. CASE Server
    BY <1>2, PrintStep DEF Server
  <1>3. CASE Driver
    BY <1>3, ServeUartStep, ServeWatchdogStep, ServeNvmemStep, TakeTestStep,
        UnexpectedStep,
       AnnounceStep, GrantStep, SecondRequestStep, DoubtStep, CompareStep, GenerateStep,
       InterruptStep, IrqRoutingStep, EoiWaitStep, EoiAnnounceStep, EoiStep, StoppedStep
       DEF Driver
  <1>4. CASE UNCHANGED vars
    <2>1. /\ UNCHANGED <<nvBoot, verbose, secure, test, chk, todo, printed, req, pc, msg, intr,
                         dog, modified, verdict, tried, disturbed, faults>>
      BY <1>4 DEF vars, clientVars, driverVars, obsVars
    <2>2. TypeOK' /\ PrintInv' = PrintInv /\ DriverInv' = DriverInv /\ Verdict'
          /\ FaultIsAnnounced' = FaultIsAnnounced /\ NoStrayReply' = NoStrayReply
      BY <2>1
      DEF IInv, TypeOK, PrintInv, DriverInv, Verdict, FaultIsAnnounced, NoStrayReply,
                  Accessing, Announces, TriedUpTo, Excused
    <2>3. At' = At
      BY <2>1 DEF At
    <2>4. \A s \in Plans : \A k \in 1..8 : Place(s, k) => Place(s, k)'
      BY <2>1, <2>3, Sameness DEF Place, RequestInv
    <2>5. Running => Running'
      BY <2>4 DEF Running
    <2> QED BY <2>1, <2>2, <2>5 DEF IInv
  <1> QED BY <1>1, <1>2, <1>3, <1>4 DEF Next

\* So it holds throughout.
LEMMA Invariance == Spec => []IInv
  <1> QED BY Initially, Inductive, PTL DEF Spec

\* Every variable stays in its range, NV_BOOT included, whatever the sequence of
\* calls, refusals and resets.
THEOREM TypeCorrect == Spec => []TypeOK
  <1>1. IInv => TypeOK
    BY DEF IInv
  <1> QED BY <1>1, Invariance, PTL

\* The client half never makes the access that should fault before the reset that it
\* causes was announced, where the check announces it first.
THEOREM FaultsAreAnnounced == Spec => []FaultIsAnnounced
  <1>1. IInv => FaultIsAnnounced
    BY PlaceShows DEF IInv
  <1> QED BY <1>1, Invariance, PTL

\* Only in the write checks does the driver partition reply to a message that it does
\* not hold.
THEOREM StrayRepliesAreOfWrites == Spec => []NoStrayReply
  <1>1. IInv => NoStrayReply
    BY PlaceShows DEF IInv
  <1> QED BY <1>1, Invariance, PTL

\* A failure is deserved: it takes an implementation that misbehaves, an access that
\* fails, a print, or a check that announces its reset too late.
THEOREM ConformingIsPassed == Spec => []ConformingPasses
  <1>1. IInv => ConformingPasses
    BY DEF IInv, Verdict, ConformingPasses, Excused
  <1> QED BY <1>1, Invariance, PTL

\* A pass is earned: a build that does not print passes only tests whose checks all
\* came to what they are about, given that a test has nothing left to do after a
\* reset that it expects.
THEOREM PassesAreTried ==
    ASSUME OneReset
    PROVE  Spec => []PassMeansTried
  <1>1. IInv => PassMeansTried
    <2> SUFFICES ASSUME IInv, verdict = "pass", ~verbose PROVE tried = DOMAIN test
      BY DEF PassMeansTried
    <2>1. test \in Tests /\ test \in Seq(TestFns) /\ tried \subseteq DOMAIN test
      BY TestsAssumption DEF IInv, TypeOK
    <2>2. Len(test) \in Nat /\ chk \in 1..Len(test) /\ DOMAIN test = 1..Len(test)
      BY <2>1, LenProperties, Ranges DEF IInv
    <2>3. chk = Len(test)
      <3>1. ASSUME chk # Len(test) PROVE test[chk] \in {"rd", "irq"}
        <4> DEFINE n == Len(test)
        <4>0. n \in Nat /\ chk \in 1..n /\ chk # n
          BY <2>2, <3>1
        <4> HIDE DEF n
        <4>2. chk \in 1..n - 1
          BY <4>0
        <4>1. chk \in 1..Len(test) - 1
          BY <4>2 DEF n
        <4> QED BY <2>1, <4>1, SMTT(20) DEF OneReset
      <3> QED BY <3>1 DEF IInv, Verdict
    <2> QED BY <2>1, <2>2, <2>3 DEF IInv, Verdict, TriedUpTo
  <1> QED BY <1>1, Invariance, PTL

=====
