---------------------------- MODULE TbsaDebugProofs ----------------------------
(***************************************************************************)
(* No answer of the debugger is lost, for every target and every suite in  *)
(* the order of the pool: a test that begins with the debugger there is    *)
(* not skipped, d001 passes, and d002 passes just when the port keeps the  *)
(* debugger out of secure memory.                                          *)
(*                                                                         *)
(* The invariant says, for each step of a test's plan for a region, whose  *)
(* turn it is and what the words and the region hold then, and of the loop *)
(* over the regions that it has counted all that lie behind it.            *)
(***************************************************************************)
EXTENDS TbsaDebug, TLAPS, FiniteSetTheorems, SequenceTheorems

\* The tests of the open port and that of the closed one.
Opens  == Suite[test] \in {"d001", "d002"}
Shuts  == Suite[test] = "d003"

TypeInv ==
    /\ memory \in Memories /\ restricts \in BOOLEAN /\ lone \in BOOLEAN
    /\ nsOnly \in BOOLEAN /\ cb \in BOOLEAN
    /\ mem = [r \in Regions |-> mem[r]]
    /\ verdict \in Seq({"pass", "fail", "skip"})
    /\ test = Len(verdict) + 1 /\ test \in 1..(Len(Suite) + 1)
    /\ pc \in {"check", "port", "visit", "region", "end", "over"}
    /\ pc = "over" <=> test = Len(Suite) + 1

\* Whose turn it is.
Idle         == ~halted /\ script = "wait" /\ flag.ready /\ ~flag.tx
Answer       == ~halted /\ flag = Served
Request(seq) == halted /\ flag.seq = seq
Cleared      == halted /\ flag = Zero

\* Without the debugger every test is skipped.
AbsentInv ==
    script = "absent" =>
        /\ pc \in {"check", "over"} /\ ~halted /\ ~started /\ ~cb
        /\ data = Word("unknown") /\ met = {}

\* A request for a cold boot is that of test_d004; a test is met when it begins.
BootInv ==
    /\ cb => pc # "over" /\ Suite[test] = "d004"
    /\ met \subseteq 1..test
    /\ pc = "check" /\ ~cb => test \notin met

\* test_d002 leaves the port to non-secure memory.
NsInv == nsOnly => \E t \in DOMAIN Suite : t <= test /\ Suite[t] = "d002"

\* Between two tests the debugger acknowledges the last one and signs for the next.
CheckInv ==
    script # "absent" /\ pc = "check" /\ ~cb =>
        /\ script = "wait"
        /\ \/ ~halted /\ flag = Ready /\ data = Word(IF started THEN "next" ELSE "init")
           \/ Request("next") /\ started

\* A test that starts, visits a component or ends has nothing to ask.
IdleInv ==
    pc \in {"port", "visit", "end"} /\ (Opens \/ Shuts) => Idle /\ started /\ ~resumed

\* Where the loop over the regions is.
Before(c) == {r \in Regions : r[1] < c}
Passed(r) == r[1] < at[1] \/ (r[1] = at[1] /\ r[2] < at[2])
LoopInv ==
    pc \in {"visit", "region"} /\ (Opens \/ Shuts) =>
        /\ at \in Regions /\ visited = Cardinality(Before(at[1]))
        /\ pc = "visit" => at[2] = 1
        /\ Suite[test] = "d002" /\ ~restricts => \A r \in Regions : Passed(r) => Kind(r) # "s"

PortInv ==
    pc \in {"visit", "region"} /\ Opens =>
        port = "open" /\ nsOnly = (Suite[test] = "d002")

\* A test of the open port has done k steps for its region.
OpenStage(k) ==
    LET written == mem[at] = IF Reaches(at) THEN "T" ELSE "N"
    IN  /\ k \in {0, 1, 4, 5, 9} => Idle
        /\ k \in {1, 2} => mem[at] = "T"
        /\ k \in {5, 6} => mem[at] = "N"
        /\ k = 2 => /\ script = "wait"
                    /\ \/ Request("open_read") /\ data = Address(at)
                       \/ Answer /\ data = Content(at)
        /\ k = 6 => \/ Request("open_write") /\ script = "wait" /\ data = Address(at)
                    \/ Answer /\ script = "open_write" /\ addr = at
        /\ k = 7 => \/ Request("open_write") /\ script = "open_write" /\ addr = at /\ data = Word("T")
                       /\ mem[at] = "N"
                    \/ Answer /\ script = "wait" /\ written
        /\ k \in {3, 8} => Idle \/ (Cleared /\ script = "wait")
        /\ k = 3 => taken = Word(IF Reaches(at) THEN "T" ELSE "refused")
        /\ k = 8 => written
        /\ k >= 4 /\ Suite[test] = "d002" /\ ~restricts => Kind(at) # "s"
        /\ k < 9 => Kind(at) # "other"

\* The same for test_d003.
ClosedStage(k) ==
    /\ k \in {0, 1, 6, 7, 13} => Idle
    /\ k = 2 => \/ Request("closed_read") /\ script = "wait"
                \/ Answer /\ script \in {"closed_read", "wait"}
    /\ k \in {3, 4} => Answer /\ script \in {"closed_read", "wait"}
    /\ k = 5 => Idle \/ (Cleared /\ script \in {"closed_read", "wait"})
    /\ k = 8 => \/ Request("closed_write") /\ script = "wait"
                \/ Answer /\ script = "closed_write"
    /\ k = 9 => \/ Request("closed_write") /\ script = "closed_write"
                \/ Answer /\ script \in {"closed_again", "wait"}
    /\ k \in {10, 11} => Answer /\ script \in {"closed_again", "wait"}
    /\ k = 12 => Idle \/ (Cleared /\ script \in {"closed_again", "wait"})

OpenLeft(k)   == SubSeq(OpenSteps, k + 1, 9)
ClosedLeft(k) == SubSeq(ClosedSteps, k + 1, 13)
RegionInv ==
    /\ pc = "region" /\ Opens => \E k \in 0..9 : todo = OpenLeft(k) /\ OpenStage(k)
    /\ pc = "region" /\ Shuts => \E k \in 0..13 : todo = ClosedLeft(k) /\ ClosedStage(k)
    /\ pc = "region" /\ (Opens \/ Shuts) => started /\ ~resumed

\* The end of the test knows what became of it.
EndInv ==
    pc = "end" =>
        /\ Suite[test] = "d001" => result = "none"
        /\ Suite[test] = "d002" =>
              result \in {"none", "fail"} /\ (result = "none" <=> restricts \/ ~HasSecure)

ResultInv ==
    /\ result \in {"none", "fail", "skip"}
    /\ pc # "end" => result = "none"
    /\ result = "skip" => Suite[test] = "d004" /\ lone

StepInv ==
    /\ BootInv /\ NsInv /\ CheckInv /\ IdleInv /\ LoopInv /\ PortInv /\ RegionInv
    /\ EndInv /\ ResultInv

IInv == TypeInv /\ AbsentInv /\ StepInv /\ DebuggerIsUsed

-----------------------------------------------------------------------------
(* The regions *)

\* The type of a target.
MemoryType == Seq(Seq({"ns", "s", "other"}) \ {<<>>}) \ {<<>>}

\* What a target has: components, their regions, and the kind of each.
LEMMA MemoryFacts ==
    ASSUME memory \in Memories
    PROVE  /\ Len(memory) \in Nat \ {0} /\ DOMAIN memory = 1..Len(memory)
           /\ \A c \in 1..Len(memory) : /\ Len(memory[c]) \in Nat \ {0}
                                        /\ DOMAIN memory[c] = 1..Len(memory[c])
                                        /\ \A i \in 1..Len(memory[c]) : memory[c][i] \in {"ns", "s", "other"}
  <1>1. memory \in MemoryType
    BY MemoriesAssumption DEF MemoryType
  <1>2. Len(memory) \in Nat \ {0} /\ DOMAIN memory = 1..Len(memory)
    BY <1>1, EmptySeq, LenProperties DEF MemoryType
  <1>3. ASSUME NEW c \in 1..Len(memory)
        PROVE  /\ Len(memory[c]) \in Nat \ {0} /\ DOMAIN memory[c] = 1..Len(memory[c])
               /\ \A i \in 1..Len(memory[c]) : memory[c][i] \in {"ns", "s", "other"}
    <2>1. memory[c] \in Seq({"ns", "s", "other"}) /\ memory[c] # <<>>
      BY <1>1, ElementOfSeq DEF MemoryType
    <2> QED BY <2>1, EmptySeq, LenProperties
  <1> QED BY <1>2, <1>3

\* A region is the place of an instance in a component, ...
LEMMA RegionFacts ==
    ASSUME memory \in Memories
    PROVE  \A c, i : <<c, i>> \in Regions <=> c \in 1..Len(memory) /\ i \in 1..Len(memory[c])
  <1>1. DOMAIN memory = 1..Len(memory) /\ \A c \in 1..Len(memory) : DOMAIN memory[c] = 1..Len(memory[c])
    BY MemoryFacts
  <1> QED BY <1>1 DEF Regions

\* ... and each is of a kind.
LEMMA RegionPairs ==
    ASSUME memory \in Memories, NEW r \in Regions
    PROVE  /\ r = <<r[1], r[2]>> /\ r[1] \in 1..Len(memory) /\ r[2] \in 1..Len(memory[r[1]])
           /\ Kind(r) \in {"ns", "s", "other"}
  <1>1. PICK c \in DOMAIN memory : r \in {<<c, i>> : i \in DOMAIN memory[c]}
    BY DEF Regions
  <1>2. PICK i \in DOMAIN memory[c] : r = <<c, i>>
    BY <1>1
  <1>3. r = <<r[1], r[2]>> /\ r[1] \in 1..Len(memory) /\ r[2] \in 1..Len(memory[r[1]])
    BY <1>2, MemoryFacts
  <1> QED BY <1>3, MemoryFacts DEF Kind

\* The regions of a component are as many as it has, ...
LEMMA ComponentSize ==
    ASSUME memory \in Memories, NEW c \in 1..Len(memory)
    PROVE  LET P == {r \in Regions : r[1] = c}
           IN  IsFiniteSet(P) /\ Cardinality(P) = Len(memory[c])
  <1> DEFINE P == {r \in Regions : r[1] = c}
             f == [i \in 1..Len(memory[c]) |-> <<c, i>>]
  <1>1. \A i \in 1..Len(memory[c]) : f[i] \in P
    BY RegionFacts
  <1>2. \A r \in P : \E i \in 1..Len(memory[c]) : f[i] = r
    <2> SUFFICES ASSUME NEW r \in P PROVE \E i \in 1..Len(memory[c]) : f[i] = r
      OBVIOUS
    <2>1. r = <<r[1], r[2]>> /\ r[1] = c /\ r[2] \in 1..Len(memory[r[1]])
      BY RegionPairs
    <2> QED BY <2>1
  <1>3. \A i, j \in 1..Len(memory[c]) : f[i] = f[j] => i = j
    OBVIOUS
  <1>4. f \in [1..Len(memory[c]) -> P]
    <2> HIDE DEF P
    <2> QED BY <1>1
  <1>5. f \in Bijection(1..Len(memory[c]), P)
    <2> HIDE DEF P, f
    <2> QED BY <1>2, <1>3, <1>4 DEF Bijection, Injection, Surjection, IsInjective
  <1>6. Len(memory[c]) \in Nat
    BY MemoryFacts
  <1>7. ExistsBijection(1..Len(memory[c]), P)
    <2> HIDE DEF P, f
    <2> QED BY <1>5 DEF ExistsBijection
  <1>8. IsFiniteSet(P) /\ Cardinality(P) = Len(memory[c])
    <2> HIDE DEF P, f
    <2> QED BY <1>6, <1>7, FS_NatBijection, FS_CountingElements
  <1> QED BY <1>8

\* ... and there are finitely many.
LEMMA RegionsFinite ==
    ASSUME memory \in Memories
    PROVE  IsFiniteSet(Regions)
  <1> DEFINE Part(c) == {<<c, i>> : i \in DOMAIN memory[c]}
             Parts == {Part(c) : c \in DOMAIN memory}
             f == [c \in DOMAIN memory |-> Part(c)]
  <1>1. f \in Surjection(DOMAIN memory, Parts)
    BY DEF Surjection
  <1>2. IsFiniteSet(DOMAIN memory)
    BY MemoryFacts, FS_Interval
  <1>3. IsFiniteSet(Parts)
    <2> HIDE DEF f, Parts
    <2> QED BY <1>1, <1>2, FS_Surjection
  <1>4. ASSUME NEW c \in DOMAIN memory PROVE IsFiniteSet(Part(c))
    <2> DEFINE g == [i \in DOMAIN memory[c] |-> <<c, i>>]
    <2>1. g \in Surjection(DOMAIN memory[c], Part(c))
      BY DEF Surjection
    <2>2. IsFiniteSet(DOMAIN memory[c])
      BY MemoryFacts, FS_Interval
    <2> HIDE DEF g, Part
    <2> QED BY <2>1, <2>2, FS_Surjection
  <1>5. \A T \in Parts : IsFiniteSet(T)
    <2> HIDE DEF f
    <2> QED BY <1>4
  <1>6. Regions = UNION Parts
    BY DEF Regions
  <1> HIDE DEF Parts
  <1> QED BY <1>3, <1>5, <1>6, FS_UNION

\* The regions before a component are those before the one before it, and its own.
LEMMA CountOn ==
    ASSUME memory \in Memories, NEW c \in 1..Len(memory)
    PROVE  /\ Cardinality(Before(c)) \in Nat
           /\ Cardinality(Before(c + 1)) = Cardinality(Before(c)) + Len(memory[c])
  <1> DEFINE P == {r \in Regions : r[1] = c}
  <1>1. IsFiniteSet(P) /\ Cardinality(P) = Len(memory[c])
    BY ComponentSize
  <1>2. IsFiniteSet(Before(c)) /\ Cardinality(Before(c)) \in Nat
    BY RegionsFinite, FS_Subset, FS_CardinalityType DEF Before
  <1>3. Before(c + 1) = Before(c) \cup P /\ Before(c) \cap P = {}
    BY RegionPairs DEF Before
  <1>4. Cardinality({}) = 0 /\ Cardinality(P) \in Nat
    BY <1>1, FS_EmptySet, MemoryFacts
  <1>5. Cardinality(Before(c) \cup P)
            = Cardinality(Before(c)) + Cardinality(P) - Cardinality(Before(c) \cap P)
    <2> HIDE DEF P
    <2> QED BY <1>1, <1>2, FS_Union
  <1>6. Cardinality(Before(c + 1)) = Cardinality(Before(c)) + Len(memory[c]) - 0
    BY <1>1, <1>3, <1>4, <1>5, Zenon
  <1>7. Len(memory[c]) \in Nat
    BY MemoryFacts
  <1> QED BY <1>2, <1>6, <1>7

\* The loop is at its end when it has counted them all.
LEMMA CountedAll ==
    ASSUME memory \in Memories, NEW c \in 1..Len(memory)
    PROVE  Cardinality(Before(c + 1)) < Total <=> c + 1 \in 1..Len(memory)
  <1>1. IsFiniteSet(Regions) /\ Cardinality(Regions) \in Nat /\ Before(c + 1) \in SUBSET Regions
    BY RegionsFinite, FS_CardinalityType DEF Before
  <1>2. /\ Cardinality(Before(c + 1)) \in Nat /\ Cardinality(Before(c + 1)) <= Cardinality(Regions)
        /\ Cardinality(Before(c + 1)) = Cardinality(Regions) => Before(c + 1) = Regions
    BY <1>1, FS_Subset, FS_CardinalityType
  <1>3. ASSUME c + 1 \in 1..Len(memory) PROVE Before(c + 1) # Regions
    <2>1. <<c + 1, 1>> \in Regions
      BY <1>3, RegionFacts, MemoryFacts
    <2>2. <<c + 1, 1>> \notin Before(c + 1)
      BY DEF Before
    <2> QED BY <2>1, <2>2
  <1>4. ASSUME c + 1 \notin 1..Len(memory) PROVE Before(c + 1) = Regions
    <2>1. c = Len(memory) /\ c \in Nat
      <3>1. Len(memory) \in Nat
        BY MemoryFacts
      <3> QED BY <1>4, <3>1
    <2>2. \A r \in Regions : r[1] \in 1..Len(memory)
      BY RegionPairs
    <2> QED BY <2>1, <2>2 DEF Before
  <1> QED BY <1>1, <1>2, <1>3, <1>4 DEF Total

-----------------------------------------------------------------------------
(* The plans *)

StepType == [op : {"put", "ask", "set", "judge", "take", "cold"},
             arg : {"T", "N", "address", "closed", "open", "data", "memory", "none"},
             seq : {"open_read", "open_write", "closed_read", "closed_write", "none"}]

\* The plans are sequences of steps.
LEMMA OpenPlan == OpenSteps \in Seq(StepType) /\ Len(OpenSteps) = 9
  BY DEF OpenSteps, StepType, Put, Ask, Take, Judge, Step

LEMMA ClosedPlan == ClosedSteps \in Seq(StepType) /\ Len(ClosedSteps) = 13
  BY DEF ClosedSteps, StepType, Put, Ask, Take, Judge, Set, Step

\* A test follows its plan.
LEMMA OpenFollows == ASSUME Opens PROVE Steps = OpenSteps
  <1>1. Suite[test] # "d003" /\ Suite[test] # "d004"
    BY DEF Opens
  <1> QED BY <1>1 DEF Steps, Opens

LEMMA ClosedFollows == ASSUME Shuts PROVE Steps = ClosedSteps
  BY DEF Steps, Shuts

\* The head and the tail of what is left of a plan.
LEMMA OpenRest ==
    /\ \A k \in 0..8 : /\ OpenLeft(k) # <<>> /\ Head(OpenLeft(k)) = OpenSteps[k + 1]
                      /\ Tail(OpenLeft(k)) = OpenLeft(k + 1)
    /\ OpenLeft(9) = <<>>
    /\ OpenLeft(0) = OpenSteps
  <1>1. ASSUME NEW k \in 0..8
        PROVE  LET s == SubSeq(OpenSteps, k + 1, 9)
               IN  s # <<>> /\ Head(s) = OpenSteps[k + 1] /\ Tail(s) = SubSeq(OpenSteps, k + 2, 9)
    <2> DEFINE s == SubSeq(OpenSteps, k + 1, 9)
    <2>1. k + 1 \in 1..9 /\ 9 \in (k + 1)..9
      OBVIOUS
    <2>2. Head(s) = OpenSteps[k + 1] /\ Tail(s) = SubSeq(OpenSteps, k + 2, 9)
      BY <2>1, OpenPlan, HeadTailOfSubSeq
    <2>3. Len(s) = 9 - (k + 1) + 1
      BY <2>1, OpenPlan, SubSeqProperties, ElementOfSeq
    <2>4. s # <<>>
      <3> HIDE DEF s
      <3> QED BY <2>1, <2>3, EmptySeq
    <2> QED BY <2>2, <2>4
  <1>2. ASSUME NEW k \in 0..8 PROVE SubSeq(OpenSteps, k + 2, 9) = OpenLeft(k + 1)
    <2>1. (k + 1) + 1 = k + 2
      OBVIOUS
    <2> QED BY <2>1, Zenon DEF OpenLeft
  <1>3. SubSeq(OpenSteps, 10, 9) = <<>> /\ SubSeq(OpenSteps, 1, 9) = OpenSteps
    BY OpenPlan, SubSeqEmpty, SubSeqFull
  <1>4. OpenLeft(9) = <<>> /\ OpenLeft(0) = OpenSteps
    BY <1>3 DEF OpenLeft
  <1>5. ASSUME NEW k \in 0..8
        PROVE  /\ OpenLeft(k) # <<>> /\ Head(OpenLeft(k)) = OpenSteps[k + 1]
               /\ Tail(OpenLeft(k)) = OpenLeft(k + 1)
    BY <1>1, <1>2, Zenon DEF OpenLeft
  <1> QED BY <1>4, <1>5

LEMMA ClosedRest ==
    /\ \A k \in 0..12 : /\ ClosedLeft(k) # <<>> /\ Head(ClosedLeft(k)) = ClosedSteps[k + 1]
                      /\ Tail(ClosedLeft(k)) = ClosedLeft(k + 1)
    /\ ClosedLeft(13) = <<>>
    /\ ClosedLeft(0) = ClosedSteps
  <1>1. ASSUME NEW k \in 0..12
        PROVE  LET s == SubSeq(ClosedSteps, k + 1, 13)
               IN  s # <<>> /\ Head(s) = ClosedSteps[k + 1] /\ Tail(s) = SubSeq(ClosedSteps, k + 2, 13)
    <2> DEFINE s == SubSeq(ClosedSteps, k + 1, 13)
    <2>1. k + 1 \in 1..13 /\ 13 \in (k + 1)..13
      OBVIOUS
    <2>2. Head(s) = ClosedSteps[k + 1] /\ Tail(s) = SubSeq(ClosedSteps, k + 2, 13)
      BY <2>1, ClosedPlan, HeadTailOfSubSeq
    <2>3. Len(s) = 13 - (k + 1) + 1
      BY <2>1, ClosedPlan, SubSeqProperties, ElementOfSeq
    <2>4. s # <<>>
      <3> HIDE DEF s
      <3> QED BY <2>1, <2>3, EmptySeq
    <2> QED BY <2>2, <2>4
  <1>2. ASSUME NEW k \in 0..12 PROVE SubSeq(ClosedSteps, k + 2, 13) = ClosedLeft(k + 1)
    <2>1. (k + 1) + 1 = k + 2
      OBVIOUS
    <2> QED BY <2>1, Zenon DEF ClosedLeft
  <1>3. SubSeq(ClosedSteps, 14, 13) = <<>> /\ SubSeq(ClosedSteps, 1, 13) = ClosedSteps
    BY ClosedPlan, SubSeqEmpty, SubSeqFull
  <1>4. ClosedLeft(13) = <<>> /\ ClosedLeft(0) = ClosedSteps
    BY <1>3 DEF ClosedLeft
  <1>5. ASSUME NEW k \in 0..12
        PROVE  /\ ClosedLeft(k) # <<>> /\ Head(ClosedLeft(k)) = ClosedSteps[k + 1]
               /\ Tail(ClosedLeft(k)) = ClosedLeft(k + 1)
    BY <1>1, <1>2, Zenon DEF ClosedLeft
  <1> QED BY <1>4, <1>5

\* What the steps are.
LEMMA OpenOps ==
    /\ \A k \in 0..8 :
          /\ OpenSteps[k + 1].op = "put" => k \in {0, 4}
          /\ OpenSteps[k + 1].op = "ask" => k \in {1, 5, 6}
          /\ OpenSteps[k + 1].op = "take" => k \in {2, 7}
          /\ OpenSteps[k + 1].op = "judge" => k \in {3, 8}
          /\ OpenSteps[k + 1].op \notin {"set", "cold"}
    /\ OpenSteps[1].arg = "T" /\ OpenSteps[2].arg = "address" /\ OpenSteps[2].seq = "open_read"
    /\ OpenSteps[4].arg = "data" /\ OpenSteps[5].arg = "N"
    /\ OpenSteps[6].arg = "address" /\ OpenSteps[6].seq = "open_write"
    /\ OpenSteps[7].arg = "T" /\ OpenSteps[7].seq = "open_write" /\ OpenSteps[9].arg = "memory"
  BY DEF OpenSteps, Put, Ask, Take, Judge, Step

LEMMA ClosedOps ==
    /\ \A k \in 0..12 :
          /\ ClosedSteps[k + 1].op = "put" => k \in {0, 6}
          /\ ClosedSteps[k + 1].op = "ask" => k \in {1, 7, 8}
          /\ ClosedSteps[k + 1].op = "set" => k \in {2, 3, 9, 10}
          /\ ClosedSteps[k + 1].op = "take" => k \in {4, 11}
          /\ ClosedSteps[k + 1].op = "judge" => k \in {5, 12}
          /\ ClosedSteps[k + 1].op # "cold"
    /\ ClosedSteps[1].arg = "T" /\ ClosedSteps[7].arg = "N"
    /\ ClosedSteps[2].seq = "closed_read" /\ ClosedSteps[8].seq = "closed_write"
    /\ ClosedSteps[9].seq = "closed_write" /\ ClosedSteps[9].arg = "T"
  BY DEF ClosedSteps, Put, Ask, Take, Judge, Set, Step

\* What the flags say.
LEMMA FlagFacts ==
    /\ Ready.ready /\ ~Ready.tx /\ ~Ready.rx /\ Ready.seq = "none"
    /\ Served.ready /\ ~Served.tx /\ Served.rx /\ Served.seq = "none"
    /\ ~Zero.ready /\ Zero.seq = "none"
    /\ \A s, t, r, y : Bits(s, t, r, y).seq = s
  BY DEF Ready, Served, Zero, Bits

\* A datum is not another one, nor an address.
LEMMA WordFacts ==
    /\ \A v : Word(v).v = v
    /\ \A v, w : Word(v) = Word(w) => v = w
    /\ \A r : Address(r).r = r /\ Address(r).v = "address"
  BY DEF Word, Address

-----------------------------------------------------------------------------
(* The steps of the processor *)

\* The target does not change.
LEMMA TargetStays ==
    ASSUME Next
    PROVE  /\ memory' = memory /\ restricts' = restricts /\ lone' = lone
           /\ Regions' = Regions /\ HasSecure' = HasSecure
           /\ \A r : Kind(r)' = Kind(r)
           /\ \A c : Before(c)' = Before(c)
  <1>1. UNCHANGED target
    BY
    DEF Next, Processor, Script, Check, Port, Visit, NextInstance, PutDatum,
        AskDebugger, TakeAnswer,
           JudgeAnswer, SetPort, ColdReset, End, Attach, ServeZero, ServeOpenRead, ServeAddress, ServeNext,
           StoreDatum, ReadClosed, StoreAgain, ReadLocked, HandOver, Over, vars
  <1>2. memory' = memory /\ restricts' = restricts /\ lone' = lone
    BY <1>1 DEF target
  <1>3. Regions' = Regions /\ \A r : Kind(r)' = Kind(r)
    BY <1>2 DEF Regions, Kind
  <1> QED BY <1>2, <1>3 DEF HasSecure, Before

\* The test that is not over is one of the suite.
LEMMA Current ==
    ASSUME TypeInv, pc # "over"
    PROVE  /\ test \in 1..Len(Suite) /\ test \in DOMAIN Suite
           /\ Suite[test] \in {"d001", "d002", "d003", "d004"}
           /\ Opens \/ Shuts \/ Suite[test] = "d004"
  <1>1. Suite \in Seq({"d001", "d002", "d003", "d004"}) /\ Len(Suite) \in Nat /\ DOMAIN Suite = 1..Len(Suite)
    BY SuiteAssumption
  <1>2. test \in 1..Len(Suite)
    BY <1>1 DEF TypeInv
  <1>3. Suite[test] \in {"d001", "d002", "d003", "d004"}
    BY <1>1, <1>2
  <1> QED BY <1>1, <1>2, <1>3 DEF Opens, Shuts

\* A verdict is appended to those of the tests before.
LEMMA Concluded ==
    ASSUME TypeInv, pc # "over", NEW v \in {"pass", "fail", "skip"}, Conclude(v)
    PROVE  /\ verdict' \in Seq({"pass", "fail", "skip"}) /\ test' = Len(verdict') + 1
           /\ test' \in 1..(Len(Suite) + 1) /\ test' = test + 1 /\ result' = "none"
           /\ pc' \in {"check", "over"} /\ (pc' = "over" <=> test' = Len(Suite) + 1)
           /\ DOMAIN verdict' = 1..test /\ verdict'[test] = v
           /\ DOMAIN verdict = 1..(test - 1) /\ \A t \in DOMAIN verdict : verdict'[t] = verdict[t]
  <1>1. test \in 1..Len(Suite) /\ Len(Suite) \in Nat
    BY Current, SuiteAssumption
  <1>2. /\ verdict \in Seq({"pass", "fail", "skip"}) /\ verdict' = Append(verdict, v)
        /\ test = Len(verdict) + 1 /\ test' = test + 1 /\ result' = "none"
    BY DEF TypeInv, Conclude
  <1>3. /\ Append(verdict, v) \in Seq({"pass", "fail", "skip"})
        /\ Len(Append(verdict, v)) = Len(verdict) + 1
        /\ \A i \in 1..Len(verdict) : Append(verdict, v)[i] = verdict[i]
        /\ Append(verdict, v)[Len(verdict) + 1] = v
    BY <1>2, AppendProperties
  <1>4. DOMAIN verdict' = 1..test /\ DOMAIN verdict = 1..(test - 1)
    BY <1>2, <1>3, LenProperties
  <1>5. pc' \in {"check", "over"} /\ (pc' = "over" <=> test' = Len(Suite) + 1)
    BY <1>1, <1>2 DEF Conclude
  <1> QED BY <1>1, <1>2, <1>3, <1>4, <1>5

\* After a test the order of the suite leaves only some tests.
LEMMA InTurn ==
    ASSUME InOrder, TypeInv, pc # "over", NEW t \in DOMAIN Suite, t < test
    PROVE  Suite[t] # "d004" /\ (Suite[test] = "d001" => Suite[t] # "d002")
  BY Current DEF InOrder

\* The state is well typed after every step.
LEMMA Types ==
    ASSUME IInv, Next
    PROVE  TypeInv'
  <1> USE DEF peVars, loopVars, nvVars, doneVars, portVars, words, scriptVars
  <1>1. memory' \in Memories /\ restricts' \in BOOLEAN /\ lone' \in BOOLEAN
    BY TargetStays DEF IInv, TypeInv
  <1>2. mem' = [r \in Regions |-> mem'[r]]
    <2>1. ASSUME mem' = mem PROVE mem' = [r \in Regions |-> mem'[r]]
      BY <2>1 DEF IInv, TypeInv
    <2>2. ASSUME NEW a, NEW v, mem' = [mem EXCEPT ![a] = v] PROVE mem' = [r \in Regions |-> mem'[r]]
      BY <2>2 DEF IInv, TypeInv
    <2>3. CASE Store
      BY <2>1, <2>2, <2>3 DEF Store
    <2>4. CASE PutDatum
      BY <2>2, <2>4 DEF PutDatum
    <2>5. CASE mem' = mem
      BY <2>1, <2>5
    <2>6. Store \/ PutDatum \/ mem' = mem
      BY
      DEF Next, Processor, Script, Check, Port, Visit, NextInstance, AskDebugger,
          TakeAnswer,
             JudgeAnswer, SetPort, ColdReset, End, Attach, ServeZero, ServeOpenRead, ServeAddress, ServeNext,
             StoreDatum, ReadClosed, StoreAgain, ReadLocked, HandOver, Over, vars
    <2> QED BY <2>3, <2>4, <2>5, <2>6
  <1>3. nsOnly' \in BOOLEAN /\ cb' \in BOOLEAN
    BY
    DEF IInv, TypeInv, Next, Processor, Script, Check, Port, Visit, NextInstance,
        PutDatum, AskDebugger,
           TakeAnswer, JudgeAnswer, SetPort, ColdReset, End, Attach, ServeZero, ServeOpenRead, ServeAddress,
           ServeNext, StoreDatum, ReadClosed, StoreAgain, ReadLocked, HandOver, Over, vars
  <1>4. /\ verdict' \in Seq({"pass", "fail", "skip"})
        /\ test' = Len(verdict') + 1 /\ test' \in 1..(Len(Suite) + 1)
        /\ pc' \in {"check", "port", "visit", "region", "end", "over"}
        /\ pc' = "over" <=> test' = Len(Suite) + 1
    <2>1. CASE \E v \in {"pass", "fail", "skip"} : pc # "over" /\ Conclude(v)
      BY <2>1, Concluded DEF IInv
    <2>2. CASE /\ UNCHANGED <<test, verdict>>
               /\ pc' = pc \/ (pc # "over" /\ pc' \in {"check", "port", "visit", "region", "end"})
      BY <2>2 DEF IInv, TypeInv
    <2>3. CASE Check
      BY <2>1, <2>2, <2>3 DEF Check
    <2>4. CASE End
      <3>1. result \in {"none", "fail", "skip"}
        BY <2>4 DEF End, IInv, StepInv, ResultInv
      <3> QED BY <2>1, <2>4, <3>1 DEF End
    <2>5. CASE Port \/ Visit \/ NextInstance \/ PutDatum \/ AskDebugger \/ TakeAnswer \/ JudgeAnswer
               \/ SetPort \/ ColdReset
      BY <2>2, <2>5
      DEF Port, Visit, NextInstance, PutDatum, AskDebugger, TakeAnswer, JudgeAnswer,
          SetPort,
                        ColdReset, Doing, GoOn, CleanUp
    <2>6. CASE Attach \/ Script \/ Over
      BY <2>2, <2>6
      DEF Attach, Script, ServeZero, ServeOpenRead, ServeAddress, ServeNext, StoreDatum,
                        ReadClosed, StoreAgain, ReadLocked, HandOver, Over, vars
    <2> QED BY <2>3, <2>4, <2>5, <2>6 DEF Next, Processor
  <1>5. Regions' = Regions
    BY TargetStays
  <1> QED BY <1>1, <1>2, <1>3, <1>4, <1>5 DEF TypeInv

\* Where a test is in its plan.
LEMMA OpenAt ==
    ASSUME IInv, pc = "region", Opens, todo # <<>>
    PROVE  \E k \in 0..8 : OpenStage(k) /\ Head(todo) = OpenSteps[k + 1] /\ Tail(todo) = OpenLeft(k + 1)
  <1>1. PICK k \in 0..9 : todo = OpenLeft(k) /\ OpenStage(k)
    BY DEF IInv, StepInv, RegionInv
  <1>2. k # 9
    BY <1>1, OpenRest
  <1>3. k \in 0..8
    BY <1>2
  <1>4. Head(todo) = OpenSteps[k + 1] /\ Tail(todo) = OpenLeft(k + 1)
    BY <1>1, <1>3, OpenRest
  <1> QED BY <1>1, <1>3, <1>4

\* A region with nothing left to do is at the end of the plan.
LEMMA OpenDone ==
    ASSUME IInv, pc = "region", Opens, todo = <<>>
    PROVE  OpenStage(9)
  <1>1. PICK k \in 0..9 : todo = OpenLeft(k) /\ OpenStage(k)
    BY DEF IInv, StepInv, RegionInv
  <1>2. ~(k \in 0..8)
    BY <1>1, OpenRest
  <1>3. k = 9
    BY <1>2
  <1> QED BY <1>1, <1>3

LEMMA ClosedAt ==
    ASSUME IInv, pc = "region", Shuts, todo # <<>>
    PROVE  \E k \in 0..12 : ClosedStage(k) /\ Head(todo) = ClosedSteps[k + 1] /\ Tail(todo) = ClosedLeft(k + 1)
  <1>1. PICK k \in 0..13 : todo = ClosedLeft(k) /\ ClosedStage(k)
    BY DEF IInv, StepInv, RegionInv
  <1>2. k # 13
    BY <1>1, ClosedRest
  <1>3. k \in 0..12
    BY <1>2
  <1>4. Head(todo) = ClosedSteps[k + 1] /\ Tail(todo) = ClosedLeft(k + 1)
    BY <1>1, <1>3, ClosedRest
  <1> QED BY <1>1, <1>3, <1>4

LEMMA ClosedDone ==
    ASSUME IInv, pc = "region", Shuts, todo = <<>>
    PROVE  ClosedStage(13)
  <1>1. PICK k \in 0..13 : todo = ClosedLeft(k) /\ ClosedStage(k)
    BY DEF IInv, StepInv, RegionInv
  <1>2. ~(k \in 0..12)
    BY <1>1, ClosedRest
  <1>3. k = 13
    BY <1>2
  <1> QED BY <1>1, <1>3

\* Only test_d004 asks for a reset, and only test_d003 changes the port on the way.
LEMMA ColdIsLocked ==
    ASSUME IInv, Doing("cold")
    PROVE  Suite[test] = "d004"
  <1>1. pc = "region" /\ todo # <<>> /\ Head(todo).op = "cold"
    BY DEF Doing
  <1>2. ~Opens
    BY <1>1, OpenAt, OpenOps
  <1>3. ~Shuts
    BY <1>1, ClosedAt, ClosedOps
  <1> QED BY <1>1, <1>2, <1>3, Current DEF IInv

LEMMA SetIsClosed ==
    ASSUME IInv, Doing("set")
    PROVE  ~Opens
  <1>1. pc = "region" /\ todo # <<>> /\ Head(todo).op = "set"
    BY DEF Doing
  <1> QED BY <1>1, OpenAt, OpenOps

\* A test of the open or the closed port finds the flag ready to ask and to take.
LEMMA AskInTurn ==
    ASSUME IInv, Doing("ask"), Opens \/ Shuts
    PROVE  flag.ready /\ ~flag.tx
  <1>1. pc = "region" /\ todo # <<>> /\ Head(todo).op = "ask" /\ ~halted
    BY DEF Doing, Running
  <1>2. CASE Opens
    <2>1. PICK k \in 0..8 : OpenStage(k) /\ Head(todo) = OpenSteps[k + 1]
      BY <1>1, <1>2, OpenAt
    <2>2. k \in {1, 5, 6}
      BY <1>1, <2>1, OpenOps
    <2> QED BY <1>1, <2>1, <2>2, FlagFacts DEF OpenStage, Idle, Answer, Request
  <1>3. CASE Shuts
    <2>1. PICK k \in 0..12 : ClosedStage(k) /\ Head(todo) = ClosedSteps[k + 1]
      BY <1>1, <1>3, ClosedAt
    <2>2. k \in {1, 7, 8}
      BY <1>1, <2>1, ClosedOps
    <2> QED BY <1>1, <2>1, <2>2, FlagFacts DEF ClosedStage, Idle, Answer, Request
  <1> QED BY <1>2, <1>3

LEMMA TakeInTurn ==
    ASSUME IInv, Doing("take"), Opens \/ Shuts
    PROVE  flag.ready /\ flag.rx
  <1>1. pc = "region" /\ todo # <<>> /\ Head(todo).op = "take" /\ ~halted
    BY DEF Doing, Running
  <1>2. CASE Opens
    <2>1. PICK k \in 0..8 : OpenStage(k) /\ Head(todo) = OpenSteps[k + 1]
      BY <1>1, <1>2, OpenAt
    <2>2. k \in {2, 7}
      BY <1>1, <2>1, OpenOps
    <2> QED BY <1>1, <2>1, <2>2, FlagFacts DEF OpenStage, Idle, Answer, Request
  <1>3. CASE Shuts
    <2>1. PICK k \in 0..12 : ClosedStage(k) /\ Head(todo) = ClosedSteps[k + 1]
      BY <1>1, <1>3, ClosedAt
    <2>2. k \in {4, 11}
      BY <1>1, <2>1, ClosedOps
    <2> QED BY <1>1, <2>1, <2>2, FlagFacts DEF ClosedStage, Idle, Answer, Request
  <1> QED BY <1>2, <1>3

\* Neither side is at work when a region is done, or when an answer is judged.
LEMMA IdleInTurn ==
    ASSUME IInv, pc = "region", Running, Opens \/ Shuts, todo = <<>> \/ Doing("judge")
    PROVE  Idle
  <1>1. todo # <<>> => Head(todo).op = "judge"
    BY DEF Doing
  <1>2. CASE Opens /\ todo # <<>>
    <2>1. PICK k \in 0..8 : OpenStage(k) /\ Head(todo) = OpenSteps[k + 1]
      BY <1>2, OpenAt
    <2>2. k \in {3, 8}
      BY <1>1, <1>2, <2>1, OpenOps
    <2> QED BY <2>1, <2>2 DEF OpenStage, Cleared, Running
  <1>3. CASE Shuts /\ todo # <<>>
    <2>1. PICK k \in 0..12 : ClosedStage(k) /\ Head(todo) = ClosedSteps[k + 1]
      BY <1>3, ClosedAt
    <2>2. ClosedSteps[k + 1].op = "judge"
      BY <1>1, <1>3, <2>1
    <2>3. k \in {5, 12}
      BY <2>1, <2>2, ClosedOps
    <2> QED BY <2>1, <2>3 DEF ClosedStage, Cleared, Running
  <1>4. CASE Opens /\ todo = <<>>
    BY <1>4, OpenDone DEF OpenStage
  <1>5. CASE Shuts /\ todo = <<>>
    BY <1>5, ClosedDone DEF ClosedStage
  <1> QED BY <1>2, <1>3, <1>4, <1>5

-----------------------------------------------------------------------------
(* What every step preserves *)

\* The result of a test is open until its end.
LEMMA Results ==
    ASSUME InOrder, IInv, Next
    PROVE  ResultInv'
  <1> USE DEF peVars, loopVars, nvVars, doneVars, portVars, words, scriptVars, target
  <1>0. ResultInv
    BY DEF IInv, StepInv
  <1>1. CASE \E v \in {"pass", "fail", "skip"} : Conclude(v)
    BY <1>1 DEF Conclude, ResultInv
  <1>2. CASE test' = test /\ ((pc # "end" /\ result' = result) \/ (pc' = "end" /\ result' = "fail"))
    BY <1>0, <1>2, TargetStays DEF ResultInv
  <1>3. CASE Check
    BY <1>1, <1>2, <1>3 DEF Check
  <1>4. CASE Port
    <2>1. /\ test' = test /\ pc = "port"
          /\ result' = result \/ (result' = "skip" /\ pc' = "end" /\ Suite[test] = "d004" /\ lone)
      BY <1>4 DEF Port
    <2> QED BY <1>0, <2>1, TargetStays DEF ResultInv
  <1>5. CASE End
    <2>1. result \in {"none", "fail", "skip"}
      BY <1>0 DEF ResultInv
    <2> QED BY <1>1, <1>5, <2>1 DEF End
  <1>6. CASE Visit \/ NextInstance \/ PutDatum \/ AskDebugger \/ TakeAnswer \/ JudgeAnswer \/ SetPort
             \/ ColdReset
    BY <1>2, <1>6
    DEF Visit, NextInstance, PutDatum, AskDebugger, TakeAnswer, JudgeAnswer, SetPort,
                      ColdReset, Doing, GoOn, CleanUp
  <1>7. CASE Attach \/ Script \/ Over
    <2>1. test' = test /\ pc' = pc /\ result' = result
      BY <1>7
      DEF Attach, Script, ServeZero, ServeOpenRead, ServeAddress, ServeNext, StoreDatum,
                  ReadClosed, StoreAgain, ReadLocked, HandOver, Over, vars
    <2> QED BY <1>0, <2>1, TargetStays DEF ResultInv
  <1> QED BY <1>3, <1>4, <1>5, <1>6, <1>7 DEF Next, Processor

\* A cold boot is requested, and a test is met, only by the test itself.
LEMMA Boots ==
    ASSUME InOrder, IInv, Next
    PROVE  BootInv'
  <1> USE DEF peVars, loopVars, nvVars, doneVars, portVars, words, scriptVars, target
  <1>0. TypeInv /\ BootInv
    BY DEF IInv, StepInv
  <1>1. CASE /\ \E v \in {"pass", "fail", "skip"} : pc # "over" /\ Conclude(v)
             /\ ~cb' /\ met' \subseteq 1..test
    <2>1. test' = test + 1 /\ test \in Nat /\ pc' \in {"check", "over"}
      BY <1>1, <1>0, Concluded, Current
    <2>2. met' \subseteq 1..test' /\ test' \notin met'
      BY <1>1, <2>1
    <2> QED BY <1>1, <2>2 DEF BootInv
  <1>2. CASE test' = test /\ met' = met /\ cb' = cb /\ pc # "over" /\ pc' \notin {"check", "over"}
    BY <1>0, <1>2 DEF BootInv
  <1>3. CASE Check
    <2>0. met \subseteq 1..test /\ test \in 1..test
      BY <1>0, <1>3, Current DEF Check, BootInv
    <2>1. met' \subseteq 1..test /\ cb' = cb
      BY <1>3, <2>0 DEF Check
    <2>2. CASE cb
      <3>1. pc' = "port" /\ test' = test
        BY <1>0, <1>3, <2>2 DEF Check, BootInv
      <3> QED BY <1>0, <2>1, <3>1 DEF BootInv
    <2>3. CASE ~cb /\ Conclude("skip")
      BY <1>1, <1>3, <2>1, <2>3 DEF Check
    <2>4. CASE ~cb /\ ~Conclude("skip")
      <3>1. pc' = "port" /\ test' = test
        BY <1>3, <2>4 DEF Check
      <3> QED BY <2>1, <2>4, <3>1 DEF BootInv
    <2> QED BY <2>2, <2>3, <2>4
  <1>4. CASE End
    <2>1. ~cb'
      BY <1>0, <1>4 DEF End, BootInv
    <2>2. met' = met /\ pc # "over"
      BY <1>4 DEF End
    <2>3. \E v \in {"pass", "fail", "skip"} : Conclude(v)
      BY <1>4 DEF End, IInv, StepInv, ResultInv
    <2> QED BY <1>0, <1>1, <2>1, <2>2, <2>3 DEF BootInv
  <1>5. CASE ColdReset
    <2>1. Suite[test] = "d004"
      BY <1>5, ColdIsLocked DEF ColdReset
    <2>2. cb' /\ pc' = "check" /\ test' = test /\ met' = met
      BY <1>5 DEF ColdReset
    <2> QED BY <1>0, <2>1, <2>2 DEF BootInv
  <1>6. CASE Port \/ Visit \/ NextInstance \/ PutDatum \/ AskDebugger \/ TakeAnswer \/ JudgeAnswer \/ SetPort
    BY <1>2, <1>6
    DEF Port, Visit, NextInstance, PutDatum, AskDebugger, TakeAnswer, JudgeAnswer,
        SetPort,
                      Doing, GoOn, CleanUp
  <1>7. CASE Attach \/ Script \/ Over
    <2>1. test' = test /\ pc' = pc /\ met' = met /\ cb' = cb
      BY <1>7
      DEF Attach, Script, ServeZero, ServeOpenRead, ServeAddress, ServeNext, StoreDatum,
                  ReadClosed, StoreAgain, ReadLocked, HandOver, Over, vars
    <2> QED BY <1>0, <2>1 DEF BootInv
  <1> QED BY <1>3, <1>4, <1>5, <1>6, <1>7 DEF Next, Processor

\* The port is left to non-secure memory by test_d002 only.
LEMMA NonSecures ==
    ASSUME InOrder, IInv, Next
    PROVE  NsInv'
  <1> USE DEF peVars, loopVars, nvVars, doneVars, portVars, words, scriptVars, target
  <1>0. TypeInv /\ NsInv
    BY DEF IInv, StepInv
  <1>1. CASE nsOnly' = nsOnly /\ test' = test
    BY <1>0, <1>1 DEF NsInv
  <1>2. CASE /\ \E v \in {"pass", "fail", "skip"} : pc # "over" /\ Conclude(v)
             /\ nsOnly' \in {nsOnly, nsOnly \/ Suite[test] = "d002"}
    <2>1. test' = test + 1 /\ test \in DOMAIN Suite
      BY <1>0, <1>2, Concluded, Current
    <2>2. DOMAIN Suite \subseteq Nat /\ test <= test'
      BY <2>1, SuiteAssumption
    <2>3. ASSUME nsOnly PROVE NsInv'
      <3>1. PICK t \in DOMAIN Suite : t <= test /\ Suite[t] = "d002"
        BY <1>0, <2>3 DEF NsInv
      <3>2. t <= test'
        BY <2>1, <2>2, <3>1
      <3> QED BY <3>1, <3>2 DEF NsInv
    <2>4. ASSUME Suite[test] = "d002" PROVE NsInv'
      BY <2>1, <2>2, <2>4 DEF NsInv
    <2> QED BY <1>2, <2>3, <2>4 DEF NsInv
  <1>3. CASE Check
    BY <1>1, <1>2, <1>3 DEF Check
  <1>4. CASE Port
    <2>1. test' = test /\ (nsOnly' = nsOnly \/ nsOnly' = (nsOnly \/ Suite[test] = "d002"))
      BY <1>4 DEF Port
    <2>2. test \in DOMAIN Suite /\ test <= test
      BY <1>0, <1>4, Current DEF Port
    <2> QED BY <1>0, <2>1, <2>2 DEF NsInv
  <1>5. CASE End
    <2>1. \E v \in {"pass", "fail", "skip"} : Conclude(v)
      BY <1>5 DEF End, IInv, StepInv, ResultInv
    <2> QED BY <1>2, <1>5, <2>1 DEF End
  <1>6. CASE ~(Check \/ Port \/ End)
    BY <1>1, <1>6
    DEF Next, Processor, Script, Visit, NextInstance, PutDatum, AskDebugger, TakeAnswer,
           JudgeAnswer, SetPort, ColdReset, Attach, ServeZero, ServeOpenRead, ServeAddress, ServeNext,
           StoreDatum, ReadClosed, StoreAgain, ReadLocked, HandOver, Over, vars
  <1> QED BY <1>3, <1>4, <1>5, <1>6

\* Without the debugger no test begins.
LEMMA Absences ==
    ASSUME InOrder, IInv, Next
    PROVE  AbsentInv'
  <1> USE DEF peVars, loopVars, nvVars, doneVars, portVars, words, scriptVars, target
  <1> SUFFICES ASSUME script' = "absent"
               PROVE  /\ pc' \in {"check", "over"} /\ ~halted' /\ ~started' /\ ~cb'
                      /\ data' = Word("unknown") /\ met' = {}
    BY DEF AbsentInv
  <1>1. script = "absent"
    BY
    DEF Next, Processor, Check, Port, Visit, NextInstance, PutDatum, AskDebugger,
        TakeAnswer,
           JudgeAnswer, SetPort, ColdReset, End, Attach, Script, ServeZero, ServeOpenRead, ServeAddress,
           ServeNext, StoreDatum, ReadClosed, StoreAgain, ReadLocked, HandOver, Over, vars, Stopped
  <1>2. /\ pc \in {"check", "over"} /\ ~halted /\ ~started /\ ~cb
        /\ data = Word("unknown") /\ met = {}
    BY <1>1 DEF IInv, AbsentInv
  <1>3. CASE Check
    <2>1. data # Word(IF started THEN "next" ELSE "init")
      BY <1>2, WordFacts
    <2>2. Conclude("skip") /\ started' = started
      BY <1>2, <1>3, <2>1 DEF Check
    <2>3. pc # "over"
      BY <1>3 DEF Check
    <2>4. pc' \in {"check", "over"}
      BY <2>2, <2>3, Concluded DEF IInv
    <2>5. ~halted' /\ ~cb' /\ data' = data /\ met' = met
      BY <1>1, <1>2, <1>3 DEF Check
    <2> QED BY <1>2, <2>2, <2>4, <2>5
  <1>4. CASE Over
    BY <1>2, <1>4 DEF Over, vars
  <1>5. ~(Port \/ Visit \/ NextInstance \/ PutDatum \/ AskDebugger \/ TakeAnswer \/ JudgeAnswer \/ SetPort
          \/ ColdReset \/ End)
    BY <1>2
    DEF Port, Visit, NextInstance, PutDatum, AskDebugger, TakeAnswer, JudgeAnswer,
        SetPort,
                ColdReset, End, Doing
  <1>6. ~Attach /\ ~Script
    BY <1>1
    DEF Attach, Script, ServeZero, ServeOpenRead, ServeAddress, ServeNext, StoreDatum,
        ReadClosed,
                StoreAgain, ReadLocked, HandOver, Stopped
  <1> QED BY <1>3, <1>4, <1>5, <1>6 DEF Next, Processor

\* The script does nothing while it is not stopped and has nothing left to do.
LEMMA QuietScript == ASSUME Idle PROVE ~Script /\ ~Attach
  BY
  DEF Idle, Script, Attach, ServeZero, ServeOpenRead, ServeAddress, ServeNext,
      StoreDatum, ReadClosed,
         StoreAgain, ReadLocked, HandOver, Stopped

\* A test that may begin is not skipped when the debugger is there.
LEMMA Begins ==
    ASSUME IInv, Check, script # "absent"
    PROVE  pc' = "port" /\ test' = test /\ verdict' = verdict
  <1>1. CASE cb
    <2>1. Suite[test] = "d004"
      BY <1>1 DEF Check, IInv, StepInv, BootInv
    <2> QED BY <1>1, <2>1 DEF Check
  <1>2. CASE ~cb
    <2>1. data = Word(IF started THEN "next" ELSE "init")
      BY <1>2 DEF Check, Running, Request, IInv, StepInv, CheckInv
    <2> QED BY <1>2, <2>1 DEF Check
  <1> QED BY <1>1, <1>2

\* Between two tests the debugger signs for the next one, unless it has done so.
LEMMA Checks ==
    ASSUME InOrder, IInv, Next
    PROVE  CheckInv'
  <1> USE DEF peVars, loopVars, nvVars, doneVars, portVars, words, scriptVars, target
  <1> SUFFICES ASSUME script' # "absent", pc' = "check", ~cb'
               PROVE  /\ script' = "wait"
                      /\ \/ ~halted' /\ flag' = Ready /\ data' = Word(IF started' THEN "next" ELSE "init")
                         \/ halted' /\ flag'.seq = "next" /\ started'
    BY DEF CheckInv, Request
  <1>1. CASE Check
    <2>1. script # "absent"
      BY <1>1 DEF Check
    <2> QED BY <1>1, <2>1, Begins
  <1>2. CASE End
    <2>1. test + 1 \in DOMAIN Suite /\ test \in DOMAIN Suite /\ test < test + 1
      <3>1. pc # "over" /\ pc' = IF test < Len(Suite) THEN "check" ELSE "over"
        BY <1>2 DEF End, Conclude
      <3>2. test \in 1..Len(Suite) /\ Len(Suite) \in Nat /\ DOMAIN Suite = 1..Len(Suite)
        BY <3>1, Current, SuiteAssumption DEF IInv
      <3> QED BY <3>1, <3>2
    <2>2. Opens \/ Shuts
      BY <1>2, <2>1, Current DEF End, IInv, InOrder
    <2>3. Idle /\ started
      BY <1>2, <2>2 DEF End, IInv, StepInv, IdleInv
    <2>4. SetFlag(Bits("next", FALSE, FALSE, FALSE)) /\ script' = script /\ started' = started
      BY <1>2, <2>3 DEF End, Idle
    <2>5. flag'.seq = "next"
      BY <2>4 DEF SetFlag, Bits
    <2>6. halted' /\ script' = "wait"
      BY <2>3, <2>4 DEF SetFlag, Idle
    <2>7. started'
      BY <2>3, <2>4
    <2> QED BY <2>5, <2>6, <2>7
  <1>3. CASE Attach
    <2>1. ~halted /\ ~started
      BY <1>3 DEF Attach, IInv, AbsentInv
    <2> QED BY <1>3, <2>1 DEF Attach
  <1>4. CASE Script
    <2>1. script # "absent"
      BY <1>4
      DEF Script, ServeZero, ServeOpenRead, ServeAddress, ServeNext, StoreDatum,
          ReadClosed,
                  StoreAgain, ReadLocked, HandOver, Stopped
    <2>2. pc = "check" /\ ~cb /\ started' = started
      BY <1>4
      DEF Script, ServeZero, ServeOpenRead, ServeAddress, ServeNext, StoreDatum,
          ReadClosed,
                  StoreAgain, ReadLocked, HandOver
    <2>3. script = "wait" /\ (~halted \/ (halted /\ flag.seq = "next" /\ started))
      BY <2>1, <2>2 DEF IInv, StepInv, CheckInv, Request
    <2>4. ServeNext
      BY <1>4, <2>3, FlagFacts
      DEF Script, ServeZero, ServeOpenRead, ServeAddress, StoreDatum, ReadClosed,
                  StoreAgain, ReadLocked, HandOver, Stopped
    <2> QED BY <2>2, <2>3, <2>4 DEF ServeNext, Resume, Stopped
  <1>5. ~(Port \/ Visit \/ NextInstance \/ PutDatum \/ AskDebugger \/ TakeAnswer \/ JudgeAnswer \/ SetPort
          \/ ColdReset \/ Over)
    BY
    DEF Port, Visit, NextInstance, PutDatum, AskDebugger, TakeAnswer, JudgeAnswer,
        SetPort, ColdReset,
           Doing, GoOn, CleanUp, Over, vars
  <1> QED BY <1>1, <1>2, <1>3, <1>4, <1>5 DEF Next, Processor

\* A test that goes on to a component, or ends, has had its last answer.
LEMMA Idles ==
    ASSUME InOrder, IInv, Next
    PROVE  IdleInv'
  <1> USE DEF peVars, loopVars, nvVars, doneVars, portVars, words, scriptVars, target
  <1> SUFFICES ASSUME pc' \in {"port", "visit", "end"}, Opens' \/ Shuts'
               PROVE  Idle' /\ started' /\ ~resumed'
    BY DEF IdleInv
  <1>1. CASE Check
    <2>1. test' = test /\ (Opens \/ Shuts) /\ ~cb
      BY <1>1 DEF Check, Conclude, Opens, Shuts, IInv, StepInv, BootInv
    <2>2. data = Word(IF started THEN "next" ELSE "init") /\ started' = TRUE /\ resumed' = FALSE
      BY <1>1, <2>1 DEF Check, Conclude
    <2>3. script # "absent"
      BY <2>2, WordFacts DEF IInv, AbsentInv
    <2>4. Idle
      BY <1>1, <2>1, <2>3, FlagFacts
      DEF Check, Running, Idle, Request, IInv, StepInv, CheckInv
    <2> QED BY <1>1, <2>2, <2>4 DEF Check, Idle
  <1>2. CASE Port
    <2>1. Idle /\ started /\ ~resumed
      BY <1>2 DEF Port, Opens, Shuts, IInv, StepInv, IdleInv
    <2> QED BY <1>2, <2>1 DEF Port, Idle
  <1>3. CASE NextInstance
    <2>1. pc = "region" /\ (Opens \/ Shuts) /\ todo = <<>> /\ Running
      BY <1>3 DEF NextInstance, Opens, Shuts
    <2>2. Idle /\ started /\ ~resumed
      BY <2>1, IdleInTurn DEF IInv, StepInv, RegionInv
    <2> QED BY <1>3, <2>2 DEF NextInstance, Idle
  <1>4. CASE JudgeAnswer
    <2>1. pc = "region" /\ (Opens \/ Shuts) /\ Running /\ Doing("judge")
      BY <1>4 DEF JudgeAnswer, Doing, Opens, Shuts
    <2>2. Idle /\ started /\ ~resumed
      BY <2>1, IdleInTurn DEF IInv, StepInv, RegionInv
    <2> QED BY <1>4, <2>2 DEF JudgeAnswer, Idle
  <1>5. ~AskDebugger
    <2> SUFFICES ASSUME AskDebugger PROVE FALSE
      OBVIOUS
    <2>1. Doing("ask") /\ (Opens \/ Shuts)
      BY DEF AskDebugger, Opens, Shuts
    <2> QED BY <2>1, AskInTurn DEF AskDebugger, GoOn, Doing
  <1>6. ~TakeAnswer
    <2> SUFFICES ASSUME TakeAnswer PROVE FALSE
      OBVIOUS
    <2>1. Doing("take") /\ (Opens \/ Shuts)
      BY DEF TakeAnswer, Opens, Shuts
    <2> QED BY <2>1, TakeInTurn DEF TakeAnswer, GoOn, Doing
  <1>7. ~(Visit \/ PutDatum \/ SetPort \/ ColdReset \/ End \/ Over)
    BY DEF Visit, PutDatum, SetPort, ColdReset, End, Over, Conclude, Doing, GoOn, vars
  <1>8. CASE Attach \/ Script
    <2>1. pc' = pc /\ test' = test
      BY <1>8
      DEF Attach, Script, ServeZero, ServeOpenRead, ServeAddress, ServeNext, StoreDatum,
                  ReadClosed, StoreAgain, ReadLocked, HandOver
    <2>2. Idle
      BY <2>1 DEF Opens, Shuts, IInv, StepInv, IdleInv
    <2> QED BY <1>8, <2>2, QuietScript
  <1> QED BY <1>1, <1>2, <1>3, <1>4, <1>5, <1>6, <1>7, <1>8 DEF Next, Processor

\* The port is open, and to secure memory too unless test_d002 is at work.
LEMMA Ports ==
    ASSUME InOrder, IInv, Next
    PROVE  PortInv'
  <1> USE DEF peVars, loopVars, nvVars, doneVars, portVars, words, scriptVars, target
  <1> SUFFICES ASSUME pc' \in {"visit", "region"}, Opens'
               PROVE  port' = "open" /\ nsOnly' = (Suite[test'] = "d002")
    BY DEF PortInv
  <1>1. CASE pc \in {"visit", "region"} /\ test' = test /\ port' = port /\ nsOnly' = nsOnly
    BY <1>1 DEF Opens, IInv, StepInv, PortInv
  <1>2. CASE Port
    <2>1. Opens /\ test' = test /\ pc # "over"
      BY <1>2 DEF Port, Opens
    <2>2. port' = "open" /\ nsOnly' = (nsOnly \/ Suite[test] = "d002")
      BY <1>2, <2>1 DEF Port, Opens
    <2>3. ASSUME nsOnly PROVE Suite[test] = "d002"
      <3>1. PICK t \in DOMAIN Suite : t <= test /\ Suite[t] = "d002"
        BY <2>3 DEF IInv, StepInv, NsInv
      <3>2. t < test \/ t = test
        BY <2>1, <3>1, SuiteAssumption, Current DEF IInv
      <3> QED BY <2>1, <3>1, <3>2, InTurn DEF IInv, Opens
    <2>4. nsOnly \in BOOLEAN
      BY DEF IInv, TypeInv
    <2> QED BY <2>1, <2>2, <2>3, <2>4
  <1>3. CASE SetPort
    <2>1. Opens
      BY <1>3 DEF SetPort, Opens
    <2> QED BY <1>3, <2>1, SetIsClosed DEF SetPort
  <1>4. CASE Visit \/ NextInstance \/ PutDatum \/ AskDebugger \/ TakeAnswer \/ JudgeAnswer
    BY <1>1, <1>4
    DEF Visit, NextInstance, PutDatum, AskDebugger, TakeAnswer, JudgeAnswer, Doing
  <1>5. ~(Check \/ ColdReset \/ End \/ Over)
    BY DEF Check, ColdReset, End, Over, Conclude, vars
  <1>6. CASE Attach \/ Script
    BY <1>1, <1>6
    DEF Attach, Script, ServeZero, ServeOpenRead, ServeAddress, ServeNext, StoreDatum,
                  ReadClosed, StoreAgain, ReadLocked, HandOver
  <1> QED BY <1>2, <1>3, <1>4, <1>5, <1>6 DEF Next, Processor

\* At the end of a region's plan it did not betray an open port.
LEMMA NoneBetrayed ==
    ASSUME IInv, pc = "region", todo = <<>>, Suite[test] = "d002", ~restricts,
           NEW r \in Regions, r[1] < at[1] \/ (r[1] = at[1] /\ r[2] <= at[2])
    PROVE  Kind(r) # "s"
  <1>1. Opens
    BY DEF Opens
  <1>2. Kind(at) # "s"
    BY <1>1, OpenDone DEF OpenStage
  <1>3. at \in Regions /\ (Passed(r) => Kind(r) # "s")
    BY <1>1 DEF IInv, StepInv, LoopInv
  <1>4. r = <<r[1], r[2]>> /\ at = <<at[1], at[2]>> /\ r[2] \in Nat /\ at[2] \in Nat
    BY <1>3, RegionPairs, MemoryFacts DEF IInv, TypeInv
  <1>5. CASE r[1] = at[1] /\ r[2] = at[2]
    BY <1>2, <1>4, <1>5
  <1>6. CASE ~(r[1] = at[1] /\ r[2] = at[2])
    BY <1>3, <1>4, <1>6 DEF Passed
  <1> QED BY <1>5, <1>6

\* The loop counts the regions that it has passed; test_d002 passes no secure one of an open port.
LEMMA Loops ==
    ASSUME InOrder, IInv, Next
    PROVE  LoopInv'
  <1> USE DEF peVars, loopVars, nvVars, doneVars, portVars, words, scriptVars, target
  <1>0. memory \in Memories
    BY DEF IInv, TypeInv
  <1> SUFFICES ASSUME pc' \in {"visit", "region"}, Opens' \/ Shuts'
               PROVE  /\ at' \in Regions /\ visited' = Cardinality(Before(at'[1]))
                      /\ pc' = "visit" => at'[2] = 1
                      /\ Suite[test'] = "d002" /\ ~restricts =>
                            \A r \in Regions : r[1] < at'[1] \/ (r[1] = at'[1] /\ r[2] < at'[2]) => Kind(r) # "s"
    BY TargetStays DEF LoopInv, Passed
  <1>1. CASE /\ pc \in {"visit", "region"} /\ test' = test /\ at' = at /\ visited' = visited
             /\ pc' = pc \/ pc' = "region"
    BY <1>1 DEF Opens, Shuts, IInv, StepInv, LoopInv, Passed
  <1>2. CASE Port
    <2>1. at' = <<1, 1>> /\ visited' = 0
      BY <1>2 DEF Port
    <2>2. at' \in Regions
      BY <1>0, <2>1, RegionFacts, MemoryFacts
    <2>3. \A r \in Regions : r[1] \in Nat /\ r[2] \in Nat /\ 1 <= r[1] /\ 1 <= r[2]
      BY <1>0, RegionPairs, MemoryFacts
    <2>4. Before(1) = {}
      BY <2>3 DEF Before
    <2>5. visited' = Cardinality(Before(at'[1]))
      BY <2>1, <2>4, FS_EmptySet
    <2>6. \A r \in Regions : ~(r[1] < at'[1] \/ (r[1] = at'[1] /\ r[2] < at'[2]))
      BY <2>1, <2>3
    <2> QED BY <2>1, <2>2, <2>5, <2>6
  <1>3. CASE Visit
    <2>1. ~resumed
      BY <1>3 DEF Visit, Opens, Shuts, IInv, StepInv, IdleInv
    <2> QED BY <1>1, <1>3, <2>1 DEF Visit
  <1>4. CASE NextInstance
    <2>1. pc = "region" /\ (Opens \/ Shuts) /\ todo = <<>> /\ test' = test
      BY <1>4 DEF NextInstance, Opens, Shuts
    <2>2. at \in Regions /\ visited = Cardinality(Before(at[1]))
      BY <2>1 DEF IInv, StepInv, LoopInv
    <2>3. /\ at[1] \in 1..Len(memory) /\ at[2] \in 1..Len(memory[at[1]])
          /\ Len(memory) \in Nat /\ Len(memory[at[1]]) \in Nat
      BY <1>0, <2>2, RegionPairs, MemoryFacts
    <2>4. ASSUME Suite[test] = "d002", ~restricts, NEW r \in Regions,
                 r[1] < at[1] \/ (r[1] = at[1] /\ r[2] <= at[2])
          PROVE  Kind(r) # "s"
      BY <2>1, <2>4, NoneBetrayed
    <2>5. \A r \in Regions : r[1] \in Nat /\ r[2] \in Nat /\ r[2] \in 1..Len(memory[r[1]])
      BY <1>0, RegionPairs, MemoryFacts
    <2>6. CASE at[2] < Len(memory[at[1]])
      <3>1. at' = <<at[1], at[2] + 1>> /\ visited' = visited /\ pc' = "region"
        BY <1>4, <2>6 DEF NextInstance
      <3>2. at' \in Regions
        BY <1>0, <2>3, <2>6, <3>1, RegionFacts
      <3>3. ASSUME NEW r \in Regions, r[1] < at'[1] \/ (r[1] = at'[1] /\ r[2] < at'[2])
            PROVE  r[1] < at[1] \/ (r[1] = at[1] /\ r[2] <= at[2])
        BY <2>3, <2>5, <3>1, <3>3
      <3> QED BY <2>1, <2>2, <2>4, <3>1, <3>2, <3>3
    <2>7. CASE ~(at[2] < Len(memory[at[1]]))
      <3>1. at' = <<at[1] + 1, 1>> /\ visited' = visited + Len(memory[at[1]]) /\ visited' < Total
        BY <1>4, <2>7 DEF NextInstance
      <3>2. visited' = Cardinality(Before(at[1] + 1))
        BY <1>0, <2>2, <2>3, <3>1, CountOn
      <3>3. at[1] + 1 \in 1..Len(memory)
        BY <1>0, <2>3, <3>1, <3>2, CountedAll
      <3>4. at' \in Regions
        BY <1>0, <3>1, <3>3, RegionFacts, MemoryFacts
      <3>5. ASSUME NEW r \in Regions, r[1] < at'[1] \/ (r[1] = at'[1] /\ r[2] < at'[2])
            PROVE  r[1] < at[1] \/ (r[1] = at[1] /\ r[2] <= at[2])
        <4>1. r[2] >= 1 /\ r[1] \in Nat /\ r[2] \in Nat
          BY <2>5
        <4>2. r[1] <= at[1]
          BY <2>3, <3>1, <3>5, <4>1
        <4>3. r[1] = at[1] => r[2] <= at[2]
          BY <2>3, <2>5, <2>7
        <4> QED BY <2>3, <4>1, <4>2, <4>3
      <3> QED BY <2>1, <2>4, <3>1, <3>2, <3>4, <3>5
    <2> QED BY <2>6, <2>7
  <1>5. CASE PutDatum \/ AskDebugger \/ TakeAnswer \/ JudgeAnswer \/ SetPort
    BY <1>1, <1>5
    DEF PutDatum, AskDebugger, TakeAnswer, JudgeAnswer, SetPort, Doing, GoOn, CleanUp
  <1>6. ~(Check \/ ColdReset \/ End \/ Over)
    BY DEF Check, ColdReset, End, Over, Conclude, vars
  <1>7. CASE Attach \/ Script
    BY <1>1, <1>7
    DEF Attach, Script, ServeZero, ServeOpenRead, ServeAddress, ServeNext, StoreDatum,
                  ReadClosed, StoreAgain, ReadLocked, HandOver
  <1> QED BY <1>2, <1>3, <1>4, <1>5, <1>6, <1>7 DEF Next, Processor

\* Judging an open port, a test goes on but at a secure region that the port betrays.
LEMMA Judged ==
    ASSUME IInv, JudgeAnswer, Opens
    PROVE  IF Suite[test] = "d002" /\ ~restricts /\ Kind(at) = "s" THEN CleanUp ELSE GoOn
  <1>1. pc = "region" /\ todo # <<>> /\ Head(todo).op = "judge"
    BY DEF JudgeAnswer, Doing
  <1>2. PICK k \in 0..8 : OpenStage(k) /\ Head(todo) = OpenSteps[k + 1]
    BY <1>1, OpenAt
  <1>3. k \in {3, 8}
    BY <1>1, <1>2, OpenOps
  <1>4. port = "open" /\ nsOnly = (Suite[test] = "d002") /\ at \in Regions /\ Kind(at) # "other"
    BY <1>1, <1>2 DEF IInv, StepInv, PortInv, LoopInv, OpenStage
  <1>5. Kind(at) \in {"ns", "s"}
    BY <1>4, RegionPairs DEF IInv, TypeInv
  <1>6. Suite[test] = "d001" \/ Suite[test] = "d002"
    BY DEF Opens
  <1>7. (Allowed <=> Reaches(at)) <=> ~(Suite[test] = "d002" /\ ~restricts /\ Kind(at) = "s")
    BY <1>4, <1>5, <1>6 DEF Allowed, Reaches
  <1>8. CASE k = 3
    <2>1. Head(todo).arg = "data" /\ taken = Word(IF Reaches(at) THEN "T" ELSE "refused")
      BY <1>2, <1>8, OpenOps DEF OpenStage
    <2>2. taken = Word("T") <=> Reaches(at)
      BY <2>1, WordFacts
    <2>3. IF (Allowed <=> taken = Word("T")) THEN GoOn ELSE CleanUp
      BY <2>1 DEF JudgeAnswer
    <2> QED BY <1>7, <2>2, <2>3
  <1>9. CASE k = 8
    <2>1. Head(todo).arg = "memory" /\ mem[at] = IF Reaches(at) THEN "T" ELSE "N"
      BY <1>2, <1>9, OpenOps DEF OpenStage
    <2>2. IF mem[at] = (IF Allowed THEN "T" ELSE "N") THEN GoOn ELSE CleanUp
      BY <2>1 DEF JudgeAnswer
    <2> QED BY <1>7, <2>1, <2>2
  <1> QED BY <1>3, <1>8, <1>9

\* A test that ends knows what became of it.
LEMMA Ends ==
    ASSUME InOrder, IInv, Next
    PROVE  EndInv'
  <1> USE DEF peVars, loopVars, nvVars, doneVars, portVars, words, scriptVars, target
  <1>0. memory \in Memories /\ (pc # "end" => result = "none")
    BY DEF IInv, TypeInv, StepInv, ResultInv
  <1> SUFFICES ASSUME pc' = "end", Suite[test'] \in {"d001", "d002"}
               PROVE  /\ Suite[test'] = "d001" => result' = "none"
                      /\ Suite[test'] = "d002" =>
                            result' \in {"none", "fail"} /\ (result' = "none" <=> restricts \/ ~HasSecure)
    BY TargetStays DEF EndInv
  <1>1. CASE NextInstance
    <2>1. pc = "region" /\ todo = <<>> /\ test' = test /\ result' = result /\ Opens
      BY <1>1 DEF NextInstance, Opens
    <2>2. at \in Regions /\ visited = Cardinality(Before(at[1]))
      BY <2>1 DEF IInv, StepInv, LoopInv
    <2>3. /\ at[1] \in 1..Len(memory) /\ at[2] \in 1..Len(memory[at[1]])
          /\ Len(memory) \in Nat /\ Len(memory[at[1]]) \in Nat
      BY <1>0, <2>2, RegionPairs, MemoryFacts
    <2>4. ~(at[2] < Len(memory[at[1]])) /\ ~(visited + Len(memory[at[1]]) < Total)
      BY <1>1 DEF NextInstance
    <2>5. at[1] + 1 \notin 1..Len(memory)
      BY <1>0, <2>2, <2>3, <2>4, CountOn, CountedAll
    <2>6. ASSUME NEW r \in Regions PROVE r[1] < at[1] \/ (r[1] = at[1] /\ r[2] <= at[2])
      <3>1. r[1] \in 1..Len(memory) /\ r[2] \in 1..Len(memory[r[1]])
        BY <1>0, RegionPairs
      <3>2. at[1] = Len(memory) /\ at[2] = Len(memory[at[1]])
        BY <2>3, <2>4, <2>5
      <3> QED BY <2>3, <3>1, <3>2
    <2>7. Suite[test] = "d002" /\ ~restricts => ~HasSecure
      BY <2>1, <2>6, NoneBetrayed DEF HasSecure
    <2> QED BY <1>0, <2>1, <2>7
  <1>2. CASE JudgeAnswer
    <2>1. pc = "region" /\ test' = test /\ Opens /\ ~GoOn
      BY <1>2 DEF JudgeAnswer, Doing, GoOn, Opens
    <2>2. Suite[test] = "d002" /\ ~restricts /\ Kind(at) = "s" /\ result' = "fail"
      BY <1>2, <2>1, Judged DEF CleanUp
    <2>3. HasSecure
      BY <2>1, <2>2 DEF HasSecure, IInv, StepInv, LoopInv
    <2> QED BY <2>1, <2>2, <2>3
  <1>3. ~Port
    BY DEF Port
  <1>4. ~AskDebugger
    <2> SUFFICES ASSUME AskDebugger PROVE FALSE
      OBVIOUS
    <2>1. Doing("ask") /\ (Opens \/ Shuts)
      BY DEF AskDebugger, Opens, Shuts
    <2> QED BY <2>1, AskInTurn DEF AskDebugger, GoOn, Doing
  <1>5. ~TakeAnswer
    <2> SUFFICES ASSUME TakeAnswer PROVE FALSE
      OBVIOUS
    <2>1. Doing("take") /\ (Opens \/ Shuts)
      BY DEF TakeAnswer, Opens, Shuts
    <2> QED BY <2>1, TakeInTurn DEF TakeAnswer, GoOn, Doing
  <1>6. ~(Check \/ Visit \/ PutDatum \/ SetPort \/ ColdReset \/ End \/ Over)
    BY
    DEF Check, Visit, PutDatum, SetPort, ColdReset, End, Over, Conclude, Doing, GoOn,
        vars
  <1>7. CASE Attach \/ Script
    <2>1. pc' = pc /\ test' = test /\ result' = result
      BY <1>7
      DEF Attach, Script, ServeZero, ServeOpenRead, ServeAddress, ServeNext, StoreDatum,
                  ReadClosed, StoreAgain, ReadLocked, HandOver
    <2> QED BY <2>1 DEF IInv, StepInv, EndInv
  <1> QED BY <1>1, <1>2, <1>3, <1>4, <1>5, <1>6, <1>7 DEF Next, Processor

\* So each verdict is the one that the target deserves.
LEMMA Uses ==
    ASSUME InOrder, IInv, Next
    PROVE  DebuggerIsUsed'
  <1> USE DEF peVars, loopVars, nvVars, doneVars, portVars, words, scriptVars, target
  <1> DEFINE Good(t, v) == /\ v = "skip" => Suite[t] = "d004" /\ lone
                           /\ Suite[t] = "d001" => v = "pass"
                           /\ Suite[t] = "d002" => (v = "pass" <=> restricts \/ ~HasSecure)
  <1>0. TypeInv /\ \A t \in met \cap DOMAIN verdict : Good(t, verdict[t])
    BY DEF IInv, DebuggerIsUsed
  <1> SUFFICES ASSUME NEW t \in met' \cap DOMAIN verdict' PROVE Good(t, verdict'[t])
    BY TargetStays DEF DebuggerIsUsed
  <1> HIDE DEF Good
  <1>1. CASE met' = met /\ verdict' = verdict
    BY <1>0, <1>1
  <1>2. CASE Check
    <2>1. CASE script = "absent"
      BY <1>2, <2>1 DEF Check, IInv, AbsentInv
    <2>2. CASE script # "absent"
      <3>1. verdict' = verdict /\ met' = met \cup {test}
        BY <1>2, <2>2, Begins DEF Check
      <3>2. test \notin DOMAIN verdict
        BY <1>0, LenProperties DEF TypeInv
      <3> QED BY <1>0, <3>1, <3>2
    <2> QED BY <2>1, <2>2
  <1>3. CASE End
    <2>1. pc = "end" /\ met' = met
      BY <1>3 DEF End
    <2>2. result \in {"none", "fail", "skip"} /\ (result = "skip" => Suite[test] = "d004" /\ lone)
      BY DEF IInv, StepInv, ResultInv
    <2>3. PICK v \in {"pass", "fail", "skip"} :
              Conclude(v) /\ v = IF flag.ready THEN (IF result = "none" THEN "pass" ELSE result) ELSE "fail"
      BY <1>3, <2>2 DEF End
    <2>4. /\ DOMAIN verdict' = 1..test /\ verdict'[test] = v /\ DOMAIN verdict = 1..(test - 1)
          /\ \A u \in DOMAIN verdict : verdict'[u] = verdict[u]
      BY <1>0, <2>1, <2>3, Concluded
    <2>5. Opens => flag.ready
      BY <2>1 DEF IInv, StepInv, IdleInv, Idle
    <2>6. Good(test, v)
      BY <2>1, <2>2, <2>3, <2>5 DEF Good, Opens, IInv, StepInv, EndInv
    <2>7. t = test \/ t \in DOMAIN verdict
      BY <1>0, <2>4 DEF TypeInv
    <2> QED BY <1>0, <2>1, <2>4, <2>6, <2>7
  <1>4. CASE ~(Check \/ End)
    BY <1>1, <1>4
    DEF Next, Processor, Script, Port, Visit, NextInstance, PutDatum, AskDebugger,
        TakeAnswer,
           JudgeAnswer, SetPort, ColdReset, Attach, ServeZero, ServeOpenRead, ServeAddress, ServeNext,
           StoreDatum, ReadClosed, StoreAgain, ReadLocked, HandOver, Over, vars
  <1> QED BY <1>2, <1>3, <1>4
-----------------------------------------------------------------------------
(* The regions, step by step *)

\* What the script does with the requests of an open port.
LEMMA OpenServed ==
    ASSUME TypeInv, NEW k \in 0..9, OpenStage(k), Script, at \in Regions
    PROVE  OpenStage(k)'
  <1> USE DEF peVars, loopVars, nvVars, doneVars, portVars, words, scriptVars, target
  <1>1. /\ at' = at /\ port' = port /\ nsOnly' = nsOnly /\ restricts' = restricts /\ memory' = memory
        /\ taken' = taken /\ test' = test
    BY
    DEF Script, ServeZero, ServeOpenRead, ServeAddress, ServeNext, StoreDatum,
        ReadClosed,
           StoreAgain, ReadLocked, HandOver
  <1>2. Kind(at)' = Kind(at) /\ (Reaches(at)' <=> Reaches(at))
    BY <1>1 DEF Kind, Reaches
  <1>3. script \in {"wait", "open_write"} /\ halted /\ k \in {2, 3, 6, 7, 8}
    <2>1. script \in {"wait", "open_write"}
      BY DEF OpenStage, Idle
    <2>2. halted
      BY <2>1
      DEF Script, ServeZero, ServeOpenRead, ServeAddress, ServeNext, StoreDatum,
          ReadClosed,
             StoreAgain, ReadLocked, HandOver, Stopped
    <2> QED BY <2>1, <2>2 DEF OpenStage, Idle
  <1>4. CASE k \in {3, 8}
    <2>1. flag = Zero /\ script = "wait"
      BY <1>3, <1>4 DEF OpenStage, Idle, Cleared
    <2>2. ServeZero
      BY <2>1, FlagFacts
      DEF Script, ServeZero, ServeOpenRead, ServeAddress, ServeNext, StoreDatum,
             ReadClosed, StoreAgain, ReadLocked, HandOver, Stopped
    <2>3. mem' = mem /\ Idle'
      BY <2>1, <2>2, FlagFacts DEF ServeZero, Resume, Idle
    <2> QED BY <1>1, <1>2, <1>4, <2>3 DEF OpenStage
  <1>5. CASE k = 2
    <2>1. flag.seq = "open_read" /\ script = "wait" /\ data = Address(at)
      BY <1>3, <1>5 DEF OpenStage, Request, Answer
    <2>2. ServeOpenRead
      BY <2>1, FlagFacts
      DEF Script, ServeZero, ServeOpenRead, ServeAddress, ServeNext, StoreDatum,
             ReadClosed, StoreAgain, ReadLocked, HandOver, Stopped
    <2>3. mem' = mem /\ script' = "wait" /\ data' = Content(at) /\ Answer'
      BY <2>1, <2>2, WordFacts DEF ServeOpenRead, Resume, Answer
    <2>4. Content(at)' = Content(at)
      BY <1>1, <1>2, <2>3 DEF Content
    <2> QED BY <1>1, <1>2, <1>5, <2>3, <2>4 DEF OpenStage
  <1>6. CASE k = 6
    <2>1. flag.seq = "open_write" /\ script = "wait" /\ data = Address(at)
      BY <1>3, <1>6 DEF OpenStage, Request, Answer
    <2>2. ServeAddress
      BY <2>1, FlagFacts
      DEF Script, ServeZero, ServeOpenRead, ServeAddress, ServeNext, StoreDatum,
             ReadClosed, StoreAgain, ReadLocked, HandOver, Stopped
    <2>3. mem' = mem /\ script' = "open_write" /\ addr' = at /\ Answer'
      BY <2>1, <2>2, WordFacts DEF ServeAddress, Resume, Answer
    <2> QED BY <1>1, <1>2, <1>6, <2>3 DEF OpenStage
  <1>7. CASE k = 7
    <2>1. flag.seq = "open_write" /\ script = "open_write" /\ addr = at /\ data = Word("T") /\ mem[at] = "N"
      BY <1>3, <1>7 DEF OpenStage, Request, Answer
    <2>2. StoreDatum
      BY <2>1, FlagFacts
      DEF Script, ServeZero, ServeOpenRead, ServeAddress, ServeNext, StoreDatum,
             ReadClosed, StoreAgain, ReadLocked, HandOver, Stopped
    <2>3. script' = "wait" /\ Answer' /\ mem' = IF Reaches(at) THEN [mem EXCEPT ![at] = "T"] ELSE mem
      BY <2>1, <2>2, WordFacts DEF StoreDatum, Store, Resume, Answer
    <2>4. mem'[at] = IF Reaches(at) THEN "T" ELSE "N"
      BY <2>1, <2>3 DEF TypeInv
    <2> QED BY <1>1, <1>2, <1>7, <2>3, <2>4 DEF OpenStage
  <1> QED BY <1>3, <1>4, <1>5, <1>6, <1>7

\* And with those of a closed one.
LEMMA ClosedServed ==
    ASSUME NEW k \in 0..13, ClosedStage(k), Script
    PROVE  ClosedStage(k)'
  <1> USE DEF Resume, Answer, Request, Idle, Cleared
  <1>1. ~(ServeOpenRead \/ ServeNext \/ ReadLocked \/ HandOver)
    BY FlagFacts
    DEF ClosedStage, ServeOpenRead, ServeNext, ReadLocked, HandOver, Stopped
  <1>2. CASE ServeZero
    <2>1. k \in {5, 12} /\ script = "wait"
      BY <1>2, FlagFacts DEF ClosedStage, ServeZero, Stopped
    <2>2. Idle'
      BY <1>2, FlagFacts DEF ServeZero, Stopped, scriptVars
    <2> QED BY <2>1, <2>2 DEF ClosedStage
  <1>3. CASE ServeAddress
    <2>1. script = "wait" /\ halted
      BY <1>3 DEF ServeAddress, Stopped
    <2>2. (k = 2 /\ flag.seq = "closed_read") \/ (k = 8 /\ flag.seq = "closed_write")
      BY <1>3, <2>1, FlagFacts DEF ClosedStage, ServeAddress
    <2>3. script' = flag.seq /\ ~halted' /\ flag' = Served
      BY <1>3 DEF ServeAddress
    <2> QED BY <2>2, <2>3 DEF ClosedStage
  <1>4. CASE StoreDatum
    <2>1. script \in {"open_write", "closed_write"} /\ halted
      BY <1>4 DEF StoreDatum
    <2>2. k = 9 /\ script = "closed_write"
      BY <2>1 DEF ClosedStage
    <2>3. script' = "closed_again" /\ ~halted' /\ flag' = Served
      BY <1>4, <2>2 DEF StoreDatum
    <2> QED BY <2>2, <2>3 DEF ClosedStage
  <1>5. CASE ReadClosed
    <2>1. script = "closed_read" /\ script' = "wait" /\ halted' = halted /\ flag' = flag
      BY <1>5 DEF ReadClosed, words
    <2>2. k \in {2, 3, 4, 5}
      BY <2>1 DEF ClosedStage
    <2> QED BY <2>1, <2>2 DEF ClosedStage
  <1>6. CASE StoreAgain
    <2>1. script = "closed_again" /\ script' = "wait" /\ halted' = halted /\ flag' = flag
      BY <1>6 DEF StoreAgain, words
    <2>2. k \in {9, 10, 11, 12}
      BY <2>1 DEF ClosedStage
    <2> QED BY <2>1, <2>2 DEF ClosedStage
  <1> QED BY <1>1, <1>2, <1>3, <1>4, <1>5, <1>6 DEF Script

\* A test goes on with its plan for an open port.
LEMMA OpenGoesOn ==
    ASSUME IInv, pc = "region", Opens, todo # <<>>,
           PutDatum \/ AskDebugger \/ TakeAnswer \/ JudgeAnswer, GoOn
    PROVE  \E k \in 0..9 : todo' = OpenLeft(k) /\ OpenStage(k)'
  <1> USE DEF peVars, loopVars, nvVars, doneVars, portVars, words, scriptVars, target
  <1>1. PICK k \in 0..8 : OpenStage(k) /\ Head(todo) = OpenSteps[k + 1] /\ Tail(todo) = OpenLeft(k + 1)
    BY OpenAt
  <1>2. /\ at' = at /\ port' = port /\ nsOnly' = nsOnly /\ restricts' = restricts /\ memory' = memory
        /\ test' = test
    BY DEF PutDatum, AskDebugger, TakeAnswer, JudgeAnswer
  <1>3. Kind(at)' = Kind(at) /\ (Reaches(at)' <=> Reaches(at))
    BY <1>2 DEF Kind, Reaches
  <1>4. ~halted /\ at \in Regions
    BY
    DEF PutDatum, AskDebugger, TakeAnswer, JudgeAnswer, Doing, Running, IInv, StepInv,
        LoopInv
  <1>5. Suite[test] = "d002" /\ ~restricts /\ k >= 3 => Kind(at) # "s"
    <2>1. CASE k = 3
      <3>1. Head(todo).op = "judge"
        BY <1>1, <2>1 DEF OpenSteps, Put, Ask, Take, Judge, Step
      <3>2. JudgeAnswer
        BY <3>1 DEF PutDatum, AskDebugger, TakeAnswer, Doing
      <3>3. ~CleanUp
        BY DEF GoOn, CleanUp
      <3> QED BY <3>2, <3>3, Judged
    <2> QED BY <1>1, <2>1 DEF OpenStage
  <1>6. k < 9 /\ Kind(at) # "other"
    BY <1>1 DEF OpenStage
  <1>7. SUFFICES OpenStage(k + 1)'
    <2>1. k + 1 \in 0..9 /\ todo' = OpenLeft(k + 1)
      BY <1>1 DEF GoOn
    <2> QED BY <2>1, Zenon
  <1>8. CASE PutDatum
    <2>1. k \in {0, 4} /\ Head(todo).arg = IF k = 0 THEN "T" ELSE "N"
      BY <1>1, <1>8, OpenOps DEF PutDatum, Doing
    <2>2. mem'[at] = Head(todo).arg
      BY <1>4, <1>8 DEF PutDatum, IInv, TypeInv
    <2>3. Idle'
      BY <1>1, <1>8, <2>1 DEF PutDatum, Idle, OpenStage
    <2>4. OpenStage(k + 1)'
      <3>1. CASE k = 0
        BY <1>2, <1>3, <1>5, <1>6, <2>1, <2>2, <2>3, <3>1 DEF OpenStage
      <3>2. CASE k = 4
        BY <1>2, <1>3, <1>5, <1>6, <2>1, <2>2, <2>3, <3>2 DEF OpenStage
      <3> QED BY <2>1, <3>1, <3>2
    <2> QED BY <2>4
  <1>9. CASE AskDebugger
    <2>1. k \in {1, 5, 6}
      <3>1. OpenSteps[k + 1].op = "ask"
        BY <1>1, <1>9 DEF AskDebugger, Doing
      <3> QED BY <1>1, <3>1, OpenOps
    <2>2. flag.ready /\ ~flag.tx
      BY <1>9, AskInTurn DEF AskDebugger
    <2>3. /\ data' = IF Head(todo).arg = "address" THEN Address(at) ELSE Word(Head(todo).arg)
          /\ SetFlag(Bits(Head(todo).seq, TRUE, FALSE, FALSE)) /\ mem' = mem
          /\ script' = script /\ addr' = addr
      BY <1>9, <2>2 DEF AskDebugger
    <2>4. script # "absent"
      <3>1. k \in {1, 5} => Idle
        BY <1>1 DEF OpenStage
      <3>2. k = 6 => Request("open_write") \/ script = "open_write"
        BY <1>1 DEF OpenStage
      <3> QED BY <1>4, <2>1, <3>1, <3>2 DEF Idle, Request
    <2>5. halted' /\ flag'.seq = Head(todo).seq
      <3>1. halted' = (script # "absent") /\ flag' = Bits(Head(todo).seq, TRUE, FALSE, FALSE)
        BY <2>3 DEF SetFlag
      <3>2. halted'
        BY <2>4, <3>1, Zenon
      <3>3. flag'.seq = Head(todo).seq
        BY <3>1 DEF Bits
      <3> QED BY <3>2, <3>3
    <2>6. CASE k = 1
      <3>1. data' = Address(at) /\ flag'.seq = "open_read"
        BY <1>1, <2>3, <2>5, <2>6, OpenOps
      <3>2. script' = "wait" /\ mem'[at] = "T"
        BY <1>1, <2>3, <2>6 DEF OpenStage, Idle
      <3>3. OpenStage(2)'
        BY <1>2, <1>3, <1>6, <2>5, <3>1, <3>2 DEF OpenStage, Request, Address
      <3> QED BY <2>6, <3>3
    <2>7. CASE k = 5
      <3>1. data' = Address(at) /\ flag'.seq = "open_write"
        BY <1>1, <2>3, <2>5, <2>7, OpenOps
      <3>2. script' = "wait" /\ mem'[at] = "N"
        BY <1>1, <2>3, <2>7 DEF OpenStage, Idle
      <3>3. OpenStage(6)'
        BY <1>2, <1>3, <1>5, <1>6, <2>5, <2>7, <3>1, <3>2
        DEF OpenStage, Request, Address
      <3> QED BY <2>7, <3>3
    <2>8. CASE k = 6
      <3>1. data' = Word("T") /\ flag'.seq = "open_write"
        BY <1>1, <2>3, <2>5, <2>8, OpenOps
      <3>2. script' = "open_write" /\ addr' = at /\ mem'[at] = "N"
        BY <1>1, <1>4, <2>3, <2>8 DEF OpenStage, Request
      <3>3. OpenStage(7)'
        BY <1>2, <1>3, <1>5, <1>6, <2>5, <2>8, <3>1, <3>2 DEF OpenStage, Request, Word
      <3> QED BY <2>8, <3>3
    <2> QED BY <2>1, <2>6, <2>7, <2>8
  <1>10. CASE TakeAnswer
    <2>1. k \in {2, 7}
      <3>1. OpenSteps[k + 1].op = "take"
        BY <1>1, <1>10 DEF TakeAnswer, Doing
      <3> QED BY <1>1, <3>1, OpenOps
    <2>2. taken' = data /\ SetFlag(Zero) /\ mem' = mem /\ script' = script
      BY <1>10, TakeInTurn DEF TakeAnswer
    <2>3. script = "wait"
      BY <1>1, <1>4, <2>1 DEF OpenStage, Request
    <2>4. halted' /\ flag' = Zero
      BY <2>2, <2>3 DEF SetFlag
    <2>5. CASE k = 2
      <3>1. data = Word(IF Reaches(at) THEN "T" ELSE "refused")
        BY <1>1, <1>4, <2>5 DEF OpenStage, Request, Content
      <3>2. OpenStage(3)'
        BY <1>2, <1>3, <1>6, <2>2, <2>3, <2>4, <3>1 DEF OpenStage, Cleared
      <3> QED BY <2>5, <3>2
    <2>6. CASE k = 7
      <3>1. mem[at] = IF Reaches(at) THEN "T" ELSE "N"
        BY <1>1, <1>4, <2>6 DEF OpenStage, Request
      <3>2. OpenStage(8)'
        BY <1>2, <1>3, <1>5, <1>6, <2>2, <2>3, <2>4, <2>6, <3>1 DEF OpenStage, Cleared
      <3> QED BY <2>6, <3>2
    <2> QED BY <2>1, <2>5, <2>6
  <1>11. CASE JudgeAnswer
    <2>1. k \in {3, 8}
      <3>1. OpenSteps[k + 1].op = "judge"
        BY <1>1, <1>11 DEF JudgeAnswer, Doing
      <3> QED BY <1>1, <3>1, OpenOps
    <2>2. Idle /\ UNCHANGED <<words, scriptVars, mem, taken>>
      BY <1>4, <1>11, IdleInTurn DEF JudgeAnswer, Running
    <2>3. Idle'
      BY <2>2 DEF Idle
    <2>4. OpenStage(k + 1)'
      BY <1>2, <1>3, <1>5, <1>6, <2>1, <2>3 DEF OpenStage
    <2> QED BY <2>4
  <1> QED BY <1>8, <1>9, <1>10, <1>11

\* And for a closed one.
LEMMA ClosedGoesOn ==
    ASSUME IInv, pc = "region", Shuts, todo # <<>>,
           PutDatum \/ AskDebugger \/ TakeAnswer \/ JudgeAnswer \/ SetPort, GoOn
    PROVE  \E k \in 0..13 : todo' = ClosedLeft(k) /\ ClosedStage(k)'
  <1> USE DEF words, scriptVars
  <1>1. PICK k \in 0..12 : /\ ClosedStage(k) /\ Head(todo) = ClosedSteps[k + 1]
                           /\ Tail(todo) = ClosedLeft(k + 1)
    BY ClosedAt
  <1>2. SUFFICES ClosedStage(k + 1)'
    <2>1. k + 1 \in 0..13 /\ todo' = ClosedLeft(k + 1)
      BY <1>1 DEF GoOn
    <2> QED BY <2>1, Zenon
  <1>3. ~halted
    BY DEF PutDatum, AskDebugger, TakeAnswer, JudgeAnswer, SetPort, Doing, Running
  <1>4. CASE PutDatum
    <2>1. k \in {0, 6}
      <3>1. ClosedSteps[k + 1].op = "put"
        BY <1>1, <1>4 DEF PutDatum, Doing
      <3> QED BY <1>1, <3>1, ClosedOps
    <2>2. Idle'
      BY <1>1, <1>4, <2>1 DEF PutDatum, Idle, ClosedStage
    <2> QED BY <2>1, <2>2 DEF ClosedStage
  <1>5. CASE AskDebugger
    <2>1. k \in {1, 7, 8}
      <3>1. ClosedSteps[k + 1].op = "ask"
        BY <1>1, <1>5 DEF AskDebugger, Doing
      <3> QED BY <1>1, <3>1, ClosedOps
    <2>2. SetFlag(Bits(Head(todo).seq, TRUE, FALSE, FALSE)) /\ script' = script
      BY <1>5, AskInTurn DEF AskDebugger
    <2>3. script = IF k = 8 THEN "closed_write" ELSE "wait"
      BY <1>1, <1>3, <2>1 DEF ClosedStage, Idle, Request
    <2>4. halted' /\ flag'.seq = Head(todo).seq
      <3>1. script # "absent"
        BY <2>3
      <3>2. halted' = (script # "absent") /\ flag' = Bits(Head(todo).seq, TRUE, FALSE, FALSE)
        BY <2>2 DEF SetFlag
      <3>3. halted'
        BY <3>1, <3>2, Zenon
      <3>4. flag'.seq = Head(todo).seq
        BY <3>2 DEF Bits
      <3> QED BY <3>3, <3>4
    <2>5. Head(todo).seq = IF k = 1 THEN "closed_read" ELSE "closed_write"
      BY <1>1, <2>1, ClosedOps
    <2> QED BY <2>1, <2>2, <2>3, <2>4, <2>5 DEF ClosedStage, Request
  <1>6. CASE SetPort
    <2>1. k \in {2, 3, 9, 10}
      <3>1. ClosedSteps[k + 1].op = "set"
        BY <1>1, <1>6 DEF SetPort, Doing
      <3> QED BY <1>1, <3>1, ClosedOps
    <2>2. halted' = halted /\ flag' = flag /\ script' = script
      BY <1>6 DEF SetPort
    <2> QED BY <1>1, <1>3, <2>1, <2>2 DEF ClosedStage, Request, Answer
  <1>7. CASE TakeAnswer
    <2>1. k \in {4, 11}
      <3>1. ClosedSteps[k + 1].op = "take"
        BY <1>1, <1>7 DEF TakeAnswer, Doing
      <3> QED BY <1>1, <3>1, ClosedOps
    <2>2. SetFlag(Zero) /\ script' = script
      BY <1>7, TakeInTurn DEF TakeAnswer
    <2>3. script \in (IF k = 4 THEN {"closed_read", "wait"} ELSE {"closed_again", "wait"})
      BY <1>1, <2>1 DEF ClosedStage
    <2>4. halted' /\ flag' = Zero
      BY <2>2, <2>3 DEF SetFlag
    <2> QED BY <2>1, <2>2, <2>3, <2>4 DEF ClosedStage, Cleared
  <1>8. CASE JudgeAnswer
    <2>1. k \in {5, 12}
      <3>1. ClosedSteps[k + 1].op = "judge"
        BY <1>1, <1>8 DEF JudgeAnswer, Doing
      <3> QED BY <1>1, <3>1, ClosedOps
    <2>2. Idle /\ UNCHANGED <<words, scriptVars>>
      BY <1>3, <1>8, IdleInTurn DEF JudgeAnswer, Running
    <2>3. Idle'
      BY <2>2 DEF Idle
    <2> QED BY <2>1, <2>3 DEF ClosedStage
  <1> QED BY <1>4, <1>5, <1>6, <1>7, <1>8

\* Each region is gone through by its plan.
LEMMA Rounds ==
    ASSUME InOrder, IInv, Next
    PROVE  RegionInv'
  <1> USE DEF peVars, loopVars, nvVars, doneVars, portVars, words, scriptVars, target
  <1> SUFFICES ASSUME pc' = "region", Opens' \/ Shuts'
               PROVE  /\ Opens' => \E k \in 0..9 : todo' = OpenLeft(k) /\ OpenStage(k)'
                      /\ Shuts' => \E k \in 0..13 : todo' = ClosedLeft(k) /\ ClosedStage(k)'
                      /\ started' /\ ~resumed'
    BY DEF RegionInv, OpenLeft, ClosedLeft
  <1>0. test' = test /\ (pc = "region" \/ Visit)
    BY
    DEF Next, Processor, Script, Check, Port, Visit, NextInstance, PutDatum,
        AskDebugger, TakeAnswer,
           JudgeAnswer, SetPort, ColdReset, End, Conclude, Attach, ServeZero, ServeOpenRead, ServeAddress,
           ServeNext, StoreDatum, ReadClosed, StoreAgain, ReadLocked, HandOver, Over, vars, Doing, GoOn, CleanUp
  <1>1. (Opens' <=> Opens) /\ (Shuts' <=> Shuts)
    BY <1>0 DEF Opens, Shuts
  <1>2. started /\ ~resumed
    BY <1>0, <1>1 DEF Visit, IInv, StepInv, IdleInv, RegionInv
  <1>3. ASSUME todo' = StepsFor(at'), Idle', memory' = memory, restricts' = restricts
        PROVE  /\ Opens => \E k \in 0..9 : todo' = OpenLeft(k) /\ OpenStage(k)'
               /\ Shuts => \E k \in 0..13 : todo' = ClosedLeft(k) /\ ClosedStage(k)'
    <2>1. Kind(at)' = Kind(at')
      BY <1>3 DEF Kind
    <2>2. CASE Kind(at') = "other"
      <3>1. todo' = OpenLeft(9) /\ todo' = ClosedLeft(13)
        BY <1>3, <2>2, OpenRest, ClosedRest DEF StepsFor
      <3>2. OpenStage(9)' /\ ClosedStage(13)'
        BY <1>3, <2>1, <2>2 DEF OpenStage, ClosedStage
      <3> QED BY <3>1, <3>2
    <2>3. CASE Kind(at') # "other"
      <3>1. /\ Opens => todo' = OpenLeft(0)
            /\ Shuts => todo' = ClosedLeft(0)
        BY <1>3, <2>3, OpenRest, ClosedRest, OpenFollows, ClosedFollows DEF StepsFor
      <3>2. OpenStage(0)' /\ ClosedStage(0)'
        BY <1>3, <2>1, <2>3 DEF OpenStage, ClosedStage
      <3> QED BY <3>1, <3>2
    <2> QED BY <2>2, <2>3
  <1>4. CASE Visit
    <2>1. Idle
      BY <1>1, <1>4 DEF Visit, IInv, StepInv, IdleInv
    <2>2. Idle' /\ todo' = StepsFor(at') /\ memory' = memory /\ restricts' = restricts
          /\ started' = started /\ resumed' = resumed
      BY <1>4, <2>1 DEF Visit, Idle
    <2> QED BY <1>1, <1>2, <1>3, <2>2
  <1>5. CASE NextInstance
    <2>1. Idle
      BY <1>0, <1>1, <1>5, IdleInTurn DEF NextInstance, Visit
    <2>2. todo' = StepsFor(at') /\ resumed' = resumed
      BY <1>5 DEF NextInstance
    <2>3. Idle' /\ memory' = memory /\ restricts' = restricts /\ started' = started
      BY <1>5, <2>1 DEF NextInstance, Idle
    <2> QED BY <1>1, <1>2, <1>3, <2>2, <2>3
  <1>6. CASE PutDatum \/ AskDebugger \/ TakeAnswer \/ JudgeAnswer \/ SetPort
    <2>1. pc = "region" /\ todo # <<>> /\ GoOn /\ started' = started /\ resumed' = resumed
      BY <1>6
      DEF PutDatum, AskDebugger, TakeAnswer, JudgeAnswer, SetPort, Doing, CleanUp
    <2>2. Opens => ~SetPort
      BY SetIsClosed DEF SetPort
    <2> QED BY <1>1, <1>2, <1>6, <2>1, <2>2, OpenGoesOn, ClosedGoesOn
  <1>7. CASE Script
    <2>1. /\ todo' = todo /\ pc = "region" /\ started' = started /\ resumed' = resumed
      BY <1>7 DEF Script, ServeZero, ServeOpenRead, ServeAddress, ServeNext, StoreDatum,
                  ReadClosed, StoreAgain, ReadLocked, HandOver
    <2>2. CASE Opens
      <3>1. PICK k \in 0..9 : todo = OpenLeft(k) /\ OpenStage(k)
        BY <2>1, <2>2 DEF IInv, StepInv, RegionInv
      <3>2. OpenStage(k)'
        BY <1>7, <2>1, <2>2, <3>1, OpenServed DEF IInv, StepInv, LoopInv
      <3>3. ~Shuts
        BY <2>2 DEF Opens, Shuts
      <3> QED BY <1>1, <1>2, <2>1, <3>1, <3>2, <3>3
    <2>3. CASE Shuts
      <3>1. PICK k \in 0..13 : todo = ClosedLeft(k) /\ ClosedStage(k)
        BY <2>1, <2>3 DEF IInv, StepInv, RegionInv
      <3>2. ClosedStage(k)'
        BY <1>7, <3>1, ClosedServed
      <3>3. ~Opens
        BY <2>3 DEF Opens, Shuts
      <3> QED BY <1>1, <1>2, <2>1, <3>1, <3>2, <3>3
    <2> QED BY <1>1, <2>2, <2>3
  <1>8. ~(Check \/ Port \/ ColdReset \/ End \/ Over \/ Attach)
    <2>1. ~Attach
      BY <1>0 DEF Visit, Attach, IInv, AbsentInv
    <2> QED BY <2>1 DEF Check, Port, ColdReset, End, Over, Conclude, vars
  <1> QED BY <1>4, <1>5, <1>6, <1>7, <1>8 DEF Next, Processor

-----------------------------------------------------------------------------
(* The theorems *)

\* The invariant holds at first, ...
LEMMA Starts == ASSUME Init PROVE IInv
  <1> USE DEF Init
  <1>1. TypeInv
    <2>1. verdict \in Seq({"pass", "fail", "skip"}) /\ Len(verdict) = 0
      OBVIOUS
    <2>2. Len(Suite) \in Nat \ {0}
      BY SuiteAssumption, EmptySeq, LenProperties
    <2>3. memory \in Memories /\ restricts \in BOOLEAN /\ lone \in BOOLEAN
      BY SuiteAssumption
    <2>4. mem = [r \in Regions |-> mem[r]]
      OBVIOUS
    <2>5. test = Len(verdict) + 1 /\ test \in 1..(Len(Suite) + 1) /\ (pc = "over" <=> test = Len(Suite) + 1)
      BY <2>1, <2>2
    <2> QED BY <2>1, <2>3, <2>4, <2>5 DEF TypeInv
  <1>2. AbsentInv /\ BootInv /\ NsInv /\ CheckInv /\ IdleInv /\ LoopInv /\ PortInv /\ EndInv /\ ResultInv
    BY
    DEF AbsentInv, BootInv, NsInv, CheckInv, IdleInv, LoopInv, PortInv, EndInv,
        ResultInv
  <1>3. RegionInv /\ DebuggerIsUsed
    BY DEF RegionInv, DebuggerIsUsed
  <1> QED BY <1>1, <1>2, <1>3 DEF IInv, StepInv

\* ... and while nothing happens.
LEMMA Stays == ASSUME IInv, UNCHANGED vars PROVE IInv'
  <1> USE
      DEF vars, peVars, loopVars, nvVars, doneVars, portVars, words, scriptVars, target
  <1>1. UNCHANGED <<memory, restricts, lone, port, nsOnly, mem, flag, data, halted, script, addr, held, pc, todo,
                    at, visited, taken, started, cb, saved, resumed, result, test, verdict, met>>
    OBVIOUS
  <1>2. TypeInv' /\ AbsentInv' /\ DebuggerIsUsed'
    BY <1>1 DEF IInv, TypeInv, AbsentInv, DebuggerIsUsed, Regions, HasSecure, Kind
  <1>3. BootInv' /\ NsInv' /\ CheckInv' /\ IdleInv' /\ PortInv' /\ EndInv' /\ ResultInv'
    BY <1>1
    DEF IInv, StepInv, BootInv, NsInv, CheckInv, IdleInv, PortInv, EndInv, ResultInv,
        Idle, Request,
                Opens, Shuts, Regions, HasSecure, Kind
  <1>4. LoopInv'
    BY <1>1 DEF IInv, StepInv, LoopInv, Before, Passed, Opens, Shuts, Regions, Kind
  <1>5. RegionInv'
    BY <1>1
    DEF IInv, StepInv, RegionInv, OpenLeft, ClosedLeft, OpenStage, ClosedStage, Opens,
        Shuts, Idle,
                Request, Answer, Cleared, Reaches, Content, Kind
  <1> QED BY <1>2, <1>3, <1>4, <1>5 DEF IInv, StepInv

\* Hence it is one, for suites in the order of the pool.
LEMMA Invariant == ASSUME InOrder PROVE Spec => []IInv
  <1>1. Init => IInv
    BY Starts
  <1>2. IInv /\ [Next]_vars => IInv'
    <2>1. ASSUME IInv, Next PROVE IInv'
      BY <2>1, Types, Absences, Boots, NonSecures, Checks, Idles, Loops, Ports, Rounds,
          Ends, Results, Uses
         DEF IInv, StepInv
    <2> QED BY <2>1, Stays
  <1> QED BY <1>1, <1>2, PTL DEF Spec

\* A test that begins with the debugger there is not skipped, and no request or answer of the
\* handshake is lost: for every target, every behaviour of the script, and every suite in order.
THEOREM NoAnswerIsLost == ASSUME InOrder PROVE Spec => []DebuggerIsUsed
  <1>1. IInv => DebuggerIsUsed
    BY DEF IInv
  <1> QED BY <1>1, Invariant, PTL
=============================================================================
