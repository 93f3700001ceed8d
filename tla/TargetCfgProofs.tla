---------------------------- MODULE TargetCfgProofs ----------------------------
(***************************************************************************)
(* Lookups are exact in every database that the walk may rely on, whatever *)
(* its groups and their sizes, and whatever loop asks for the records; and *)
(* the loops do what they are for in every database that is generated as   *)
(* the generator does it.                                                  *)
(***************************************************************************)
EXTENDS TargetCfg, FiniteSetTheorems, TLAPS

\* No cell up to and including the one the walk stands on is the one that is looked for.
PassedInVain(d, i, id) == \A j \in 1..i : d[j].id # id

\* The inductive invariant.  The walk may jump over the group of a header it stands on, for the
\* group is another one: it never rests on the header of the group that is looked for.
WalkInv ==
    /\ WellFormed(db)
    /\ at \in 0..Len(db)
    /\ pc = "walk" =>
          /\ PassedInVain(db, at, want)
          /\ at # 0 /\ IsHeader(db[at]) => db[at].id.grp # want.grp
          /\ AtEnd => Overruns(db, want)
    /\ LookupExact

\* A description as it was generated is well formed, and nothing has been read of it yet.
LEMMA InitWalk == Init => WalkInv
<1> SUFFICES ASSUME Init PROVE WalkInv
    OBVIOUS
<1>1. WellFormed(db)
    BY DatabaseAssumption DEF Init, Databases
<1>2. Len(db) \in Nat
    BY <1>1 DEF WellFormed
<1>3. at = 0 /\ pc = "walk"
    BY DEF Init
<1> QED
    BY <1>1, <1>2, <1>3 DEF WalkInv, PassedInVain, AtEnd, LookupExact

\* Where the next cell is, and that the jump to it passes no cell that is looked for.
LEMMA NextCell ==
    ASSUME WalkInv, pc = "walk", ~AtEnd,
           NEW p, p = IF at = 0 THEN 1 ELSE at + db[at].span
    PROVE  /\ p \in 1..Len(db)
           /\ PassedInVain(db, p - 1, want)
<1>1. CASE at = 0
    BY <1>1 DEF WalkInv, WellFormed, PassedInVain
<1>2. CASE at # 0
    <2>1. at \in 1..(Len(db) - 1) /\ Len(db) \in Nat
        BY <1>2 DEF WalkInv, WellFormed, AtEnd
    <2>2. /\ db[at].span \in Nat /\ db[at].span > 0 /\ at + db[at].span <= Len(db)
          /\ ~IsHeader(db[at]) => db[at].span = 1
          /\ IsHeader(db[at]) => \A j \in (at + 1)..(at + db[at].span - 1) : db[j].id.grp = db[at].id.grp
        BY <2>1 DEF WalkInv, WellFormed
    <2>3. p = at + db[at].span
        BY <1>2
    <2>4. PassedInVain(db, at, want)
        BY DEF WalkInv
    <2>5. ASSUME NEW j \in 1..(p - 1), j > at
          PROVE  db[j].id # want
        <3>1. IsHeader(db[at]) /\ j \in (at + 1)..(at + db[at].span - 1)
            BY <2>1, <2>2, <2>3, <2>5
        <3>2. db[at].id.grp # want.grp
            BY <1>2, <3>1 DEF WalkInv
        <3> QED
            BY <2>2, <3>1, <3>2
    <2> QED
        BY <2>1, <2>2, <2>3, <2>4, <2>5 DEF PassedInVain
<1> QED
    BY <1>1, <1>2

\* One entry looked at: the walk goes on to the next entry or ends at the right one.
LEMMA ExamineWalk == WalkInv /\ Examine => WalkInv'
<1> SUFFICES ASSUME WalkInv, Examine PROVE WalkInv'
    OBVIOUS
<1> DEFINE p == IF at = 0 THEN 1 ELSE at + db[at].span
           enters == IsHeader(db[p]) /\ db[p].id.grp = want.grp /\ db[p].id # want
           q == IF enters THEN p + 1 ELSE p
<1>1. /\ db' = db /\ want' = want /\ at' = q
      /\ IF db[q].id = want THEN pc' = "answer" /\ hit' = "found"
         ELSE IF ~enters /\ db[q].id = EndId THEN pc' = "answer" /\ hit' = "missing"
         ELSE UNCHANGED <<pc, hit>>
    BY DEF Examine
<1>2. p \in 1..Len(db) /\ PassedInVain(db, p - 1, want)
    BY NextCell DEF Examine
<1>3. WellFormed(db) /\ Len(db) \in Nat
    BY DEF WalkInv, WellFormed
<1>4. /\ enters => /\ q = p + 1 /\ IsHeader(db[p]) /\ db[p].id.grp = want.grp
                   /\ db[p].id # want
      /\ ~enters => q = p /\ ~(IsHeader(db[p]) /\ db[p].id.grp = want.grp /\ db[p].id # want)
      /\ enters \in BOOLEAN
    OBVIOUS
<1>5. pc = "walk"
    BY DEF Examine
<1> HIDE DEF p, q, enters
<1>6. q \in 1..Len(db) /\ PassedInVain(db, q - 1, want)
    <2>1. CASE enters
        <3>1. p # Len(db)
            BY <1>3, <1>4, <2>1 DEF WellFormed
        <3>2. q = p + 1 /\ q - 1 = p /\ db[p].id # want
            BY <1>2, <1>4, <2>1
        <3> QED
            BY <1>2, <1>3, <3>1, <3>2 DEF PassedInVain
    <2>2. CASE ~enters
        BY <1>2, <1>4, <2>2
    <2> QED
        BY <2>1, <2>2
<1>7. WellFormed(db)' /\ (at \in 0..Len(db))'
    <2>1. WellFormed(db')
        BY <1>1, <1>3
    <2> QED
        BY <1>1, <1>6, <2>1
<1>8. CASE db[q].id = want
    <2>1. pc' = "answer" /\ hit' = "found"
        BY <1>1, <1>8
    <2> QED
        BY <1>1, <1>6, <1>7, <1>8, <2>1 DEF WalkInv, LookupExact
<1>9. CASE db[q].id # want
    <2>1. PassedInVain(db, q, want)
        BY <1>3, <1>6, <1>9 DEF PassedInVain
    <2>2. ASSUME db[q].id = EndId PROVE ~Has(db, want)
        <3>1. q = Len(db)
            BY <1>3, <1>6, <2>2 DEF WellFormed
        <3> QED
            BY <2>1, <3>1 DEF Has, PassedInVain
    <2>3. CASE ~enters /\ db[q].id = EndId
        <3>1. pc' = "answer" /\ hit' = "missing"
            BY <1>1, <1>9, <2>3
        <3> QED
            BY <1>1, <1>7, <2>2, <2>3, <3>1 DEF WalkInv, LookupExact
    <2>4. CASE ~(~enters /\ db[q].id = EndId)
        <3>1. pc' = "walk"
            BY <1>1, <1>9, <1>5, <2>4
        <3>2. ASSUME IsHeader(db[q]) PROVE db[q].id.grp # want.grp
            <4>1. CASE enters
                <5>1. p \in 1..(Len(db) - 1) /\ IsHeader(db[p]) /\ db[p].id.grp = want.grp /\ q # p
                    BY <1>2, <1>3, <1>4, <4>1 DEF WellFormed
                <5> QED
                    BY <1>3, <1>6, <3>2, <5>1 DEF WellFormed
            <4>2. CASE ~enters
                BY <1>9, <1>4, <3>2, <4>2
            <4> QED
                BY <4>1, <4>2
        <3>3. ASSUME db[q].id = EndId PROVE Overruns(db, want)
            <4>1. enters /\ q = Len(db)
                BY <1>3, <1>6, <2>4, <3>3 DEF WellFormed
            <4> QED
                BY <1>2, <1>3, <1>4, <2>2, <3>3, <4>1 DEF Overruns
        <3> QED
            BY <1>1, <1>6, <1>7, <2>1, <3>1, <3>2, <3>3
            DEF WalkInv, LookupExact, AtEnd, IsHeader, PassedInVain, Overruns, Has
    <2> QED
        BY <2>3, <2>4
<1> QED
    BY <1>8, <1>9

\* A walk that has left the description knows nothing of what it reads.
LEMMA OverrunWalk == WalkInv /\ Overrun => WalkInv'
<1> SUFFICES ASSUME WalkInv, Overrun PROVE WalkInv'
    OBVIOUS
<1>1. pc' = "astray" /\ db' = db /\ at' = at /\ want' = want
    BY DEF Overrun
<1>2. WellFormed(db') /\ at \in 0..Len(db') /\ Overruns(db', want)
    BY <1>1 DEF WalkInv, Overrun
<1> QED
    BY <1>1, <1>2 DEF WalkInv, LookupExact

\* A loop either asks for another record, from the start of the database, or is done.
LEMMA LoopAsksOrIsDone ==
    Loop => db' = db /\ ((pc' = "walk" /\ at' = 0) \/ (pc' = "done" /\ at' = at))
<1> SUFFICES ASSUME Loop
             PROVE  db' = db /\ ((pc' = "walk" /\ at' = 0) \/ (pc' = "done" /\ at' = at))
    OBVIOUS
<1>1. CASE Bounded   BY <1>1 DEF Bounded, Ask, Finish
<1>2. CASE Find      BY <1>2 DEF Find, Ask, Finish
<1>3. CASE Each      BY <1>3 DEF Each, Ask, Finish
<1>4. CASE Until     BY <1>4 DEF Until, Ask, Finish
<1>5. CASE Console   BY <1>5 DEF Console, Ask, Finish
<1>6. CASE InitAll   BY <1>6 DEF InitAll, Ask, Finish
<1>7. CASE ProbeAll  BY <1>7 DEF ProbeAll, Ask, Finish
<1>8. CASE Absent    BY <1>8 DEF Absent, Ask, Finish
<1>9. CASE Sweep     BY <1>9 DEF Sweep, SweepOn, Ask, Finish
<1>10. CASE SweepMisses  BY <1>10 DEF SweepMisses, SweepOn, Ask, Finish
<1> QED
    BY <1>1, <1>2, <1>3, <1>4, <1>5, <1>6, <1>7, <1>8, <1>9, <1>10 DEF Loop

\* A walk that makes no progress stays where it is.
LEMMA LoopWalk == WalkInv /\ Loop => WalkInv'
<1> SUFFICES ASSUME WalkInv, Loop PROVE WalkInv'
    OBVIOUS
<1>1. WellFormed(db)' /\ (at \in 0..Len(db))'
    <2>1. db' = db /\ (at' = 0 \/ at' = at)
        BY LoopAsksOrIsDone
    <2>2. WellFormed(db') /\ Len(db) \in Nat /\ at \in 0..Len(db)
        <3>1. Len(db) \in Nat
            BY DEF WalkInv, WellFormed
        <3> QED
            BY <2>1, <3>1 DEF WalkInv
    <2> QED
        BY <2>1, <2>2
<1>2. CASE pc' = "walk" /\ at' = 0
    BY <1>1, <1>2 DEF WalkInv, LookupExact, PassedInVain, AtEnd
<1>3. CASE pc' = "done"
    BY <1>1, <1>3 DEF WalkInv, LookupExact
<1> QED
    BY <1>2, <1>3, LoopAsksOrIsDone

\* Nothing changes when nothing happens.
LEMMA StutterWalk == WalkInv /\ UNCHANGED vars => WalkInv'
<1> SUFFICES ASSUME WalkInv, UNCHANGED vars PROVE WalkInv'
    OBVIOUS
<1>1. db' = db /\ pc' = pc /\ at' = at /\ want' = want /\ hit' = hit
    BY DEF vars
<1>2. WellFormed(db') /\ (Overruns(db', want') <=> Overruns(db, want)) /\ (Has(db', want') <=> Has(db, want))
    BY <1>1 DEF WalkInv
<1>3. LookupExact' /\ (AtEnd' <=> AtEnd)
    BY <1>1, <1>2 DEF WalkInv, LookupExact, AtEnd
<1>4. WellFormed(db)' /\ (at \in 0..Len(db))'
    BY <1>1, <1>2 DEF WalkInv
<1>5. ASSUME pc' = "walk"
      PROVE  /\ PassedInVain(db, at, want)'
             /\ (at # 0 /\ IsHeader(db[at]) => db[at].id.grp # want.grp)'
             /\ (AtEnd => Overruns(db, want))'
    BY <1>1, <1>2, <1>3, <1>5 DEF WalkInv
<1> QED
    BY <1>3, <1>4, <1>5 DEF WalkInv

\* The walk of val_target_get_cfg_blob, for every database that is well formed: what it finds is
\* what it was asked for, "not found" is only said of what is not there, and the end marker is
\* only passed for a record of an empty last group.
THEOREM WalkIsExact == Spec => []LookupExact
<1>1. WalkInv /\ [Next]_vars => WalkInv'
    <2> SUFFICES ASSUME WalkInv, [Next]_vars PROVE WalkInv'
        OBVIOUS
    <2>1. CASE Examine        BY <2>1, ExamineWalk
    <2>2. CASE Overrun        BY <2>2, OverrunWalk
    <2>3. CASE Loop           BY <2>3, LoopWalk
    <2>4. CASE Stopped        BY <2>4, StutterWalk DEF Stopped
    <2>5. CASE UNCHANGED vars BY <2>5, StutterWalk
    <2> QED
        BY <2>1, <2>2, <2>3, <2>4, <2>5 DEF Next
<1>2. WalkInv => LookupExact
    BY DEF WalkInv
<1> QED
    BY <1>1, <1>2, InitWalk, PTL DEF Spec

-----------------------------------------------------------------------------
(* The loops *)

\* How many instances a component has, the records of some components, and the identifiers a
\* loop over one component has gone through.
Number(m) == Len(Listing(db, call.grp, m))
Within(V) == {id \in RecordsOf : id.minor \in V}
Upto(k)   == [i \in 1..k |-> Id(call.grp, minor, i - 1)]

\* The components a sweep has been at since it began at s.
Visited(s, m) == IF s <= m THEN s..(m - 1) ELSE (s..(MinorMod - 1)) \cup (0..(m - 1))

LoopType ==
    /\ db \in Databases /\ call \in Calls
    /\ pc \in {"walk", "answer", "done", "astray"} /\ stage \in {"first", "loop"}
    /\ minor \in 0..(MinorMod - 1)
    /\ inst \in Nat /\ count \in Nat /\ region \in Nat /\ pass \in Nat
    /\ handled \in Seq([grp : Groups, minor : Nat, inst : Nat])

\* A search is at its first instance or has passed none of the type.
SearchInv ==
    stage = "loop" =>
        /\ handled = <<>> /\ \A i \in Tagged : i >= call.from => i >= inst
        /\ inst >= call.from
        /\ call.kind = "find" => count = Number(minor) /\ inst < count

\* A loop over a component has handled the instances before the one it is at.
EachInv ==
    stage = "loop" =>
        /\ handled = Upto(inst) /\ inst <= Number(minor)
        /\ call.kind = "each" => count = Number(minor) /\ inst < count

\* A sweep handles nothing but records and the header, and the header at most once for each time
\* the component number wrapped: in the passes before, and in this one when it has been at V.
OnlyHeader     == Range(handled) \subseteq RecordsOf \cup {HeaderOf(call.grp)}
HeaderTimes(V) == Times(HeaderOf(call.grp)) <= Wraps(pass) + (IF 0 \in V THEN 1 ELSE 0)

\* A sweep has counted the records of the components it has been at in this pass, and handled
\* them once more than the others.
SweepInv ==
    /\ pass < call.passes /\ OnlyHeader
    /\ stage = "first" => /\ HeaderTimes({}) /\ (pass = 0 => minor = call.minor)
                          /\ \A id \in RecordsOf : Times(id) = pass
    /\ stage = "loop" =>
          \E s \in 0..(MinorMod - 1) :
              /\ count = Cardinality(RecordsOf) /\ region < count
              /\ region = Cardinality(Within(Visited(s, minor)))
              /\ inst = 0 \/ (minor # 0 /\ inst < Number(minor))
              /\ HeaderTimes(Visited(s, minor)) /\ (pass = 0 => s = call.minor)
              /\ \A id \in RecordsOf :
                    Times(id) = IF id.minor \in Visited(s, minor) \/ (id.minor = minor /\ id.inst < inst)
                                THEN pass + 1 ELSE pass

Underway ==
    /\ stage = "first" =>
          /\ call.first # "none"
          /\ want = IF call.first = "header" THEN HeaderOf(call.grp) ELSE Id(call.grp, call.minor, 0)
    /\ stage = "loop" => want = InLoop(inst)
    /\ call.kind # "sweep" => minor = call.minor /\ (stage = "first" => handled = <<>>)
    /\ call.kind \in {"find", "console"} => SearchInv
    /\ call.kind \in {"each", "until", "init", "probe"} => EachInv
    /\ call.kind = "sweep" => SweepInv

ServesInv ==
    /\ LoopType
    /\ pc \in {"walk", "answer"} => Underway
    /\ Served

\* What the constants say of the database and of the loop.
LEMMA Table ==
    ASSUME DatabaseServes, LoopType
    PROVE  /\ Tabulated(db, call.grp) /\ Fits(call)
           /\ call.grp \in Groups /\ call.grp # "end" /\ call.from \in Nat
           /\ MinorMod \in Nat \ {0} /\ InstMod \in Nat \ {0} /\ WellFormed(db)
  BY CallsAssumption, DatabaseAssumption DEF DatabaseServes, LoopType, Databases

\* A record that is found says how many instances its component has.
LEMMA FoundRecord ==
    ASSUME DatabaseServes, LoopType, NEW m \in 1..(MinorMod - 1), NEW i \in Nat,
           NEW j \in 1..Len(db), db[j].id = Id(call.grp, m, i)
    PROVE  /\ db[j].per = Number(m) /\ i < Number(m)
           /\ Number(m) \in 0..(InstMod - 1)
           /\ Id(call.grp, m, i) \in RecordsOf /\ j \in RecordsAt(db, call.grp)
<1>1. Tabulated(db, call.grp)
    BY Table
<1>2. /\ db[j].id.grp = call.grp /\ db[j].id.minor = m /\ db[j].id.inst = i
    BY DEF Id
<1>3. j \in RecordsAt(db, call.grp)
    BY <1>2, Table DEF RecordsAt, IsHeader
<1>4. db[j].id \in Recorded(db, call.grp)
    BY <1>3 DEF Recorded
<1>5. db[j].per = Number(m)
    BY <1>1, <1>2, <1>3 DEF Tabulated, Number
<1>6. /\ Number(m) \in 0..(InstMod - 1)
      /\ \E k \in 0..(Number(m) - 1) : db[j].id = Id(call.grp, m, k)
    BY <1>1, <1>2, <1>4 DEF Tabulated, Number
<1>7. PICK k \in 0..(Number(m) - 1) : db[j].id = Id(call.grp, m, k)
    BY <1>6
<1>8. k = i
    BY <1>2, <1>7 DEF Id
<1> QED
    BY <1>3, <1>4, <1>5, <1>6, <1>7, <1>8, Table DEF RecordsOf

\* Every instance that a component has is found.
LEMMA InstanceIsThere ==
    ASSUME DatabaseServes, LoopType, NEW m \in 1..(MinorMod - 1), NEW i \in Nat, i < Number(m)
    PROVE  Has(db, Id(call.grp, m, i))
<1>1. Tabulated(db, call.grp)
    BY Table
<1>2. \A k \in 0..(Number(m) - 1) : Id(call.grp, m, k) \in Recorded(db, call.grp)
    BY <1>1 DEF Tabulated, Number
<1>3. Number(m) \in Nat
    BY <1>1, Table DEF Tabulated, Number
<1>4. Id(call.grp, m, i) \in Recorded(db, call.grp)
    BY <1>2, <1>3
<1> QED
    BY <1>4 DEF Recorded, RecordsAt, Has

\* A component number has eight bits.
LEMMA NextMinor ==
    ASSUME NEW M \in Nat \ {0}, NEW a \in 0..(M - 1)
    PROVE  (a + 1) % M = IF a + 1 = M THEN 0 ELSE a + 1
<1>1. CASE a + 1 = M
    BY <1>1
<1>2. CASE a + 1 < M
    BY <1>2
<1> QED
    BY <1>1, <1>2

\* One more instance handled.
LEMMA UptoNext ==
    ASSUME NEW k \in Nat, NEW g, NEW m
    PROVE  Append([i \in 1..k |-> Id(g, m, i - 1)], Id(g, m, k)) = [i \in 1..(k + 1) |-> Id(g, m, i - 1)]
<1> DEFINE s == [i \in 1..k |-> Id(g, m, i - 1)]
           t == [i \in 1..(k + 1) |-> Id(g, m, i - 1)]
<1>1. s \in Seq({Id(g, m, i) : i \in Nat}) /\ Len(s) = k
    OBVIOUS
<1>2. Append(s, Id(g, m, k)) = [i \in 1..(k + 1) |-> IF i \in 1..k THEN s[i] ELSE Id(g, m, k)]
    BY <1>1
<1>3. \A i \in 1..(k + 1) : (IF i \in 1..k THEN s[i] ELSE Id(g, m, k)) = Id(g, m, i - 1)
    OBVIOUS
<1> HIDE DEF s
<1> QED
    BY <1>2, <1>3

\* The records of a group are finitely many.
LEMMA RecordsFinite ==
    ASSUME DatabaseServes, LoopType
    PROVE  IsFiniteSet(RecordsOf)
<1> DEFINE at_ == RecordsAt(db, call.grp)
<1>1. IsFiniteSet(at_)
    <2>1. Len(db) \in Nat
        BY Table DEF WellFormed
    <2>2. IsFiniteSet(1..Len(db))
        BY <2>1, FS_Interval
    <2>3. at_ \in SUBSET (1..Len(db))
        BY DEF RecordsAt
    <2> QED
        BY <2>2, <2>3, FS_Subset
<1>2. [j \in at_ |-> db[j].id] \in Surjection(at_, RecordsOf)
    BY DEF Surjection, RecordsOf, Recorded
<1> QED
    BY <1>1, <1>2, FS_Surjection

\* The records of one component are as many as its instances.
LEMMA OfComponent ==
    ASSUME DatabaseServes, LoopType, NEW m \in 1..(MinorMod - 1)
    PROVE  /\ IsFiniteSet(Within({m})) /\ Cardinality(Within({m})) = Number(m)
           /\ Number(m) \in Nat
<1>1. Tabulated(db, call.grp)
    BY Table
<1>2. Number(m) \in Nat
    BY <1>1, Table DEF Tabulated, Number
<1>3. /\ \A id \in RecordsOf : id.minor = m => \E i \in 0..(Number(m) - 1) : id = Id(call.grp, m, i)
      /\ \A i \in 0..(Number(m) - 1) : Id(call.grp, m, i) \in RecordsOf
    BY <1>1 DEF Tabulated, Number, RecordsOf
<1> DEFINE f == [k \in 1..Number(m) |-> Id(call.grp, m, k - 1)]
<1>4. \A k \in 1..Number(m) : f[k] \in Within({m})
    BY <1>2, <1>3 DEF Within, Id
<1>5. \A k, l \in 1..Number(m) : f[k] = f[l] => k = l
    BY <1>2 DEF Id
<1>6. \A id \in Within({m}) : \E k \in 1..Number(m) : f[k] = id
    <2> SUFFICES ASSUME NEW id \in Within({m}) PROVE \E k \in 1..Number(m) : f[k] = id
        OBVIOUS
    <2>1. PICK i \in 0..(Number(m) - 1) : id = Id(call.grp, m, i)
        BY <1>3 DEF Within
    <2>2. i + 1 \in 1..Number(m) /\ f[i + 1] = id
        BY <1>2, <2>1
    <2> QED
        BY <2>2
<1>7. f \in [1..Number(m) -> Within({m})]
    BY <1>4
<1> HIDE DEF f
<1> DEFINE D == 1..Number(m)
           W == Within({m})
<1> HIDE DEF D, W
<1>8. f \in Bijection(D, W)
    <2>1. f \in [D -> W]
        BY <1>7 DEF D, W
    <2>2. \A k, l \in D : f[k] = f[l] => k = l
        BY <1>5 DEF D
    <2>3. \A id \in W : \E k \in D : f[k] = id
        BY <1>6 DEF D, W
    <2>4. f \in Injection(D, W)
        BY <2>1, <2>2 DEF Injection, IsInjective
    <2>5. f \in Surjection(D, W)
        BY <2>1, <2>3 DEF Surjection
    <2> QED
        BY <2>4, <2>5 DEF Bijection
<1>9. ExistsBijection(1..Number(m), Within({m}))
    BY <1>8 DEF ExistsBijection, D, W
<1>10. Cardinality(Within({m})) = Number(m)
    BY <1>2, <1>9, FS_CountingElements
<1>11. Within({m}) \in SUBSET RecordsOf
    BY DEF Within
<1> QED
    BY <1>2, <1>10, <1>11, RecordsFinite, FS_Subset

\* The records of one component more.
LEMMA CountedOn ==
    ASSUME DatabaseServes, LoopType, NEW V, NEW m \in 1..(MinorMod - 1), m \notin V
    PROVE  Cardinality(Within(V \cup {m})) = Cardinality(Within(V)) + Number(m)
<1>1. Within(V \cup {m}) = Within(V) \cup Within({m})
    BY DEF Within
<1>2. Within(V) \cap Within({m}) = {}
    BY DEF Within
<1>3. IsFiniteSet(Within(V)) /\ Cardinality(Within(V)) \in Nat
    <2>1. Within(V) \in SUBSET RecordsOf
        BY DEF Within
    <2> QED
        BY <2>1, RecordsFinite, FS_Subset, FS_CardinalityType
<1>4. Cardinality(Within(V) \cup Within({m})) =
          Cardinality(Within(V)) + Cardinality(Within({m})) - Cardinality({})
    BY <1>2, <1>3, OfComponent, FS_Union
<1>5. Cardinality(Within({m})) = Number(m) /\ Number(m) \in Nat
    BY OfComponent
<1>6. Cardinality({}) = 0
    BY FS_EmptySet
<1>7. Cardinality(Within(V) \cup Within({m})) = Cardinality(Within(V)) + Number(m)
    BY <1>3, <1>4, <1>5, <1>6
<1> QED
    BY <1>1, <1>7

\* A component without instances, or the number 0 that no component has, adds none.
LEMMA CountedNone ==
    ASSUME DatabaseServes, LoopType, NEW V, NEW m \in 0..(MinorMod - 1), m = 0 \/ Number(m) = 0
    PROVE  Within(V \cup {m}) = Within(V)
<1> SUFFICES ASSUME NEW id \in RecordsOf, id.minor = m PROVE FALSE
    BY DEF Within
<1>1. Tabulated(db, call.grp)
    BY Table
<1>2. id.minor \in 1..(MinorMod - 1)
    BY <1>1 DEF Tabulated, RecordsOf, Recorded
<1>3. m \in 1..(MinorMod - 1) /\ m # 0
    BY <1>2
<1>4. \E i \in 0..(Number(m) - 1) : id = Id(call.grp, m, i)
    BY <1>1, <1>3 DEF Tabulated, Number, RecordsOf
<1> QED
    BY <1>3, <1>4

\* A sweep that has counted as many records as there are has handled all of them.
LEMMA CountedAll ==
    ASSUME DatabaseServes, LoopType, NEW V, Cardinality(Within(V)) >= Cardinality(RecordsOf)
    PROVE  \A id \in RecordsOf : id.minor \in V
<1>1. Within(V) \in SUBSET RecordsOf
    BY DEF Within
<1>2. /\ Cardinality(Within(V)) <= Cardinality(RecordsOf)
      /\ Cardinality(Within(V)) = Cardinality(RecordsOf) => RecordsOf = Within(V)
      /\ Cardinality(RecordsOf) \in Nat /\ IsFiniteSet(Within(V))
    BY <1>1, RecordsFinite, FS_Subset, FS_CardinalityType
<1>3. Cardinality(Within(V)) \in Nat
    BY <1>2, FS_CardinalityType
<1>4. RecordsOf = Within(V)
    BY <1>2, <1>3
<1> QED
    BY <1>4 DEF Within

\* How often something occurs in a sequence, and that it does once more when it is appended.
Occurs(h, id) == Cardinality({k \in 1..Len(h) : h[k] = id})

\* One occurrence more.
LEMMA OnceMore ==
    ASSUME NEW S, NEW h \in Seq(S), NEW w \in S, NEW id
    PROVE  Occurs(Append(h, w), id) = Occurs(h, id) + (IF id = w THEN 1 ELSE 0)
<1> DEFINE old == {k \in 1..Len(h) : h[k] = id}
           new == {k \in 1..Len(Append(h, w)) : Append(h, w)[k] = id}
<1>1. Len(h) \in Nat /\ Len(Append(h, w)) = Len(h) + 1 /\ Append(h, w)[Len(h) + 1] = w
    OBVIOUS
<1>2. \A k \in 1..Len(h) : Append(h, w)[k] = h[k]
    OBVIOUS
<1>3. old \in SUBSET (1..Len(h)) /\ IsFiniteSet(1..Len(h))
    BY <1>1, FS_Interval
<1>4. IsFiniteSet(old) /\ Cardinality(old) \in Nat
    BY <1>3, FS_Subset, FS_CardinalityType
<1>5. CASE id = w
    <2>1. new = old \cup {Len(h) + 1} /\ Len(h) + 1 \notin old
        BY <1>1, <1>2, <1>5
    <2> HIDE DEF old, new, Occurs
    <2>2. Cardinality(new) = Cardinality(old) + 1
        BY <2>1, <1>4, FS_AddElement
    <2> QED
        BY <1>5, <2>2 DEF old, new, Occurs
<1>6. CASE id # w
    <2>1. new = old
        BY <1>1, <1>2, <1>6
    <2> HIDE DEF old, new, Occurs
    <2> QED
        <3>1. Cardinality(new) = Cardinality(old) + 0
            BY <1>4, <2>1
        <3> QED
            BY <1>6, <3>1 DEF old, new, Occurs
<1> QED
    BY <1>5, <1>6

\* Something occurs in a sequence a number of times.
LEMMA OccursNumber ==
    ASSUME NEW S, NEW h \in Seq(S), NEW id
    PROVE  Occurs(h, id) \in Nat
<1>1. {k \in 1..Len(h) : h[k] = id} \in SUBSET (1..Len(h)) /\ IsFiniteSet(1..Len(h))
    BY FS_Interval
<1> QED
    BY <1>1, FS_Subset, FS_CardinalityType DEF Occurs

\* A first pass that began at the first component is over before the component number wraps.
LEMMA FirstPassEnds ==
    ASSUME DatabaseServes, LoopType, minor = 0,
           Cardinality(Within(Visited(1, minor))) < Cardinality(RecordsOf)
    PROVE  FALSE
<1>1. Visited(1, minor) = 1..(MinorMod - 1)
    BY Table DEF Visited
<1>2. \A id \in RecordsOf : id.minor \in 1..(MinorMod - 1)
    BY Table DEF Tabulated, RecordsOf, Recorded
<1>3. Within(Visited(1, minor)) = RecordsOf
    BY <1>1, <1>2 DEF Within
<1>4. Cardinality(RecordsOf) \in Nat
    BY RecordsFinite, FS_CardinalityType
<1> QED
    BY <1>3, <1>4

-----------------------------------------------------------------------------
(* The steps *)

\* The database and the loop stay what they are.
LEMMA SameTable ==
    ASSUME db' = db, call' = call
    PROVE  /\ RecordsOf' = RecordsOf /\ (minor' = minor => Tagged' = Tagged)
           /\ \A m : Number(m)' = Number(m)
           /\ \A V : Within(V)' = Within(V)
           /\ handled' = handled => /\ OnlyHeader' = OnlyHeader
                                    /\ pass' = pass => \A V : HeaderTimes(V)' = HeaderTimes(V)
<1>1. RecordsOf' = RecordsOf
    BY DEF RecordsOf
<1>2. minor' = minor => Tagged' = Tagged
    BY DEF Tagged, InLoop
<1>3. \A m : Number(m)' = Number(m)
    BY DEF Number
<1>4. \A V : Within(V)' = Within(V)
    BY <1>1 DEF Within
<1>5. handled' = handled => OnlyHeader' = OnlyHeader
    BY <1>1 DEF OnlyHeader
<1>6. handled' = handled /\ pass' = pass => \A V : HeaderTimes(V)' = HeaderTimes(V)
    BY DEF HeaderTimes, Times, Wraps
<1> QED
    BY <1>1, <1>2, <1>3, <1>4, <1>5, <1>6

\* An instance of the type that is searched for is one of the component's.
LEMMA TaggedBelow ==
    ASSUME DatabaseServes, LoopType, minor # 0
    PROVE  \A i \in Tagged : i \in Nat /\ i < Number(minor)
<1> SUFFICES ASSUME NEW i \in Tagged PROVE i \in Nat /\ i < Number(minor)
    OBVIOUS
<1>1. i \in Nat /\ minor \in 1..(MinorMod - 1)
    BY Table DEF Tagged, LoopType
<1>2. PICK j \in 1..Len(db) : db[j].id = Id(call.grp, minor, i)
    BY DEF Tagged, InLoop
<1> QED
    BY <1>1, <1>2, FoundRecord

\* Whether an instance is of the type is what its record says.
LEMMA TaggedIs ==
    ASSUME DatabaseServes, LoopType, minor # 0, NEW j \in 1..Len(db), db[j].id = InLoop(inst)
    PROVE  inst \in Tagged <=> db[j].tag
<1>1. inst \in Nat /\ minor \in 1..(MinorMod - 1)
    BY Table DEF LoopType
<1>2. inst \in 0..(InstMod - 1) /\ j \in RecordsAt(db, call.grp)
    BY <1>1, FoundRecord, Table DEF InLoop
<1>3. \A k \in 1..Len(db) : db[k].id = InLoop(inst) => k \in RecordsAt(db, call.grp)
    BY <1>1, FoundRecord DEF InLoop
<1>4. \A k \in 1..Len(db) : db[k].id = InLoop(inst) => k = j
    BY <1>2, <1>3, Table DEF Tabulated
<1> QED
    BY <1>2, <1>4 DEF Tagged

\* Every loop begins as it should.
LEMMA InitServes == DatabaseServes /\ Init => ServesInv
<1> SUFFICES ASSUME DatabaseServes, Init PROVE ServesInv
    OBVIOUS
<1>1. PICK c \in Calls : InitCall(c)
    BY DEF Init
<1>2. call = c /\ db \in Databases /\ pc = "walk"
    BY <1>1 DEF Init, InitCall
<1>3. Fits(c) /\ c.from \in Nat /\ MinorMod \in Nat \ {0}
    BY CallsAssumption DEF DatabaseServes
<1>4. LoopType
    BY <1>1, <1>2, <1>3 DEF LoopType, InitCall, Fits
<1>5. /\ minor = call.minor /\ inst = call.from /\ pass = 0 /\ handled = <<>>
      /\ stage = IF call.first = "none" THEN "loop" ELSE "first"
      /\ want = IF call.first = "header" THEN HeaderOf(call.grp) ELSE Id(call.grp, call.minor, 0)
    BY <1>1, <1>2 DEF InitCall
<1>6. stage = "loop" => /\ want = InLoop(inst) /\ inst = 0
                        /\ call.kind \in {"until", "console", "init", "probe"}
    BY <1>2, <1>3, <1>5 DEF Fits, InLoop
<1>7. call.kind \in {"find", "console"} => SearchInv
    BY <1>3, <1>2, <1>5, <1>6 DEF SearchInv, Tagged
<1>8. call.kind \in {"each", "until", "init", "probe"} => EachInv
    <2>1. Number(minor) \in Nat
        BY <1>2, <1>3, <1>4, <1>5, OfComponent DEF Fits
    <2>2. Upto(0) = <<>>
        BY DEF Upto
    <2> QED
        BY <1>5, <1>6, <2>1, <2>2 DEF EachInv
<1>9. call.kind = "sweep" => SweepInv
    <2> SUFFICES ASSUME call.kind = "sweep" PROVE SweepInv
        OBVIOUS
    <2>1. call.passes \in Nat \ {0} /\ stage = "first"
        BY <1>2, <1>3, <1>5 DEF Fits
    <2>2. \A id : {k \in 1..Len(handled) : handled[k] = id} = {}
        BY <1>5
    <2>3. \A id : Times(id) = 0
        BY <2>2, FS_EmptySet DEF Times
    <2>4. OnlyHeader
        BY <1>5 DEF OnlyHeader, Range
    <2>5. HeaderTimes({})
        BY <1>5, <2>3 DEF HeaderTimes, Wraps
    <2> QED
        BY <1>5, <2>1, <2>3, <2>4, <2>5 DEF SweepInv
<1> QED
    BY <1>2, <1>4, <1>5, <1>6, <1>7, <1>8, <1>9 DEF ServesInv, Underway, Served

\* The walk changes nothing of the loop.
LEMMA WalkServes ==
    DatabaseServes /\ ServesInv /\ (Examine \/ Overrun \/ UNCHANGED vars) => ServesInv'
<1> SUFFICES ASSUME DatabaseServes, ServesInv, Examine \/ Overrun \/ UNCHANGED vars PROVE ServesInv'
    OBVIOUS
<1>1. /\ db' = db /\ call' = call /\ want' = want /\ stage' = stage /\ minor' = minor
      /\ inst' = inst /\ count' = count /\ region' = region /\ pass' = pass /\ handled' = handled
      /\ verdict' = verdict
    BY DEF Examine, Overrun, vars, loopVars
<1>2. /\ pc' \in {"walk", "answer"} => pc \in {"walk", "answer"}
      /\ pc' = "done" => pc = "done"
      /\ pc' \in {"walk", "answer", "done", "astray"}
    BY DEF Examine, Overrun, vars, loopVars, ServesInv, LoopType
<1>3. LoopType'
    BY <1>1, <1>2 DEF ServesInv, LoopType
<1>4. /\ RecordsOf' = RecordsOf /\ Tagged' = Tagged
      /\ \A m : Number(m)' = Number(m) /\ InstancesOf(m)' = InstancesOf(m)
      /\ \A V : Within(V)' = Within(V)
      /\ \A id : Times(id)' = Times(id)
      /\ \A i : Upto(i)' = Upto(i) /\ InLoop(i)' = InLoop(i)
      /\ OnlyHeader' = OnlyHeader /\ \A V : HeaderTimes(V)' = HeaderTimes(V)
      /\ \A s : Visited(s, minor)' = Visited(s, minor)
      /\ Wraps(call.passes)' = Wraps(call.passes)
    BY <1>1, SameTable DEF Times, Upto, InLoop, InstancesOf, Visited, Wraps
<1>5. ASSUME pc \in {"walk", "answer"} PROVE Underway'
    <2>1. Underway
        BY <1>5 DEF ServesInv
    <2>2. SearchInv => SearchInv'
        BY <1>1, <1>4 DEF SearchInv
    <2>3. EachInv => EachInv'
        BY <1>1, <1>4 DEF EachInv
    <2>4. SweepInv => SweepInv'
        BY <1>1, <1>4 DEF SweepInv
    <2> QED
        BY <1>1, <1>4, <2>1, <2>2, <2>3, <2>4 DEF Underway
<1>6. Served'
    <2> SUFFICES ASSUME pc' = "done" PROVE Served'
        BY DEF Served
    <2> QED
        BY <1>1, <1>2, <1>4 DEF ServesInv, Served, FirstTagged
<1> QED
    BY <1>2, <1>3, <1>5, <1>6 DEF ServesInv

-----------------------------------------------------------------------------
\* An answer is true: what was found is there, what was not is nowhere.
LEMMA Answer ==
    ASSUME WalkInv, pc = "answer"
    PROVE  /\ hit = "found" => at \in 1..Len(db) /\ db[at].id = want
           /\ hit = "missing" => ~Has(db, want)
  BY DEF WalkInv, LookupExact

\* The bound of a loop is the number of what it goes over.
LEMMA BoundIs ==
    ASSUME DatabaseServes, LoopType, Underway, stage = "first",
           NEW j \in 1..Len(db), db[j].id = want,
           NEW n, n = IF call.bound = "num" THEN db[j].num ELSE db[j].per
    PROVE  /\ n \in Nat
           /\ call.kind \in {"find", "each"} => n = Number(call.minor)
           /\ call.kind = "sweep" => n = Cardinality(RecordsOf)
<1>1. Tabulated(db, call.grp) /\ Fits(call)
    BY Table
<1>2. call.first = "record" \/ call.first = "header"
    BY <1>1 DEF Fits, Underway
<1>3. Cardinality(RecordsOf) \in Nat
    BY RecordsFinite, FS_CardinalityType
<1>4. call.minor \in 1..(MinorMod - 1)
    BY <1>1 DEF Fits
<1>5. CASE call.first = "record"
    <2>1. call.bound = "per" /\ call.kind \in {"find", "each"}
        BY <1>1, <1>5 DEF Fits
    <2>2. db[j].id = Id(call.grp, call.minor, 0)
        BY <1>5 DEF Underway
    <2>3. db[j].per = Number(call.minor) /\ Number(call.minor) \in Nat
        BY <1>4, <2>2, FoundRecord, OfComponent
    <2> QED
        BY <2>1, <2>3
<1>6. CASE call.first = "header"
    <2>1. call.bound = "num"
        BY <1>1, <1>6 DEF Fits
    <2>2. db[j].id = HeaderOf(call.grp)
        BY <1>6 DEF Underway
    <2>3. n = Cardinality(RecordsOf)
        BY <1>1, <2>1, <2>2 DEF Tabulated, RecordsOf
    <2>4. ASSUME call.kind \in {"find", "each"} PROVE n = Number(call.minor)
        <3>1. \A id \in Recorded(db, call.grp) : id.minor = call.minor
            BY <1>1, <1>6, <2>4 DEF Fits, LoopType
        <3>2. RecordsOf = Within({call.minor})
            BY <3>1 DEF RecordsOf, Within
        <3> QED
            BY <1>4, <2>3, <3>2, OfComponent
    <2> QED
        BY <1>3, <2>3, <2>4
<1> QED
    BY <1>2, <1>5, <1>6

\* The loop has its bound: it starts with the first instance, or there is none.
LEMMA BoundedServes ==
    ASSUME DatabaseServes, WalkInv, ServesInv, Bounded
    PROVE  ServesInv'
<1>1. /\ pc = "answer" /\ stage = "first" /\ hit = "found"
      /\ call.kind \in {"find", "each", "sweep"}
      /\ stage' = "loop" /\ inst' = call.from /\ region' = 0
      /\ count' = IF call.bound = "num" THEN db[at].num ELSE db[at].per
      /\ db' = db /\ call' = call /\ minor' = minor /\ pass' = pass /\ handled' = handled
      /\ IF inst' < count' THEN Ask(InLoop(inst'))
         ELSE Finish(IF call.kind = "find" THEN "missing" ELSE "ok")
    BY DEF Bounded, Answered
<1>2. LoopType /\ Underway /\ Fits(call) /\ call.from \in Nat /\ MinorMod \in Nat \ {0}
    BY <1>1, Table DEF ServesInv
<1>3. at \in 1..Len(db) /\ db[at].id = want
    BY <1>1, Answer
<1>4. /\ count' \in Nat
      /\ call.kind \in {"find", "each"} => count' = Number(call.minor)
      /\ call.kind = "sweep" => count' = Cardinality(RecordsOf)
    BY <1>1, <1>2, <1>3, BoundIs
<1>5. /\ pc' = "walk" /\ inst' < count' /\ want' = InLoop(inst') /\ verdict' = verdict
      \/ /\ pc' = "done" /\ ~(inst' < count')
         /\ verdict' = IF call.kind = "find" THEN "missing" ELSE "ok"
    BY <1>1 DEF Ask, Finish
<1>6. LoopType'
    BY <1>1, <1>2, <1>4, <1>5 DEF LoopType
<1>7. /\ RecordsOf' = RecordsOf /\ Tagged' = Tagged
      /\ \A m : Number(m)' = Number(m) /\ InstancesOf(m)' = InstancesOf(m)
      /\ \A V : Within(V)' = Within(V)
      /\ \A id : Times(id)' = Times(id)
      /\ \A i : Upto(i)' = Upto(i) /\ InLoop(i)' = InLoop(i)
      /\ OnlyHeader' = OnlyHeader /\ \A V : HeaderTimes(V)' = HeaderTimes(V)
    BY <1>1, SameTable DEF Times, Upto, InLoop, InstancesOf
<1>8. call.kind # "sweep" => minor = call.minor /\ handled = <<>>
    BY <1>1, <1>2 DEF Underway
<1>9. call.minor \in 1..(MinorMod - 1)
    BY <1>2 DEF Fits
<1>10. CASE call.kind = "find"
    <2>1. \A i \in Tagged : i \in Nat /\ i < Number(minor)
        BY <1>2, <1>8, <1>9, <1>10, TaggedBelow
    <2>2. handled' = <<>> /\ minor' = call.minor /\ count' = Number(minor)
        BY <1>1, <1>4, <1>8, <1>10
    <2>3. CASE pc' = "walk"
        <3>1. SearchInv'
            BY <1>1, <1>2, <1>5, <1>7, <2>1, <2>2, <2>3 DEF SearchInv
        <3> QED
            BY <1>1, <1>5, <1>6, <1>7, <1>10, <2>2, <2>3, <3>1
            DEF ServesInv, Underway, Served
    <2>4. CASE pc' = "done"
        <3>1. ~(\E i \in Tagged : i >= call.from)
            BY <1>1, <1>2, <1>4, <1>5, <2>1, <2>2, <2>4
        <3> QED
            BY <1>1, <1>5, <1>6, <1>7, <1>10, <2>2, <2>4, <3>1 DEF ServesInv, Served
    <2> QED
        BY <1>5, <2>3, <2>4
<1>11. CASE call.kind = "each"
    <2>1. handled' = <<>> /\ minor' = call.minor /\ count' = Number(minor) /\ inst' = 0
        BY <1>1, <1>2, <1>4, <1>8, <1>11 DEF Fits
    <2>2. Upto(0) = <<>>
        BY DEF Upto
    <2>3. CASE pc' = "walk"
        <3>1. EachInv'
            BY <1>1, <1>4, <1>5, <1>7, <2>1, <2>2, <2>3 DEF EachInv
        <3> QED
            BY <1>1, <1>5, <1>6, <1>7, <1>11, <2>1, <2>3, <3>1
            DEF ServesInv, Underway, Served
    <2>4. CASE pc' = "done"
        <3>1. Number(minor) = 0
            BY <1>4, <1>5, <2>1, <2>4
        <3>2. InstancesOf(call.minor) = [i \in 1..0 |-> Id(call.grp, call.minor, i - 1)]
            BY <1>1, <1>2, <1>8, <1>9, <1>11, <3>1, Table
            DEF Tabulated, InstancesOf, Number
        <3>3. InstancesOf(call.minor) = <<>>
            BY <3>2
        <3> QED
            BY <1>1, <1>5, <1>6, <1>7, <1>11, <2>1, <2>4, <3>3 DEF ServesInv, Served
    <2> QED
        BY <1>5, <2>3, <2>4
<1>12. CASE call.kind = "sweep"
    <2>1. /\ pass < call.passes /\ inst' = 0 /\ count' = Cardinality(RecordsOf)
          /\ OnlyHeader /\ HeaderTimes({}) /\ (pass = 0 => minor = call.minor)
          /\ \A id \in RecordsOf : Times(id) = pass
        BY <1>1, <1>2, <1>4, <1>12 DEF Underway, SweepInv, Fits
    <2>2. CASE pc' = "walk"
        <3>1. Visited(minor, minor) = {}
            BY <1>2 DEF LoopType, Visited
        <3>2. Within({}) = {}
            BY DEF Within
        <3>3. region' = Cardinality(Within(Visited(minor, minor))) /\ region' < count'
            BY <1>1, <1>5, <2>1, <2>2, <3>1, <3>2, FS_EmptySet
        <3>4. \A id \in RecordsOf : ~(id.minor \in Visited(minor, minor) \/ (id.minor = minor /\ id.inst < 0))
            <4> SUFFICES ASSUME NEW id \in RecordsOf, id.minor = minor, id.inst < 0 PROVE FALSE
                BY <3>1
            <4>1. id.minor \in 1..(MinorMod - 1)
                BY Table, <1>2 DEF Tabulated, RecordsOf, Recorded
            <4>2. \E i \in 0..(Number(minor) - 1) : id = Id(call.grp, minor, i)
                BY <4>1, Table, <1>2 DEF Tabulated, RecordsOf, Number
            <4> QED
                BY <4>2 DEF Id
        <3>5. SweepInv'
            <4>1. \A id \in RecordsOf :
                      Times(id)' = IF id.minor \in Visited(minor, minor) \/ (id.minor = minor /\ id.inst < inst')
                                   THEN pass + 1 ELSE pass
                BY <1>7, <2>1, <3>4
            <4>2. minor \in 0..(MinorMod - 1) /\ (inst' = 0)
                BY <1>2, <2>1 DEF LoopType
            <4>3. Visited(minor, minor)' = Visited(minor, minor)
                BY <1>1 DEF Visited
            <4>4. HeaderTimes(Visited(minor, minor))'
                BY <1>7, <2>1, <3>1, <4>3
            <4>5. OnlyHeader' /\ (pass' = 0 => minor = call'.minor)
                BY <1>1, <1>7, <2>1
            <4> QED
                BY <1>1, <1>7, <2>1, <3>3, <4>1, <4>2, <4>3, <4>4, <4>5 DEF SweepInv
        <3> QED
            BY <1>1, <1>5, <1>6, <1>7, <1>12, <2>2, <3>5 DEF ServesInv, Underway, Served
    <2>3. CASE pc' = "done"
        <3>1. Cardinality(RecordsOf) = 0
            BY <1>4, <1>5, <2>1, <2>3
        <3>2. RecordsOf = {}
            BY <1>2, <3>1, RecordsFinite, FS_EmptySet
        <3>3. Times(HeaderOf(call.grp)) <= Wraps(call.passes)
            <4>1. pass \in Nat /\ call.passes \in Nat \ {0}
                BY <1>2, <1>12 DEF LoopType, Fits
            <4>2. Times(HeaderOf(call.grp)) \in Nat
                <5>1. Times(HeaderOf(call.grp)) = Occurs(handled, HeaderOf(call.grp))
                    BY DEF Occurs, Times
                <5> QED
                    BY <1>2, <5>1, OccursNumber DEF LoopType
            <4> QED
                BY <2>1, <4>1, <4>2 DEF HeaderTimes, Wraps
        <3>4. /\ Range(handled)' \subseteq RecordsOf' \cup {HeaderOf(call.grp)'}
              /\ Times(HeaderOf(call.grp))' <= Wraps(call.passes)'
            BY <1>1, <1>7, <2>1, <3>3 DEF OnlyHeader, Wraps, Times
        <3> QED
            BY <1>1, <1>6, <1>7, <1>12, <2>3, <3>2, <3>4 DEF ServesInv, Served
    <2> QED
        BY <1>5, <2>2, <2>3
<1> QED
    BY <1>1, <1>10, <1>11, <1>12

\* What a loop over one component stands on when its instance is found.
LEMMA Stands ==
    ASSUME DatabaseServes, WalkInv, ServesInv, pc = "answer", hit = "found", stage = "loop",
           call.kind # "sweep"
    PROVE  /\ LoopType /\ Underway /\ Fits(call) /\ call.from \in Nat
           /\ MinorMod \in Nat \ {0} /\ InstMod \in Nat \ {0}
           /\ minor = call.minor /\ minor \in 1..(MinorMod - 1) /\ inst \in Nat
           /\ want = InLoop(inst) /\ want \in [grp : Groups, minor : Nat, inst : Nat]
           /\ at \in 1..Len(db) /\ db[at].id = InLoop(inst)
           /\ db[at].per = Number(minor) /\ inst < Number(minor)
           /\ Number(minor) \in Nat /\ Number(minor) < InstMod
<1>1. /\ LoopType /\ Underway /\ Fits(call) /\ call.from \in Nat /\ call.grp \in Groups
      /\ MinorMod \in Nat \ {0} /\ InstMod \in Nat \ {0}
    BY Table DEF ServesInv
<1>2. minor = call.minor /\ want = InLoop(inst)
    BY <1>1 DEF Underway
<1>3. minor \in 1..(MinorMod - 1) /\ inst \in Nat
    BY <1>1, <1>2 DEF Fits, LoopType
<1>4. at \in 1..Len(db) /\ db[at].id = InLoop(inst)
    BY <1>2, Answer
<1>5. /\ db[at].per = Number(minor) /\ inst < Number(minor)
      /\ Number(minor) \in 0..(InstMod - 1)
    BY <1>1, <1>3, <1>4, FoundRecord DEF InLoop
<1>6. want \in [grp : Groups, minor : Nat, inst : Nat]
    BY <1>1, <1>2, <1>3 DEF InLoop, Id
<1> QED
    BY <1>1, <1>2, <1>3, <1>4, <1>5, <1>6

\* A search ends with the first instance of the type, or goes on without one.
LEMMA SearchServes ==
    ASSUME DatabaseServes, WalkInv, ServesInv, Find \/ Console
    PROVE  ServesInv'
<1>1. /\ pc = "answer" /\ hit = "found" /\ stage = "loop" /\ call.kind \in {"find", "console"}
      /\ db' = db /\ call' = call /\ stage' = stage /\ minor' = minor /\ count' = count
      /\ region' = region /\ pass' = pass /\ inst' = inst + 1
    BY DEF Find, Console, Answered
<1> DEFINE bound == IF call.kind = "find" THEN count ELSE db[at].per
<1>2. \/ db[at].tag /\ pc' = "done" /\ verdict' = "ok" /\ handled' = <<want>>
      \/ ~db[at].tag /\ inst' < bound /\ pc' = "walk" /\ want' = InLoop(inst') /\ handled' = handled
      \/ ~db[at].tag /\ ~(inst' < bound) /\ pc' = "done" /\ verdict' # "ok" /\ handled' = handled
    BY DEF Find, Console, Answered, Ask, Finish
<1>3. /\ LoopType /\ Underway /\ Fits(call) /\ call.from \in Nat
      /\ minor = call.minor /\ minor \in 1..(MinorMod - 1) /\ inst \in Nat
      /\ want = InLoop(inst) /\ want \in [grp : Groups, minor : Nat, inst : Nat]
      /\ at \in 1..Len(db) /\ db[at].id = InLoop(inst)
      /\ db[at].per = Number(minor) /\ inst < Number(minor) /\ Number(minor) \in Nat
    BY <1>1, Stands
<1>4. SearchInv
    BY <1>1, <1>3 DEF Underway
<1>5. bound = Number(minor)
    BY <1>1, <1>3, <1>4 DEF SearchInv
<1> HIDE DEF bound
<1>6. <<want>> \in Seq([grp : Groups, minor : Nat, inst : Nat])
    BY <1>3
<1>7. LoopType'
    <2>1. handled' \in Seq([grp : Groups, minor : Nat, inst : Nat])
        BY <1>2, <1>3, <1>6 DEF LoopType
    <2>2. pc' \in {"walk", "done"}
        BY <1>2
    <2> QED
        BY <1>1, <1>3, <2>1, <2>2 DEF LoopType
<1>8. /\ Tagged' = Tagged /\ Number(minor)' = Number(minor)
      /\ \A i : InLoop(i)' = InLoop(i)
    BY <1>1, SameTable DEF InLoop
<1>9. inst \in Tagged <=> db[at].tag
    BY <1>3, TaggedIs
<1>10. \A i \in Tagged : i \in Nat /\ i < Number(minor) /\ (i >= call.from => i >= inst)
    BY <1>1, <1>3, <1>4, TaggedBelow DEF SearchInv
<1>11. inst >= call.from /\ handled = <<>>
    BY <1>1, <1>4 DEF SearchInv
<1>12. CASE db[at].tag
    <2>1. pc' = "done" /\ verdict' = "ok" /\ handled' = <<InLoop(inst)>>
        BY <1>2, <1>3, <1>12
    <2>2. inst \in Tagged /\ FirstTagged(inst)
        BY <1>9, <1>10, <1>12 DEF FirstTagged
    <2>3. \E i \in Tagged' : handled' = <<InLoop(i)'>> /\ i \in Tagged /\ \A k \in Tagged : k >= call.from => i <= k
        BY <1>8, <2>1, <2>2 DEF FirstTagged
    <2>4. Served'
        BY <1>1, <1>8, <1>11, <2>1, <2>2, <2>3 DEF Served, FirstTagged
    <2> QED
        BY <1>7, <2>1, <2>4 DEF ServesInv
<1>13. CASE ~db[at].tag
    <2>1. \A i \in Tagged : i >= call.from => i >= inst + 1
        BY <1>3, <1>9, <1>10, <1>13
    <2>2. CASE inst' < bound
        <3>1. pc' = "walk" /\ want' = InLoop(inst') /\ handled' = <<>>
            BY <1>2, <1>11, <1>13, <2>2
        <3>2. SearchInv'
            BY <1>1, <1>3, <1>4, <1>5, <1>8, <1>11, <2>1, <2>2, <3>1 DEF SearchInv
        <3> QED
            BY <1>1, <1>3, <1>7, <1>8, <3>1, <3>2 DEF ServesInv, Underway, Served
    <2>3. CASE ~(inst' < bound)
        <3>1. pc' = "done" /\ verdict' # "ok" /\ handled' = <<>>
            BY <1>2, <1>11, <1>13, <2>3
        <3>2. ~(\E i \in Tagged : i >= call.from)
            BY <1>1, <1>3, <1>5, <1>10, <2>1, <2>3
        <3>3. Served'
            BY <1>1, <1>8, <3>1, <3>2 DEF Served
        <3> QED
            BY <1>7, <3>1, <3>3 DEF ServesInv
    <2> QED
        BY <2>2, <2>3
<1> QED
    BY <1>12, <1>13

\* The instances of the component, in their order, are those up to their number.
LEMMA AllOfThem ==
    ASSUME DatabaseServes, LoopType, minor = call.minor, call.minor # 0
    PROVE  InstancesOf(call.minor) = Upto(Number(minor))
  BY Table DEF Tabulated, InstancesOf, Number, Upto, LoopType

\* A loop over a component handles the instance and goes on to the next, if there is one.
LEMMA EachServes ==
    ASSUME DatabaseServes, WalkInv, ServesInv, Each \/ Until \/ InitAll \/ ProbeAll
    PROVE  ServesInv'
<1>1. /\ pc = "answer" /\ hit = "found" /\ stage = "loop"
      /\ call.kind \in {"each", "until", "init", "probe"}
      /\ db' = db /\ call' = call /\ stage' = stage /\ minor' = minor /\ count' = count
      /\ region' = region /\ pass' = pass /\ handled' = Append(handled, want)
    BY DEF Each, Until, InitAll, ProbeAll, Answered
<1>2. /\ LoopType /\ Underway /\ Fits(call) /\ InstMod \in Nat \ {0}
      /\ minor = call.minor /\ minor \in 1..(MinorMod - 1) /\ inst \in Nat
      /\ want = InLoop(inst) /\ want \in [grp : Groups, minor : Nat, inst : Nat]
      /\ db[at].per = Number(minor) /\ inst < Number(minor)
      /\ Number(minor) \in Nat /\ Number(minor) < InstMod
    BY <1>1, Stands
<1>3. EachInv
    BY <1>1, <1>2 DEF Underway
<1>4. inst' = inst + 1
    <2>1. inst \in 0..(InstMod - 1) /\ inst + 1 # InstMod
        BY <1>2
    <2>2. (inst + 1) % InstMod = inst + 1
        BY <1>2, <2>1, NextMinor
    <2> QED
        BY <2>2 DEF Each, Until, InitAll, ProbeAll
<1>5. \/ pc' = "walk" /\ want' = InLoop(inst') /\ (call.kind = "each" => inst' < count)
      \/ pc' = "done" /\ inst' >= Number(minor)
    <2>1. CASE Each
        <3>1. call.kind = "each" /\ count = Number(minor)
            BY <1>1, <1>3, <2>1 DEF EachInv, Each, Answered
        <3> QED
            BY <1>2, <1>4, <2>1, <3>1 DEF Each, Ask, Finish
    <2>2. CASE Until
        BY <1>2, <1>4, <2>2 DEF Until, Ask, Finish, Answered
    <2>3. CASE InitAll
        <3>1. inst' # 0
            BY <1>2, <1>4
        <3> QED
            BY <2>3, <3>1 DEF InitAll, Ask, Answered
    <2>4. CASE ProbeAll
        BY <2>4 DEF ProbeAll, Ask, Answered
    <2> QED
        BY <2>1, <2>2, <2>3, <2>4
<1>6. handled' = Upto(inst + 1)
    <2>1. handled = [i \in 1..inst |-> Id(call.grp, minor, i - 1)]
        BY <1>1, <1>3 DEF EachInv, Upto
    <2> QED
        BY <1>1, <1>2, <2>1, UptoNext DEF InLoop, Upto
<1>7. LoopType'
    <2>1. handled' \in Seq([grp : Groups, minor : Nat, inst : Nat])
        BY <1>1, <1>2 DEF LoopType
    <2> QED
        BY <1>1, <1>2, <1>4, <1>5, <2>1 DEF LoopType
<1>8. /\ \A m : Number(m)' = Number(m) /\ InstancesOf(m)' = InstancesOf(m)
      /\ \A i : Upto(i)' = Upto(i) /\ InLoop(i)' = InLoop(i)
    BY <1>1, SameTable DEF Upto, InLoop, InstancesOf
<1>9. CASE pc' = "walk"
    <2>1. want' = InLoop(inst') /\ (call.kind = "each" => inst' < count)
        BY <1>5, <1>9
    <2>2. EachInv'
        <3>1. handled' = Upto(inst') /\ inst' <= Number(minor)
            BY <1>2, <1>4, <1>6
        <3>2. call.kind = "each" => count' = Number(minor) /\ inst' < count'
            BY <1>1, <1>3, <2>1 DEF EachInv
        <3> QED
            BY <1>1, <1>8, <3>1, <3>2 DEF EachInv
    <2> QED
        BY <1>1, <1>2, <1>7, <1>8, <1>9, <2>1, <2>2 DEF ServesInv, Underway, Served
<1>10. CASE pc' = "done"
    <2>1. inst + 1 = Number(minor)
        BY <1>2, <1>4, <1>5, <1>10
    <2>2. handled' = InstancesOf(call.minor)
        BY <1>2, <1>6, <2>1, AllOfThem
    <2> QED
        BY <1>1, <1>7, <1>8, <1>10, <2>2 DEF ServesInv, Served
<1> QED
    BY <1>5, <1>9, <1>10

\* A loop that gets no answer has gone through the component, or was looking in vain.
LEMMA AbsentServes ==
    ASSUME DatabaseServes, WalkInv, ServesInv, Absent
    PROVE  ServesInv'
<1>1. /\ pc = "answer" /\ hit = "missing" /\ ~(call.kind = "sweep" /\ stage = "loop")
      /\ pc' = "done" /\ verdict' = (IF call.kind = "probe" THEN "ok" ELSE "fail")
      /\ db' = db /\ call' = call /\ stage' = stage /\ minor' = minor /\ count' = count
      /\ inst' = inst /\ region' = region /\ pass' = pass /\ handled' = handled
    BY DEF Absent, Finish
<1>2. LoopType /\ Underway /\ Fits(call) /\ MinorMod \in Nat \ {0}
    BY <1>1, Table DEF ServesInv
<1>3. ~Has(db, want)
    BY <1>1, Answer
<1>4. LoopType'
    BY <1>1, <1>2 DEF LoopType
<1>5. /\ Tagged' = Tagged
      /\ \A m : InstancesOf(m)' = InstancesOf(m)
    BY <1>1, SameTable DEF InstancesOf
<1>6. CASE call.kind = "sweep"
    BY <1>1, <1>4, <1>6 DEF ServesInv, Served
<1>7. CASE call.kind # "sweep"
    <2>1. minor = call.minor /\ minor \in 1..(MinorMod - 1) /\ Number(minor) \in Nat
        <3>1. minor = call.minor /\ minor \in 1..(MinorMod - 1)
            BY <1>2, <1>7 DEF Underway, Fits
        <3> QED
            BY <1>2, <3>1, OfComponent
    <2>2. InstancesOf(call.minor) = Upto(Number(minor))
        BY <1>2, <2>1, AllOfThem
    <2>3. \A i \in Tagged : i \in Nat /\ i < Number(minor)
        BY <1>2, <2>1, TaggedBelow
    <2>4. CASE stage = "first"
        <3>1. Number(minor) = 0
            <4>1. want = Id(call.grp, call.minor, 0)
                BY <1>2, <1>3, <2>4, Table DEF Underway, Tabulated
            <4>2. ~(0 < Number(minor))
                BY <1>2, <1>3, <2>1, <4>1, InstanceIsThere
            <4> QED
                BY <2>1, <4>2
        <3>2. handled' = <<>> /\ Upto(0) = <<>>
            BY <1>1, <1>2, <1>7, <2>4 DEF Underway, Upto
        <3>3. Tagged = {} /\ InstancesOf(call.minor) = <<>>
            BY <2>2, <2>3, <3>1, <3>2
        <3>4. call.kind \in {"find", "each"}
            BY <1>2, <1>7, <2>4 DEF Underway, Fits
        <3> QED
            BY <1>1, <1>4, <1>5, <3>2, <3>3, <3>4 DEF ServesInv, Served
    <2>5. CASE stage = "loop"
        <3>1. want = Id(call.grp, minor, inst) /\ inst \in Nat
            BY <1>2, <2>5 DEF Underway, InLoop, LoopType
        <3>2. ~(inst < Number(minor))
            BY <1>2, <1>3, <2>1, <3>1, InstanceIsThere
        <3>3. CASE call.kind \in {"find", "console"}
            <4>1. SearchInv
                BY <1>2, <3>3 DEF Underway
            <4>2. ~(\E i \in Tagged : i >= call.from) /\ handled' = <<>>
                BY <1>1, <2>1, <2>3, <2>5, <3>1, <3>2, <4>1 DEF SearchInv
            <4>3. verdict' # "ok"
                BY <1>1, <3>3
            <4> QED
                BY <1>1, <1>4, <1>5, <3>3, <4>2, <4>3 DEF ServesInv, Served
        <3>4. CASE call.kind \in {"each", "until", "init", "probe"}
            <4>1. EachInv
                BY <1>2, <3>4 DEF Underway
            <4>2. inst = Number(minor) /\ handled' = Upto(inst)
                BY <1>1, <2>1, <2>5, <3>1, <3>2, <4>1 DEF EachInv
            <4>3. handled' = InstancesOf(call.minor)
                BY <2>2, <4>2
            <4> QED
                BY <1>1, <1>4, <1>5, <3>4, <4>3 DEF ServesInv, Served
        <3> QED
            BY <1>2, <1>7, <3>3, <3>4 DEF Fits
    <2> QED
        BY <1>2, <2>4, <2>5 DEF LoopType
<1> QED
    BY <1>6, <1>7

\* What a sweep counts when it leaves a component behind, and where it goes on.
LEMMA SweptOne ==
    ASSUME DatabaseServes, LoopType, NEW s \in 0..(MinorMod - 1)
    PROVE  LET V == Visited(s, minor) \cup {minor}
               next == (minor + 1) % MinorMod
           IN  /\ minor \notin Visited(s, minor)
               /\ next \in 0..(MinorMod - 1)
               /\ V = 0..(MinorMod - 1) \/ V = Visited(s, next)
<1>1. MinorMod \in Nat \ {0} /\ minor \in 0..(MinorMod - 1) /\ s \in Nat /\ minor \in Nat
    BY Table DEF LoopType
<1>2. (minor + 1) % MinorMod = IF minor + 1 = MinorMod THEN 0 ELSE minor + 1
    BY <1>1, NextMinor
<1>3. minor \notin Visited(s, minor)
    BY <1>1 DEF Visited
<1>4. CASE minor + 1 = MinorMod
    <2>1. Visited(s, minor) = s..(minor - 1)
        BY <1>1, <1>4 DEF Visited
    <2>2. CASE s = 0
        <3>1. Visited(s, minor) \cup {minor} = 0..(MinorMod - 1)
            BY <1>1, <1>4, <2>1, <2>2
        <3> QED
            BY <1>1, <1>2, <1>3, <1>4, <3>1
    <2>3. CASE s # 0
        <3>1. Visited(s, 0) = s..(MinorMod - 1)
            BY <1>1, <2>3 DEF Visited
        <3>2. Visited(s, minor) \cup {minor} = s..(MinorMod - 1)
            BY <1>1, <1>4, <2>1
        <3> QED
            BY <1>1, <1>2, <1>3, <1>4, <3>1, <3>2
    <2> QED
        BY <2>2, <2>3
<1>5. CASE minor + 1 # MinorMod
    <2>1. CASE s <= minor
        <3>1. Visited(s, minor) \cup {minor} = s..minor
            BY <1>1, <2>1 DEF Visited
        <3>2. Visited(s, minor + 1) = s..minor
            BY <1>1, <2>1 DEF Visited
        <3> QED
            BY <1>1, <1>2, <1>3, <1>5, <3>1, <3>2
    <2>2. CASE s = minor + 1
        <3>1. Visited(s, minor) \cup {minor} = 0..(MinorMod - 1)
            BY <1>1, <1>5, <2>2 DEF Visited
        <3> QED
            BY <1>1, <1>2, <1>3, <1>5, <3>1
    <2>3. CASE s > minor + 1
        <3>1. Visited(s, minor) \cup {minor} = (s..(MinorMod - 1)) \cup (0..minor)
            BY <1>1, <2>3 DEF Visited
        <3>2. Visited(s, minor + 1) = (s..(MinorMod - 1)) \cup (0..minor)
            BY <1>1, <2>3 DEF Visited
        <3> QED
            BY <1>1, <1>2, <1>3, <1>5, <3>1, <3>2
    <2> QED
        BY <1>1, <2>1, <2>2, <2>3
<1> QED
    BY <1>4, <1>5

\* A sweep leaves a component behind, with its records handled and counted: it goes on to the
\* next, begins another pass, or has handled every record as often as it should.
LEMMA SweepGoesOn ==
    ASSUME DatabaseServes, ServesInv, pc = "answer", stage = "loop", call.kind = "sweep",
           db' = db, call' = call, count' = count,
           handled' \in Seq([grp : Groups, minor : Nat, inst : Nat]),
           NEW s \in 0..(MinorMod - 1), NEW regions \in Nat,
           regions = Cardinality(Within(Visited(s, minor) \cup {minor})),
           \A id \in RecordsOf :
               Times(id)' = IF id.minor \in Visited(s, minor) \cup {minor} THEN pass + 1 ELSE pass,
           OnlyHeader', pass = 0 => s = call.minor, pass = 0 /\ call.minor = 1 => minor # 0,
           Times(HeaderOf(call.grp))' <=
               Wraps(pass) + (IF 0 \in Visited(s, minor) \cup {minor} THEN 1 ELSE 0),
           SweepOn(regions, (minor + 1) % MinorMod)
    PROVE  ServesInv'
<1> DEFINE V == Visited(s, minor) \cup {minor}
           next == (minor + 1) % MinorMod
<1>1. LoopType /\ Underway /\ SweepInv /\ Fits(call) /\ pass \in Nat
    BY Table DEF ServesInv, Underway, LoopType
<1>2. next \in 0..(MinorMod - 1) /\ (V = 0..(MinorMod - 1) \/ V = Visited(s, next))
    BY <1>1, SweptOne
<1>3. pass < call.passes /\ count = Cardinality(RecordsOf) /\ call.passes \in Nat \ {0}
    BY <1>1 DEF SweepInv, Fits
<1>4. \A id \in RecordsOf : Times(id)' = IF id.minor \in V THEN pass + 1 ELSE pass
    OBVIOUS
<1>5. regions = Cardinality(Within(V))
    OBVIOUS
<1>6. minor' = next /\ inst' = 0
    BY DEF SweepOn
<1> DEFINE headers == Times(HeaderOf(call.grp))'
<1>14. headers \in Nat /\ headers <= Wraps(pass) + (IF 0 \in V THEN 1 ELSE 0)
    <2>1. headers = Occurs(handled', HeaderOf(call.grp))
        BY DEF Occurs, Times
    <2> QED
        BY <2>1, OccursNumber
<1>15. headers <= Wraps(pass + 1)
    <2>1. CASE pass = 0 /\ call.minor = 1
        <3>1. 0 \notin V
            BY <1>1, <2>1, Table DEF LoopType, Visited
        <3> QED
            BY <1>14, <2>1, <3>1 DEF Wraps
    <2>2. CASE ~(pass = 0 /\ call.minor = 1)
        <3>1. Wraps(pass + 1) = Wraps(pass) + 1 /\ Wraps(pass) \in Nat
            BY <1>1, <2>2 DEF Wraps
        <3> QED
            BY <1>14, <3>1
    <2> QED
        BY <2>1, <2>2
<1>7. \/ /\ regions < count /\ region' = regions /\ stage' = stage /\ pass' = pass
         /\ pc' = "walk" /\ want' = Id(call.grp, minor', 0)
      \/ /\ regions >= count /\ pass + 1 < call.passes
         /\ region' = 0 /\ pass' = pass + 1 /\ stage' = "first"
         /\ pc' = "walk" /\ want' = HeaderOf(call.grp)
      \/ /\ regions >= count /\ pass + 1 >= call.passes /\ region' = regions
         /\ pc' = "done" /\ stage' = stage /\ pass' = pass
    BY DEF SweepOn, Ask, Finish
<1> HIDE DEF V, next, headers
<1>8. LoopType'
    <2>1. /\ pc' \in {"walk", "done"} /\ stage' \in {"first", "loop"} /\ region' \in Nat
          /\ pass' \in Nat
        BY <1>1, <1>7
    <2> QED
        BY <1>1, <1>2, <1>6, <2>1 DEF LoopType
<1>9. /\ RecordsOf' = RecordsOf
      /\ \A W : Within(W)' = Within(W)
    BY SameTable
<1>10. regions >= count => \A id \in RecordsOf : Times(id)' = pass + 1
    BY <1>1, <1>3, <1>4, <1>5, CountedAll
<1>11. CASE regions < count
    <2>1. /\ region' = regions /\ stage' = "loop" /\ pass' = pass /\ pc' = "walk"
          /\ want' = Id(call.grp, next, 0)
        BY <1>3, <1>6, <1>7, <1>11, RecordsFinite, <1>1, FS_CardinalityType
    <2>2. V = Visited(s, next)
        <3> SUFFICES ASSUME V = 0..(MinorMod - 1) PROVE FALSE
            BY <1>2
        <3>1. \A id \in RecordsOf : id.minor \in V
            BY <1>1, Table DEF Tabulated, RecordsOf, Recorded
        <3>2. Within(V) = RecordsOf
            BY <3>1 DEF Within
        <3> QED
            BY <1>3, <1>5, <1>11, <3>2
    <2>3. \A id \in RecordsOf :
              Times(id)' = IF id.minor \in Visited(s, next) \/ (id.minor = next /\ id.inst < 0)
                           THEN pass + 1 ELSE pass
        <3>1. \A id \in RecordsOf : id.inst \in Nat
            <4> SUFFICES ASSUME NEW id \in RecordsOf PROVE id.inst \in Nat
                OBVIOUS
            <4>1. id.minor \in 1..(MinorMod - 1)
                BY <1>1, Table DEF Tabulated, RecordsOf, Recorded
            <4>2. \E i \in 0..(Number(id.minor) - 1) : id = Id(call.grp, id.minor, i)
                BY <1>1, <4>1, Table DEF Tabulated, RecordsOf, Number
            <4> QED
                BY <4>2 DEF Id
        <3> QED
            BY <1>4, <2>2, <3>1
    <2>4. SweepInv'
        <3>1. /\ pass' < call'.passes /\ stage' = "loop" /\ count' = Cardinality(RecordsOf')
              /\ region' < count' /\ inst' = 0 /\ region' = Cardinality(Within(Visited(s, minor)))'
            <4>1. Visited(s, minor)' = Visited(s, next)
                BY <1>6 DEF Visited
            <4>2. Within(Visited(s, minor))' = Within(V)
                BY <1>9, <2>2, <4>1
            <4> QED
                BY <1>3, <1>5, <1>6, <1>9, <1>11, <2>1, <4>2
        <3>2. \A id \in RecordsOf' :
                  Times(id)' = IF id.minor \in Visited(s, minor)' \/ (id.minor = minor' /\ id.inst < inst')
                               THEN pass' + 1 ELSE pass'
            <4>1. Visited(s, minor)' = Visited(s, next)
                BY <1>6 DEF Visited
            <4> QED
                BY <1>6, <1>9, <2>1, <2>3, <4>1
        <3>3. OnlyHeader' /\ HeaderTimes(Visited(s, minor))' /\ (pass' = 0 => s = call'.minor)
            <4>1. Visited(s, minor)' = V
                BY <1>6, <2>2 DEF Visited
            <4>2. Wraps(pass)' = Wraps(pass)
                BY <2>1 DEF Wraps
            <4>3. headers <= Wraps(pass)' + (IF 0 \in Visited(s, minor)' THEN 1 ELSE 0)
                BY <1>14, <4>1, <4>2
            <4>4. HeaderTimes(Visited(s, minor))'
                BY <4>3 DEF HeaderTimes, headers
            <4> QED
                BY <2>1, <4>4
        <3> QED
            BY <3>1, <3>2, <3>3 DEF SweepInv
    <2> QED
        BY <1>6, <1>8, <2>1, <2>4 DEF ServesInv, Underway, Served, InLoop
<1>12. CASE regions >= count /\ pass + 1 < call.passes
    <2>1. /\ region' = 0 /\ pass' = pass + 1 /\ stage' = "first"
          /\ pc' = "walk" /\ want' = HeaderOf(call.grp)
        <3>1. count \in Nat
            BY <1>1 DEF LoopType
        <3> QED
            BY <1>1, <1>3, <1>7, <1>12, <3>1
    <2>4. HeaderTimes({})'
        <3>1. Wraps(pass)' = Wraps(pass + 1) /\ Wraps(pass + 1) \in Nat
            BY <1>1, <2>1 DEF Wraps
        <3> QED
            BY <1>14, <1>15, <3>1 DEF HeaderTimes, headers
    <2>2. SweepInv'
        <3>1. pass' # 0 /\ pass' < call'.passes
            BY <1>1, <1>12, <2>1
        <3>2. \A id \in RecordsOf' : Times(id)' = pass'
            BY <1>9, <1>10, <1>12, <2>1
        <3> QED
            BY <2>1, <2>4, <3>1, <3>2 DEF SweepInv
    <2>3. call.first = "header"
        BY <1>1 DEF Fits
    <2> QED
        BY <1>8, <2>1, <2>2, <2>3 DEF ServesInv, Underway, Served
<1>13. CASE regions >= count /\ pass + 1 >= call.passes
    <2>1. pc' = "done"
        <3>1. count \in Nat
            BY <1>1 DEF LoopType
        <3> QED
            BY <1>1, <1>3, <1>7, <1>13, <3>1
    <2>2. \A id \in RecordsOf : Times(id)' = call.passes
        BY <1>1, <1>3, <1>10, <1>13
    <2>4. Range(handled)' \subseteq RecordsOf' \cup {HeaderOf(call.grp)'}
        BY DEF OnlyHeader
    <2>5. Times(HeaderOf(call.grp))' <= Wraps(call.passes)'
        <3>1. pass + 1 = call.passes
            BY <1>1, <1>3, <1>13
        <3> QED
            BY <1>15, <3>1 DEF headers, Wraps
    <2>3. Served'
        BY <1>9, <2>2, <2>4, <2>5 DEF Served
    <2> QED
        BY <1>8, <2>1, <2>3 DEF ServesInv
<1> QED
    <2>1. count \in Nat
        BY <1>1 DEF LoopType
    <2> QED
        BY <1>1, <1>3, <1>11, <1>12, <1>13, <2>1

\* A component that is not there is skipped, or the test fails.
LEMMA SweepMissesServes ==
    ASSUME DatabaseServes, WalkInv, ServesInv, SweepMisses
    PROVE  ServesInv'
<1>1. /\ pc = "answer" /\ hit = "missing" /\ stage = "loop" /\ call.kind = "sweep"
      /\ db' = db /\ call' = call /\ count' = count /\ handled' = handled
    BY DEF SweepMisses, Answered
<1>2. /\ LoopType /\ Underway /\ SweepInv /\ MinorMod \in Nat \ {0} /\ Tabulated(db, call.grp)
    BY <1>1, Table DEF ServesInv, Underway
<1>3. PICK s \in 0..(MinorMod - 1) :
          /\ region = Cardinality(Within(Visited(s, minor)))
          /\ inst = 0 \/ (minor # 0 /\ inst < Number(minor))
          /\ HeaderTimes(Visited(s, minor)) /\ (pass = 0 => s = call.minor)
          /\ \A id \in RecordsOf :
                Times(id) = IF id.minor \in Visited(s, minor) \/ (id.minor = minor /\ id.inst < inst)
                            THEN pass + 1 ELSE pass
    BY <1>1, <1>2 DEF SweepInv
<1>4. /\ region \in Nat /\ inst \in Nat /\ minor \in 0..(MinorMod - 1)
      /\ handled \in Seq([grp : Groups, minor : Nat, inst : Nat])
    BY <1>2 DEF LoopType
<1>5. ~Has(db, Id(call.grp, minor, inst))
    BY <1>1, <1>2, Answer DEF Underway, InLoop
<1>6. minor # 0 /\ minor \in 1..(MinorMod - 1)
    <2> SUFFICES ASSUME minor = 0 PROVE FALSE
        BY <1>4
    <2>1. inst = 0
        BY <1>3
    <2> QED
        BY <1>2, <1>5, <2>1 DEF Tabulated, HeaderOf
<1>7. Number(minor) = 0 /\ inst = 0
    <2>1. ~(inst < Number(minor)) /\ Number(minor) \in Nat
        BY <1>2, <1>4, <1>5, <1>6, InstanceIsThere, OfComponent
    <2> QED
        BY <1>3, <2>1
<1>8. Within(Visited(s, minor) \cup {minor}) = Within(Visited(s, minor))
    BY <1>2, <1>4, <1>7, CountedNone
<1>9. \A id \in RecordsOf :
          Times(id)' = IF id.minor \in Visited(s, minor) \cup {minor} THEN pass + 1 ELSE pass
    <2>1. \A id \in RecordsOf : id.minor # minor
        <3>1. \A id \in Recorded(db, call.grp) :
                  id.minor = minor => \E i \in 0..(Number(minor) - 1) : id = Id(call.grp, minor, i)
            BY <1>2, <1>6 DEF Tabulated, Number
        <3> QED
            BY <1>7, <3>1 DEF RecordsOf
    <2>2. \A id : Times(id)' = Times(id)
        BY <1>1 DEF Times
    <2> QED
        BY <1>3, <2>1, <2>2
<1>10. CASE call.missing = "skip"
    <2>1. SweepOn(region, (minor + 1) % MinorMod)
        BY <1>10 DEF SweepMisses
    <2>2. region = Cardinality(Within(Visited(s, minor) \cup {minor}))
        BY <1>3, <1>8
    <2>3. OnlyHeader'
        BY <1>1, <1>2, SameTable DEF SweepInv
    <2>4. Times(HeaderOf(call.grp))' <=
              Wraps(pass) + (IF 0 \in Visited(s, minor) \cup {minor} THEN 1 ELSE 0)
        BY <1>1, <1>3, <1>6 DEF HeaderTimes, Times
    <2> QED
        BY <1>1, <1>3, <1>4, <1>6, <1>9, <2>1, <2>2, <2>3, <2>4, SweepGoesOn
<1>11. CASE call.missing # "skip"
    <2>1. /\ pc' = "done" /\ verdict' = "fail"
          /\ stage' = stage /\ minor' = minor /\ inst' = inst /\ region' = region /\ pass' = pass
        BY <1>11 DEF SweepMisses, Finish
    <2> QED
        BY <1>1, <1>2, <2>1 DEF ServesInv, LoopType, Served
<1> QED
    BY <1>10, <1>11

\* A record of the sweep is handled: the next of its component, or the next component.
LEMMA SweepServes ==
    ASSUME DatabaseServes, WalkInv, ServesInv, Sweep
    PROVE  ServesInv'
<1>1. /\ pc = "answer" /\ hit = "found" /\ stage = "loop" /\ call.kind = "sweep"
      /\ db' = db /\ call' = call /\ count' = count /\ handled' = Append(handled, want)
    BY DEF Sweep, Answered
<1>2. /\ LoopType /\ Underway /\ SweepInv /\ MinorMod \in Nat \ {0} /\ Tabulated(db, call.grp)
      /\ call.grp \in Groups /\ Fits(call)
    BY <1>1, Table DEF ServesInv, Underway
<1>3. PICK s \in 0..(MinorMod - 1) :
          /\ count = Cardinality(RecordsOf) /\ region < count
          /\ region = Cardinality(Within(Visited(s, minor)))
          /\ inst = 0 \/ (minor # 0 /\ inst < Number(minor))
          /\ HeaderTimes(Visited(s, minor)) /\ (pass = 0 => s = call.minor)
          /\ \A id \in RecordsOf :
                Times(id) = IF id.minor \in Visited(s, minor) \/ (id.minor = minor /\ id.inst < inst)
                            THEN pass + 1 ELSE pass
    BY <1>1, <1>2 DEF SweepInv
<1>4. /\ region \in Nat /\ inst \in Nat /\ minor \in 0..(MinorMod - 1) /\ pass \in Nat
      /\ handled \in Seq([grp : Groups, minor : Nat, inst : Nat])
    BY <1>2 DEF LoopType
<1>5. want = Id(call.grp, minor, inst)
    BY <1>1, <1>2 DEF Underway, InLoop
<1>6. want \in [grp : Groups, minor : Nat, inst : Nat]
    BY <1>2, <1>4, <1>5 DEF Id
<1>7. at \in 1..Len(db) /\ db[at].id = Id(call.grp, minor, inst)
    BY <1>1, <1>5, Answer
<1>8. handled' \in Seq([grp : Groups, minor : Nat, inst : Nat])
    BY <1>1, <1>4, <1>6
<1>9. \A id : Times(id)' = Times(id) + (IF id = want THEN 1 ELSE 0)
    <2>1. \A id : Times(id) = Occurs(handled, id) /\ Times(id)' = Occurs(Append(handled, want), id)
        BY <1>1 DEF Times, Occurs
    <2>2. \A id : Occurs(Append(handled, want), id) = Occurs(handled, id) + (IF id = want THEN 1 ELSE 0)
        BY <1>4, <1>6, OnceMore
    <2> QED
        BY <2>1, <2>2
<1>10. ~call.fixed /\ minor \notin Visited(s, minor)
    BY <1>2, <1>1, SweptOne DEF Fits
<1>11. \A id \in RecordsOf :
           /\ id.minor \in 1..(MinorMod - 1)
           /\ \E i \in 0..(Number(id.minor) - 1) : id = Id(call.grp, id.minor, i)
    <2> SUFFICES ASSUME NEW id \in RecordsOf
                 PROVE  /\ id.minor \in 1..(MinorMod - 1)
                        /\ \E i \in 0..(Number(id.minor) - 1) : id = Id(call.grp, id.minor, i)
        OBVIOUS
    <2>1. id.minor \in 1..(MinorMod - 1)
        BY <1>2 DEF Tabulated, RecordsOf, Recorded
    <2> QED
        BY <1>2, <2>1 DEF Tabulated, RecordsOf, Number
<1>12. \A id \in RecordsOf :
           Times(id)' = IF id.minor \in Visited(s, minor) \/ (id.minor = minor /\ id.inst < inst + 1)
                        THEN pass + 1 ELSE pass
    <2> SUFFICES ASSUME NEW id \in RecordsOf
                 PROVE  Times(id)' = IF id.minor \in Visited(s, minor) \/ (id.minor = minor /\ id.inst < inst + 1)
                                     THEN pass + 1 ELSE pass
        OBVIOUS
    <2>1. PICK i \in 0..(Number(id.minor) - 1) : id = Id(call.grp, id.minor, i)
        BY <1>11
    <2>2. id.inst = i /\ i \in Nat
        BY <2>1 DEF Id
    <2>3. CASE id = want
        <3>1. id.minor = minor /\ id.inst = inst
            BY <1>5, <2>3 DEF Id
        <3>2. Times(id) = pass
            BY <1>3, <1>4, <1>10, <3>1
        <3> QED
            BY <1>4, <1>9, <2>3, <3>1, <3>2
    <2>4. CASE id # want
        <3>1. id.minor = minor => id.inst # inst
            BY <1>5, <2>1, <2>2, <2>4
        <3>2. Times(id)' = Times(id) + 0
            BY <1>9, <2>4
        <3>3. (id.minor = minor /\ id.inst < inst + 1) <=> (id.minor = minor /\ id.inst < inst)
            BY <1>4, <2>2, <3>1
        <3> QED
            BY <1>3, <1>4, <3>2, <3>3
    <2> QED
        BY <2>3, <2>4
<1>15. OnlyHeader'
    <2>1. want \in RecordsOf \cup {HeaderOf(call.grp)}
        <3>1. CASE minor = 0
            BY <1>3, <1>5, <3>1 DEF HeaderOf
        <3>2. CASE minor # 0
            <4>1. minor \in 1..(MinorMod - 1)
                BY <1>2, <1>4, <3>2
            <4> QED
                BY <1>2, <1>4, <1>5, <1>7, <4>1, FoundRecord
        <3> QED
            BY <3>1, <3>2
    <2>2. Range(handled') \subseteq Range(handled) \cup {want}
        BY <1>1, <1>4, <1>6 DEF Range
    <2>3. Range(handled) \subseteq RecordsOf \cup {HeaderOf(call.grp)}
        BY <1>2 DEF SweepInv, OnlyHeader
    <2>4. RecordsOf' = RecordsOf /\ HeaderOf(call.grp)' = HeaderOf(call.grp)
        BY <1>1, SameTable
    <2> QED
        BY <2>1, <2>2, <2>3, <2>4 DEF OnlyHeader
<1>16. Times(HeaderOf(call.grp))' <=
           Wraps(pass) + (IF 0 \in Visited(s, minor) \cup {minor} THEN 1 ELSE 0)
    <2>1. HeaderOf(call.grp)' = HeaderOf(call.grp)
        BY <1>1
    <2>2. Times(HeaderOf(call.grp))' = Times(HeaderOf(call.grp)) + (IF HeaderOf(call.grp) = want THEN 1 ELSE 0)
        BY <1>1, <1>9, <2>1 DEF Times
    <2>3. Times(HeaderOf(call.grp)) \in Nat /\ Wraps(pass) \in Nat
        <3>1. Times(HeaderOf(call.grp)) = Occurs(handled, HeaderOf(call.grp))
            BY DEF Occurs, Times
        <3> QED
            BY <1>4, <3>1, OccursNumber DEF Wraps
    <2>4. HeaderOf(call.grp) = want => minor = 0
        BY <1>5 DEF HeaderOf, Id
    <2>5. Times(HeaderOf(call.grp)) <= Wraps(pass) + (IF 0 \in Visited(s, minor) THEN 1 ELSE 0)
        BY <1>3 DEF HeaderTimes
    <2> QED
        BY <1>10, <2>2, <2>3, <2>4, <2>5
<1>17. pass = 0 /\ call.minor = 1 => minor # 0
    BY <1>2, <1>3, FirstPassEnds
<1>13. CASE minor = 0
    <2>1. inst = 0 /\ db[at].id = HeaderOf(call.grp)
        BY <1>3, <1>7, <1>13 DEF HeaderOf
    <2>2. db[at].per = 0
        BY <1>2, <1>7, <2>1 DEF Tabulated
    <2>3. SweepOn(region + 0, (minor + 1) % MinorMod)
        BY <1>10, <2>1, <2>2 DEF Sweep
    <2>4. SweepOn(region, (minor + 1) % MinorMod)
        BY <1>4, <2>3
    <2>5. region = Cardinality(Within(Visited(s, minor) \cup {minor}))
        BY <1>2, <1>3, <1>4, <1>13, CountedNone
    <2>6. \A id \in RecordsOf :
              Times(id)' = IF id.minor \in Visited(s, minor) \cup {minor} THEN pass + 1 ELSE pass
        <3>1. \A id \in RecordsOf : id.minor # minor
            BY <1>11, <1>13
        <3> QED
            BY <1>12, <3>1
    <2> QED
        BY <1>1, <1>3, <1>4, <1>8, <1>15, <1>16, <1>17, <2>4, <2>5, <2>6, SweepGoesOn
<1>14. CASE minor # 0
    <2>1. minor \in 1..(MinorMod - 1)
        BY <1>4, <1>14
    <2>2. db[at].per = Number(minor) /\ inst < Number(minor) /\ Number(minor) \in Nat
        BY <1>2, <1>4, <1>7, <2>1, FoundRecord, OfComponent
    <2>3. CASE inst + 1 < Number(minor)
        <3>1. /\ inst' = inst + 1 /\ pc' = "walk" /\ want' = InLoop(inst')
              /\ minor' = minor /\ region' = region /\ pass' = pass /\ stage' = stage
            BY <2>2, <2>3 DEF Sweep, Ask
        <3>2. LoopType'
            BY <1>1, <1>2, <1>4, <1>8, <3>1 DEF LoopType
        <3>3. /\ RecordsOf' = RecordsOf /\ Number(minor)' = Number(minor)
              /\ \A W : Within(W)' = Within(W)
              /\ Visited(s, minor)' = Visited(s, minor)
            BY <1>1, <3>1, SameTable DEF Visited
        <3>4. SweepInv'
            <4>1. /\ pass' < call'.passes /\ stage' = "loop" /\ count' = Cardinality(RecordsOf')
                  /\ region' < count' /\ minor' # 0 /\ inst' < Number(minor)'
                  /\ region' = Cardinality(Within(Visited(s, minor)))'
                BY <1>1, <1>2, <1>3, <1>14, <2>3, <3>1, <3>3 DEF SweepInv
            <4>2. \A id \in RecordsOf' :
                      Times(id)' = IF id.minor \in Visited(s, minor)' \/ (id.minor = minor' /\ id.inst < inst')
                                   THEN pass' + 1 ELSE pass'
                BY <1>12, <3>1, <3>3
            <4>3. HeaderTimes(Visited(s, minor))' /\ (pass' = 0 => s = call'.minor)
                <5>1. HeaderOf(call.grp) # want
                    BY <1>5, <1>14 DEF HeaderOf, Id
                <5>2. Times(HeaderOf(call.grp))' = Times(HeaderOf(call.grp)) + 0
                    BY <1>1, <1>9, <5>1 DEF Times
                <5>3. Times(HeaderOf(call.grp)) \in Nat
                    <6>1. Times(HeaderOf(call.grp)) = Occurs(handled, HeaderOf(call.grp))
                        BY DEF Occurs, Times
                    <6> QED
                        BY <1>4, <6>1, OccursNumber
                <5> QED
                    BY <1>1, <1>3, <3>1, <3>3, <5>2, <5>3 DEF HeaderTimes, Wraps
            <4> QED
                BY <1>15, <4>1, <4>2, <4>3 DEF SweepInv
        <3>5. want' = InLoop(inst)'
            BY <1>1, <3>1 DEF InLoop
        <3> QED
            BY <1>1, <3>1, <3>2, <3>4, <3>5 DEF ServesInv, Underway, Served
    <2>4. CASE ~(inst + 1 < Number(minor))
        <3>1. SweepOn(region + Number(minor), (minor + 1) % MinorMod)
            BY <1>10, <2>2, <2>4 DEF Sweep
        <3>2. region + Number(minor) = Cardinality(Within(Visited(s, minor) \cup {minor}))
            BY <1>2, <1>3, <1>10, <2>1, CountedOn
        <3>3. \A id \in RecordsOf :
                  Times(id)' = IF id.minor \in Visited(s, minor) \cup {minor} THEN pass + 1 ELSE pass
            <4>1. \A id \in RecordsOf : id.minor = minor => id.inst < inst + 1
                BY <1>4, <1>11, <2>2, <2>4 DEF Id
            <4> QED
                BY <1>12, <4>1
        <3>4. region + Number(minor) \in Nat
            BY <1>4, <2>2
        <3> QED
            BY <1>1, <1>3, <1>4, <1>8, <1>15, <1>16, <1>17, <3>1, <3>2, <3>3, <3>4, SweepGoesOn
    <2> QED
        BY <2>3, <2>4
<1> QED
    BY <1>13, <1>14

\* The loops of both suites, over every database that was generated for a target: a search
\* returns the first instance of its type and fails only when there is none, a loop over a
\* component visits its instances in order and no others, and a sweep visits every record of its
\* group once for each debug port, from whatever component it starts.
THEOREM LoopsServe == ASSUME DatabaseServes PROVE Spec => []Served
<1>1. Init => WalkInv /\ ServesInv
    BY InitWalk, InitServes
<1>2. WalkInv /\ ServesInv /\ [Next]_vars => WalkInv' /\ ServesInv'
    <2> SUFFICES ASSUME WalkInv, ServesInv, [Next]_vars PROVE WalkInv' /\ ServesInv'
        OBVIOUS
    <2>1. CASE Examine
        BY <2>1, ExamineWalk, WalkServes
    <2>2. CASE Overrun
        BY <2>2, OverrunWalk, WalkServes
    <2>3. CASE Loop
        <3>1. WalkInv'
            BY <2>3, LoopWalk
        <3>2. ServesInv'
            BY <2>3, BoundedServes, SearchServes, EachServes, AbsentServes, SweepServes,
               SweepMissesServes DEF Loop
        <3> QED
            BY <3>1, <3>2
    <2>4. CASE Stopped \/ UNCHANGED vars
        BY <2>4, StutterWalk, WalkServes DEF Stopped
    <2> QED
        BY <2>1, <2>2, <2>3, <2>4 DEF Next
<1>3. ServesInv => Served
    BY DEF ServesInv
<1> QED
    BY <1>1, <1>2, <1>3, PTL DEF Spec
=============================================================================
