------------------------------- MODULE TargetCfg -------------------------------
(***************************************************************************)
(* The configuration database of a target, the walk by which both suites   *)
(* find a record in it, and the loops that use the walk.                   *)
(*                                                                         *)
(* The database is written by targetConfigGen: for each group a header and *)
(* its records, and an end marker.  The size of a header is that of the    *)
(* whole group, so the walk steps over the groups it does not look for and *)
(* enters the other one by the size of the header alone.  A cell below is  *)
(* a header, a record or the end marker; sizes count cells.                *)
(***************************************************************************)
EXTENDS Naturals, Sequences, SequencesExt

CONSTANTS
    Order,      \* the groups, in the order of the .cfg file; one that is absent there is
                \* a header without records here
    Layouts,    \* the targets: for each group and component, its instances; an instance is
                \* TRUE when it is of the type that is searched for
    Calls,      \* the loops that search the database, see Call
    MinorMod,   \* the 256 of an 8-bit component number
    InstMod     \* the range of a 32-bit instance number

Id(g, m, i) == [grp |-> g, minor |-> m, inst |-> i]
HeaderOf(g) == Id(g, 0, 0)
EndId       == Id("end", 255, 65535)

\* span: the low 24 bits of the size; per: its high byte, the instances of the component;
\* num: the number of records of a group.
Cell(id, span, per, num, tag) == [id |-> id, span |-> span, per |-> per, num |-> num, tag |-> tag]
EndCell == Cell(EndId, 0, 0, 0, FALSE)

Records(g, m, instances) ==
    [i \in 1..Len(instances) |-> Cell(Id(g, m, i - 1), 1, Len(instances), 0, instances[i])]

Group(g, components) ==
    LET records == FlattenSeq([m \in 1..Len(components) |-> Records(g, m, components[m])])
    IN  <<Cell(HeaderOf(g), 1 + Len(records), 0, Len(records), FALSE)>> \o records

Database(layout) ==
    FlattenSeq([k \in 1..Len(Order) |-> Group(Order[k], layout[Order[k]])]) \o <<EndCell>>

IsHeader(c) == c.id.minor = 0 /\ c.id.inst = 0
Has(d, id)  == \E i \in 1..Len(d) : d[i].id = id

\* A record that is looked for in a group without records, the last one of the database:
\* the walk enters the group and stands on the end marker.
Overruns(d, id) ==
    ~Has(d, id) /\ \E i \in 1..Len(d) : IsHeader(d[i]) /\ d[i].id.grp = id.grp /\ i + 1 = Len(d)

\* What the walk relies on.
WellFormed(d) ==
    /\ Len(d) \in Nat \ {0}
    /\ \A i \in 1..Len(d) : d[i].span \in Nat /\ (d[i].id = EndId <=> i = Len(d))
    /\ ~IsHeader(d[Len(d)])
    /\ \A i \in 1..(Len(d) - 1) :
          /\ d[i].span > 0 /\ i + d[i].span <= Len(d)
          /\ ~IsHeader(d[i]) => d[i].span = 1
          /\ IsHeader(d[i]) => /\ \A j \in (i + 1)..(i + d[i].span - 1) : d[j].id.grp = d[i].id.grp
                               /\ \A j \in 1..Len(d) : IsHeader(d[j]) /\ d[j].id.grp = d[i].id.grp => j = i

\* The instances of a component in the order of the database, and the records of a group.
Listing(d, g, m) == SelectSeq([i \in 1..Len(d) |-> d[i].id],
                              LAMBDA id : id.grp = g /\ id.minor = m /\ m # 0)
RecordsAt(d, g)  == {j \in 1..Len(d) : ~IsHeader(d[j]) /\ d[j].id.grp = g}
Recorded(d, g)   == {d[j].id : j \in RecordsAt(d, g)}

\* What the loops rely on: a header counts the records of its group, a record the instances of
\* its component, and these are numbered from 0 in their order.
Tabulated(d, g) ==
    /\ Has(d, HeaderOf(g))
    /\ \A j \in 1..Len(d) :
          d[j].id = HeaderOf(g) => d[j].num = Cardinality(Recorded(d, g)) /\ d[j].per = 0
    /\ \A j, k \in RecordsAt(d, g) : d[j].id = d[k].id => j = k
    /\ \A j \in RecordsAt(d, g) : /\ d[j].id.minor \in 1..(MinorMod - 1)
                                 /\ d[j].per = Len(Listing(d, g, d[j].id.minor))
    /\ \A m \in 1..(MinorMod - 1) :
          LET n == Len(Listing(d, g, m))
          IN  /\ n \in 0..(InstMod - 1)
              /\ Listing(d, g, m) = [i \in 1..n |-> Id(g, m, i - 1)]
              /\ \A id \in Recorded(d, g) : id.minor = m => \E i \in 0..(n - 1) : id = Id(g, m, i)
              /\ \A i \in 0..(n - 1) : Id(g, m, i) \in Recorded(d, g)

\* kind: the loop; first: what it asks for before the loop, the header of the group, the first
\* record, or nothing; bound: which count of that cell bounds the loop; from: the first
\* instance; missing: what an absent component means to a sweep; fixed: it stays at one
\* component; passes: how often it goes over the group.
Call(kind, g, minor) ==
    [kind |-> kind, grp |-> g, minor |-> minor, first |-> "none", bound |-> "num", from |-> 0,
     missing |-> "skip", fixed |-> FALSE, passes |-> 1]

Groups == Range(Order)

Databases == {Database(layout) : layout \in Layouts}

\* The loops that visit what they are for: a search or a loop bounded by the count of a header
\* goes over the only component of the group, and only a search begins after the first instance.
Fits(c) ==
    /\ c.minor \in 1..(MinorMod - 1)
    /\ c.kind = "find" \/ c.from = 0
    /\ \/ /\ c.kind \in {"find", "each"}
          /\ \/ c.first = "record" /\ c.bound = "per"
             \/ /\ c.first = "header" /\ c.bound = "num"
                /\ \A d \in Databases : \A id \in Recorded(d, c.grp) : id.minor = c.minor
       \/ c.kind \in {"until", "console", "init", "probe"} /\ c.first = "none"
       \/ /\ c.kind = "sweep" /\ c.first = "header" /\ c.bound = "num"
          /\ ~c.fixed /\ c.passes \in Nat \ {0}

\* The databases are as they are generated, and every loop fits them.
DatabaseServes ==
    \A c \in Calls : Fits(c) /\ \A d \in Databases : Tabulated(d, c.grp)

ASSUME DatabaseAssumption == \A layout \in Layouts : WellFormed(Database(layout))
ASSUME CallsAssumption ==
    /\ \A c \in Calls : c.grp \in Groups /\ c.minor \in Nat /\ c.from \in Nat /\ c.grp # "end"
    /\ MinorMod \in Nat \ {0} /\ InstMod \in Nat \ {0}

VARIABLES
    db, call,
    pc,        \* "walk", "answer", "done" or "astray"
    want, at,  \* cfg_id; config_blob, 0 for NULL
    hit,       \* the status of the lookup
    stage,     \* "first" or "loop"
    minor, inst, count, region, pass, \* the loop's variables
    handled,   \* observer: the cells the loop did its work for
    verdict

loopVars == <<stage, minor, inst, count, region, pass, handled, verdict>>
vars == <<db, call, pc, want, at, hit, loopVars>>

\* val_target_get_config begins with config_blob = NULL.
Ask(id)     == pc' = "walk" /\ want' = id /\ at' = 0 /\ hit' = "none" /\ UNCHANGED verdict
AtEnd       == at # 0 /\ db[at].id = EndId
Finish(v)   == pc' = "done" /\ verdict' = v /\ UNCHANGED <<want, at, hit>>
Answered(kind, s, h) == pc = "answer" /\ call.kind = kind /\ stage = s /\ hit = h
InLoop(i)   == Id(call.grp, minor, i)

InitCall(c) ==
    /\ call = c /\ minor = c.minor /\ inst = c.from /\ count = 0 /\ region = 0 /\ pass = 0
    /\ handled = <<>> /\ verdict = "none"
    /\ stage = IF c.first = "none" THEN "loop" ELSE "first"
    /\ want = IF c.first = "header" THEN HeaderOf(c.grp) ELSE Id(c.grp, c.minor, 0)

Init ==
    /\ db \in Databases
    /\ \E c \in Calls : InitCall(c)
    /\ pc = "walk" /\ at = 0 /\ hit = "none"

-----------------------------------------------------------------------------
(* Slips: what a small mistake in the code would make of a definition. *)

\* The group is entered and its first record taken for looked at.
ExaminePast ==
    /\ pc = "walk" /\ ~AtEnd
    /\ LET p == IF at = 0 THEN 1 ELSE at + db[at].span
       IN  IF db[p].id = want THEN pc' = "answer" /\ hit' = "found" /\ at' = p
           ELSE IF IsHeader(db[p]) /\ db[p].id.grp = want.grp
           THEN pc' = "walk" /\ hit' = "none" /\ at' = p + 1
           ELSE IF db[p].id = EndId THEN pc' = "answer" /\ hit' = "missing" /\ at' = p
           ELSE pc' = "walk" /\ hit' = "none" /\ at' = p
    /\ UNCHANGED <<db, call, want, loopVars>>

\* A component that is absent counts as one region.
SweepMissesOne ==
    /\ pc = "answer" /\ stage = "loop" /\ call.kind = "sweep" /\ hit = "missing"
    /\ call.missing = "skip"
    /\ minor' = (minor + 1) % MinorMod /\ inst' = 0 /\ region' = region + 1
    /\ IF region' < count THEN Ask(Id(call.grp, minor', 0)) ELSE Finish("ok")
    /\ UNCHANGED <<db, call, stage, count, pass, handled>>

\* The number of the UART is not counted up.
ConsoleStays ==
    /\ Answered("console", "loop", "found")
    /\ IF db[at].tag THEN Finish("ok") /\ handled' = <<want>>
       ELSE /\ UNCHANGED handled
            /\ IF inst < db[at].per THEN Ask(want) ELSE Finish("fail")
    /\ UNCHANGED <<db, call, stage, minor, inst, count, region, pass>>

-----------------------------------------------------------------------------
(* val_target_get_cfg_blob and val_target_cfg_get_next *)

\* One turn of the loop: to the next cell, and into the group that is looked for.
Examine ==
    /\ pc = "walk" /\ ~AtEnd
    /\ LET p == IF at = 0 THEN 1 ELSE at + db[at].span
           enters == IsHeader(db[p]) /\ db[p].id.grp = want.grp /\ db[p].id # want
           q == IF enters THEN p + 1 ELSE p
       IN  /\ at' = q
           /\ IF db[q].id = want THEN pc' = "answer" /\ hit' = "found"
              ELSE IF ~enters /\ db[q].id = EndId THEN pc' = "answer" /\ hit' = "missing"
              ELSE UNCHANGED <<pc, hit>>
    /\ UNCHANGED <<db, call, want, loopVars>>

\* The walk stands on the end marker and takes the word after it for its size.
Overrun ==
    /\ pc = "walk" /\ AtEnd
    /\ pc' = "astray"
    /\ UNCHANGED <<db, call, want, at, hit, loopVars>>

-----------------------------------------------------------------------------
(* The loops *)

\* The group or its first record, with the bound of the loop.
Bounded ==
    /\ \E kind \in {"find", "each", "sweep"} : Answered(kind, "first", "found")
    /\ stage' = "loop" /\ count' = IF call.bound = "num" THEN db[at].num ELSE db[at].per
    /\ inst' = call.from /\ region' = 0
    /\ IF inst' < count' THEN Ask(InLoop(inst'))
       ELSE Finish(IF call.kind = "find" THEN "missing" ELSE "ok")
    /\ UNCHANGED <<db, call, minor, pass, handled>>

\* val_crypto_get_key_info, val_crypto_set_base_addr, val_get_fuse_info.
Find ==
    /\ Answered("find", "loop", "found")
    /\ inst' = inst + 1
    /\ IF db[at].tag THEN Finish("ok") /\ handled' = <<want>>
       ELSE /\ UNCHANGED handled
            /\ IF inst' < count THEN Ask(InLoop(inst')) ELSE Finish("missing")
    /\ UNCHANGED <<db, call, stage, minor, count, region, pass>>

\* The debug ports of test_d005, d006, d007 and d008, the interrupts of test_b006.
Each ==
    /\ Answered("each", "loop", "found")
    /\ handled' = Append(handled, want) /\ inst' = inst + 1
    /\ IF inst' < count THEN Ask(InLoop(inst')) ELSE Finish("ok")
    /\ UNCHANGED <<db, call, stage, minor, count, region, pass>>

\* The timers, watchdogs and clocks of the tests, bounded by what the last record says.
Until ==
    /\ Answered("until", "loop", "found")
    /\ handled' = Append(handled, want) /\ inst' = inst + 1
    /\ IF inst' < db[at].per THEN Ask(InLoop(inst')) ELSE Finish("ok")
    /\ UNCHANGED <<db, call, stage, minor, count, region, pass>>

\* val_infra_init: the first UART that is the console.
Console ==
    /\ Answered("console", "loop", "found")
    /\ inst' = inst + 1
    /\ IF db[at].tag THEN Finish("ok") /\ handled' = <<want>>
       ELSE /\ UNCHANGED handled
            /\ IF inst' < db[at].per THEN Ask(InLoop(inst')) ELSE Finish("fail")
    /\ UNCHANGED <<db, call, stage, minor, count, region, pass>>

\* val_spi_init and val_rtc_init: while(instance).
InitAll ==
    /\ Answered("init", "loop", "found")
    /\ handled' = Append(handled, want) /\ inst' = (inst + 1) % InstMod
    /\ IF inst' # 0 THEN Ask(InLoop(inst')) ELSE Finish("ok")
    /\ UNCHANGED <<db, call, stage, minor, count, region, pass>>

\* test_b005: until an instance is not there.
ProbeAll ==
    /\ Answered("probe", "loop", "found")
    /\ handled' = Append(handled, want) /\ inst' = inst + 1
    /\ Ask(InLoop(inst'))
    /\ UNCHANGED <<db, call, stage, minor, count, region, pass>>

\* The loops that do not go on when a lookup fails.
Absent ==
    /\ pc = "answer" /\ hit = "missing" /\ ~(call.kind = "sweep" /\ stage = "loop")
    /\ Finish(IF call.kind = "probe" THEN "ok" ELSE "fail")
    /\ UNCHANGED <<db, call, stage, minor, inst, count, region, pass, handled>>

\* Every region of test_b001, b007, i004, m001 and, for each debug port, of test_d001 to d003:
\* component after component, until as many regions are counted as the group has.  The
\* component number is not reset for the second debug port.
SweepOn(regions, nextMinor) ==
    /\ minor' = nextMinor /\ inst' = 0
    /\ \/ /\ regions < count
          /\ region' = regions /\ Ask(Id(call.grp, minor', 0)) /\ UNCHANGED <<stage, pass>>
       \/ /\ regions >= count /\ pass + 1 < call.passes
          /\ region' = 0 /\ pass' = pass + 1 /\ stage' = "first" /\ Ask(HeaderOf(call.grp))
       \/ /\ regions >= count /\ pass + 1 >= call.passes
          /\ region' = regions /\ Finish("ok") /\ UNCHANGED <<stage, pass>>

Sweep ==
    /\ Answered("sweep", "loop", "found")
    /\ handled' = Append(handled, want)
    /\ IF inst + 1 < db[at].per
       THEN /\ inst' = inst + 1 /\ Ask(InLoop(inst'))
            /\ UNCHANGED <<minor, region, pass, stage>>
       ELSE SweepOn(region + db[at].per, IF call.fixed THEN minor ELSE (minor + 1) % MinorMod)
    /\ UNCHANGED <<db, call, count>>

SweepMisses ==
    /\ Answered("sweep", "loop", "missing")
    /\ IF call.missing = "skip" THEN SweepOn(region, (minor + 1) % MinorMod)
       ELSE Finish("fail") /\ UNCHANGED <<stage, minor, inst, region, pass>>
    /\ UNCHANGED <<db, call, count, handled>>

Stopped == pc \in {"done", "astray"} /\ UNCHANGED vars

Loop == \/ Bounded \/ Find \/ Each \/ Until \/ Console \/ InitAll \/ ProbeAll
        \/ Absent \/ Sweep \/ SweepMisses
Next == Examine \/ Overrun \/ Loop \/ Stopped

Spec     == Init /\ [][Next]_vars
FairSpec == Spec /\ WF_vars(Examine \/ Overrun \/ Loop)

-----------------------------------------------------------------------------
(* Properties *)

\* A lookup finds the record with the identifier it is given, reports that there is none only
\* when there is none, and leaves the database only for a record of an empty last group.
LookupExact ==
    /\ pc = "answer" /\ hit = "found" => at \in 1..Len(db) /\ db[at].id = want
    /\ pc = "answer" /\ hit = "missing" => ~Has(db, want)
    /\ pc = "astray" => Overruns(db, want)

\* What a loop is for.
InstancesOf(m) == Listing(db, call.grp, m)
RecordsOf      == Recorded(db, call.grp)
Times(id)      == Cardinality({k \in 1..Len(handled) : handled[k] = id})
Tagged         == {i \in 0..(InstMod - 1) : \E j \in 1..Len(db) : db[j].id = InLoop(i) /\ db[j].tag}
FirstTagged(i) == i \in Tagged /\ \A k \in Tagged : k >= call.from => i <= k

\* A component number that wraps stands at 0, where the walk finds the header of the group.  A
\* sweep that begins at the first component meets it only between two passes.
Wraps(passes) == IF call.minor = 1 /\ passes > 0 THEN passes - 1 ELSE passes

\* When it returns, a search has found the first instance of the type, at or after the one it
\* was given, if there is one; a loop over a component has done its work for every instance, in
\* order; a sweep has done it once for every record of the group and every debug port, for nothing
\* else but the header, which it takes for a record at most once for each time it wraps.
Served ==
    pc = "done" =>
        CASE call.kind \in {"find", "console"} ->
                IF \E i \in Tagged : i >= call.from
                THEN verdict = "ok" /\ \E i \in Tagged : handled = <<InLoop(i)>> /\ FirstTagged(i)
                ELSE verdict # "ok" /\ handled = <<>>
          [] call.kind \in {"each", "until", "init", "probe"} -> handled = InstancesOf(call.minor)
          [] call.kind = "sweep" ->
                verdict = "ok" => /\ \A id \in RecordsOf : Times(id) = call.passes
                                  /\ Range(handled) \subseteq RecordsOf \cup {HeaderOf(call.grp)}
                                  /\ Times(HeaderOf(call.grp)) <= Wraps(call.passes)

\* Every loop comes to an end.
Returns == <>(pc \in {"done", "astray"})
=============================================================================
