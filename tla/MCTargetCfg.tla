------------------------------ MODULE MCTargetCfg ------------------------------
(* Small targets: three components at most in a group, two instances.      *)
EXTENDS TargetCfg

GroupOrder == <<"soc", "mem", "dpm">>

Instances  == {<<>>, <<FALSE>>, <<TRUE, FALSE>>, <<FALSE, TRUE>>}
SmallTargets ==
    {("soc" :> <<a, b>> @@ "mem" :> <<c, d, a>> @@ "dpm" :> <<e>>) :
        a \in Instances, b \in Instances, c \in Instances, d \in Instances, e \in Instances}

Counted(kind, g, first, bound) == [Call(kind, g, 1) EXCEPT !.first = first, !.bound = bound]
SweepOf(g, missing, passes) ==
    [Call("sweep", g, 1) EXCEPT !.first = "header", !.missing = missing, !.passes = passes]

\* test_m001 (always the same component) and test_d007 (bounded by a header's zero) are left
\* out: they do not visit what they are for.
AllCalls ==
    {Counted("find", "dpm", "header", "num"), [Counted("find", "dpm", "header", "num") EXCEPT !.from = 1],
     Counted("each", "dpm", "header", "num"), Counted("each", "dpm", "record", "per"),
     Call("until", "soc", 2), Call("console", "soc", 1), Call("init", "soc", 2),
     Call("probe", "mem", 1), SweepOf("soc", "skip", 1), SweepOf("mem", "skip", 2),
     SweepOf("mem", "fail", 1)}

ASSUME TargetsServe == DatabaseServes
=============================================================================
