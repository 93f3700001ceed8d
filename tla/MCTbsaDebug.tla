------------------------------ MODULE MCTbsaDebug ------------------------------
(* Small targets: two memory components, two regions in the first.           *)
EXTENDS TbsaDebug

AllTests    == <<"d001", "d002", "d003", "d004">>
OnlyD004    == <<"d004">>

Targets     == {<<<<a, b>>, <<c>>>> : a \in {"ns", "s"}, b \in {"ns", "other"}, c \in {"s", "other"}}
OneRegion   == {<<<<"ns">>>>}

\* The hypothesis of the theorem, for the suite of the runs.
ASSUME SuiteInOrder == InOrder
=============================================================================
