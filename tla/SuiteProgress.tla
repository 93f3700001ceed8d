---------------------------- MODULE SuiteProgress ----------------------------
(***************************************************************************)
(* What the test dispatcher promises: it gives the tests of its list one   *)
(* verdict each, in order, and reports the tally once all have theirs.  It *)
(* may start over, forgetting every verdict.                               *)
(***************************************************************************)
EXTENDS Naturals

CONSTANTS NumTests, Verdicts

VARIABLES done,      \* number of tests with a verdict
          tally,     \* how many tests have each verdict
          reported   \* the report has been printed

vars == <<done, tally, reported>>

Init == done = 0 /\ tally = [v \in Verdicts |-> 0] /\ reported = FALSE

Record ==
    /\ ~reported /\ done < NumTests
    /\ done' = done + 1
    /\ \E v \in Verdicts : tally' = [tally EXCEPT ![v] = @ + 1]
    /\ UNCHANGED reported

Report ==
    /\ done = NumTests
    /\ reported' = TRUE
    /\ UNCHANGED <<done, tally>>

StartOver ==
    /\ done' = 0 /\ tally' = [v \in Verdicts |-> 0] /\ reported' = FALSE

Next == Record \/ Report \/ StartOver

Spec         == Init /\ [][Next]_vars
StraightSpec == Init /\ [][Record \/ Report]_vars

=============================================================================
