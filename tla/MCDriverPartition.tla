-------------------------- MODULE MCDriverPartition --------------------------
(* Tests of the framework suite that the driver partition takes part in.     *)
EXTENDS DriverPartition

I076 == <<"rd", "wr_data">>     \* data; test_i077, and from the secure side i080, i081
I078 == <<"rd", "wr_heap">>
I079 == <<"rd", "wr_mmio">>
I064 == <<"eoi">>
I066 == <<"eoi_intr">>
I021 == <<"irq">>

Sound     == {I076, I064, I066, I021}
Unwritten == {<<"rd", "irq", "wr_data">>}
Every     == Sound \cup Unwritten \cup {I078, I079}
OnlyData  == {I076}

\* The tests of the framework suite are of the kind that a theorem is about.
ASSUME EveryHasOneReset == Tests \subseteq Every => OneReset

=============================================================================
