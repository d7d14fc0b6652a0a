--------------------------- MODULE MCStatMonitors ----------------------------
(* Instances of StatMonitors: one CPU or two on a page of two records, or    *)
(* one; all integers are floats.                                             *)
EXTENDS StatMonitors

MCCpuCounts == {1, 2}
OneCpu == {1}

NoRounding == <<>>

=============================================================================
