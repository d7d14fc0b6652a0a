--------------------------- MODULE MCHostManager ---------------------------
(* Two consumer threads. Host "a" reports with an address and, after a     *)
(* restart without network, without one; host "b" with an address. Their   *)
(* queues differ, and "a_1" and "b_2" share a shard.                       *)
EXTENDS HostManager

MCReport(name, ip, items) == [name |-> name, hostname |-> name, ip |-> ip, items |-> items]

MCReportsAddressed == {MCReport("a", "1", {<<"disk", "x">>}), MCReport("b", "2", {<<"disk", "x">>})}

(* Host "a" with details, with others, and without address and details.    *)
MCReportsA == {MCReport("a", "1", {<<"softirq", "x">>, <<"mem", "">>, <<"disk", "x">>}),
               MCReport("a", "1", {<<"net", "x">>, <<"net", "y">>, <<"mem", "">>, <<"disk", "y">>}),
               MCReport("a", "", {})}

MCNames == {"x", "y"}

MCHash(s) ==
  CASE s = <<"a">>      -> 2
    [] s = <<"b">>      -> 5
    [] s = <<"a", "1">> -> 3
    [] s = <<"b", "2">> -> 7
=============================================================================
