--------------------------- MODULE MCQueryManager ---------------------------
(* Requests of every kind over the first three seconds; the rows are those *)
(* of server a and, in server_performance, of server b.                    *)
(* With ints below 8, page 6 of size 2 has a negative offset.              *)
EXTENDS QueryManager

Ask(kind, server, start, end, order, interval, page, page_size) ==
  [kind |-> kind, server |-> server, start |-> start, end |-> end, order |-> order,
   interval |-> interval, page |-> page, page_size |-> page_size]

Row(of, server, score, alarms) ==
  [of |-> of, server |-> server, score |-> score, alarms |-> alarms]

MCSamples == {Row("performance", "a", 0, {"cpu", "mem_rate"}), Row("performance", "a", 90, {})}

MCListedSamples == MCSamples \cup
  {Row("net", "a", 0, {}), Row("performance", "b", 90, {"disk"})}

MCCallsSamples == {Row(of, "a", 0, {}) : of \in {"performance"} \cup Details}

Detail(kind) == Ask(kind, "a", 0, 2, "DESC", 0, 1, 1)

MCLatest == {Ask("latest", "", 0, 0, "DESC", 0, 1, 1)}

MCCalls == MCLatest \cup {Detail(kind) : kind \in Details} \cup
  {Ask("performance", "a", 0, 2, "DESC", 0, 6, 2),
   Ask("performance", "a", 2, 1, "DESC", 0, 1, 1),
   Ask("rank", "", 0, 0, "ASC", 0, 1, 1)}

MCRequests == MCLatest \cup
  {Ask("performance", "a", 0, 2, "DESC", 0, 6, 2),
   Ask("performance", "a", 0, 2, "DESC", 0, 0, 1),
   Ask("net", "a", 0, 2, "DESC", 0, 1, 1),
   Ask("anomaly", "", 0, 1, "DESC", 0, 1, 0),
   Ask("rank", "", 0, 0, "ASC", 0, 1, 1),
   Ask("trend", "a", 0, 2, "DESC", 2, 1, 1),
   Ask("trend", "a", 0, 1, "DESC", 0, 1, 1)}
=============================================================================
