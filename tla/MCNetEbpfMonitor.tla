-------------------------- MODULE MCNetEbpfMonitor ---------------------------
(* An instance of NetEbpfMonitor: two interfaces and loopback, with room for  *)
(* one or two of them; all keys in one bucket.                                *)
EXTENDS NetEbpfMonitor

MCCpus == {1, 2}
MCIfs == {1, 2, 3}
MCLoopback == {1}
MCRemovable == {3}
MCCapacities == {1, 2}
MCBucket(k) == 0

=============================================================================
