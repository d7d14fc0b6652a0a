---------------------------- MODULE MCIngestion ----------------------------
(* One worker; its last report was collected on a machine that had lost    *)
(* its hostname.                                                           *)
EXTENDS Ingestion

MCHostOf(r) == IF r = <<"v", MaxReports>> THEN "" ELSE r[1]
=============================================================================
