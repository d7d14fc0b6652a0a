---------------------------- MODULE MCSafeQueue ----------------------------
(* The queue with three consumers. The manager gives each queue one, but   *)
(* the class promises more: notify_one has somebody to choose among.       *)
(* Consumers are interchangeable, but the run checks liveness, so no       *)
(* symmetry is declared.                                                   *)
EXTENDS SafeQueue
=============================================================================
