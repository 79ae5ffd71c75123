---------------------------- MODULE MCUcosTasks ----------------------------
EXTENDS UcosTasks
(* Two tasks and the idle task, a semaphore and a queue of two entries.  *)

MCLimit == [e \in Events |-> 2]
MCEvents == {"sem", "queue"}
=============================================================================
