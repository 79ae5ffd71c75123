------------------------------ MODULE MCRtosApp ------------------------------
EXTENDS RtosApp
(* A counting loop of 4 ticks, of which the first is too fast.              *)

MCEvents == {"start_sem", "stop_sem", "player_queue"}

\* Two entries of the queue; two tokens stand for 65535.
MCLimit == [e \in MCEvents |-> 2]
=============================================================================
