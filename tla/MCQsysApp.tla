------------------------------ MODULE MCQsysApp ------------------------------
EXTENDS QsysApp
(* Half a second for a tick: the meter gives up after 6, the task after two *)
(* slices of two, the result register holds 4 values, a response in the     *)
(* first tick is too fast.                                                  *)

MCEvents == {"start_sem", "start_counting_sem", "stop_sem", "restart_sem",
             "player_queue"}

\* Two entries of the queue; two tokens stand for 65535.
MCLimit == [e \in MCEvents |-> 2]

MCResults == 0..3

\* A register that holds every response the meter can time.
MCWideResults == 0..5
=============================================================================
