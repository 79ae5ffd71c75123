----------------------------- MODULE EventFlags -----------------------------
(***************************************************************************)
(* An event flag group of uC/OS-II (os_flag.c), as the device driver uses  *)
(* it: tasks pend on any of a set of flags without a time-out and consume  *)
(* the flags they get; handlers and alarms set flags.  Every operator is   *)
(* one critical section of the kernel.                                     *)
(*                                                                         *)
(* A group is a record: the flags that are set; for every task the flags   *)
(* it waits for, {} when it does not wait; and for every task the flags it *)
(* was made ready with and has not consumed yet.                           *)
(***************************************************************************)

\* OSFlagCreate(0)
NewGroup(Tasks) ==
  [flags |-> {}, wait |-> [t \in Tasks |-> {}], rdy |-> [t \in Tasks |-> {}]]

GroupType(Tasks, Flag) ==
  [flags : SUBSET Flag,
   wait : [Tasks -> SUBSET Flag], rdy : [Tasks -> SUBSET Flag]]

\* OSFlagPend finds one of the wanted flags set and consumes it.
FlagTake(group, want) == [group EXCEPT !.flags = @ \ want]

\* OSFlagPend finds none: OS_FlagBlock.
FlagBlock(group, t, want) == [group EXCEPT !.wait[t] = want]

\* OSFlagPost(OS_FLAG_SET): every task that waits for one of the flags that
\* are now set becomes ready and is told which (OS_FlagTaskRdy).  The flags
\* stay set until the task runs.
FlagPost(group, set) ==
  LET flags == group.flags \cup set
      wakes(t) == group.wait[t] \cap flags # {}
  IN  [flags |-> flags,
       wait |-> [t \in DOMAIN group.wait |->
                   IF wakes(t) THEN {} ELSE group.wait[t]],
       rdy |-> [t \in DOMAIN group.wait |->
                   IF wakes(t) THEN group.wait[t] \cap flags
                               ELSE group.rdy[t]]]

\* The second half of OSFlagPend: the task runs again and consumes the flags
\* it was made ready with, whoever else has consumed them by then.
FlagResume(group, t) ==
  [flags |-> group.flags \ group.rdy[t], wait |-> group.wait,
   rdy |-> [group.rdy EXCEPT ![t] = {}]]
=============================================================================
