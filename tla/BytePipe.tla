------------------------------ MODULE BytePipe ------------------------------
(***************************************************************************)
(* What one direction of a character device promises: a pipe that keeps    *)
(* its characters in order, loses none and makes none up, and never holds  *)
(* more than its capacity.  A client's call offers a message at one end,   *)
(* of which it may withdraw what has not gone in; a call at the other end  *)
(* collects what it takes.  The far end of either direction, the host,     *)
(* puts and takes single characters.                                       *)
(***************************************************************************)
EXTENDS Naturals, Sequences

CONSTANTS Byte, Capacity

VARIABLES
  in,          \* characters of the current message that are not in the pipe
  pipe,
  out          \* characters the current call has taken

pipeVars == <<in, pipe, out>>

PipeInit == in = <<>> /\ pipe = <<>> /\ out = <<>>

Offer == in = <<>> /\ in' \in Seq(Byte) /\ UNCHANGED <<pipe, out>>

Put ==
  /\ \E n \in 1..Len(in) :
       /\ pipe' = pipe \o SubSeq(in, 1, n)
       /\ in' = SubSeq(in, n + 1, Len(in))
  /\ Len(pipe') <= Capacity
  /\ UNCHANGED out

Withdraw == in' = <<>> /\ UNCHANGED <<pipe, out>>

HostPuts ==
  /\ Len(pipe) < Capacity
  /\ \E b \in Byte : pipe' = Append(pipe, b)
  /\ UNCHANGED <<in, out>>

Take ==
  /\ \E n \in 1..Len(pipe) :
       /\ out' = out \o SubSeq(pipe, 1, n)
       /\ pipe' = SubSeq(pipe, n + 1, Len(pipe))
  /\ UNCHANGED in

Collect == out' = <<>> /\ UNCHANGED <<in, pipe>>

HostTakes == pipe # <<>> /\ pipe' = Tail(pipe) /\ UNCHANGED <<in, out>>

PipeNext ==
  Offer \/ Put \/ Withdraw \/ HostPuts \/ Take \/ Collect \/ HostTakes

PipeSpec == PipeInit /\ [][PipeNext]_pipeVars
=============================================================================
