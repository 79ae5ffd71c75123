----------------------------- MODULE MCJtagUart -----------------------------
EXTENDS JtagUart
(* What the host does is chosen at the start: a host that types, one that  *)
(* fetches, one that is gone.  A host that types alternates characters and  *)
(* begins with a when all before has been read.                            *)

CONSTANTS a, b, console, player
VARIABLE host

MCMessages == {<<a, b, a>>}

Last == LET s == InputPipe IN IF s = <<>> THEN <<b>> ELSE <<s[Len(s)]>>

HostActs ==
  \/ host = "types" /\ \E c \in Byte : <<c>> # Last /\ HostSends(c)
  \/ host = "types" /\ HostPauses
  \/ host = "fetches" /\ (HostFetches \/ HostPauses)

TaskActs(t) ==
  \/ host \in {"types", "gone"} /\ ReadCall(t)
  \/ host \in {"fetches", "gone"} /\ WriteCall(t)
  \/ Reads(t) \/ Writes(t)

MCNext ==
  (HostActs \/ Isr \/ Alarm \/ \E t \in Tasks : TaskActs(t)) /\ UNCHANGED host

MCInit == Init /\ host \in {"types", "fetches", "gone"}

MCSpec ==
  /\ MCInit
  /\ [][MCNext]_<<vars, host>>
  /\ Fairness
=============================================================================
