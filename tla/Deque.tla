-------------------------------- MODULE Deque --------------------------------
(***************************************************************************)
(* What a message queue promises: a sequence of at most Size messages, put *)
(* in at the end or, urgent ones, at the front, taken from the front.      *)
(***************************************************************************)
EXTENDS Naturals, Sequences

CONSTANTS Message, Size

VARIABLES
  content,     \* the messages in the order in which they will be taken
  last         \* the message the latest call took

dequeVars == <<content, last>>

DequeInit == content = <<>> /\ last \in Message

Append1(m) == content' = Append(content, m) /\ Len(content) < Size
Prepend1(m) == content' = <<m>> \o content /\ Len(content) < Size

TakeFirst ==
  content # <<>> /\ last' = Head(content) /\ content' = Tail(content)

Clear == content' = <<>>

DequeNext ==
  \/ \E m \in Message : (Append1(m) \/ Prepend1(m)) /\ UNCHANGED last
  \/ TakeFirst
  \/ Clear /\ UNCHANGED last

DequeSpec == DequeInit /\ [][DequeNext]_dequeVars
=============================================================================
