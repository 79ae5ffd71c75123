-------------------------------- MODULE Names --------------------------------
(***************************************************************************)
(* The names of the players in the Qsys application (qsys_main.c): the     *)
(* task console reads a line, character by character, into the one static  *)
(* buffer of receive and posts a pointer into it; the task reaction_meter, *)
(* which is more urgent, copies the name when it asks for one.             *)
(*                                                                         *)
(* The word "name" is the single character Key, so that the offset 5 of    *)
(* the name in the line is 2.  The queue holds one and the same pointer    *)
(* each time: what there is to know of it is the number of its entries.    *)
(***************************************************************************)
EXTENDS Integers, Sequences

CONSTANTS
  Key,              \* the word "name"
  NL, Nul,          \* newline and the terminating zero
  Lines,            \* lines people type, without their newline
  PayloadLen,       \* cells of payload
  MAX_MSG_AMT,      \* size of player_queue
  Patient           \* nobody types while a name is in the queue

ASSUME NamesAssumption ==
  /\ NL # Nul /\ Key \notin {NL, Nul}
  /\ PayloadLen \in Nat \ {0} /\ MAX_MSG_AMT \in Nat \ {0}
  /\ Patient \in BOOLEAN
  /\ \A line \in Lines : line \in Seq({line[i] : i \in 1..Len(line)})
  /\ \A line \in Lines : \A i \in 1..Len(line) : line[i] \notin {NL, Nul}

\* Lines as people enter them: "name", a space and at least one character, or
\* a line without the word; with its newline it fits, and all but a name leave
\* the last cell of the buffer alone.
PlainLines ==
  \A line \in Lines :
    /\ \A i \in 1..Len(line) : line[i] = Key => i = 1
    /\ IF line # <<>> /\ line[1] = Key
       THEN Len(line) \in 3..PayloadLen - 1
       ELSE Len(line) <= PayloadLen - 2

VARIABLES
  payload,          \* static char payload[]
  at,               \* i of receive
  typing,           \* what of the line is still to come, newline included
  queued,           \* OSQEntries of player_queue
  rounds,           \* static of user_register
  waits,            \* reaction_meter waits for a name
  typed,            \* history: names typed and not yet registered
  registered        \* history: the latest name, as typed and as copied

namesVars == <<payload, at, typing, queued, rounds, waits, typed, registered>>

Index == 0..PayloadLen - 1

Characters == {Key, NL, Nul} \cup UNION {{line[i] : i \in 1..Len(line)} : line \in Lines}

-----------------------------------------------------------------------------
\* What the text at cell i of a buffer says: everything before the first Nul.
String(buffer, i) ==
  LET ends == {j \in i..PayloadLen - 1 : buffer[j] = Nul}
      end  == IF ends = {} THEN PayloadLen ELSE CHOOSE j \in ends : \A k \in ends : j <= k
  IN  [k \in 1..end - i |-> buffer[i + k - 1]]

\* strstr(command, "name") != NULL
IsName(buffer) == \E k \in DOMAIN String(buffer, 0) : String(buffer, 0)[k] = Key

\* Slip: the newline stays.
StrtokNever(buffer, i) == buffer

\* strtok(name, "\n"): leading newlines are skipped, the next one becomes Nul.
Strtok(buffer, i) ==
  LET text  == String(buffer, i)
      start == {k \in DOMAIN text : text[k] # NL}
      ends  == {k \in DOMAIN text : text[k] = NL /\ \E j \in start : j < k}
  IN  IF ends = {} THEN buffer
      ELSE [buffer EXCEPT ![i - 1 + CHOOSE k \in ends : \A j \in ends : k <= j] = Nul]

-----------------------------------------------------------------------------
\* reaction_meter, the more urgent task, has asked for the first name before
\* console runs at all.
NamesInit ==
  /\ payload = [i \in Index |-> Nul]
  /\ at = 0 /\ typing = <<>>
  /\ queued = 0 /\ rounds = 4 /\ waits = TRUE
  /\ typed = <<>> /\ registered = [typed |-> <<>>, copied |-> <<>>]

\* Someone begins a line.
Types(line) ==
  /\ typing = <<>>
  /\ Patient => queued = 0
  /\ Len(typed) <= MAX_MSG_AMT
  /\ typing' = Append(line, NL)
  /\ typed' = IF line # <<>> /\ line[1] = Key
              THEN Append(typed, SubSeq(line, 3, Len(line))) ELSE typed
  /\ UNCHANGED <<payload, at, queued, rounds, waits, registered>>

\* The next character is stored by receive.
Stored == [payload EXCEPT ![at] = Head(typing)]

\* i++; the next call of receive starts at 0.
NextAt(c) == IF c = NL THEN 0 ELSE at + 1

\* OSQPend has a message: the text behind the pointer is copied.  A message
\* without a name typed would be noted as a newline, which no name contains.
Copies(buffer) ==
  /\ registered' = [typed |-> Head(typed \o <<<<NL>>>>), copied |-> String(buffer, 2)]
  /\ typed' = IF typed = <<>> THEN typed ELSE Tail(typed)
  /\ rounds' = 0

\* console, up to the next getchar.  The handing over of a name to the
\* waiting task switches to it, and strcpy is done before console goes on.
ReadsChar ==
  /\ typing # <<>> /\ at \in Index
  /\ typing' = Tail(typing)
  /\ at' = NextAt(Head(typing))
  /\ payload' = IF Head(typing) = NL /\ IsName(Stored) THEN Strtok(Stored, 2) ELSE Stored

Console ==
  /\ ReadsChar
  /\ IF Head(typing) # NL \/ ~IsName(Stored)
     THEN UNCHANGED <<queued, rounds, waits, typed, registered>>
     ELSE IF waits
     THEN Copies(payload') /\ waits' = FALSE /\ UNCHANGED queued
     ELSE /\ queued' = IF queued < MAX_MSG_AMT THEN queued + 1 ELSE queued
          /\ UNCHANGED <<rounds, waits, typed, registered>>

\* user_register: a turn without a name, one with the next name of the queue,
\* or none until somebody types one.
Turn ==
  /\ ~waits /\ rounds < 3
  /\ rounds' = rounds + 1
  /\ UNCHANGED <<payload, at, typing, queued, waits, typed, registered>>

Takes ==
  /\ ~waits /\ rounds >= 3 /\ queued > 0
  /\ Copies(payload) /\ queued' = queued - 1
  /\ UNCHANGED <<payload, at, typing, waits>>

Asks ==
  /\ ~waits /\ rounds >= 3 /\ queued = 0
  /\ waits' = TRUE /\ rounds' = rounds + 1
  /\ UNCHANGED <<payload, at, typing, queued, typed, registered>>

NamesNext == (\E line \in Lines : Types(line)) \/ Console \/ Turn \/ Takes \/ Asks

NamesSpec == NamesInit /\ [][NamesNext]_namesVars

-----------------------------------------------------------------------------
\* strstr, printf and strcpy, which go on to the next Nul, find one inside the
\* buffer, although receive stores none and a name may fill it completely.
TextEnds == at = 0 => \E i \in Index : payload[i] = Nul

\* Type invariant.  Each character is stored inside the buffer, and the text
\* in it ends there.
NamesTypeOK ==
  /\ payload \in [Index -> Characters]
  /\ at \in Index
  /\ queued \in 0..MAX_MSG_AMT
  /\ rounds \in 0..4 /\ waits \in BOOLEAN
  /\ TextEnds

\* The name that is registered is the one that was typed, character for
\* character: one buffer serves all the names in the queue, and no rest of an
\* earlier line gets into it.
RegisteredNameWasTyped == registered.copied = registered.typed
=============================================================================
