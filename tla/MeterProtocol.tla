---------------------------- MODULE MeterProtocol ----------------------------
(***************************************************************************)
(* What the reaction meter promises to whoever sits behind its register    *)
(* file: a round walks through five phases, each transition except the one *)
(* that gives up on a silent player is announced by a pulse on the         *)
(* interrupt wire, and a result is published exactly when a round ends     *)
(* with a response.                                                        *)
(*                                                                         *)
(* Abstract specification: no clock, no buttons, no registers.  Module     *)
(* ReactionMeter implements it (see Protocol there), and QsysApp drives    *)
(* the software model with the actions of this module.                     *)
(***************************************************************************)
EXTENDS Integers

CONSTANT Results          \* the values the response register can hold

VARIABLES
  phase,                  \* where the round is
  result,                 \* the response register
  pulse                   \* 1 while the interrupt wire announces a transition

protocolVars == <<phase, result, pulse>>

Phases == {"IDLE", "START", "DELAY", "COUNT", "STOP"}

ProtocolTypeOK == phase \in Phases /\ result \in Results /\ pulse \in {0, 1}

ProtocolInit == phase = "IDLE" /\ result = 0 /\ pulse = 0

-----------------------------------------------------------------------------
Move(from, to, announce) ==
  /\ phase = from
  /\ phase' = to
  /\ pulse' = announce

Arm     == Move("IDLE", "START", 1) /\ UNCHANGED result     \* KEY0 pressed
Release == Move("START", "DELAY", 1) /\ UNCHANGED result    \* KEY0 released
Go      == Move("DELAY", "COUNT", 1) /\ UNCHANGED result    \* delay over
GiveUp  == Move("COUNT", "IDLE", 0) /\ UNCHANGED result     \* no response
Rest    == Move("STOP", "IDLE", 1) /\ UNCHANGED result      \* KEY1 released

Respond(r) == Move("COUNT", "STOP", 1) /\ result' = r       \* KEY1 pressed

\* A clock edge on which nothing happens: the pulse lasts one edge.
Stay == pulse' = 0 /\ UNCHANGED <<phase, result>>

\* The reset input clears the response register and freezes the rest.
Clear == result' = 0 /\ UNCHANGED <<phase, pulse>>

ProtocolNext ==
  \/ Arm \/ Release \/ Go \/ GiveUp \/ Rest
  \/ \E r \in Results : Respond(r)
  \/ Stay \/ Clear

ProtocolSpec == ProtocolInit /\ [][ProtocolNext]_protocolVars
=============================================================================
