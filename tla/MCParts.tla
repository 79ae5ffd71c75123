------------------------------- MODULE MCParts -------------------------------
(* Six components that share nothing, checked side by side: a behaviour    *)
(* is one of them running while the others stay as they started, so that    *)
(* the state spaces add up and do not multiply.  The generator and the      *)
(* display are the real ones; the ring of messages has Size cells and the   *)
(* tick counter of the alarms Ticks values; the names are those of MCNames.  *)
EXTENDS Prng, Display, MsgQueue, Alarms, Buttons, MCNames

VARIABLE part

Init ==
  /\ PrngInit /\ DisplayInit /\ QueueInit /\ AlarmInit /\ ButtonsInit /\ NamesInit
  /\ part \in {"prng", "display", "queue", "alarm", "buttons", "names"}
  /\ part # "alarm" => nticks = 0
  /\ part # "buttons" => edge_capture = {}
  /\ part # "queue" => msg = CHOOSE m \in Message : TRUE

Next ==
  /\ UNCHANGED part
  /\ \/ /\ part = "prng" /\ Enabled
        /\ UNCHANGED <<displayVars, queueVars, alarmVars, buttonVars, namesVars>>
     \/ /\ part = "display" /\ DisplayNext
        /\ UNCHANGED <<prngVars, queueVars, alarmVars, buttonVars, namesVars>>
     \/ /\ part = "queue" /\ QueueNext
        /\ UNCHANGED <<prngVars, displayVars, alarmVars, buttonVars, namesVars>>
     \/ /\ part = "alarm" /\ AlarmNext
        /\ UNCHANGED <<prngVars, displayVars, queueVars, buttonVars, namesVars>>
     \/ /\ part = "buttons" /\ ButtonsNext
        /\ UNCHANGED <<prngVars, displayVars, queueVars, alarmVars, namesVars>>
     \/ /\ part = "names" /\ NamesNext
        /\ UNCHANGED <<prngVars, displayVars, queueVars, alarmVars, buttonVars>>

MCSpec == Init /\ [][Next]_<<part, prngVars, displayVars, queueVars, alarmVars, buttonVars, namesVars>>

\* Type invariant: that of each part, with the ends of the ring, of the led
\* register, of the tick counter and of the text buffer.
PartsTypeOK ==
  /\ PrngTypeOK /\ DisplayTypeOK /\ QueueTypeOK
  /\ AlarmTypeOK /\ ButtonsTypeOK /\ NamesTypeOK

MCResponses == {204, 1999}
=============================================================================
