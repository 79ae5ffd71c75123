------------------------------ MODULE Buttons ------------------------------
(***************************************************************************)
(* The push buttons of the RTOS build from the falling edge to the         *)
(* semaphore: the edge-capture port (embedded_system_buttons.v), the class *)
(* buttons_c (button.cpp) from its initialisation on, with a step for each *)
(* bus access, and the callback button_isr (rtos_main.cpp).  RtosApp has   *)
(* the same handler among tasks and ticks; here every button may be        *)
(* pressed at any moment, also while the port is being set up.             *)
(***************************************************************************)
EXTENDS Integers, FiniteSets

CONSTANTS
  Pins,          \* the buttons of the port
  PinKeys,       \* those that button_isr knows, START_KEY and RESP_KEY
  MaxOwed        \* bound: presses of a key that were lost in one count

ASSUME ButtonsAssumption == PinKeys \subseteq Pins /\ MaxOwed \in Nat

VARIABLES
  edge_capture,  \* the capture register
  setup,         \* the next access of init, or "done"
  handler,       \* what the handler does next; "idle" outside it
  pin,           \* member edge_capture of the class: what the handler has read
  owed,          \* history: falling edges of each key less posts of its semaphore
  hasty          \* history: an edge came before the one before it was through

buttonVars == <<edge_capture, setup, handler, pin, owed, hasty>>

\* Edges of the time before main are still in the register.
ButtonsInit ==
  /\ edge_capture \in SUBSET Pins
  /\ setup = "mask" /\ handler = "idle" /\ pin = {}
  /\ owed = [k \in PinKeys |-> 0] /\ hasty = FALSE

OneIf(b) == IF b THEN 1 ELSE 0

\* A falling edge.
Edge(p) ==
  /\ p \in PinKeys => owed[p] < MaxOwed
  /\ edge_capture' = edge_capture \cup {p}
  /\ owed' = [k \in PinKeys |-> owed[k] + OneIf(k = p)]
  /\ hasty' = (hasty \/ setup \in {"mask", "clear"} \/ handler # "idle" \/ edge_capture # {})
  /\ UNCHANGED <<setup, handler, pin>>

\* Whoever counts presses and posts starts anew when all is quiet.
NewCount ==
  /\ setup = "done" /\ handler = "idle" /\ edge_capture = {}
  /\ owed' = [k \in PinKeys |-> 0] /\ hasty' = FALSE
  /\ UNCHANGED <<edge_capture, setup, handler, pin>>

\* buttons_c::init
SetMask ==
  /\ setup = "mask" /\ setup' = "clear"
  /\ UNCHANGED <<edge_capture, handler, pin, owed, hasty>>

\* Slip: the register is not cleared.
SetupKeepsEdges ==
  /\ setup = "clear" /\ setup' = "register"
  /\ UNCHANGED <<edge_capture, handler, pin, owed, hasty>>

SetupClears ==
  /\ setup = "clear" /\ setup' = "register"
  /\ edge_capture' = {}
  /\ UNCHANGED <<handler, pin, owed, hasty>>

\* Slip: the register is cleared once more.
RegistersAndClears ==
  /\ setup = "register" /\ setup' = "done"
  /\ edge_capture' = {}
  /\ UNCHANGED <<handler, pin, owed, hasty>>

Registers ==
  /\ setup = "register" /\ setup' = "done"
  /\ UNCHANGED <<edge_capture, handler, pin, owed, hasty>>

\* buttons_c::isr, entered while there is a request
HandlerReads ==
  /\ setup = "done" /\ handler = "idle" /\ edge_capture # {}
  /\ pin' = edge_capture /\ handler' = "clear"
  /\ UNCHANGED <<edge_capture, setup, owed, hasty>>

HandlerClears ==
  /\ handler = "clear" /\ handler' = "callback"
  /\ edge_capture' = {}
  /\ UNCHANGED <<setup, pin, owed, hasty>>

\* The value read is that of the key and of no other button.
Known(k) == pin = {k}

\* button_isr
CallsBack ==
  /\ handler = "callback" /\ handler' = "idle"
  /\ owed' = [k \in PinKeys |-> owed[k] - OneIf(Known(k))]
  /\ UNCHANGED <<edge_capture, setup, pin, hasty>>

ButtonsNext ==
  \/ \E p \in Pins : Edge(p)
  \/ SetMask \/ SetupClears \/ Registers
  \/ HandlerReads \/ HandlerClears \/ CallsBack
  \/ NewCount

ButtonsSpec == ButtonsInit /\ [][ButtonsNext]_buttonVars

-----------------------------------------------------------------------------
\* Type invariant.
ButtonsTypeOK ==
  /\ edge_capture \subseteq Pins /\ pin \subseteq Pins
  /\ setup \in {"mask", "clear", "register", "done"}
  /\ handler \in {"idle", "clear", "callback"}
  /\ owed \in [PinKeys -> Nat] /\ hasty \in BOOLEAN

\* What the handler has read, and what it will find when it is called again.
Coming(k) ==
  OneIf(handler # "idle" /\ Known(k))
  + OneIf(setup \in {"register", "done"} /\ handler # "clear" /\ k \in edge_capture)

\* Nothing is posted that was not pressed since the port was set up, and no
\* press twice, whenever the edges come (button.cpp:12-17, rtos_main.cpp:55-61).
NoPhantomPress == \A k \in PinKeys : Coming(k) <= owed[k]

\* As long as no edge comes before the register is cleared by init, while
\* another is captured or while the handler runs, every press is posted or on
\* its way: these three are the only ways to lose one (button.cpp:15,
\* rtos_main.cpp:56).
SlowPressesArrive == ~hasty => \A k \in PinKeys : owed[k] = Coming(k)
=============================================================================
