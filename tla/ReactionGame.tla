---------------------------- MODULE ReactionGame ----------------------------
(***************************************************************************)
(* The game as its players know it, on either platform: a turn waits for    *)
(* the signal, counts until the player responds with KEY1, and shows the    *)
(* score until KEY1 is let go.  README.md states the promises: no signal    *)
(* while KEY1 is held, no score faster than a human, nothing but a response *)
(* within the time allowed makes a score, and nobody who responds in that   *)
(* time is sent home without a reason.                                      *)
(*                                                                         *)
(* Abstract specification: no semaphores, interrupts, ports or registers.  *)
(* QsysApp and RtosApp implement it for patient players (see PlaysGame      *)
(* there).                                                                  *)
(***************************************************************************)
EXTENDS Integers

CONSTANTS
  PATIENCE,        \* nobody is sent home for silence before this, in ms
  LEAST,           \* the least score that counts
  ACCURACY         \* milliseconds a score may fall short of the response

VARIABLES
  stage,           \* "home", "waits", "counts", "shows"
  clock,           \* ms since the signal, until the response
  held,            \* KEY1 is held down
  response,        \* clock when the player responded in this turn
  free,            \* KEY1 has been seen up since the response
  score,           \* the last score
  highscore        \* the best one

gameVars == <<stage, clock, held, response, free, score, highscore>>

NONE == -1         \* no response yet
WORST == 65535     \* no high score yet

Init ==
  /\ stage = "home" /\ clock = 0 /\ ~held /\ response = NONE /\ ~free
  /\ score = 0 /\ highscore = WORST

-----------------------------------------------------------------------------
Unanswered == stage = "counts" /\ response = NONE

\* A turn begins with KEY0.
Begin ==
  /\ stage = "home" /\ stage' = "waits"
  /\ UNCHANGED <<clock, held, response, free, score, highscore>>

\* The random delay is over; whoever holds KEY1 gets another one instead.
Signal ==
  /\ stage = "waits" /\ ~held /\ stage' = "counts"
  /\ UNCHANGED <<clock, held, response, free, score, highscore>>

Tick ==
  /\ Unanswered /\ clock' = clock + 1
  /\ UNCHANGED <<stage, held, response, free, score, highscore>>

\* KEY1: the first press after the signal is the response.
Respond ==
  /\ Unanswered /\ ~held /\ held'
  /\ response' = clock /\ clock' = 0
  /\ UNCHANGED <<stage, free, score, highscore>>

Press ==
  /\ ~Unanswered /\ ~held /\ held'
  /\ UNCHANGED <<stage, clock, response, free, score, highscore>>

LetGo ==
  /\ held /\ ~held'
  /\ UNCHANGED <<stage, clock, response, free, score, highscore>>

Free ==
  /\ response # NONE /\ ~held /\ free'
  /\ UNCHANGED <<stage, clock, held, response, score, highscore>>

\* The response counts.
Score ==
  /\ stage = "counts" /\ response # NONE /\ stage' = "shows"
  /\ response - score' \in 0..ACCURACY /\ score' >= LEAST
  /\ highscore' = IF score' < highscore THEN score' ELSE highscore
  /\ UNCHANGED <<clock, held, response, free>>

GoesHome == stage' = "home" /\ clock' = 0 /\ response' = NONE /\ ~free'
            /\ UNCHANGED <<held, score, highscore>>

\* It does not count: faster than a human.
TooFast ==
  stage = "counts" /\ response # NONE /\ response - ACCURACY < LEAST /\ GoesHome

\* Nobody responded in time.
GiveUp == Unanswered /\ clock >= PATIENCE /\ GoesHome

\* The score has been shown until KEY1 was let go.
Leave == stage = "shows" /\ (free \/ ~held) /\ GoesHome

Next ==
  \/ Begin \/ Signal \/ Tick \/ Respond \/ Press \/ LetGo \/ Free
  \/ Score \/ TooFast \/ GiveUp \/ Leave

Spec == Init /\ [][Next]_gameVars
=============================================================================
