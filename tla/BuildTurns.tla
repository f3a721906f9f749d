----------------------------- MODULE BuildTurns -----------------------------
(***************************************************************************)
(* What the build lock promises: the programs that build the test binaries *)
(* of a profile take turns. Somebody who wipes the lock away while it is   *)
(* held ends the promise. The promise does not cover the nobify tool that  *)
(* some modules need: a builder whose turn is over may go on to build it   *)
(* beside whoever has the next turn.                                       *)
(***************************************************************************)
EXTENDS Naturals

CONSTANT Builders

VARIABLES
    inside,    \* the builders whose turn it is
    beside,    \* the builders of the tool
    intact     \* the lock was never wiped away under a builder

turn_vars == <<inside, beside, intact>>

TurnInit == inside = {} /\ beside = {} /\ intact = TRUE

Begin(b) ==
    /\ intact => inside = {}
    /\ b \notin inside \cup beside
    /\ inside' = inside \cup {b}
    /\ UNCHANGED <<beside, intact>>

\* A builder ends, or dies.
End(b) ==
    /\ b \in inside \cup beside
    /\ inside' = inside \ {b}
    /\ beside' = beside \ {b}
    /\ UNCHANGED intact

\* Only a builder whose turn ends goes on beside the others.
GoOn(b) ==
    /\ b \in inside
    /\ inside' = inside \ {b}
    /\ beside' = beside \cup {b}
    /\ UNCHANGED intact

Wipe == inside # {} /\ intact' = FALSE /\ UNCHANGED <<inside, beside>>

TurnNext == Wipe \/ \E b \in Builders : Begin(b) \/ End(b) \/ GoOn(b)
Turns == TurnInit /\ [][TurnNext]_turn_vars

=============================================================================
