------------------------------ MODULE MCButtons -------------------------------
(* The buttons on a small instance. *)
EXTENDS Buttons

\* Handler i is for button 1: one for a short hold, one for a longer one.
TwoHandlers == 1..2
MCHoldButton == [h \in HoldHandlers |-> 1]
MCMinHold == [h \in HoldHandlers |-> h]
===============================================================================
