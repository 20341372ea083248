------------------------------ MODULE MCClock ------------------------------
(* A small instance of Agent.                                              *)
EXTENDS Agent
=============================================================================
