---------------------------- MODULE MCClientSync ----------------------------
(* A small instance of ClientSync.                                         *)
EXTENDS ClientSync
=============================================================================
