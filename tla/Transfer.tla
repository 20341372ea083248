------------------------------ MODULE Transfer ------------------------------
(***************************************************************************)
(* What a remote user may count on when the agent sends it a file          *)
(* (m2m/fileservice.py) or the output of a command (m2m/commandservice.py) *)
(* over a channel: the chunks come in order, none before it is written,    *)
(* nothing after the end, and an end without an error means that all of    *)
(* them came.  The user, or the loss of the link, may cut it short.        *)
(*                                                                         *)
(* One thing is not promised: the end of an output whose pipe could not be *)
(* polled.                                                                 *)
(***************************************************************************)
EXTENDS Naturals

VARIABLES written,  \* chunks there are to send
          ended,    \* there will be no more
          trouble,  \* the agent has lost sight of them
          got,      \* chunks the user has
          outcome   \* "open", "complete", "failed" or "cut"

vars == <<written, ended, trouble, got, outcome>>

Init == /\ written \in Nat /\ ended \in BOOLEAN /\ trouble = FALSE
        /\ got = 0 /\ outcome = "open"

Write   == ~ended /\ written' = written + 1 /\ UNCHANGED <<ended, trouble, got, outcome>>
Finish  == ~ended /\ ended' = TRUE /\ UNCHANGED <<written, trouble, got, outcome>>
Trouble == trouble' = TRUE /\ UNCHANGED <<written, ended, got, outcome>>

Deliver == /\ outcome = "open" /\ got < written /\ got' = got + 1
           /\ UNCHANGED <<written, ended, trouble, outcome>>

End(how) == /\ outcome = "open" /\ outcome' = how
            /\ UNCHANGED <<written, ended, trouble, got>>
Complete == (trouble \/ (ended /\ got = written)) /\ End("complete")
Fail     == End("failed")
Cut      == End("cut")

Next == Write \/ Finish \/ Trouble \/ Deliver \/ Complete \/ Fail \/ Cut

Spec == Init /\ [][Next]_vars
=============================================================================
