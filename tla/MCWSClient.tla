----------------------------- MODULE MCWSClient -----------------------------
(***************************************************************************)
(* Small instances of WSClient, and of Wire, a packet between it and the   *)
(* server, checked in one run: a behaviour is of one of them, and the      *)
(* other does not start.                                                   *)
(***************************************************************************)
EXTENDS WSClient, TLC

VARIABLES part,          \* what the behaviour is of
          packet, by, bytes, outcome

P == INSTANCE WirePackets
W == INSTANCE Wire WITH FromAgent <- P!Calls, FromServer <- P!Sends

PortSymmetry == Permutations(Ports)
TwoThenOne   == [k \in Sessions |-> IF k = 1 THEN 2 ELSE 1]
wireVars     == <<packet, by, bytes, outcome>>

PartsInit == /\ Init
             /\ \/ part = "wire" /\ W!Init
                \/ /\ part = "channels" /\ bytes = W!Unsent /\ outcome = W!Waiting
                   /\ by = "agent" /\ packet = P!Packet("request_join", <<>>)
PartsNext ==
    /\ UNCHANGED part
    /\ \/ part = "channels" /\ UNCHANGED wireVars /\ Next
       \/ part = "wire" /\ UNCHANGED vars /\ W!Next
       \/ part = "wire" /\ UNCHANGED <<vars, wireVars>>        \* it may stop

PartsSpec == PartsInit /\ [][PartsNext]_<<part, vars, wireVars>>

(* What is sent is what is handled, in both directions.                    *)
PacketsAsSent == part = "wire" => W!PacketsAsSent
=============================================================================
