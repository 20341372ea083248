-------------------------------- MODULE Wire --------------------------------
(***************************************************************************)
(* One packet on its way, from the agent to the M2M server or back.  The   *)
(* agent sends with WSClient.send; what it receives goes through           *)
(* WSClient.on_binary to a handler.  The server is external: it has the    *)
(* same packets, but may be older or newer than the agent, and then send   *)
(* a type, a number of attributes or an attribute the agent does not know. *)
(***************************************************************************)
EXTENDS Packets

CONSTANTS FromAgent,     \* calls of WSClient.send in the agent: packets
          FromServer     \* what the server sends: types, numbers, and bodies

VARIABLES packet,        \* what is sent
          by,            \* who sends it
          bytes,         \* as it was sent, Failed if it could not be
          outcome        \* what the receiver made of it

vars == <<packet, by, bytes, outcome>>

Unsent  == <<"unsent">>
Waiting == Outcome("waiting", NoPacket)

Init == /\ bytes = Unsent /\ outcome = Waiting
        /\ \/ by = "agent" /\ packet \in FromAgent
           \/ by = "server" /\ packet \in FromServer

AgentSends == /\ by = "agent" /\ bytes = Unsent
              /\ bytes' = Send(packet.name, packet.params)
              /\ UNCHANGED <<packet, by, outcome>>
AgentReceives == /\ by = "server" /\ bytes # Unsent /\ outcome = Waiting
                 /\ outcome' = OnBinary(bytes)
                 /\ UNCHANGED <<packet, by, bytes>>

ServerPuts == /\ by = "server" /\ bytes = Unsent
              /\ bytes' = Encode(TypeAndBody(packet.type, packet.body))
              /\ UNCHANGED <<packet, by, outcome>>
ServerReceives == /\ by = "agent" /\ bytes # Unsent /\ outcome = Waiting
                  /\ outcome' = IF bytes = Failed \/ FromBytes(bytes) = NoPacket
                                THEN Outcome("raised", NoPacket)
                                ELSE Outcome("handled", FromBytes(bytes))
                  /\ UNCHANGED <<packet, by, bytes>>

Next == AgentSends \/ AgentReceives \/ ServerPuts \/ ServerReceives

Spec == Init /\ [][Next]_vars

-----------------------------------------------------------------------------
(* Everything the agent sends arrives as it was meant, text as UTF-8: no   *)
(* call of send raises, in the middle of a handler, and no contents are    *)
(* taken for structure, whatever bytes they have.                          *)
SentArrives == by = "agent" /\ outcome # Waiting =>
    outcome = Outcome("handled", Packet(packet.name,
                  [i \in DOMAIN packet.params |-> AsBytes(packet.params[i])]))

(* A handler is called exactly for a packet of its type that has all of    *)
(* its attributes, each of its type, and is given these, in order: a       *)
(* packet of a newer server may have more.  Nothing else reaches one.      *)
Fits(name, body) ==
    /\ Len(body) >= Len(Attributes[name])
    /\ \A i \in DOMAIN Attributes[name] : body[i][1] = Attributes[name][i]
HandledAsSent == by = "server" /\ outcome # Waiting =>
    IF \E name \in DOMAIN Handlers :
          PacketType[name] = packet.type /\ Fits(name, packet.body)
    THEN LET name == CHOOSE n \in DOMAIN Handlers : PacketType[n] = packet.type IN
         outcome = Outcome("handled", Packet(name, SubSeq(packet.body, 1, Len(Attributes[name]))))
    ELSE outcome.what # "handled"

(* Both directions.                                                        *)
PacketsAsSent == SentArrives /\ HandledAsSent
=============================================================================
