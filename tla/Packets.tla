------------------------------ MODULE Packets ------------------------------
(***************************************************************************)
(* The packets of the M2M protocol: the types and classes of               *)
(* m2m/packets.py, their creation, encoding and decoding in                *)
(* m2m/packetbase.py, and the way a packet takes to its handler, from      *)
(* WSClient.on_binary over the dispatcher (m2m/dispatcher.py).  All of     *)
(* this runs in one thread, a packet at a time, and keeps no state: these  *)
(* are operators.  A packet is the name of its class and the sequence of   *)
(* its attributes.                                                         *)
(***************************************************************************)
EXTENDS Bencode, TLC

(* class PacketType                                                        *)
PacketType == [
    null |-> 0, request_join |-> 1, request_identify |-> 2, welcome |-> 3, log |-> 4,
    request_send |-> 5, route |-> 6, ping |-> 7, pong |-> 8, set_identity |-> 9,
    request_open |-> 10, request_close |-> 11, request_close_all |-> 12, keep_alive |-> 13,
    notify_open |-> 14, request_login |-> 15, instruction |-> 16,
    notify_login_success |-> 17, notify_login_fail |-> 18, notify_close |-> 19,
    request_leave |-> 20, route_control |-> 21, request_send_control |-> 22,
    open_remote_file |-> 24, open_remote_file_result |-> 25, close_remote_file |-> 26,
    read_remote_file |-> 27, read_remote_file_result |-> 28, scan_remote_directory |-> 29,
    scan_remote_directory_result |-> 30, write_remote_file |-> 31,
    write_remote_file_result |-> 32, response |-> 100, command_add_route |-> 101,
    command_send_instruction |-> 102, command_log |-> 103, command_broadcast_log |-> 104,
    command_set_name |-> 106, command_check_nodes |-> 107, command_get_identities |-> 108,
    command_set_auth |-> 109, command_set_meta |-> 110, command_get_meta |-> 111,
    peer_add_route |-> 200, peer_forward |-> 201, peer_notify_disconnect |-> 202,
    peer_notify_name |-> 203, peer_close_port |-> 204]

(* The types of the attributes of each class.  Two types have no class:    *)
(* request_open and request_close_all.                                     *)
None   == <<>>
Int1   == <<"int">>
Bytes1 == <<"bytes">>
Bytes2 == <<"bytes", "bytes">>

SessionPackets == [
    null |-> None, request_join |-> None, request_identify |-> Bytes1, welcome |-> None,
    log |-> Bytes1, request_send |-> <<"int", "bytes">>, keep_alive |-> None,
    route |-> <<"int", "bytes">>, route_control |-> <<"int", "bytes">>,
    request_send_control |-> <<"int", "bytes">>, ping |-> Bytes1, pong |-> Bytes1,
    set_identity |-> Bytes1, notify_open |-> Int1, request_login |-> Bytes2,
    notify_login_success |-> Bytes1, notify_login_fail |-> Bytes1]
ControlPackets == [
    notify_close |-> Int1, request_close |-> Int1, request_leave |-> None,
    instruction |-> <<"bytes", "dict">>, response |-> <<"int", "dict">>]
CommandPackets == [
    command_add_route |-> <<"int", "bytes", "int", "bytes", "int", "bytes", "int">>,
    command_send_instruction |-> <<"int", "bytes", "dict">>,
    command_log |-> <<"int", "bytes", "bytes">>, command_broadcast_log |-> <<"int", "bytes">>,
    command_set_name |-> <<"int", "bytes", "bytes">>, command_check_nodes |-> <<"int", "list">>,
    command_get_identities |-> <<"int", "list">>, command_set_auth |-> <<"int", "int", "bytes">>,
    command_set_meta |-> <<"int", "bytes", "bytes", "bytes", "bytes">>,
    command_get_meta |-> <<"int", "bytes", "bytes">>]
PeerPackets == [
    peer_add_route |-> <<"int", "bytes", "bytes", "int", "bytes", "int">>,
    peer_forward |-> Bytes2, peer_notify_disconnect |-> Bytes1, peer_notify_name |-> Bytes2,
    peer_close_port |-> <<"bytes", "int">>]
FilePackets == [
    open_remote_file |-> Bytes2,
    open_remote_file_result |-> <<"bytes", "int", "int", "bytes">>,
    close_remote_file |-> Bytes1, read_remote_file |-> <<"bytes", "int", "int">>,
    read_remote_file_result |-> <<"bytes", "int", "int", "bytes", "int", "bytes">>,
    scan_remote_directory |-> None, scan_remote_directory_result |-> Bytes1,
    write_remote_file |-> <<"bytes", "bytes", "bytes", "int", "bytes", "int">>,
    write_remote_file_result |-> <<"bytes", "int", "int", "bytes", "int", "bytes">>]

Attributes == SessionPackets @@ ControlPackets @@ CommandPackets @@ PeerPackets @@ FilePackets

(* The handlers of WSClient, and their parameters after packet_type.       *)
Handlers == [
    null |-> 0, set_identity |-> 1, ping |-> 1, welcome |-> 0, log |-> 1, route |-> 2,
    route_control |-> 2, notify_open |-> 1, notify_close |-> 1, notify_login_success |-> 1,
    response |-> 2, instruction |-> 2, open_remote_file |-> 2, close_remote_file |-> 1,
    read_remote_file |-> 3, scan_remote_directory |-> 0, write_remote_file |-> 6]

Packet(name, params) == [name |-> name, params |-> params]
NoPacket == Packet("none", <<>>)      \* an exception was raised

(* PacketType(v), which raises for a value that is none of the types.      *)
HasType(v) == v[1] = "int" /\ \E name \in DOMAIN PacketType : PacketType[name] = v[2]
NameOf(v)  == CHOOSE name \in DOMAIN PacketType : PacketType[name] = v[2]

-----------------------------------------------------------------------------
(* Plausible bugs of this code; each must break a property below.          *)
TextUnencoded(v) == v                       \* init_params does not encode text
TypeUnchecked(v, type) == TRUE              \* no isinstance

-----------------------------------------------------------------------------
(* PacketBaseType.init_params: text becomes bytes; arguments beyond the    *)
(* attributes are dropped by zip; one that is missing, or not an instance  *)
(* of its type, raises PacketFormatError.                                  *)
AsBytes(v) == IF v[1] = "text" THEN <<"bytes", Utf8(v[2])>> ELSE v
IsInstance(v, type) == v[1] = type \/ (v[1] = "bool" /\ type = "int")
Accepts(name, args) ==
    /\ Len(args) >= Len(Attributes[name])
    /\ \A i \in DOMAIN Attributes[name] : IsInstance(AsBytes(args[i]), Attributes[name][i])
InitParams(name, args) == [i \in DOMAIN Attributes[name] |-> AsBytes(args[i])]

(* PacketBase.create: a type without a class raises ValueError.            *)
Create(name, args) == IF name \in DOMAIN Attributes /\ Accepts(name, args)
                      THEN Packet(name, InitParams(name, args)) ELSE NoPacket

(* encode, encode_binary: the type, then the attributes.                   *)
TypeAndBody(type, body) == <<"list", <<<<"int", type>>>> \o body>>
EncodeBinary(packet) == Encode(TypeAndBody(PacketType[packet.name], packet.params))

(* from_bytes and from_body, which the other side may use.                 *)
FromBytes(bytes) ==
    LET v == Decode(bytes) IN
    IF v[1] # "list" \/ v[2] = <<>> \/ ~HasType(v[2][1]) THEN NoPacket
    ELSE Create(NameOf(v[2][1]), Tail(v[2]))

(* WSClient.send: nothing goes out if the packet cannot be made.           *)
Send(name, args) ==
    LET packet == Create(name, args) IN
    IF packet = NoPacket THEN Failed ELSE EncodeBinary(packet)

-----------------------------------------------------------------------------
(* What becomes of bytes from the server.                                  *)
Outcome(what, packet) == [what |-> what, packet |-> packet]

(* Dispatcher.dispatch_packet: inspect.getcallargs refuses a handler with  *)
(* another number of parameters.                                           *)
DispatchPacket(packet) ==
    IF packet.name \notin DOMAIN Handlers THEN Outcome("missing handler", packet)
    ELSE IF Handlers[packet.name] # Len(Attributes[packet.name])
         THEN Outcome("raised", NoPacket)
         ELSE Outcome("handled", packet)

(* Dispatcher.dispatch                                                     *)
Dispatch(name, body) ==
    LET packet == Create(name, body) IN
    IF packet = NoPacket THEN Outcome("raised", NoPacket) ELSE DispatchPacket(packet)

(* WSClient.on_packet.  A packet is a list: the server sends no other.     *)
OnPacket(v) ==
    IF v[1] # "list" \/ v[2] = <<>> THEN Outcome("badly formatted", NoPacket)
    ELSE IF ~HasType(v[2][1]) THEN Outcome("unknown", NoPacket)
    ELSE Dispatch(NameOf(v[2][1]), Tail(v[2]))

(* WSClient.on_binary                                                      *)
OnBinary(bytes) ==
    LET v == Decode(bytes) IN
    IF v = Failed THEN Outcome("undecodable", NoPacket)
    ELSE IF v = Endless THEN Outcome("waiting", NoPacket) ELSE OnPacket(v)
=============================================================================
