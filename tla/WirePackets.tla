---------------------------- MODULE WirePackets ----------------------------
(* The packets that Wire is checked on.                                    *)
EXTENDS Packets

(* Contents that are empty, look like structure, or have a size of two     *)
(* digits; numbers, lists and dicts in the same way; and text with a       *)
(* character of two bytes, so that it has more bytes than characters.      *)
Contents == {<<>>, <<"e">>, <<"1", ":">>, <<"-", "i">>,
             <<"l", "d", "e", "x", "1", "2", ":", "i", "3", "e", "x">>}
Strings == {<<"bytes", s>> : s \in Contents}
Numbers == {<<"int", n>> : n \in {0, -1, 12, 105}}
Lists   == {<<"list", <<>>>>,
            <<"list", <<<<"list", <<<<"int", 7>>>>>>, <<"bytes", <<"e">>>>>>>>}
Dicts   == {<<"dict", {}>>,
            <<"dict", {<<<<"bytes", <<"e">>>>, <<"list", <<<<"int", 1>>>>>>>>,
                       <<<<"bytes", <<>>>>, <<"bytes", <<"d">>>>>>}>>}
Values  == Strings \cup Numbers \cup Lists \cup Dicts
Texts   == {<<"text", <<>>>>, <<"text", <<"U+">>>>,
            <<"text", <<"e", "U+", "1", ":", "e", "x", "x", "x", "x">>>>}

(* All the calls of WSClient.send in the agent: of WSClient, Channel,      *)
(* which passes on a control dict as JSON text, and RemoteDirectory.       *)
Flags == {<<"int", n>> : n \in 0..3}
Calls ==
    {Packet("request_join", <<>>)}
        \cup {Packet(name, <<s>>) : name \in {"request_identify", "pong"}, s \in Strings}
        \cup {Packet("request_close", <<n>>) : n \in Numbers}
        \cup {Packet("request_send", <<n, s>>) : n \in Numbers, s \in Strings}
        \cup {Packet("request_send_control", <<n, t>>) : n \in Numbers, t \in Texts}
        \cup {Packet("scan_remote_directory_result", <<t>>) : t \in Texts}
        \cup {Packet("open_remote_file_result", <<s, n, f, t>>) :
                 s \in Strings, n \in Numbers, f \in Flags, t \in Texts}
        \cup {Packet("read_remote_file_result", <<s, n, n, data, f, t>>) :
                 s \in Strings, n \in Numbers, data \in Strings \cup {<<"text", <<>>>>},
                 f \in Flags, t \in Texts}
        \cup {Packet("write_remote_file_result", <<s, n, n, path, f, reason>>) :
                 s \in Strings, n \in Numbers, path \in Strings, f \in Flags, reason \in Strings}

(* Of the server: every type with attributes that fit, with each of them   *)
(* another value, without the last and with one more; types without a      *)
(* class, and numbers that are no type.                                    *)
Sample(type) == CASE type = "int" -> <<"int", 3>>
                  [] type = "bytes" -> <<"bytes", <<"x", "y">>>>
                  [] type = "list" -> <<"list", <<<<"int", 0>>>>>>
                  [] type = "dict" -> <<"dict", {}>>
BodiesOf(name) ==
    LET body == [i \in DOMAIN Attributes[name] |-> Sample(Attributes[name][i])] IN
    {body} \cup {[body EXCEPT ![i] = v] : i \in DOMAIN body, v \in Values}
        \cup {SubSeq(body, 1, n) : n \in 0..(Len(body) - 1)}
        \cup {Append(body, v) : v \in Values}
TypedPacket(type, body) == [type |-> type, body |-> body]
Sends ==
    UNION {{TypedPacket(PacketType[name], body) : body \in BodiesOf(name)} :
              name \in DOMAIN Attributes}
        \cup {TypedPacket(n, body) :
                 n \in {10, 12, 23, 105, -1, 999}, body \in {<<>>, <<<<"int", 1>>>>}}
=============================================================================
